-------------------------- MODULE PriceCacheProofs --------------------------
(***************************************************************************)
(* Proofs about PriceCache, for all feeds, rounds and limits: its types,   *)
(* the bound of its size, and that callers see a price board.              *)
(*                                                                         *)
(* And about Validation, for any number of honest sources from four, any   *)
(* market prices, mistakes and windows: one bad source is isolated.  Its   *)
(* invariant says what is left of the rounds since the last disturbance:   *)
(*   - of the prices of other sources, one of each source of a round, of   *)
(*     honest ones the market price; all of a round that has ended, or     *)
(*     none when it is too old (RegularStored);                            *)
(*   - of the history, as much as has been reported or what the median     *)
(*     needs, with one mistake in a round (RegularHistory).                *)
(* The median of prices most of which are the same is that price           *)
(* (MedianOfMost).  Of the last ten prices, of three rounds at most, no    *)
(* more than three are mistakes (HistoryAgrees).  Of the other sources,    *)
(* three honest ones outweigh the faulty one, though it may have reported  *)
(* in this round and they have not (HonestMajority).  So both medians are  *)
(* the market price after as many regular rounds as are looked back on,    *)
(* and each of them counts gravely against a price that is 4 % off.        *)
(***************************************************************************)
EXTENDS PriceCache, Validation, FiniteSetTheorems, SequenceTheorems, TLAPS

-----------------------------------------------------------------------------
(* PriceCache.                                                             *)

USE DEF Versions

(* A price waits under the key of the current price, a round under a       *)
(* round's.                                                                *)
FillsInPlace ==
  \A p \in Fills :
    /\ fill[p].pc = "price" => fill[p].key[2] = Current
    /\ fill[p].pc \in {"round", "priced"} => fill[p].key[2] \in Rounds

(* No price is newer than what the aggregation answers.                    *)
NoneAhead == \A k \in Keys : cache[k].value <= latest[k[1]]

FillsNotAhead ==
  \A p \in Fills : fill[p].value <= latest[fill[p].key[1]]

IInv == TypeOK /\ FillsInPlace /\ NoneAhead /\ FillsNotAhead

-----------------------------------------------------------------------------
(* The operations of the cache.                                            *)

LEMMA AbsentIsItem == Absent \in Item
  BY BoundAssumption DEF Absent, Item

LEMMA KeyParts ==
  ASSUME NEW k \in Keys
  PROVE  k[1] \in Feeds /\ k[2] \in Rounds \cup {Current}
  BY DEF Keys

LEMMA SmallerNat ==
  ASSUME NEW m \in Nat, NEW n \in Nat
  PROVE  Smaller(m, n) \in Nat
  BY DEF Smaller

LEMMA TouchedItem ==
  ASSUME NEW item \in Item
  PROVE  /\ Touched(item) \in Item
         /\ Touched(item).value = item.value /\ Touched(item).left = item.left
<1>1. item.accesses + 1 \in Nat /\ MaxAccesses \in Nat
  BY BoundAssumption DEF Item
<1>2. Smaller(item.accesses + 1, MaxAccesses) \in Nat
  BY <1>1, SmallerNat
<1> QED
  BY <1>2 DEF Touched, Item

LEMMA AgedItem ==
  ASSUME NEW item \in Item, item # Absent
  PROVE  /\ Aged(item) \in Item
         /\ Aged(item).value = item.value
         /\ Aged(item).left > 0 => item.left > 0
<1> DEFINE left == IF item.left > 0 THEN item.left - 1 ELSE 0
           idle == Smaller(item.idle + 1, MaxIdle)
<1>1. left \in Nat /\ (left > 0 => item.left > 0)
  BY DEF Item
<1>2. item.idle + 1 \in Nat /\ MaxIdle \in Nat
  BY BoundAssumption DEF Item
<1>3. idle \in Nat
  BY <1>2, SmallerNat
<1>4. Aged(item) = [item EXCEPT !.left = left, !.idle = idle]
  BY DEF Aged
<1> HIDE DEF left, idle
<1> QED
  BY <1>1, <1>3, <1>4 DEF Item

(* What is set stays for a tick at least.                                  *)
LEMMA TtlPositive ==
  ASSUME ttl \in Nat \ {0}, cache \in [Keys -> Item],
         NEW key \in Keys, NEW asked \in Nat \ {0},
         NEW t \in AdaptiveTtls(key, asked)
  PROVE  t \in Nat \ {0}
<1> DEFINE most == ttl + ttl \div 2
<1>1. most \in Nat /\ most > 0
  OBVIOUS
<1> HIDE DEF most
<1>2. Smaller(asked, ttl) \in Nat \ {0} /\ Smaller(asked, most) \in Nat \ {0}
  BY <1>1 DEF Smaller
<1>3. 2 * asked \in Nat
  OBVIOUS
<1>4. Smaller(2 * asked, most) \in Nat
  BY <1>1, <1>3 DEF Smaller
<1>5. \/ t = Smaller(asked, ttl)
      \/ t = Smaller(asked, most)
      \/ t \in Smaller(asked, most) .. Smaller(2 * asked, most)
  BY Zenon DEF AdaptiveTtls, most
<1> QED
  BY <1>2, <1>4, <1>5

LEMMA WrittenType ==
  ASSUME cache \in [Keys -> Item], NEW key \in Keys, NEW value \in Versions,
         NEW t \in Nat, NEW gone
  PROVE  Written(key, value, t, gone) \in [Keys -> Item]
  BY AbsentIsItem DEF Written, Fresh, Item

(* The entry under key is as given, every other as before or gone.         *)
LEMMA SetEffect ==
  ASSUME ttl \in Nat \ {0}, cache \in [Keys -> Item],
         NEW key \in Keys, NEW value \in Versions, NEW asked \in Nat \ {0},
         Set(key, value, asked)
  PROVE  /\ cache' \in [Keys -> Item]
         /\ cache'[key].value = value /\ cache'[key].left > 0
         /\ cache'[key] # Absent
         /\ \A k \in Keys \ {key} : cache'[k] \in {cache[k], Absent}
<1>1. PICK t \in AdaptiveTtls(key, asked), gone \in Evictions :
         cache' = Written(key, value, t, gone)
  BY DEF Set
<1>2. t \in Nat \ {0}
  BY <1>1, TtlPositive
<1>3. cache' \in [Keys -> Item]
  BY <1>1, <1>2, WrittenType
<1>4. cache'[key] = Fresh(value, t)
  BY <1>1 DEF Written
<1>5. \A k \in Keys \ {key} : cache'[k] \in {cache[k], Absent}
  BY <1>1 DEF Written
<1> QED
  BY <1>2, <1>3, <1>4, <1>5 DEF Fresh, Absent

LEMMA SetPriceEffect ==
  ASSUME ttl \in Nat \ {0}, cache \in [Keys -> Item],
         NEW feed \in Feeds, NEW value \in Versions, SetPrice(feed, value)
  PROVE  LET key == <<feed, Current>>
         IN  /\ cache' \in [Keys -> Item]
             /\ cache'[key].value = value /\ cache'[key].left > 0
             /\ cache'[key] # Absent
             /\ \A k \in Keys \ {key} : cache'[k] \in {cache[k], Absent}
             /\ \A k \in RoundsOf(feed) : cache'[k] = Absent
<1> DEFINE key == <<feed, Current>>
<1>1. PICK t \in AdaptiveTtls(key, ttl), gone \in Evictions :
         cache' = Written(key, value, t, gone \cup RoundsOf(feed))
  BY DEF SetPrice
<1>2. key \in Keys
  BY DEF Keys
<1>3. t \in Nat \ {0}
  BY <1>1, <1>2, TtlPositive
<1>4. cache' \in [Keys -> Item]
  BY <1>1, <1>2, <1>3, WrittenType
<1>5. cache'[key] = Fresh(value, t)
  BY <1>1, <1>2 DEF Written
<1>6. \A k \in Keys \ {key} : cache'[k] \in {cache[k], Absent}
  BY <1>1 DEF Written
<1>7. \A k \in RoundsOf(feed) : k \in Keys /\ k # key
  BY DEF RoundsOf
<1>8. \A k \in RoundsOf(feed) : cache'[k] = Absent
  BY <1>1, <1>7 DEF Written
<1> QED
  BY <1>3, <1>4, <1>5, <1>6, <1>8 DEF Fresh, Absent

(* Each entry keeps its value and is live only if it was, or is gone.      *)
Keeps(k) ==
  \/ cache'[k] = Absent
  \/ /\ cache[k] # Absent
     /\ cache'[k].value = cache[k].value
     /\ cache'[k].left > 0 => cache[k].left > 0

LEMMA GetEffect ==
  ASSUME cache \in [Keys -> Item], NEW key \in Keys, Get(key)
  PROVE  cache' \in [Keys -> Item] /\ \A k \in Keys : Keeps(k)
<1>1. CASE key \in Live /\ cache' = [cache EXCEPT ![key] = Touched(cache[key])]
  <2>1. cache[key] \in Item
    OBVIOUS
  <2>2. /\ Touched(cache[key]) \in Item
        /\ Touched(cache[key]).value = cache[key].value
        /\ Touched(cache[key]).left = cache[key].left
    BY <2>1, TouchedItem
  <2> QED
    BY <1>1, <2>2 DEF Keeps, Live, Held
<1>2. CASE key \in Expired /\ \E more \in Cleaned \cup {{}} :
                                cache' = Without({key} \cup more)
  BY <1>2, AbsentIsItem DEF Without, Keeps
<1>3. CASE UNCHANGED cache
  BY <1>3 DEF Keeps
<1> QED
  BY <1>1, <1>2, <1>3 DEF Get

LEMMA WithoutEffect ==
  ASSUME cache \in [Keys -> Item], NEW K, cache' = Without(K)
  PROVE  cache' \in [Keys -> Item] /\ \A k \in Keys : Keeps(k)
  BY AbsentIsItem DEF Without, Keeps

LEMMA TickEffect ==
  ASSUME cache \in [Keys -> Item], Tick
  PROVE  cache' \in [Keys -> Item] /\ \A k \in Keys : Keeps(k)
<1>1. \A k \in Keys : cache'[k] = Aged(cache[k])
  BY DEF Tick
<1>2. \A k \in Keys : cache'[k] \in Item /\ Keeps(k)
  <2> TAKE k \in Keys
  <2>1. cache[k] \in Item
    OBVIOUS
  <2>2. CASE cache[k] = Absent
    BY <1>1, <2>2, AbsentIsItem DEF Aged, Keeps
  <2>3. CASE cache[k] # Absent
    BY <1>1, <2>1, <2>3, AgedItem DEF Keeps
  <2> QED
    BY <2>2, <2>3
<1> QED
  BY <1>2 DEF Tick

-----------------------------------------------------------------------------
(* The invariant.                                                          *)

LEMMA InitInv == Init => IInv
<1> SUFFICES ASSUME Init PROVE IInv
  OBVIOUS
<1>1. (CHOOSE k \in Keys : TRUE) \in Keys
  <2>1. PICK f \in Feeds : TRUE
    BY KeyAssumption
  <2>2. <<f, Current>> \in Keys
    BY DEF Keys
  <2> QED
    BY <2>2, Zenon
<1>2. TypeOK
  BY <1>1, AbsentIsItem, BoundAssumption, TtlAssumption DEF Init, TypeOK, Fill
<1>3. \A k \in Keys : k[1] \in Feeds
  BY KeyParts
<1> QED
  BY <1>1, <1>2, <1>3 DEF Init, IInv, FillsInPlace, NoneAhead, FillsNotAhead, TypeOK,
    Absent, Keys, Fill

(* A step of a lookup or request that leaves latest alone, by what it does *)
(* to the cache and to the lookup.                                         *)
LEMMA FillStep ==
  ASSUME IInv, NEW p \in Fills, UNCHANGED <<ttl, latest>>,
         patterns' \in SUBSET Feeds,
         cache' \in [Keys -> Item],
         \A k \in Keys : cache'[k].value <= latest[k[1]],
         NEW q \in Fill, fill' = [fill EXCEPT ![p] = q],
         q.pc = "price" => q.key[2] = Current,
         q.pc \in {"round", "priced"} => q.key[2] \in Rounds,
         q.value <= latest[q.key[1]]
  PROVE  IInv'
  BY DEF IInv, TypeOK, FillsInPlace, NoneAhead, FillsNotAhead

(* What is kept or set from the aggregate or an older price is not ahead.  *)
LEMMA KeptNotAhead ==
  ASSUME IInv, NEW k \in Keys, Keeps(k)
  PROVE  cache'[k].value <= latest[k[1]]
<1>1. k[1] \in Feeds
  BY KeyParts
<1>2. latest[k[1]] \in Nat
  BY <1>1, BoundAssumption DEF IInv, TypeOK
<1> QED
  BY <1>2 DEF IInv, NoneAhead, Keeps, Absent

LEMMA SetNotAhead ==
  ASSUME IInv, NEW key \in Keys, cache'[key].value <= latest[key[1]],
         \A k \in Keys \ {key} : cache'[k] \in {cache[k], Absent}
  PROVE  \A k \in Keys : cache'[k].value <= latest[k[1]]
<1> SUFFICES ASSUME NEW k \in Keys, k # key
             PROVE  cache'[k].value <= latest[k[1]]
  OBVIOUS
<1>1. k[1] \in Feeds
  BY KeyParts
<1>2. latest[k[1]] \in Nat
  BY <1>1, BoundAssumption DEF IInv, TypeOK
<1> QED
  BY <1>2 DEF IInv, NoneAhead, Absent

LEMMA StepInv == IInv /\ [Next]_vars => IInv'
<1> SUFFICES ASSUME IInv, [Next]_vars PROVE IInv'
  OBVIOUS
<1> USE DEF Fill
<1>1. TypeOK /\ cache \in [Keys -> Item] /\ ttl \in Nat \ {0}
  BY DEF IInv, TypeOK
<1>2. ASSUME NEW p \in Fills, NEW f \in Feeds,
             LookupStarts(p, f) \/ WarmingStarts(p, f)
      PROVE  IInv'
  <2> DEFINE key == <<f, Current>>
             q == [pc |-> "price", key |-> key, value |-> 0]
  <2>1. key \in Keys /\ q \in Fill /\ q.value <= latest[q.key[1]]
    BY BoundAssumption DEF Keys, IInv, TypeOK
  <2>2. Get(key) /\ UNCHANGED <<ttl, latest>> /\ patterns' \in SUBSET Feeds
    BY <1>1, <1>2 DEF LookupStarts, WarmingStarts, TypeOK
  <2>3. cache' \in [Keys -> Item] /\ \A k \in Keys : Keeps(k)
    BY <1>1, <2>1, <2>2, GetEffect
  <2>4. \A k \in Keys : cache'[k].value <= latest[k[1]]
    BY <2>3, KeptNotAhead
  <2>5. fill' = fill \/ fill' = [fill EXCEPT ![p] = q]
    BY <1>2 DEF LookupStarts, WarmingStarts, Waits
  <2>6. CASE fill' = fill
    BY <2>2, <2>3, <2>4, <2>6 DEF IInv, TypeOK, FillsInPlace, NoneAhead,
      FillsNotAhead
  <2>7. CASE fill' = [fill EXCEPT ![p] = q]
    BY <2>1, <2>2, <2>3, <2>4, <2>7, FillStep
  <2> QED
    BY <2>5, <2>6, <2>7
<1>3. ASSUME NEW p \in Fills, NEW f \in Feeds, NEW r \in Rounds,
             RoundStarts(p, f, r)
      PROVE  IInv'
  <2> DEFINE key == <<f, r>>
             q == [pc |-> "round", key |-> key, value |-> 0]
  <2>1. key \in Keys /\ q \in Fill /\ q.value <= latest[q.key[1]]
    BY BoundAssumption DEF Keys, IInv, TypeOK
  <2>2. Get(key) /\ UNCHANGED <<ttl, latest>> /\ patterns' \in SUBSET Feeds
    BY <1>1, <1>3 DEF RoundStarts, TypeOK
  <2>3. cache' \in [Keys -> Item] /\ \A k \in Keys : Keeps(k)
    BY <1>1, <2>1, <2>2, GetEffect
  <2>4. \A k \in Keys : cache'[k].value <= latest[k[1]]
    BY <2>3, KeptNotAhead
  <2>5. fill' = fill \/ fill' = [fill EXCEPT ![p] = q]
    BY <1>3 DEF RoundStarts, Waits
  <2>6. CASE fill' = fill
    BY <2>2, <2>3, <2>4, <2>6 DEF IInv, TypeOK, FillsInPlace, NoneAhead,
      FillsNotAhead
  <2>7. CASE fill' = [fill EXCEPT ![p] = q]
    BY <2>1, <2>2, <2>3, <2>4, <2>7, FillStep
  <2> QED
    BY <2>5, <2>6, <2>7
<1>4. ASSUME NEW f \in Feeds, SetPrice(f, latest[f])
      PROVE  /\ cache' \in [Keys -> Item]
             /\ \A k \in Keys : cache'[k].value <= latest[k[1]]
  <2>1. latest[f] \in Versions /\ <<f, Current>> \in Keys
    BY <1>1 DEF TypeOK, Keys
  <2>2. /\ cache' \in [Keys -> Item]
        /\ cache'[<<f, Current>>].value = latest[f]
        /\ \A k \in Keys \ {<<f, Current>>} : cache'[k] \in {cache[k], Absent}
    BY <1>1, <1>4, <2>1, SetPriceEffect
  <2>3. cache'[<<f, Current>>].value <= latest[<<f, Current>>[1]]
    BY <2>1, <2>2, BoundAssumption
  <2> QED
    BY <2>1, <2>2, <2>3, SetNotAhead
<1>5. \A k \in Keys : cache[k].value <= latest[k[1]]
  BY DEF IInv, NoneAhead
<1>6. ASSUME NEW p \in Fills
      PROVE  /\ fill[p] \in Fill /\ fill[p].key[1] \in Feeds
             /\ latest[fill[p].key[1]] \in Versions
  <2>1. fill[p] \in Fill
    BY <1>1 DEF TypeOK
  <2>2. fill[p].key[1] \in Feeds
    BY <2>1, KeyParts
  <2> QED
    BY <1>1, <2>1, <2>2 DEF TypeOK
<1>7. ASSUME NEW p \in Fills, Ends(p), UNCHANGED <<ttl, latest>>,
             patterns' \in SUBSET Feeds, cache' \in [Keys -> Item],
             \A k \in Keys : cache'[k].value <= latest[k[1]]
      PROVE  IInv'
  <2> DEFINE q == [fill[p] EXCEPT !.pc = "idle", !.value = 0]
  <2>3. /\ q \in Fill /\ q.pc = "idle" /\ q.value = 0
        /\ q.key = fill[p].key
    <3>1. 0 \in Versions
      BY BoundAssumption
    <3> HIDE DEF Versions
    <3> QED
      BY <1>6, <3>1
  <2>1. q \in Fill /\ q.pc = "idle" /\ q.value <= latest[q.key[1]]
    BY <1>6, <2>3, BoundAssumption
  <2>2. fill' = [fill EXCEPT ![p] = q]
    BY <1>1, <1>6, <1>7 DEF Ends, TypeOK
  <2> HIDE DEF q
  <2> QED
    BY <1>7, <2>1, <2>2, FillStep
<1>8. ASSUME NEW p \in Fills, PriceFetched(p)
      PROVE  IInv'
  <2>1. /\ cache' \in [Keys -> Item]
        /\ \A k \in Keys : cache'[k].value <= latest[k[1]]
    BY <1>1, <1>4, <1>5, <1>6, <1>8 DEF PriceFetched
  <2> QED
    BY <1>1, <1>7, <1>8, <2>1 DEF PriceFetched, TypeOK
<1>9. ASSUME NEW p \in Fills, RoundPriced(p)
      PROVE  IInv'
  <2> DEFINE feed == fill[p].key[1]
             key == <<feed, Current>>
             q(value) == [fill[p] EXCEPT !.pc = "priced", !.value = value]
  <2>1. feed \in Feeds /\ latest[feed] \in Versions /\ key \in Keys
    BY <1>6 DEF Keys
  <2>2. UNCHANGED <<ttl, latest>> /\ patterns' \in SUBSET Feeds
    BY <1>1, <1>9, <2>1 DEF RoundPriced, TypeOK
  <2>3. ASSUME NEW value \in Versions, value <= latest[feed],
               cache' \in [Keys -> Item],
               \A k \in Keys : cache'[k].value <= latest[k[1]],
               fill' = [fill EXCEPT ![p].pc = "priced", ![p].value = value]
        PROVE  IInv'
    <3>1. fill[p].pc = "round" /\ fill[p].key[2] \in Rounds
      BY <1>9 DEF RoundPriced, IInv, FillsInPlace
    <3>2. q(value) \in Fill /\ q(value).pc = "priced"
            /\ q(value).key = fill[p].key /\ q(value).value = value
      BY <1>6
    <3>3. fill' = [fill EXCEPT ![p] = q(value)]
      BY <1>1, <1>6, <2>3 DEF TypeOK
    <3>4. q(value).value <= latest[q(value).key[1]]
      BY <2>3, <3>2
    <3>5. q(value).key[2] \in Rounds /\ q(value).pc # "price"
      BY <3>1, <3>2
    <3> HIDE DEF q, Fill
    <3> QED
      BY <2>2, <2>3, <3>2, <3>3, <3>4, <3>5, FillStep
  <2>4. CASE key \in Live /\ Get(key)
               /\ fill' = [fill EXCEPT ![p].pc = "priced",
                                       ![p].value = cache[key].value]
    <3>1. cache' \in [Keys -> Item] /\ \A k \in Keys : Keeps(k)
      BY <1>1, <2>1, <2>4, GetEffect
    <3>2. \A k \in Keys : cache'[k].value <= latest[k[1]]
      BY <3>1, KeptNotAhead
    <3>3. cache[key] \in Item /\ cache[key].value <= latest[key[1]]
      BY <1>1, <1>5, <2>1
    <3>4. cache[key].value \in Versions /\ cache[key].value <= latest[feed]
      BY <3>3 DEF Item
    <3> QED
      BY <2>3, <2>4, <3>1, <3>2, <3>4
  <2>5. CASE latest[feed] > 0 /\ SetPrice(feed, latest[feed])
               /\ fill' = [fill EXCEPT ![p].pc = "priced",
                                       ![p].value = latest[feed]]
    <3>1. latest[feed] <= latest[feed]
      BY <2>1, BoundAssumption
    <3> QED
      BY <1>4, <2>1, <2>3, <2>5, <3>1
  <2>6. CASE Ends(p) /\ UNCHANGED cache
    BY <1>1, <1>5, <1>7, <2>2, <2>6
  <2> QED
    BY <1>9, <2>4, <2>5, <2>6 DEF RoundPriced
<1>10. ASSUME NEW p \in Fills, RoundStored(p)
       PROVE  IInv'
  <2> DEFINE key == fill[p].key
  <2>1. /\ key \in Keys /\ fill[p].value \in Versions
        /\ fill[p].value <= latest[key[1]]
    BY <1>6 DEF IInv, FillsNotAhead
  <2>2. Set(key, fill[p].value, RoundTtl) /\ RoundTtl \in Nat \ {0}
    BY <1>10, TtlAssumption DEF RoundStored
  <2>3. /\ cache' \in [Keys -> Item]
        /\ cache'[key].value = fill[p].value
        /\ \A k \in Keys \ {key} : cache'[k] \in {cache[k], Absent}
    BY <1>1, <2>1, <2>2, SetEffect
  <2>4. \A k \in Keys : cache'[k].value <= latest[k[1]]
    BY <2>1, <2>3, SetNotAhead
  <2> QED
    BY <1>1, <1>7, <1>10, <2>3, <2>4 DEF RoundStored, TypeOK
<1>11. ASSUME UNCHANGED <<latest, fill>>, ttl' \in Nat \ {0},
              patterns' \in SUBSET Feeds, cache' \in [Keys -> Item],
              \A k \in Keys : cache'[k].value <= latest[k[1]]
       PROVE  IInv'
  BY <1>11 DEF IInv, TypeOK, FillsInPlace, NoneAhead, FillsNotAhead
<1>12. ASSUME NEW f \in Feeds, UpdateArrives(f)
       PROVE  IInv'
  <2>1. latest[f] < MaxVersion => latest[f] + 1 \in Versions /\ latest[f] \in Nat
    BY <1>1, BoundAssumption DEF TypeOK, Versions
  <2>2. latest' \in [Feeds -> Versions]
    BY <1>1, <1>12, <2>1 DEF UpdateArrives, TypeOK
  <2>3. \A g \in Feeds : latest[g] \in Nat /\ latest[g] <= latest'[g]
    BY <1>1, <1>12, <2>1, BoundAssumption DEF UpdateArrives, TypeOK
  <2>4. \A n \in Versions, g \in Feeds : n <= latest[g] => n <= latest'[g]
    BY <2>2, <2>3, BoundAssumption
  <2>5. \A k \in Keys : cache[k].value \in Versions /\ k[1] \in Feeds
    BY <1>1, KeyParts DEF Item
  <2>6. NoneAhead'
    BY <1>5, <1>12, <2>4, <2>5 DEF NoneAhead, UpdateArrives
  <2>7. FillsNotAhead'
    BY <1>6, <1>12, <2>4 DEF FillsNotAhead, UpdateArrives, IInv
  <2> QED
    BY <1>1, <1>12, <2>2, <2>6, <2>7 DEF UpdateArrives, IInv, TypeOK,
      FillsInPlace
<1>13. ASSUME NEW f \in Feeds, PricePublished(f)
       PROVE  IInv'
  BY <1>1, <1>4, <1>11, <1>13 DEF PricePublished, TypeOK
<1>14. ASSUME NEW f \in Feeds, PatternForgotten(f)
       PROVE  IInv'
  BY <1>1, <1>5, <1>11, <1>14 DEF PatternForgotten, TypeOK
<1>15. CASE CleanupRuns
  <2>1. cache' \in [Keys -> Item] /\ \A k \in Keys : Keeps(k)
    BY <1>1, <1>15, WithoutEffect DEF CleanupRuns
  <2>2. \A k \in Keys : cache'[k].value <= latest[k[1]]
    BY <2>1, KeptNotAhead
  <2> QED
    BY <1>1, <1>11, <1>15, <2>1, <2>2 DEF CleanupRuns, TypeOK
<1>16. CASE OptimizePerformance
  <2>1. (9 * ttl) \div 10 \in Nat
    BY <1>1
  <2>2. ttl' \in Nat \ {0}
    BY <1>16, <2>1, TtlAssumption DEF OptimizePerformance, Larger
  <2> QED
    BY <1>1, <1>5, <1>11, <1>16, <2>2 DEF OptimizePerformance, TypeOK
<1>17. CASE Clear
  <2>1. cache' \in [Keys -> Item] /\ \A k \in Keys : Keeps(k)
    BY <1>17, AbsentIsItem DEF Clear, Keeps
  <2>2. \A k \in Keys : cache'[k].value <= latest[k[1]]
    BY <2>1, KeptNotAhead
  <2> QED
    BY <1>1, <1>11, <1>17, <2>1, <2>2 DEF Clear, TypeOK
<1>18. CASE Tick
  <2>1. cache' \in [Keys -> Item] /\ \A k \in Keys : Keeps(k)
    BY <1>1, <1>18, TickEffect
  <2>2. \A k \in Keys : cache'[k].value <= latest[k[1]]
    BY <2>1, KeptNotAhead
  <2> QED
    BY <1>1, <1>11, <1>18, <2>1, <2>2 DEF Tick, TypeOK
<1>19. CASE UNCHANGED vars
  BY <1>19 DEF vars, IInv, TypeOK, FillsInPlace, NoneAhead, FillsNotAhead
<1> QED
  BY <1>2, <1>3, <1>8, <1>9, <1>10, <1>12, <1>13, <1>14, <1>15, <1>16, <1>17,
    <1>18, <1>19 DEF Next

(* The cache, lookups and patterns are of their types.                     *)
THEOREM TypeCorrect == Spec => []TypeOK
<1>1. Spec => []IInv
  BY InitInv, StepInv, PTL DEF Spec
<1>2. IInv => TypeOK
  BY DEF IInv
<1> QED
  BY <1>1, <1>2, PTL
(* However few entries a step sets, evicts and deletes, their number stays *)
(* within the maximum: where it is reached, at least one entry goes first. *)
LEMMA HeldFinite == IsFiniteSet(Held) /\ Cardinality(Held) \in Nat
<1>1. IsFiniteSet({Current})
  BY FS_Singleton
<1>2. IsFiniteSet(Rounds \cup {Current})
  BY <1>1, KeyAssumption, FS_Union
<1>3. IsFiniteSet(Keys)
  BY <1>2, KeyAssumption, FS_Product DEF Keys
<1>4. IsFiniteSet(Held)
  BY <1>3, FS_Subset DEF Held
<1> QED
  BY <1>4, FS_CardinalityType

LEMMA FewerHeld ==
  ASSUME SizeBounded, \A k \in Keys : cache'[k] = Absent \/ cache[k] # Absent
  PROVE  SizeBounded'
<1>1. Held' \in SUBSET Held
  BY DEF Held
<1>2. Cardinality(Held') <= Cardinality(Held) /\ IsFiniteSet(Held')
  BY <1>1, HeldFinite, FS_Subset
<1>3. Cardinality(Held') \in Nat
  BY <1>2, FS_CardinalityType
<1> QED
  BY <1>2, <1>3, HeldFinite, EvictionAssumption DEF SizeBounded

LEMMA WrittenBounded ==
  ASSUME SizeBounded, NEW key \in Keys, NEW gone \in Evictions,
         \A k \in Keys \ {key} :
           cache'[k] = Absent \/ (k \notin gone /\ cache[k] # Absent)
  PROVE  SizeBounded'
<1> DEFINE kept == Held \ gone
<1>1. gone \in SUBSET Held
  BY DEF Evictions, Evicted
<1>2. /\ IsFiniteSet(kept) /\ IsFiniteSet(gone)
      /\ Cardinality(kept) = Cardinality(Held) - Cardinality(gone)
  <2>1. Held \cap gone = gone
    BY <1>1
  <2> QED
    BY <1>1, <2>1, HeldFinite, FS_Difference, FS_Subset
<1>3. Cardinality(kept) \in Nat /\ Cardinality(gone) \in Nat
  BY <1>2, FS_CardinalityType
<1>4. Cardinality(kept) < MaxSize
  <2>1. CASE Cardinality(Held) < MaxSize
    BY <1>2, <1>3, <2>1, HeldFinite, EvictionAssumption
  <2>2. CASE Cardinality(Held) >= MaxSize
    <3>1. Cardinality(Held) = MaxSize
      BY <2>2, HeldFinite, EvictionAssumption DEF SizeBounded
    <3>2. Cardinality(gone) = Smaller(MaxEvicted, MaxSize \div EvictDivisor)
      BY <2>2, <3>1 DEF Evictions, Evicted
    <3>3. MaxSize \div EvictDivisor \in Nat /\ MaxSize \div EvictDivisor > 0
      BY EvictionAssumption
    <3>4. Cardinality(gone) > 0
      BY <3>2, <3>3, EvictionAssumption DEF Smaller
    <3> QED
      BY <1>2, <1>3, <3>1, <3>4, EvictionAssumption
  <2> QED
    BY <2>1, <2>2, HeldFinite, EvictionAssumption
<1>5. /\ IsFiniteSet(kept \cup {key})
      /\ Cardinality(kept \cup {key}) <= MaxSize
  BY <1>2, <1>3, <1>4, FS_AddElement, EvictionAssumption
<1>6. Held' \in SUBSET (kept \cup {key})
  BY DEF Held
<1>7. Cardinality(Held') <= Cardinality(kept \cup {key}) /\ IsFiniteSet(Held')
  BY <1>5, <1>6, FS_Subset
<1>8. Cardinality(Held') \in Nat /\ Cardinality(kept \cup {key}) \in Nat
  BY <1>5, <1>7, FS_CardinalityType
<1> QED
  BY <1>5, <1>7, <1>8, EvictionAssumption DEF SizeBounded
LEMMA SetBounded ==
  ASSUME SizeBounded, NEW key \in Keys, NEW value, NEW asked,
         Set(key, value, asked)
  PROVE  SizeBounded'
<1>1. PICK t \in AdaptiveTtls(key, asked), gone \in Evictions :
         cache' = Written(key, value, t, gone)
  BY DEF Set
<1>2. \A k \in Keys \ {key} :
        cache'[k] = Absent \/ (k \notin gone /\ cache[k] # Absent)
  BY <1>1 DEF Written
<1> QED
  BY <1>2, WrittenBounded

LEMMA SetPriceBounded ==
  ASSUME SizeBounded, NEW feed \in Feeds, NEW value, SetPrice(feed, value)
  PROVE  SizeBounded'
<1> DEFINE key == <<feed, Current>>
<1>1. PICK t \in AdaptiveTtls(key, ttl), gone \in Evictions :
         cache' = Written(key, value, t, gone \cup RoundsOf(feed))
  BY DEF SetPrice
<1>2. \A k \in Keys \ {key} :
        cache'[k] = Absent \/ (k \notin gone /\ cache[k] # Absent)
  BY <1>1 DEF Written
<1>3. key \in Keys
  BY DEF Keys
<1> QED
  BY <1>2, <1>3, WrittenBounded

LEMMA KeepsBounded ==
  ASSUME SizeBounded, \A k \in Keys : Keeps(k)
  PROVE  SizeBounded'
  BY FewerHeld DEF Keeps

LEMMA SizeStep == IInv /\ SizeBounded /\ [Next]_vars => SizeBounded'
<1> SUFFICES ASSUME IInv, SizeBounded, [Next]_vars PROVE SizeBounded'
  OBVIOUS
<1>1. cache \in [Keys -> Item]
  BY DEF IInv, TypeOK
<1>2. ASSUME NEW key \in Keys, Get(key) PROVE SizeBounded'
  BY <1>1, <1>2, GetEffect, KeepsBounded
<1>3. CASE UNCHANGED cache
  BY <1>3 DEF SizeBounded, Held
<1>4. ASSUME NEW p \in Fills
      PROVE  fill[p].key \in Keys /\ fill[p].key[1] \in Feeds
  <2>1. fill[p].key \in Keys
    BY DEF IInv, TypeOK, Fill
  <2> QED
    BY <2>1, KeyParts
<1>5. ASSUME NEW f \in Feeds PROVE <<f, Current>> \in Keys
  BY DEF Keys
<1>6. ASSUME NEW f \in Feeds, NEW r \in Rounds PROVE <<f, r>> \in Keys
  BY DEF Keys
<1>7. ASSUME NEW p \in Fills, NEW f \in Feeds,
             LookupStarts(p, f) \/ WarmingStarts(p, f)
      PROVE  SizeBounded'
  BY <1>2, <1>5, <1>7 DEF LookupStarts, WarmingStarts
<1>8. ASSUME NEW p \in Fills, NEW f \in Feeds, NEW r \in Rounds,
             RoundStarts(p, f, r)
      PROVE  SizeBounded'
  BY <1>2, <1>6, <1>8 DEF RoundStarts
<1>9. ASSUME NEW p \in Fills, PriceFetched(p)
      PROVE  SizeBounded'
  BY <1>3, <1>4, <1>9, SetPriceBounded DEF PriceFetched
<1>10. ASSUME NEW p \in Fills, RoundPriced(p)
       PROVE  SizeBounded'
  BY <1>2, <1>3, <1>4, <1>5, <1>10, SetPriceBounded DEF RoundPriced
<1>11. ASSUME NEW p \in Fills, RoundStored(p)
       PROVE  SizeBounded'
  BY <1>4, <1>11, SetBounded DEF RoundStored
<1>12. ASSUME NEW f \in Feeds, PricePublished(f)
       PROVE  SizeBounded'
  BY <1>12, SetPriceBounded DEF PricePublished
<1>13. ASSUME NEW f \in Feeds, UpdateArrives(f) \/ PatternForgotten(f)
       PROVE  SizeBounded'
  BY <1>3, <1>13 DEF UpdateArrives, PatternForgotten
<1>14. CASE CleanupRuns
  BY <1>1, <1>14, WithoutEffect, KeepsBounded DEF CleanupRuns
<1>15. CASE Clear
  BY <1>15, KeepsBounded DEF Clear, Keeps
<1>16. CASE Tick
  BY <1>1, <1>16, TickEffect, KeepsBounded
<1>17. CASE OptimizePerformance \/ UNCHANGED vars
  BY <1>3, <1>17 DEF OptimizePerformance, vars
<1> QED
  BY <1>7, <1>8, <1>9, <1>10, <1>11, <1>12, <1>13, <1>14, <1>15, <1>16, <1>17
    DEF Next

(* The cache never holds more entries than its maximum.                    *)
THEOREM SizeIsBounded == Spec => []SizeBounded
<1>1. Init => SizeBounded
  <2> SUFFICES ASSUME Init PROVE SizeBounded
    OBVIOUS
  <2>1. Held = {}
    BY DEF Init, Held
  <2> QED
    BY <2>1, FS_EmptySet, EvictionAssumption DEF SizeBounded
<1> QED
  BY <1>1, InitInv, StepInv, SizeStep, PTL DEF Spec

-----------------------------------------------------------------------------
(* The refinement: each step of the cache is a step of the board or leaves *)
(* it as it is.                                                            *)

Shown == [k \in Live |-> cache[k].value]

LEMMA KeepsLoses ==
  ASSUME \A k \in Keys : Keeps(k)
  PROVE  Board!Lose
<1>1. Live' \in SUBSET Live
  BY DEF Live, Held, Keeps
<1>2. \A k \in Live' : cache'[k].value = cache[k].value
  BY DEF Live, Held, Keeps
<1>3. Shown' = [k \in Live' |-> Shown[k]]
  BY <1>1, <1>2 DEF Shown
<1> QED
  BY <1>1, <1>3 DEF Board!Lose, Board!OnlyFor, Shown

LEMMA SetPuts ==
  ASSUME ttl \in Nat \ {0}, cache \in [Keys -> Item],
         NEW key \in Keys, key[2] \in Rounds, NEW value \in Versions,
         NEW asked \in Nat \ {0}, Set(key, value, asked)
  PROVE  Board!Next
<1> DEFINE K == Live' \ {key}
<1>1. key = <<key[1], key[2]>>
  BY DEF Keys
<1>2. /\ cache'[key].value = value /\ cache'[key].left > 0
      /\ cache'[key] # Absent
      /\ \A k \in Keys \ {key} : cache'[k] \in {cache[k], Absent}
  BY SetEffect
<1>3. K \in SUBSET Live /\ Live' = K \cup {key}
  BY <1>2 DEF Live, Held
<1>4. \A k \in K : cache'[k].value = cache[k].value
  BY <1>2 DEF Live, Held
<1>5. Shown' = [k \in K \cup {key} |-> IF k = key THEN value ELSE Shown[k]]
  BY <1>2, <1>3, <1>4 DEF Shown
<1> HIDE DEF K
<1>6. key[1] \in Feeds
  BY KeyParts
<1>7. \E f \in Feeds, version \in Versions, r \in Rounds :
        \E L \in SUBSET Live :
          Shown' = [k \in L \cup {<<f, r>>} |->
                      IF k = <<f, r>> THEN version ELSE Shown[k]]
  BY <1>1, <1>3, <1>5, <1>6
<1> QED
  BY <1>7 DEF Board!Next, Board!PutRound, Board!With, Shown

LEMMA SetPricePuts ==
  ASSUME IInv, NEW feed \in Feeds, NEW value \in Versions,
         value = latest[feed], SetPrice(feed, value)
  PROVE  Board!Next
<1> DEFINE key == <<feed, Current>>
           K == Live' \ {key}
<1>1. key \in Keys
  BY DEF Keys
<1>2. /\ cache'[key].value = value /\ cache'[key].left > 0
      /\ cache'[key] # Absent
      /\ \A k \in Keys \ {key} : cache'[k] \in {cache[k], Absent}
      /\ \A k \in RoundsOf(feed) : cache'[k] = Absent
  BY <1>1, SetPriceEffect DEF IInv, TypeOK
<1>3. K \in SUBSET Live /\ Live' = K \cup {key}
  BY <1>1, <1>2 DEF Live, Held
<1>4. \A k \in K : cache'[k].value = cache[k].value
  BY <1>2 DEF Live, Held
<1>5. \A k \in K : k[1] # feed
  <2> SUFFICES ASSUME NEW k \in K, k[1] = feed PROVE FALSE
    OBVIOUS
  <2>1. k \in Keys /\ k # key /\ cache'[k] # Absent
    BY DEF Live, Held
  <2>2. k[2] # Current
    BY <2>1 DEF Keys
  <2> QED
    BY <1>2, <2>1, <2>2 DEF RoundsOf
<1>6. key \in Live => Shown[key] <= value
  BY <1>1 DEF IInv, NoneAhead, Shown
<1>7. Shown' = [k \in K \cup {key} |-> IF k = key THEN value ELSE Shown[k]]
  BY <1>2, <1>3, <1>4 DEF Shown
<1> HIDE DEF K
<1>8. \E f \in Feeds, version \in Versions :
        /\ <<f, Current>> \in Live => Shown[<<f, Current>>] <= version
        /\ \E L \in SUBSET {k \in Live : k[1] # f} :
             Shown' = [k \in L \cup {<<f, Current>>} |->
                         IF k = <<f, Current>> THEN version ELSE Shown[k]]
  BY <1>1, <1>3, <1>5, <1>6, <1>7
<1>9. DOMAIN Shown = Live
  BY DEF Shown
<1> QED
  BY <1>8, <1>9 DEF Board!Next, Board!PutPrice, Board!With, Shown
LEMMA BoardStep == IInv /\ [Next]_vars => [Board!Next]_Shown
<1> SUFFICES ASSUME IInv, [Next]_vars PROVE Board!Next \/ UNCHANGED Shown
  BY DEF Shown
<1>1. cache \in [Keys -> Item] /\ ttl \in Nat \ {0}
  BY DEF IInv, TypeOK
<1>2. ASSUME \A k \in Keys : Keeps(k) PROVE Board!Next
  BY <1>2, KeepsLoses DEF Board!Next
<1>3. ASSUME NEW key \in Keys, Get(key) PROVE Board!Next
  BY <1>1, <1>2, <1>3, GetEffect
<1>4. CASE UNCHANGED cache
  BY <1>4 DEF Shown, Live, Held
<1>5. ASSUME NEW f \in Feeds, SetPrice(f, latest[f]) PROVE Board!Next
  <2>1. latest[f] \in Versions
    BY DEF IInv, TypeOK
  <2> QED
    BY <1>5, <2>1, SetPricePuts
<1>6. ASSUME NEW p \in Fills
      PROVE  fill[p].key \in Keys /\ fill[p].key[1] \in Feeds
  <2>1. fill[p].key \in Keys
    BY DEF IInv, TypeOK, Fill
  <2> QED
    BY <2>1, KeyParts
<1>7. ASSUME NEW f \in Feeds PROVE <<f, Current>> \in Keys
  BY DEF Keys
<1>8. ASSUME NEW f \in Feeds, NEW r \in Rounds PROVE <<f, r>> \in Keys
  BY DEF Keys
<1>9. ASSUME NEW p \in Fills, NEW f \in Feeds,
             \/ LookupStarts(p, f) \/ WarmingStarts(p, f)
             \/ \E r \in Rounds : RoundStarts(p, f, r)
      PROVE  Board!Next
  BY <1>3, <1>7, <1>8, <1>9 DEF LookupStarts, WarmingStarts, RoundStarts
<1>10. ASSUME NEW p \in Fills, PriceFetched(p) \/ RoundPriced(p)
       PROVE  Board!Next \/ UNCHANGED cache
  BY <1>3, <1>5, <1>6, <1>7, <1>10 DEF PriceFetched, RoundPriced
<1>11. ASSUME NEW p \in Fills, RoundStored(p)
       PROVE  Board!Next
  <2>1. /\ fill[p].pc = "priced" /\ Set(fill[p].key, fill[p].value, RoundTtl)
        /\ RoundTtl \in Nat \ {0}
    BY <1>11, TtlAssumption DEF RoundStored
  <2>2. fill[p].key[2] \in Rounds /\ fill[p].value \in Versions
    BY <2>1 DEF IInv, FillsInPlace, TypeOK, Fill
  <2> QED
    BY <1>1, <1>6, <2>1, <2>2, SetPuts
<1>12. ASSUME NEW f \in Feeds, PricePublished(f)
       PROVE  Board!Next
  BY <1>5, <1>12 DEF PricePublished
<1>13. CASE CleanupRuns
  BY <1>1, <1>2, <1>13, WithoutEffect DEF CleanupRuns
<1>14. CASE Clear
  BY <1>2, <1>14 DEF Clear, Keeps
<1>15. CASE Tick
  BY <1>1, <1>2, <1>15, TickEffect
<1>16. CASE \/ \E f \in Feeds : UpdateArrives(f) \/ PatternForgotten(f)
            \/ OptimizePerformance \/ UNCHANGED vars
  BY <1>4, <1>16 DEF UpdateArrives, PatternForgotten, OptimizePerformance, vars
<1> QED
  BY <1>4, <1>9, <1>10, <1>11, <1>12, <1>13, <1>14, <1>15, <1>16 DEF Next

(* The cache implements the price board.                                   *)
THEOREM ImplementsPriceBoard == Spec => IsPriceBoard
<1>1. Init => Board!Init
  <2> SUFFICES ASSUME Init PROVE Board!Init
    OBVIOUS
  <2>1. Live = {}
    BY DEF Init, Live, Held
  <2> QED
    BY <2>1 DEF Board!Init
<1> QED
  BY <1>1, InitInv, StepInv, BoardStep, PTL
    DEF Spec, IsPriceBoard, Board!Spec, Shown

-----------------------------------------------------------------------------
(* Validation.                                                             *)

(* A verdict that is cached is the one of this round.                      *)
CachedIsVerdict ==
  \A s \in Sources :
    cached[s] # NoVerdict => s \in reported /\ cached[s] = verdict[s]

(* What has been stored in this round is of sources that have reported,    *)
(* and what is too old has been removed when one has.                      *)
NoneTooOld ==
  /\ \A u \in crossSource : u.age = 0 => u.source \in reported
  /\ reported # {} => \A u \in crossSource : u.age < CrossSourceWindow
  /\ steady > 0 => \A u \in crossSource : u.age <= CrossSourceWindow

(* What is stored of regular rounds: one update of each source, of honest  *)
(* ones the market price; all of a round or, when it is too old, nothing.  *)
OfAge(a) == {u \in crossSource : u.age = a}

HonestIn(known) ==
  \A u \in known : u.source \in Honest => u.price = market /\ u.formed

OncePerSource(known) == \A u, v \in known : u.source = v.source => u = v

Reporting(known) == {u.source : u \in known}

RegularStored ==
  /\ \A a \in Nat : steady > a => HonestIn(OfAge(a)) /\ OncePerSource(OfAge(a))
  /\ steady > 0 => Reporting(OfAge(0)) = reported
  /\ steady > 1 => Reporting(OfAge(1)) = Sources
  /\ \A a \in Nat \ {0} :
       steady > a => Reporting(OfAge(a)) \in {{}, Sources}

(* In the history the mistakes of regular rounds are apart.                *)
Size == HonestCount + 1

Wrong(prices, price, k) ==
  k < Len(prices) /\ prices[Len(prices) - k] # price

OneWrong(prices, price, from, to) ==
  \A i, j \in from .. to - 1 :
    Wrong(prices, price, i) /\ Wrong(prices, price, j) => i = j

OneOff(from, to) == OneWrong(history, market, from, to)

RegularHistory ==
  LET n == Cardinality(reported)
  IN  /\ steady > 0 => /\ OneOff(0, n)
                       /\ Len(history) >= 10 \/ Len(history) >= n
                       /\ Faulty \notin reported =>
                            \A i \in 0 .. n - 1 : ~Wrong(history, market, i)
      /\ steady > 1 => /\ OneOff(n, n + Size)
                       /\ Len(history) >= 10 \/ Len(history) >= n + Size
      /\ steady > 2 => OneOff(n + Size, n + 2 * Size) /\ Len(history) >= 10

Entry == [source : Sources, price : Int, formed : BOOLEAN, age : Nat, copy : Nat]

ValidationTypes ==
  /\ market \in Markets
  /\ history \in Seq(Int)
  /\ crossSource \subseteq Entry /\ IsFiniteSet(crossSource)
  /\ cached = [s \in Sources |-> cached[s]]
  /\ verdict = [s \in Sources |-> verdict[s]]
  /\ reported \subseteq Sources
  /\ steady \in 0 .. Regular

ValidationInv ==
  /\ ValidationTypes
  /\ CachedIsVerdict
  /\ NoneTooOld
  /\ RegularStored
  /\ RegularHistory
  /\ OneBadSourceIsIsolated

-----------------------------------------------------------------------------
(* Of prices most of which are the same, the median is that price.         *)

LEMMA MedianOfMost ==
  ASSUME NEW prices, NEW m \in Int,
         IsFiniteSet(DOMAIN prices),
         \A i \in DOMAIN prices : prices[i] \in Int,
         2 * Cardinality({i \in DOMAIN prices : prices[i] = m})
           > Cardinality(DOMAIN prices)
  PROVE  Median(prices) = [num |-> m + m, den |-> 2]
<1> DEFINE D == DOMAIN prices
           n == Cardinality(D)
           Most == {i \in D : prices[i] = m}
           Below(p) == {i \in D : prices[i] < p}
           UpTo(p) == {i \in D : prices[i] <= p}
           IsAt(p, k) == Cardinality(Below(p)) <= k /\ Cardinality(UpTo(p)) > k
<1>1. /\ n \in Nat /\ IsFiniteSet(Most) /\ Cardinality(Most) \in Nat
      /\ Cardinality(Most) <= n
  BY FS_CardinalityType, FS_Subset
<1>2. ASSUME NEW p \in Int
      PROVE  /\ IsFiniteSet(Below(p)) /\ Cardinality(Below(p)) \in Nat
             /\ IsFiniteSet(UpTo(p)) /\ Cardinality(UpTo(p)) \in Nat
  BY FS_CardinalityType, FS_Subset
<1>3. ASSUME NEW T \in SUBSET D, T \cap Most = {}
      PROVE  /\ Cardinality(T) \in Nat
             /\ Cardinality(T) + Cardinality(Most) <= n
  <2>1. IsFiniteSet(T) /\ Cardinality(T) \in Nat
    BY FS_CardinalityType, FS_Subset
  <2>2. Cardinality(T \cup Most) = Cardinality(T) + Cardinality(Most)
    <3>1. T \cap Most = {}
      BY <1>3
    <3>2. Cardinality(T \cup Most)
            = Cardinality(T) + Cardinality(Most) - Cardinality(T \cap Most)
      <4> HIDE DEF Most
      <4> QED  BY <1>1, <2>1, FS_Union
    <3>3. Cardinality(T \cap Most) = 0
      BY <3>1, FS_EmptySet
    <3>4. Cardinality(Most) \in Nat
      BY <1>1
    <3> HIDE DEF Most
    <3> QED  BY <2>1, <3>2, <3>3, <3>4
  <2>3. T \cup Most \subseteq D
    OBVIOUS
  <2>4. Cardinality(T \cup Most) <= n
    BY <2>3, FS_Subset
  <2> QED  BY <2>1, <2>2, <2>4
<1>4. m \in Range(prices)
  <2>1. Most # {}
    BY <1>1, FS_EmptySet
  <2> QED  BY <2>1 DEF Range
<1>5. ASSUME NEW k \in Nat, n - Cardinality(Most) <= k, k < Cardinality(Most)
      PROVE  Sorted(prices, k) = m
  <2>1. IsAt(m, k)
    <3>1. Below(m) \cap Most = {} /\ Below(m) \in SUBSET D
      OBVIOUS
    <3>2. Cardinality(Below(m)) + Cardinality(Most) <= n
      BY <3>1, <1>3
    <3>3. Most \subseteq UpTo(m)
      OBVIOUS
    <3>4. Cardinality(Most) <= Cardinality(UpTo(m))
      BY <3>3, <1>2, FS_Subset
    <3>5. /\ Cardinality(Below(m)) \in Nat
          /\ Cardinality(UpTo(m)) \in Nat
      BY <1>2
    <3> HIDE DEF Below, UpTo, Most
    <3> QED  BY <3>2, <3>4, <3>5, <1>1, <1>5
  <2>2. ASSUME NEW p \in Range(prices), IsAt(p, k)
        PROVE  p = m
    <3>1. p \in Int
      BY DEF Range
    <3>2. ~ (p < m)
      <4> SUFFICES ASSUME p < m PROVE FALSE
        OBVIOUS
      <4>1. UpTo(p) \cap Most = {} /\ UpTo(p) \in SUBSET D
        BY <3>1
      <4>2. Cardinality(UpTo(p)) + Cardinality(Most) <= n
        BY <4>1, <1>3
      <4>3. Cardinality(UpTo(p)) \in Nat /\ Cardinality(UpTo(p)) > k
        BY <1>2, <2>2, <3>1
      <4> HIDE DEF UpTo, Most
      <4> QED  BY <4>2, <4>3, <1>1, <1>5
    <3>3. ~ (m < p)
      <4> SUFFICES ASSUME m < p PROVE FALSE
        OBVIOUS
      <4>1. Most \subseteq Below(p)
        BY <3>1
      <4>2. Cardinality(Most) <= Cardinality(Below(p))
        BY <4>1, <1>2, <3>1, FS_Subset
      <4>3. Cardinality(Below(p)) \in Nat /\ Cardinality(Below(p)) <= k
        BY <1>2, <2>2, <3>1
      <4> HIDE DEF Below, Most
      <4> QED  BY <4>2, <4>3, <1>1, <1>5
    <3> QED  BY <3>1, <3>2, <3>3
  <2>3. Sorted(prices, k) = CHOOSE p \in Range(prices) : IsAt(p, k)
    BY DEF Sorted
  <2> HIDE DEF IsAt
  <2> QED  BY <2>1, <2>2, <2>3, <1>4
<1>6. n > 0
  BY <1>1
<1>7. /\ (n - 1) \div 2 \in Nat /\ n \div 2 \in Nat
      /\ n - Cardinality(Most) <= (n - 1) \div 2 /\ (n - 1) \div 2 < Cardinality(Most)
      /\ n - Cardinality(Most) <= n \div 2 /\ n \div 2 < Cardinality(Most)
  <2> DEFINE c == Cardinality(Most)
  <2>1. c \in Nat /\ 2 * c > n
    BY <1>1
  <2> HIDE DEF c, n
  <2> QED  BY <1>1, <1>6, <2>1 DEF c, n
<1>8. Sorted(prices, (n - 1) \div 2) = m /\ Sorted(prices, n \div 2) = m
  BY <1>5, <1>7
<1> QED  BY <1>8 DEF Median

-----------------------------------------------------------------------------
(* The severity of a price, when the reference is the price of the market. *)

LEMMA GradedByMarket ==
  ASSUME NEW m \in Nat \ {0}, NEW p \in Int, NEW t \in {5, 20}
  PROVE  /\ p = m => Graded(p, [num |-> m + m, den |-> 2], t) = "none"
         /\ 25 * Difference(p, m) > m =>
              Graded(p, [num |-> m + m, den |-> 2], t) = "high"
<1> DEFINE reference == [num |-> m + m, den |-> 2]
<1>1. Difference(p * reference.den, reference.num) = 2 * Difference(p, m)
  BY DEF Difference
<1>2. Difference(p, m) \in Nat /\ (p = m => Difference(p, m) = 0)
  BY DEF Difference
<1>3. CASE p = m
  <2>1. ~Deviates(p, reference, 2 * t) /\ ~Deviates(p, reference, t)
    BY <1>1, <1>2, <1>3 DEF Deviates
  <2>2. Difference(p, m) = 0
    BY <1>2, <1>3
  <2> QED  BY <2>1, <2>2, <1>3 DEF Graded
<1>4. CASE 25 * Difference(p, m) > m
  <2>1. Deviates(p, reference, 2 * t)
    BY <1>1, <1>2, <1>4 DEF Deviates
  <2>2. p # m
    BY <1>2, <1>4
  <2> QED  BY <2>1, <2>2 DEF Graded
<1> QED  BY <1>3, <1>4

-----------------------------------------------------------------------------
(* The verdict on an update (validateUpdate).                              *)

LEMMA SeveritiesAre ==
  ASSUME NEW u \in Entry, NEW past, NEW known
  PROVE  LET found == Severities(u, past, known)
         IN  /\ DOMAIN found = 1 .. 7
             /\ found[1] = Format(u) /\ found[2] = Positive(u)
             /\ found[3] = InRange(u) /\ found[4] = ZScore(u, past)
             /\ found[5] = FromRecent(u, past)
             /\ found[6] = FromOthers(u, known)
             /\ found[7] = FromConsensus(u, past)
  BY DEF Severities

(* An update with the price of a market in the accepted range, that the    *)
(* other sources and the history agree on, is valid: only its deviation    *)
(* from the recent mean may be grave.                                      *)
LEMMA AgreedIsValid ==
  ASSUME market \in Markets, MarketInRange,
         NEW u \in Entry, u.price = market, u.formed,
         NEW past, NEW known,
         FromOthers(u, known) = "none",
         FromConsensus(u, past) = "none"
  PROVE  ValidateUpdate(u, past, known).valid
<1> DEFINE found == Severities(u, past, known)
<1>1. Format(u) = "none" /\ Positive(u) = "none" /\ InRange(u) = "none"
  BY MarketAssumption DEF Format, Positive, InRange, MarketInRange
<1>2. ZScore(u, past) \in {"none", "medium"}
  BY DEF ZScore
<1>3. FromRecent(u, past) \in {"none", "medium", "high"}
  BY DEF FromRecent, Graded
<1>4. \A i \in DOMAIN found : /\ found[i] # "critical"
                              /\ found[i] = "high" => i = 5
  <2> HIDE DEF found
  <2>1. /\ DOMAIN found = 1 .. 7
        /\ found[1] = Format(u) /\ found[2] = Positive(u)
        /\ found[3] = InRange(u) /\ found[4] = ZScore(u, past)
        /\ found[5] = FromRecent(u, past)
        /\ found[6] = FromOthers(u, known)
        /\ found[7] = FromConsensus(u, past)
    BY SeveritiesAre DEF found
  <2>2. /\ found[1] = "none" /\ found[2] = "none" /\ found[3] = "none"
        /\ found[6] = "none" /\ found[7] = "none"
    BY <2>1, <1>1
  <2>3. found[4] \in {"none", "medium"} /\ found[5] \in {"none", "medium", "high"}
    BY <2>1, <1>2, <1>3
  <2>4. \A i \in 1 .. 7 : i \in {1, 2, 3, 4, 5, 6, 7}
    OBVIOUS
  <2> QED  BY <2>1, <2>2, <2>3, <2>4
<1> HIDE DEF found
<1>5. Errors(found, "critical") = 0
  <2>1. {i \in DOMAIN found : found[i] = "critical"} = {}
    BY <1>4
  <2> QED  BY <2>1, FS_EmptySet DEF Errors
<1>6. Errors(found, "high") <= 1
  <2>1. {i \in DOMAIN found : found[i] = "high"} \in SUBSET {5}
    BY <1>4
  <2>2. IsFiniteSet({5}) /\ Cardinality({5}) = 1
    BY FS_Singleton
  <2> QED  BY <2>1, <2>2, FS_Subset DEF Errors
<1> QED  BY <1>5, <1>6 DEF ValidateUpdate, found

(* Two grave errors are not forgiven.                                      *)
LEMMA DeviantIsInvalid ==
  ASSUME NEW u \in Entry, NEW past, NEW known,
         FromOthers(u, known) = "high",
         FromConsensus(u, past) = "high"
  PROVE  ~ValidateUpdate(u, past, known).valid
<1> DEFINE found == Severities(u, past, known)
           High == {i \in DOMAIN found : found[i] = "high"}
<1>1. DOMAIN found = 1 .. 7 /\ found[6] = "high" /\ found[7] = "high"
  BY SeveritiesAre
<1> HIDE DEF found
<1>2. {6, 7} \subseteq High
  BY <1>1
<1>3. IsFiniteSet(High)
  <2>1. High \in SUBSET (1 .. 7)
    BY <1>1
  <2>2. IsFiniteSet(1 .. 7)
    <3>1. 1 \in Int /\ 7 \in Int
      OBVIOUS
    <3> QED  BY <3>1, FS_Interval, Zenon
  <2> HIDE DEF High
  <2> QED  BY <2>1, <2>2, FS_Subset
<1>4. Cardinality({6, 7}) = 2
  <2>1. {6, 7} = {6} \cup {7} /\ 7 \notin {6}
    OBVIOUS
  <2>2. IsFiniteSet({6}) /\ Cardinality({6}) = 1
    BY FS_Singleton
  <2>3. Cardinality({6} \cup {7}) = Cardinality({6}) + 1
    BY <2>1, <2>2, FS_AddElement
  <2> QED  BY <2>1, <2>2, <2>3
<1>5. Cardinality(High) >= 2
  BY <1>2, <1>3, <1>4, FS_Subset, FS_CardinalityType
<1>6. ~ (Errors(found, "high") <= 1)
  <2>1. Errors(found, "high") = Cardinality(High)
    BY DEF Errors
  <2> HIDE DEF High
  <2> QED  BY <2>1, <1>3, <1>5, FS_CardinalityType
<1> QED  BY <1>6 DEF ValidateUpdate, found

-----------------------------------------------------------------------------
(* The tail entries of a history, counted from its end.                  *)

LEMMA LatestOf ==
  ASSUME NEW s \in Seq(Int), NEW w \in Nat \ {0}
  PROVE  /\ LastOf(w, s) \in Seq(Int)
         /\ Len(LastOf(w, s)) = IF Len(s) <= w THEN Len(s) ELSE w
         /\ \A k \in 0 .. Len(LastOf(w, s)) - 1 :
              LastOf(w, s)[Len(LastOf(w, s)) - k] = s[Len(s) - k]
<1>1. CASE Len(s) <= w
  BY <1>1 DEF LastOf
<1>2. CASE Len(s) > w
  <2> DEFINE from == Len(s) - w + 1
             tail == SubSeq(s, from, Len(s))
  <2>1. LastOf(w, s) = tail
    BY <1>2 DEF LastOf
  <2>2. from \in Int /\ Len(s) \in Int /\ \A i \in from .. Len(s) : s[i] \in Int
    BY <1>2
  <2>3. /\ tail \in Seq(Int)
        /\ Len(tail) = IF from <= Len(s) THEN Len(s) - from + 1 ELSE 0
        /\ \A i \in 1 .. Len(s) - from + 1 : tail[i] = s[from + i - 1]
    BY <2>2, SubSeqProperties
  <2> HIDE DEF tail
  <2>4. Len(tail) = w
    BY <2>3, <1>2
  <2>5. ASSUME NEW k \in 0 .. w - 1
        PROVE  tail[w - k] = s[Len(s) - k]
    <3>1. w - k \in 1 .. Len(s) - from + 1 /\ from + (w - k) - 1 = Len(s) - k
      OBVIOUS
    <3> QED  BY <3>1, <2>3
  <2> QED  BY <1>2, <2>1, <2>3, <2>4, <2>5
<1> QED  BY <1>1, <1>2

LEMMA LatestOfMany ==
  ASSUME NEW s \in Seq(Int), NEW w \in Nat \ {0}, Len(s) >= w
  PROVE  LET l == LastOf(w, s)
         IN  /\ l \in Seq(Int) /\ DOMAIN l = 1 .. w
             /\ \A i \in 1 .. w : l[i] = s[Len(s) - (w - i)] /\ l[i] \in Int
<1>1. PICK l \in Seq(Int) :
        /\ l = LastOf(w, s)
        /\ Len(l) = IF Len(s) <= w THEN Len(s) ELSE w
        /\ \A k \in 0 .. Len(l) - 1 : l[Len(l) - k] = s[Len(s) - k]
  BY LatestOf, Zenon
<1>2. Len(l) = w /\ DOMAIN l = 1 .. w
  BY <1>1
<1>3. ASSUME NEW i \in 1 .. w
      PROVE  l[i] = s[Len(s) - (w - i)] /\ l[i] \in Int
  <2>1. w - i \in 0 .. Len(l) - 1 /\ Len(l) - (w - i) = i
    BY <1>2
  <2>2. l[i] = s[Len(s) - (w - i)]
    BY <1>1, <2>1
  <2>3. l[i] \in Int
    BY <1>2
  <2> QED  BY <2>2, <2>3
<1> QED  BY <1>1, <1>2, <1>3, Zenon

LEMMA LatestAppended ==
  ASSUME NEW s \in Seq(Int), NEW p \in Seq(Int), NEW w \in Nat \ {0}
  PROVE  LET l == LastOf(w, s \o p)
         IN  /\ l \in Seq(Int)
             /\ Len(l) = IF Len(s) + Len(p) <= w THEN Len(s) + Len(p) ELSE w
             /\ \A k \in 0 .. Len(l) - 1 :
                  l[Len(l) - k] = IF k < Len(p) THEN p[Len(p) - k]
                                  ELSE s[Len(s) - (k - Len(p))]
<1> DEFINE l == LastOf(w, s \o p)
<1>1. /\ s \o p \in Seq(Int)
      /\ Len(s \o p) = Len(s) + Len(p)
      /\ \A i \in 1 .. Len(s) + Len(p) :
           (s \o p)[i] = IF i <= Len(s) THEN s[i] ELSE p[i - Len(s)]
  BY ConcatProperties
<1>2. /\ l \in Seq(Int)
      /\ Len(l) = IF Len(s) + Len(p) <= w THEN Len(s) + Len(p) ELSE w
      /\ \A k \in 0 .. Len(l) - 1 : l[Len(l) - k] = (s \o p)[Len(s) + Len(p) - k]
  <2>1. /\ l \in Seq(Int)
        /\ Len(l) = IF Len(s \o p) <= w THEN Len(s \o p) ELSE w
        /\ \A k \in 0 .. Len(l) - 1 : l[Len(l) - k] = (s \o p)[Len(s \o p) - k]
    BY <1>1, LatestOf, Zenon
  <2>2. Len(s \o p) = Len(s) + Len(p)
    BY <1>1
  <2> HIDE DEF l
  <2> QED  BY <2>1, <2>2
<1> HIDE DEF l
<1>3. Len(s) \in Nat /\ Len(p) \in Nat
  OBVIOUS
<1>4. ASSUME NEW k \in 0 .. Len(l) - 1
      PROVE  l[Len(l) - k] = IF k < Len(p) THEN p[Len(p) - k]
                             ELSE s[Len(s) - (k - Len(p))]
  <2>1. Len(s) + Len(p) - k \in 1 .. Len(s) + Len(p)
    BY <1>2, <1>3
  <2>2. l[Len(l) - k] = IF Len(s) + Len(p) - k <= Len(s) THEN s[Len(s) + Len(p) - k]
                        ELSE p[Len(s) + Len(p) - k - Len(s)]
    BY <2>1, <1>1, <1>2
  <2>3. CASE k < Len(p)
    <3>1. ~ (Len(s) + Len(p) - k <= Len(s)) /\ Len(s) + Len(p) - k - Len(s) = Len(p) - k
      BY <1>3, <2>3
    <3> QED  BY <2>2, <2>3, <3>1
  <2>4. CASE ~ (k < Len(p))
    <3>1. /\ Len(s) + Len(p) - k <= Len(s)
          /\ Len(s) + Len(p) - k = Len(s) - (k - Len(p))
      BY <1>3, <2>4
    <3> QED  BY <2>2, <2>4, <3>1
  <2> QED  BY <2>3, <2>4
<1> QED  BY <1>2, <1>4 DEF l

-----------------------------------------------------------------------------
(* Three mistakes among the last ten prices leave the median at the price  *)
(* of the market.                                                          *)

LEMMA SourcesAre == IsFiniteSet(Sources) /\ Cardinality(Sources) = Size
<1>1. Sources = 0 .. HonestCount
  BY SourceAssumption DEF Sources, Honest, Faulty
<1>2. 0 \in Int /\ HonestCount \in Int /\ ~ (0 > HonestCount)
  BY SourceAssumption
<1>3. Cardinality(0 .. HonestCount) = HonestCount - 0 + 1 /\ IsFiniteSet(0 .. HonestCount)
  BY <1>2, FS_Interval, Zenon
<1> QED  BY <1>1, <1>3, SourceAssumption DEF Size

LEMMA ReportedCount ==
  ASSUME reported \subseteq Sources
  PROVE  /\ IsFiniteSet(reported)
         /\ Cardinality(reported) \in 0 .. Size
         /\ Size \in Nat /\ Size >= 5
         /\ Cardinality(reported) = Size <=> reported = Sources
         /\ Cardinality(reported) = 0 <=> reported = {}
<1>1. IsFiniteSet(reported) /\ Cardinality(reported) <= Cardinality(Sources)
      /\ (Cardinality(Sources) = Cardinality(reported) => Sources = reported)
  BY SourcesAre, FS_Subset
<1>2. Cardinality(reported) \in Nat
  BY <1>1, FS_CardinalityType
<1>3. Cardinality(reported) = 0 <=> reported = {}
  BY <1>1, FS_EmptySet
<1>4. Size \in Nat /\ Size >= 5
  BY SourceAssumption DEF Size
<1> QED  BY <1>1, <1>2, <1>3, <1>4, SourcesAre

LEMMA HistoryAgrees ==
  ASSUME ValidationTypes, RegularHistory, steady > 2,
         NEW u \in Entry
  PROVE  /\ u.price = market => FromConsensus(u, history) = "none"
         /\ 25 * Difference(u.price, market) > market =>
              FromConsensus(u, history) = "high"
<1> DEFINE tail == LastOf(10, history)
           recent == RestrictValues(tail, LAMBDA p : p > 0)
           n == Cardinality(reported)
           Bad == {i \in 1 .. 10 : tail[i] # market}
           Right == {i \in 1 .. 10 : tail[i] = market}
           round == [i \in Bad |-> IF 10 - i < n THEN 0
                                     ELSE IF 10 - i < n + Size THEN 1 ELSE 2]
<1>1. /\ n \in Nat /\ Size \in Nat /\ Size >= 5
      /\ history \in Seq(Int) /\ Len(history) \in Nat /\ Len(history) >= 10
      /\ OneOff(0, n) /\ OneOff(n, n + Size) /\ OneOff(n + Size, n + 2 * Size)
  BY ReportedCount DEF ValidationTypes, RegularHistory
<1>2. market \in Nat \ {0} /\ market \in Int
  BY MarketAssumption DEF ValidationTypes
<1>3. /\ DOMAIN tail = 1 .. 10
      /\ \A i \in 1 .. 10 : tail[i] = history[Len(history) - (10 - i)] /\ tail[i] \in Int
  <2>1. 10 \in Nat \ {0}
    OBVIOUS
  <2> QED  BY <1>1, <2>1, LatestOfMany, Zenon
<1> HIDE DEF tail
<1>4. IsFiniteSet(1 .. 10) /\ Cardinality(1 .. 10) = 10
  <2>1. 1 \in Int /\ 10 \in Int /\ ~ (1 > 10)
    OBVIOUS
  <2>2. IsFiniteSet(1 .. 10) /\ Cardinality(1 .. 10) = 10 - 1 + 1
    BY <2>1, FS_Interval, Zenon
  <2> QED  BY <2>2
<1>5. IsFiniteSet(Bad) /\ Cardinality(Bad) \in Nat /\ Cardinality(Bad) <= 3
  <2>1. round \in [Bad -> 0 .. 2]
    OBVIOUS
  <2>2. ASSUME NEW i \in Bad, NEW j \in Bad, round[i] = round[j]
        PROVE  i = j
    <3>1. /\ i \in 1 .. 10 /\ j \in 1 .. 10
          /\ Wrong(history, market, 10 - i) /\ Wrong(history, market, 10 - j)
      <4>1. i \in 1 .. 10 /\ j \in 1 .. 10 /\ tail[i] # market /\ tail[j] # market
        OBVIOUS
      <4>2. /\ history[Len(history) - (10 - i)] # market
            /\ history[Len(history) - (10 - j)] # market
        BY <4>1, <1>3, Zenon
      <4>3. 10 - i < Len(history) /\ 10 - j < Len(history)
        <5> HIDE DEF Bad
        <5> QED  BY <4>1, <1>1
      <4> QED  BY <4>1, <4>2, <4>3, Zenon DEF Wrong
    <3>2. \/ 10 - i \in 0 .. n - 1 /\ 10 - j \in 0 .. n - 1
          \/ 10 - i \in n .. n + Size - 1 /\ 10 - j \in n .. n + Size - 1
          \/ /\ 10 - i \in n + Size .. n + 2 * Size - 1
             /\ 10 - j \in n + Size .. n + 2 * Size - 1
      <4>1. (IF 10 - i < n THEN 0 ELSE IF 10 - i < n + Size THEN 1 ELSE 2)
              = (IF 10 - j < n THEN 0 ELSE IF 10 - j < n + Size THEN 1 ELSE 2)
        BY <2>2, Zenon
      <4>2. i \in 1 .. 10 /\ j \in 1 .. 10
        BY <3>1
      <4> HIDE DEF n, Bad
      <4> QED  BY <4>1, <4>2, <1>1
    <3>3. 10 - i = 10 - j
      <4> HIDE DEF n, Bad
      <4> USE <3>1, <1>1 DEF OneOff, OneWrong
      <4>1. CASE 10 - i \in 0 .. n - 1 /\ 10 - j \in 0 .. n - 1
        BY <4>1
      <4>2. CASE 10 - i \in n .. n + Size - 1 /\ 10 - j \in n .. n + Size - 1
        BY <4>2
      <4>3. CASE /\ 10 - i \in n + Size .. n + 2 * Size - 1
                 /\ 10 - j \in n + Size .. n + 2 * Size - 1
        BY <4>3
      <4> QED  BY <3>2, <4>1, <4>2, <4>3
    <3> QED  BY <3>1, <3>3
  <2>3. round \in Injection(Bad, 0 .. 2)
    BY <2>1, <2>2 DEF Injection, IsInjective
  <2>4. IsFiniteSet(0 .. 2) /\ Cardinality(0 .. 2) = 3
    <3>1. 0 \in Int /\ 2 \in Int /\ ~ (0 > 2)
      OBVIOUS
    <3>2. IsFiniteSet(0 .. 2) /\ Cardinality(0 .. 2) = 2 - 0 + 1
      BY <3>1, FS_Interval, Zenon
    <3> QED  BY <3>2
  <2> HIDE DEF round, Bad
  <2> QED  BY <2>3, <2>4, FS_Injection, FS_CardinalityType
<1>6. IsFiniteSet(Right) /\ Cardinality(Right) \in Nat /\ Cardinality(Right) >= 7
  <2>1. Right \in SUBSET (1 .. 10) /\ Right \cup Bad = 1 .. 10 /\ Right \cap Bad = {}
    OBVIOUS
  <2> HIDE DEF Right, Bad
  <2>2. IsFiniteSet(Right) /\ Cardinality(Right) \in Nat
    BY <2>1, <1>4, FS_Subset, FS_CardinalityType
  <2>3. Cardinality(Right \cup Bad)
          = Cardinality(Right) + Cardinality(Bad) - Cardinality(Right \cap Bad)
    BY <2>2, <1>5, FS_Union
  <2>4. Cardinality(Right \cap Bad) = 0
    BY <2>1, FS_EmptySet
  <2>5. Cardinality(Right \cup Bad) = 10
    BY <2>1, <1>4, Zenon
  <2>6. Cardinality(Bad) \in Nat /\ Cardinality(Bad) <= 3
    BY <1>5
  <2> QED  BY <2>2, <2>3, <2>4, <2>5, <2>6
<1>7. /\ DOMAIN recent = {i \in 1 .. 10 : tail[i] > 0}
      /\ \A i \in DOMAIN recent : recent[i] = tail[i]
  BY <1>3 DEF RestrictValues, Restrict
<1> HIDE DEF recent
<1>8. Right = {i \in DOMAIN recent : recent[i] = market}
  BY <1>2, <1>7
<1>9. IsFiniteSet(DOMAIN recent) /\ Cardinality(DOMAIN recent) \in Nat
      /\ Cardinality(DOMAIN recent) <= 10
  <2>1. DOMAIN recent \in SUBSET (1 .. 10)
    BY <1>7
  <2> QED  BY <2>1, <1>4, FS_Subset, FS_CardinalityType
<1>10. \A i \in DOMAIN recent : recent[i] \in Int
  BY <1>3, <1>7
<1>11. Median(recent) = [num |-> market + market, den |-> 2]
  <2>1. 2 * Cardinality({i \in DOMAIN recent : recent[i] = market})
          > Cardinality(DOMAIN recent)
    <3> HIDE DEF Right
    <3> QED  BY <1>6, <1>8, <1>9
  <2> QED  BY <1>2, <1>9, <1>10, <2>1, MedianOfMost
<1>12. DOMAIN recent # {}
  <2>1. Right # {}
    <3> HIDE DEF Right
    <3> QED  BY <1>6, FS_EmptySet
  <2> QED  BY <2>1, <1>8
<1>13. FromConsensus(u, history)
         = Graded(u.price, [num |-> market + market, den |-> 2], 5)
  BY <1>11, <1>12 DEF FromConsensus, recent, tail
<1>14. u.price \in Int
  BY DEF Entry
<1> QED  BY <1>2, <1>13, <1>14, GradedByMarket

-----------------------------------------------------------------------------
(* What an update of a source is compared with after regular rounds: of    *)
(* each round at most one update of each source, the market price of the   *)
(* honest ones, all of which are there, of the rounds that have ended.     *)

RegularKnown(known, s) ==
  /\ known \subseteq Entry /\ IsFiniteSet(known)
  /\ \A v \in known : v.source \in Honest => v.price = market
  /\ \A v, w \in known : v.source = w.source /\ v.age = w.age => v = w
  /\ \A v \in known, r \in Honest \ {s} :
       v.age > 0 => \E w \in known : w.source = r /\ w.age = v.age
  /\ \A r \in Honest \ {s} : \E w \in known : w.source = r /\ w.age = 1

(* There are as many updates of an honest source in the rounds that have   *)
(* ended as there are of the faulty one.                                   *)
LEMMA AsManyAsFaulty ==
  ASSUME NEW known, NEW s, RegularKnown(known, s),
         NEW r \in Honest \ {s}
  PROVE  LET Theirs == {v \in known : v.source = r /\ v.age > 0}
             Bad  == {v \in known : v.source = Faulty /\ v.age > 0}
         IN  /\ IsFiniteSet(Theirs) /\ Cardinality(Theirs) \in Nat
             /\ Cardinality(Theirs) >= 1
             /\ Cardinality(Bad) <= Cardinality(Theirs)
<1> DEFINE Theirs == {v \in known : v.source = r /\ v.age > 0}
           Bad == {v \in known : v.source = Faulty /\ v.age > 0}
           f == [v \in Bad |-> CHOOSE w \in known : w.source = r /\ w.age = v.age]
<1>1. IsFiniteSet(Theirs) /\ Cardinality(Theirs) \in Nat
  BY FS_Subset, FS_CardinalityType DEF RegularKnown
<1>2. Theirs # {}
  <2>1. PICK w \in known : w.source = r /\ w.age = 1
    BY DEF RegularKnown
  <2>2. w \in Theirs
    BY <2>1
  <2> QED  BY <2>2
<1>3. ASSUME NEW v \in Bad
      PROVE  f[v] \in known /\ f[v].source = r /\ f[v].age = v.age
  BY DEF RegularKnown
<1>4. f \in [Bad -> Theirs]
  BY <1>3
<1>5. ASSUME NEW v \in Bad, NEW w \in Bad, f[v] = f[w]
      PROVE  v = w
  <2>1. v.age = w.age
    BY <1>3, <1>5
  <2> QED  BY <2>1 DEF RegularKnown
<1>6. f \in Injection(Bad, Theirs)
  BY <1>4, <1>5 DEF Injection, IsInjective
<1>7. Cardinality(Bad) <= Cardinality(Theirs)
  <2> HIDE DEF f, Bad, Theirs
  <2> QED  BY <1>1, <1>6, FS_Injection
<1>8. Cardinality(Theirs) >= 1
  <2> HIDE DEF Theirs
  <2> QED  BY <1>1, <1>2, FS_EmptySet
<1> QED  BY <1>1, <1>7, <1>8

(* Three other honest sources outweigh the faulty one, though it may have  *)
(* reported in this round and they have not.                               *)
LEMMA HonestMajority ==
  ASSUME market \in Int,
         NEW known, NEW h \in Honest, RegularKnown(known, h)
  PROVE  LET others == {v \in known : v.source # h}
         IN  2 * Cardinality({v \in others : v.price = market})
               > Cardinality(others)
<1> DEFINE others == {v \in known : v.source # h}
           Right == {v \in others : v.price = market}
           Bad == {v \in others : v.price # market}
           Past == {v \in known : v.source = Faulty /\ v.age > 0}
           Now == {v \in known : v.source = Faulty /\ v.age = 0}
           Of(r) == {v \in known : v.source = r /\ v.age > 0}
<1>1. PICK p \in Honest \ {h}, q \in Honest \ {h}, r \in Honest \ {h} :
        p # q /\ p # r /\ q # r
  <2>1. {1, 2, 3, 4} \subseteq Honest /\ h \in Int
    BY SourceAssumption DEF Honest
  <2>2. CASE h = 1
    BY <2>1, <2>2
  <2>3. CASE h = 2
    BY <2>1, <2>3
  <2>4. CASE h = 3
    BY <2>1, <2>4
  <2>5. CASE h \notin {1, 2, 3}
    BY <2>1, <2>5
  <2> QED  BY <2>2, <2>3, <2>4, <2>5
<1>2. IsFiniteSet(known) /\ known \subseteq Entry
  BY DEF RegularKnown
<1>3. Faulty \notin Honest
  BY DEF Faulty, Honest
<1>4. \A v \in known : v.source = Faulty \/ v.source \in Honest
  BY <1>2 DEF Entry, Sources
<1>5. /\ IsFiniteSet(others) /\ Cardinality(others) \in Nat
      /\ IsFiniteSet(Right) /\ Cardinality(Right) \in Nat
      /\ IsFiniteSet(Bad) /\ Cardinality(Bad) \in Nat
      /\ IsFiniteSet(Past) /\ Cardinality(Past) \in Nat
      /\ IsFiniteSet(Now) /\ Cardinality(Now) \in Nat
  BY <1>2, FS_Subset, FS_CardinalityType
<1>6. ASSUME NEW x \in Honest \ {h}
      PROVE  /\ IsFiniteSet(Of(x)) /\ Cardinality(Of(x)) \in Nat
             /\ Cardinality(Of(x)) >= 1 /\ Cardinality(Past) <= Cardinality(Of(x))
  BY AsManyAsFaulty
<1>7. Cardinality(others) = Cardinality(Right) + Cardinality(Bad)
  <2>1. others = Right \cup Bad /\ Right \cap Bad = {}
    OBVIOUS
  <2> HIDE DEF others, Right, Bad
  <2>2. Cardinality(Right \cup Bad)
          = Cardinality(Right) + Cardinality(Bad) - Cardinality(Right \cap Bad)
    BY <1>5, FS_Union
  <2>3. Cardinality(Right \cap Bad) = 0
    BY <2>1, FS_EmptySet
  <2> QED  BY <2>1, <2>2, <2>3, <1>5
<1>8. Cardinality(Now) <= 1
  <2>1. \A v, w \in Now : v = w
    BY DEF RegularKnown
  <2>2. Now = {} \/ \E v : Now = {v}
    BY <2>1
  <2>3. Cardinality({}) = 0 /\ \A v : Cardinality({v}) = 1
    BY FS_EmptySet, FS_Singleton
  <2>4. Cardinality(Now) = 0 \/ Cardinality(Now) = 1
    <3> HIDE DEF Now
    <3> QED  BY <2>2, <2>3, Zenon
  <2> QED  BY <2>4
<1>9. Cardinality(Bad) <= Cardinality(Past) + 1
  <2>1. Bad \subseteq Past \cup Now
    <3>1. \A v \in Bad : v.source = Faulty
      BY <1>4 DEF RegularKnown
    <3>2. \A v \in known : v.age > 0 \/ v.age = 0
      BY <1>2 DEF Entry
    <3> QED  BY <3>1, <3>2
  <2>2. Past \cap Now = {}
    OBVIOUS
  <2> HIDE DEF Bad, Past, Now
  <2>3. IsFiniteSet(Past \cup Now)
        /\ Cardinality(Past \cup Now)
             = Cardinality(Past) + Cardinality(Now) - Cardinality(Past \cap Now)
    BY <1>5, FS_Union
  <2>4. Cardinality(Past \cap Now) = 0
    BY <2>2, FS_EmptySet
  <2>5. Cardinality(Bad) <= Cardinality(Past \cup Now)
    BY <2>1, <2>3, FS_Subset
  <2> QED  BY <2>3, <2>4, <2>5, <1>5, <1>8
<1>10. Cardinality(Right) >= Cardinality(Of(p)) + Cardinality(Of(q)) + Cardinality(Of(r))
  <2>1. /\ Of(p) \cap Of(q) = {} /\ (Of(p) \cup Of(q)) \cap Of(r) = {}
    BY <1>1
  <2>2. (Of(p) \cup Of(q)) \cup Of(r) \subseteq Right
    BY <1>1, <1>3 DEF RegularKnown
  <2>3. /\ IsFiniteSet(Of(p)) /\ Cardinality(Of(p)) \in Nat
        /\ IsFiniteSet(Of(q)) /\ Cardinality(Of(q)) \in Nat
        /\ IsFiniteSet(Of(r)) /\ Cardinality(Of(r)) \in Nat
    BY <1>1, <1>6
  <2> HIDE DEF Of, Right
  <2>4. /\ IsFiniteSet(Of(p) \cup Of(q))
        /\ Cardinality(Of(p) \cup Of(q)) = Cardinality(Of(p)) + Cardinality(Of(q))
    <3>1. /\ IsFiniteSet(Of(p) \cup Of(q))
          /\ Cardinality(Of(p) \cup Of(q))
               = Cardinality(Of(p)) + Cardinality(Of(q)) - Cardinality(Of(p) \cap Of(q))
      BY <2>3, FS_Union
    <3>2. Cardinality(Of(p) \cap Of(q)) = 0
      BY <2>1, FS_EmptySet
    <3> QED  BY <2>3, <3>1, <3>2
  <2>5. Cardinality((Of(p) \cup Of(q)) \cup Of(r))
          = Cardinality(Of(p)) + Cardinality(Of(q)) + Cardinality(Of(r))
    <3>1. Cardinality((Of(p) \cup Of(q)) \cup Of(r))
            = Cardinality(Of(p) \cup Of(q)) + Cardinality(Of(r))
                - Cardinality((Of(p) \cup Of(q)) \cap Of(r))
      BY <2>3, <2>4, FS_Union
    <3>2. Cardinality((Of(p) \cup Of(q)) \cap Of(r)) = 0
      BY <2>1, FS_EmptySet
    <3> QED  BY <2>3, <2>4, <3>1, <3>2
  <2>6. Cardinality((Of(p) \cup Of(q)) \cup Of(r)) <= Cardinality(Right)
    BY <2>2, <1>5, FS_Subset
  <2> QED  BY <2>5, <2>6
<1>11. 2 * Cardinality(Right) > Cardinality(others)
  <2>1. /\ Cardinality(Of(p)) \in Nat /\ Cardinality(Of(p)) >= 1
        /\ Cardinality(Of(q)) \in Nat /\ Cardinality(Of(q)) >= 1
        /\ Cardinality(Of(r)) \in Nat /\ Cardinality(Of(r)) >= 1
        /\ Cardinality(Past) <= Cardinality(Of(p))
        /\ Cardinality(Past) <= Cardinality(Of(q))
    BY <1>1, <1>6
  <2> HIDE DEF Of, Right, others, Bad, Past
  <2> QED  BY <2>1, <1>5, <1>7, <1>9, <1>10
<1> QED  BY <1>11

LEMMA OthersAgree ==
  ASSUME market \in Markets,
         NEW u \in Entry, u.source \in Honest, u.price = market,
         NEW known, RegularKnown(known, u.source)
  PROVE  FromOthers(u, known) = "none"
<1> DEFINE others == {v \in known : v.source # u.source}
           prices == [v \in others |-> v.price]
<1>1. market \in Nat \ {0}
  BY MarketAssumption
<1>2. others \subseteq Entry /\ IsFiniteSet(others)
  BY FS_Subset DEF RegularKnown
<1>3. 2 * Cardinality({v \in others : v.price = market}) > Cardinality(others)
  BY <1>1, HonestMajority
<1>4. {v \in DOMAIN prices : prices[v] = market} = {v \in others : v.price = market}
  OBVIOUS
<1>5. /\ IsFiniteSet(DOMAIN prices) /\ DOMAIN prices = others
      /\ \A v \in DOMAIN prices : prices[v] \in Int
  BY <1>2 DEF Entry
<1>6. 2 * Cardinality({v \in DOMAIN prices : prices[v] = market})
        > Cardinality(DOMAIN prices)
  BY <1>3, <1>4, <1>5, Zenon
<1>7. Median(prices) = [num |-> market + market, den |-> 2]
  <2> HIDE DEF prices
  <2> QED  BY <1>1, <1>5, <1>6, MedianOfMost
<1>8. Graded(u.price, Median(prices), 20) = "none"
  <2> HIDE DEF prices
  <2> QED  BY <1>1, <1>7, GradedByMarket
<1> QED  BY <1>8 DEF FromOthers

LEMMA OthersDiffer ==
  ASSUME market \in Markets,
         NEW u \in Entry, u.source = Faulty,
         25 * Difference(u.price, market) > market,
         NEW known, RegularKnown(known, Faulty)
  PROVE  FromOthers(u, known) = "high"
<1> DEFINE others == {v \in known : v.source # u.source}
           prices == [v \in others |-> v.price]
<1>1. market \in Nat \ {0}
  BY MarketAssumption
<1>2. IsFiniteSet(known) /\ others \subseteq Entry /\ IsFiniteSet(others)
  BY FS_Subset DEF RegularKnown
<1>3. \A v \in others : v.price = market
  BY <1>2 DEF RegularKnown, Entry, Sources
<1>4. Cardinality(others) \in Nat /\ Cardinality(others) >= 3
  <2>1. {1, 2, 3} \subseteq Honest \ {Faulty}
    BY SourceAssumption DEF Honest, Faulty
  <2>2. PICK x \in known : x.source = 1
    BY <2>1 DEF RegularKnown
  <2>3. PICK y \in known : y.source = 2
    BY <2>1 DEF RegularKnown
  <2>4. PICK z \in known : z.source = 3
    BY <2>1 DEF RegularKnown
  <2>5. x # y /\ z # x /\ z # y
    BY <2>2, <2>3, <2>4
  <2>6. {x, y, z} \subseteq others
    BY <2>2, <2>3, <2>4 DEF Faulty
  <2>7. Cardinality({x, y, z}) = 3
    <3>1. {x, y} = {x} \cup {y} /\ {x, y, z} = {x, y} \cup {z}
      OBVIOUS
    <3>2. IsFiniteSet({x}) /\ Cardinality({x}) = 1
      BY FS_Singleton
    <3>3. IsFiniteSet({x, y}) /\ Cardinality({x, y}) = 2
      <4>1. IsFiniteSet({x} \cup {y}) /\ Cardinality({x} \cup {y}) = Cardinality({x}) + 1
        BY <2>5, <3>2, FS_AddElement
      <4> QED  BY <3>1, <3>2, <4>1
    <3>4. Cardinality({x, y} \cup {z}) = Cardinality({x, y}) + 1
      <4>1. z \notin {x, y}
        BY <2>5
      <4> QED  BY <4>1, <3>3, FS_AddElement
    <3> QED  BY <3>1, <3>3, <3>4
  <2> HIDE DEF others
  <2> QED  BY <1>2, <2>6, <2>7, FS_Subset, FS_CardinalityType
<1>5. ~ (Cardinality(known) < 3) /\ others # {}
  <2>1. others \in SUBSET known
    OBVIOUS
  <2> HIDE DEF others
  <2>2. Cardinality(others) <= Cardinality(known) /\ Cardinality(known) \in Nat
    BY <1>2, <2>1, FS_Subset, FS_CardinalityType
  <2>3. others = {} => Cardinality(others) = 0
    BY FS_EmptySet, Zenon
  <2> QED  BY <1>4, <2>2, <2>3
<1>6. {v \in DOMAIN prices : prices[v] = market} = others
  BY <1>3
<1>7. /\ IsFiniteSet(DOMAIN prices) /\ DOMAIN prices = others
      /\ \A v \in DOMAIN prices : prices[v] \in Int
  BY <1>2 DEF Entry
<1>8. 2 * Cardinality({v \in DOMAIN prices : prices[v] = market})
        > Cardinality(DOMAIN prices)
  <2>1. 2 * Cardinality(others) > Cardinality(others)
    <3> HIDE DEF others
    <3> QED  BY <1>4
  <2> QED  BY <2>1, <1>6, <1>7, Zenon
<1>9. Median(prices) = [num |-> market + market, den |-> 2]
  <2> HIDE DEF prices
  <2> QED  BY <1>1, <1>7, <1>8, MedianOfMost
<1>10. Graded(u.price, Median(prices), 20) = "high"
  <2>1. u.price \in Int
    BY DEF Entry
  <2> HIDE DEF prices
  <2> QED  BY <1>1, <1>9, <2>1, GradedByMarket
<1> QED  BY <1>5, <1>10 DEF FromOthers

-----------------------------------------------------------------------------
(* What updates are compared with, when they come one by one or in a       *)
(* batch, is that.                                                         *)

LEMMA KnownToReport ==
  ASSUME ValidationTypes, NoneTooOld, RegularStored, steady = Regular,
         NEW u \in Entry, u.formed
  PROVE  RegularKnown(CrossSourcePrices(u), u.source)
<1> DEFINE known == CrossSourcePrices(u)
<1>1. /\ known \subseteq crossSource /\ crossSource \subseteq Entry
      /\ IsFiniteSet(crossSource)
  BY DEF ValidationTypes, CrossSourcePrices, Recent
<1>2. IsFiniteSet(known)
  BY <1>1, FS_Subset
<1>3. ASSUME NEW v \in known
      PROVE  /\ v.age \in Nat /\ v.age < CrossSourceWindow /\ steady > v.age
             /\ v \in OfAge(v.age)
  BY <1>1, WindowAssumption DEF CrossSourcePrices, Recent, Entry, Regular, OfAge
<1>4. \A v \in known : v.source \in Honest => v.price = market
  BY <1>3 DEF RegularStored, HonestIn
<1>5. ASSUME NEW v \in known, NEW w \in known, v.source = w.source, v.age = w.age
      PROVE  v = w
  BY <1>3, <1>5 DEF RegularStored, OncePerSource
<1>6. ASSUME NEW a \in Nat, a > 0, a < CrossSourceWindow,
             NEW r \in Honest \ {u.source}, Reporting(OfAge(a)) = Sources
      PROVE  \E w \in known : w.source = r /\ w.age = a
  <2>1. PICK w \in OfAge(a) : w.source = r
    BY <1>6 DEF Reporting, Sources
  <2>2. w \in crossSource /\ w.age = a
    BY DEF OfAge
  <2>3. w.formed
    <3>1. steady > a
      BY <1>6, WindowAssumption DEF Regular
    <3> QED  BY <2>1, <3>1 DEF RegularStored, HonestIn
  <2>4. w.formed = u.formed
    BY <2>2, <2>3, <1>1 DEF Entry
  <2>5. w \in known
    BY <1>6, <2>1, <2>2, <2>4 DEF CrossSourcePrices, Recent
  <2> QED  BY <2>1, <2>2, <2>5
<1>7. ASSUME NEW v \in known, NEW r \in Honest \ {u.source}, v.age > 0
      PROVE  \E w \in known : w.source = r /\ w.age = v.age
  <2>1. v.source \in Reporting(OfAge(v.age))
    BY <1>3 DEF Reporting
  <2>2. Reporting(OfAge(v.age)) = Sources
    BY <1>3, <1>7, <2>1 DEF RegularStored
  <2> QED  BY <1>3, <1>6, <1>7, <2>2
<1>8. ASSUME NEW r \in Honest \ {u.source}
      PROVE  \E w \in known : w.source = r /\ w.age = 1
  <2>1. 1 < CrossSourceWindow /\ steady > 1
    BY WindowAssumption DEF Regular
  <2>2. Reporting(OfAge(1)) = Sources
    BY <2>1 DEF RegularStored
  <2> QED  BY <1>6, <2>1, <2>2
<1> HIDE DEF known
<1> QED  BY <1>1, <1>2, <1>4, <1>5, <1>7, <1>8 DEF RegularKnown, known

(* The updates of a round, or of a part of it.                             *)
InRound(us) ==
  /\ us \in Seq(Entry)
  /\ \A i \in DOMAIN us : us[i].age = 0 /\ us[i].source \notin reported
  /\ \A i \in DOMAIN us : us[i].source \in Honest => us[i].price = market /\ us[i].formed
  /\ \A i, j \in DOMAIN us : us[i].source = us[j].source => i = j

LEMMA KnownToBatch ==
  ASSUME ValidationTypes, NoneTooOld, RegularStored, steady = Regular,
         reported = {}, NEW us, InRound(us), NEW s
  PROVE  RegularKnown(crossSource \cup Range(us), s)
<1> DEFINE known == crossSource \cup Range(us)
<1>1. /\ crossSource \subseteq Entry /\ IsFiniteSet(crossSource)
      /\ \A v \in crossSource : v.age # 0 /\ v.age <= CrossSourceWindow
  BY WindowAssumption DEF ValidationTypes, NoneTooOld, Regular
<1>2. /\ us \in Seq(Entry) /\ DOMAIN us = 1 .. Len(us) /\ Len(us) \in Nat
      /\ \A v \in Range(us) : v.age = 0 /\ v \in Entry
  BY DEF InRound, Range
<1>3. IsFiniteSet(Range(us))
  <2>1. IsFiniteSet(DOMAIN us)
    <3>1. 1 \in Int /\ Len(us) \in Int
      BY <1>2
    <3>2. IsFiniteSet(1 .. Len(us))
      BY <3>1, FS_Interval, Zenon
    <3> QED  BY <1>2, <3>2, Zenon
  <2>2. us \in Surjection(DOMAIN us, Range(us))
    BY <1>2 DEF Surjection, Range
  <2> QED  BY <2>1, <2>2, FS_Surjection, Zenon
<1>4. known \subseteq Entry /\ IsFiniteSet(known)
  BY <1>1, <1>2, <1>3, FS_Union
<1>5. ASSUME NEW v \in crossSource
      PROVE  v.age \in Nat \ {0} /\ steady > v.age /\ v \in OfAge(v.age)
  BY <1>1, WindowAssumption DEF Entry, Regular, OfAge
<1>6. \A v \in known : v.source \in Honest => v.price = market
  <2>1. \A v \in crossSource : v.source \in Honest => v.price = market
    BY <1>5 DEF RegularStored, HonestIn
  <2>2. \A v \in Range(us) : v.source \in Honest => v.price = market
    BY DEF InRound, Range
  <2> QED  BY <2>1, <2>2
<1>7. ASSUME NEW v \in known, NEW w \in known, v.source = w.source, v.age = w.age
      PROVE  v = w
  <2>1. CASE v \in crossSource /\ w \in crossSource
    BY <1>5, <1>7, <2>1 DEF RegularStored, OncePerSource
  <2>2. CASE v \in Range(us) /\ w \in Range(us)
    BY <1>7, <2>2 DEF InRound, Range
  <2>3. v \in crossSource <=> w \in crossSource
    BY <1>1, <1>2, <1>7
  <2> QED  BY <2>1, <2>2, <2>3
<1>8. ASSUME NEW a \in Nat, NEW r \in Honest, Reporting(OfAge(a)) = Sources
      PROVE  \E w \in known : w.source = r /\ w.age = a
  BY <1>8 DEF Reporting, OfAge, Sources
<1>9. ASSUME NEW v \in known, NEW r \in Honest \ {s}, v.age > 0
      PROVE  \E w \in known : w.source = r /\ w.age = v.age
  <2>1. v \in crossSource
    BY <1>2, <1>9
  <2>2. v.source \in Reporting(OfAge(v.age))
    BY <1>5, <2>1 DEF Reporting
  <2>3. Reporting(OfAge(v.age)) = Sources
    BY <1>5, <2>1, <2>2 DEF RegularStored
  <2> QED  BY <1>5, <1>8, <2>1, <2>3
<1>10. ASSUME NEW r \in Honest \ {s}
       PROVE  \E w \in known : w.source = r /\ w.age = 1
  <2>1. steady > 1
    BY WindowAssumption DEF Regular
  <2>2. Reporting(OfAge(1)) = Sources
    BY <2>1 DEF RegularStored
  <2> QED  BY <1>8, <2>2
<1> HIDE DEF known
<1> QED  BY <1>4, <1>6, <1>7, <1>9, <1>10 DEF RegularKnown, known

-----------------------------------------------------------------------------
(* What updateHistoricalData does to the histories.                        *)

LEMMA Recorded ==
  ASSUME ValidationTypes, NEW us \in Seq(Entry), UpdateHistoricalData(us)
  PROVE  /\ history' \in Seq(Int)
         /\ Len(history') = IF Len(history) + Len(us) <= HistoricalWindow
                            THEN Len(history) + Len(us) ELSE HistoricalWindow
         /\ \A k \in 0 .. Len(history') - 1 :
              history'[Len(history') - k]
                = IF k < Len(us) THEN us[Len(us) - k].price
                  ELSE history[Len(history) - (k - Len(us))]
         /\ crossSource' \subseteq Entry /\ IsFiniteSet(crossSource')
         /\ crossSource' = {v \in crossSource \cup Range(us) :
                              v.age < CrossSourceWindow}
<1> DEFINE prices == PricesOf(us)
<1>1. /\ history \in Seq(Int) /\ crossSource \subseteq Entry /\ IsFiniteSet(crossSource)
      /\ HistoricalWindow \in Nat \ {0}
  BY WindowAssumption DEF ValidationTypes
<1>2. /\ Len(us) \in Nat /\ DOMAIN us = 1 .. Len(us)
      /\ \A i \in 1 .. Len(us) : us[i] \in Entry
  OBVIOUS
<1>3. /\ prices \in Seq(Int) /\ Len(prices) = Len(us)
      /\ \A i \in 1 .. Len(us) : prices[i] = us[i].price
  <2>1. prices = [i \in 1 .. Len(us) |-> us[i].price]
    BY <1>2 DEF PricesOf
  <2>2. \A i \in 1 .. Len(us) : us[i].price \in Int
    BY <1>2 DEF Entry
  <2> HIDE DEF prices
  <2> QED  BY <1>2, <2>1, <2>2
<1> HIDE DEF prices
<1>4. history' = LastOf(HistoricalWindow, history \o prices)
  BY DEF UpdateHistoricalData, prices
<1>5. /\ history' \in Seq(Int)
      /\ Len(history') = IF Len(history) + Len(prices) <= HistoricalWindow
                         THEN Len(history) + Len(prices) ELSE HistoricalWindow
      /\ \A k \in 0 .. Len(history') - 1 :
           history'[Len(history') - k]
             = IF k < Len(prices) THEN prices[Len(prices) - k]
               ELSE history[Len(history) - (k - Len(prices))]
  BY <1>1, <1>3, <1>4, LatestAppended, Zenon
<1>6. ASSUME NEW k \in 0 .. Len(history') - 1
      PROVE  history'[Len(history') - k]
               = IF k < Len(us) THEN us[Len(us) - k].price
                 ELSE history[Len(history) - (k - Len(us))]
  <2>1. history'[Len(history') - k]
          = IF k < Len(us) THEN prices[Len(us) - k]
            ELSE history[Len(history) - (k - Len(us))]
    BY <1>3, <1>5
  <2>2. k < Len(us) => Len(us) - k \in 1 .. Len(us)
    BY <1>2
  <2> QED  BY <2>1, <2>2, <1>3
<1>7. crossSource' = {v \in crossSource \cup Range(us) : v.age < CrossSourceWindow}
  BY DEF UpdateHistoricalData, Recent
<1>8. IsFiniteSet(Range(us)) /\ Range(us) \subseteq Entry
  <2>1. IsFiniteSet(DOMAIN us)
    <3>1. 1 \in Int /\ Len(us) \in Int
      BY <1>2
    <3>2. IsFiniteSet(1 .. Len(us))
      BY <3>1, FS_Interval, Zenon
    <3> QED  BY <1>2, <3>2, Zenon
  <2>2. us \in Surjection(DOMAIN us, Range(us))
    BY <1>2 DEF Surjection, Range
  <2>3. IsFiniteSet(Range(us))
    BY <2>1, <2>2, FS_Surjection, Zenon
  <2> QED  BY <1>2, <2>3 DEF Range
<1>9. crossSource' \subseteq Entry /\ IsFiniteSet(crossSource')
  <2>1. IsFiniteSet(crossSource \cup Range(us))
    BY <1>1, <1>8, FS_Union
  <2>2. crossSource' \in SUBSET (crossSource \cup Range(us))
    BY <1>7
  <2> QED  BY <1>1, <1>8, <2>1, <2>2, FS_Subset
<1> QED  BY <1>3, <1>5, <1>6, <1>7, <1>9

-----------------------------------------------------------------------------
(* Updates of a round that are recorded.                                   *)

Gained(us) ==
  /\ reported' = reported \cup Reporting(Range(us))
  /\ Cardinality(reported') = Cardinality(reported) + Len(us)

LEMMA RecordedStored ==
  ASSUME ValidationTypes, NoneTooOld, RegularStored,
         NEW us, InRound(us), us # << >>, UpdateHistoricalData(us), Gained(us),
         UNCHANGED <<market, steady>>
  PROVE  NoneTooOld' /\ RegularStored'
<1> DEFINE new == Range(us)
<1>1. /\ us \in Seq(Entry) /\ crossSource \subseteq Entry
      /\ \A v \in new : v.age = 0 /\ v \in Entry /\ v.source \notin reported
      /\ CrossSourceWindow \in Nat /\ CrossSourceWindow >= 2 /\ steady \in Nat
  BY WindowAssumption DEF InRound, Range, ValidationTypes, Regular
<1>2. /\ crossSource' \subseteq Entry
      /\ crossSource' = {v \in crossSource \cup new : v.age < CrossSourceWindow}
  BY <1>1, Recorded
<1>3. reported' = reported \cup Reporting(new)
  BY DEF Gained
<1> HIDE DEF new
<1>4. NoneTooOld'
  <2>1. \A v \in crossSource' : v.age < CrossSourceWindow /\ v.age \in Nat
    BY <1>2 DEF Entry
  <2>2. ASSUME NEW v \in crossSource', v.age = 0
        PROVE  v.source \in reported'
    BY <1>2, <1>3, <2>2 DEF NoneTooOld, Reporting
  <2>3. \A v \in crossSource' : v.age <= CrossSourceWindow
    BY <2>1, <1>1
  <2> QED  BY <2>1, <2>2, <2>3 DEF NoneTooOld
<1>5. OfAge(0)' = OfAge(0) \cup new
  BY <1>1, <1>2 DEF OfAge
<1>6. ASSUME NEW a \in Nat \ {0}
      PROVE  OfAge(a)' \in {OfAge(a), {}} /\ (a < CrossSourceWindow => OfAge(a)' = OfAge(a))
  BY <1>1, <1>2 DEF OfAge
<1>7. ASSUME steady > 0
      PROVE  HonestIn(OfAge(0))' /\ OncePerSource(OfAge(0))'
             /\ Reporting(OfAge(0))' = reported'
  <2>1. HonestIn(OfAge(0)) /\ OncePerSource(OfAge(0)) /\ Reporting(OfAge(0)) = reported
    BY <1>7 DEF RegularStored
  <2>2. /\ \A v \in new : v.source \in Honest => v.price = market /\ v.formed
        /\ \A v, w \in new : v.source = w.source => v = w
    BY DEF InRound, Range, new
  <2>3. HonestIn(OfAge(0))'
    BY <1>5, <2>1, <2>2 DEF HonestIn
  <2>4. OncePerSource(OfAge(0))'
    <3>1. \A v \in OfAge(0) : v.source \in reported
      BY <2>1 DEF Reporting
    <3> QED  BY <1>1, <1>5, <2>1, <2>2, <3>1 DEF OncePerSource
  <2>5. Reporting(OfAge(0))' = reported'
    BY <1>3, <1>5, <2>1 DEF Reporting
  <2> QED  BY <2>3, <2>4, <2>5
<1>8. ASSUME NEW a \in Nat \ {0}, steady > a
      PROVE  /\ HonestIn(OfAge(a))' /\ OncePerSource(OfAge(a))'
             /\ Reporting(OfAge(a))' \in {{}, Sources}
  <2>1. /\ HonestIn(OfAge(a)) /\ OncePerSource(OfAge(a))
        /\ Reporting(OfAge(a)) \in {{}, Sources}
    BY <1>8 DEF RegularStored
  <2>2. CASE OfAge(a)' = OfAge(a)
    BY <2>1, <2>2 DEF HonestIn, OncePerSource, Reporting
  <2>3. CASE OfAge(a)' = {}
    BY <2>3 DEF HonestIn, OncePerSource, Reporting
  <2> QED  BY <1>6, <2>2, <2>3
<1>9. ASSUME steady > 1
      PROVE  Reporting(OfAge(1))' = Sources
  <2>1. OfAge(1)' = OfAge(1)
    BY <1>1, <1>6
  <2>2. Reporting(OfAge(1)) = Sources
    BY <1>9 DEF RegularStored
  <2> QED  BY <2>1, <2>2 DEF Reporting
<1> QED  BY <1>4, <1>7, <1>8, <1>9 DEF RegularStored

LEMMA RecordedHistory ==
  ASSUME ValidationTypes, RegularHistory,
         NEW us, InRound(us), us # << >>, UpdateHistoricalData(us), Gained(us),
         reported' \subseteq Sources,
         UNCHANGED <<market, steady>>
  PROVE  RegularHistory'
<1>a. PICK n : n = Cardinality(reported)
  OBVIOUS
<1>b. PICK m : m = Len(us)
  OBVIOUS
<1>1. /\ us \in Seq(Entry) /\ m \in Nat /\ m > 0 /\ DOMAIN us = 1 .. m
      /\ history \in Seq(Int) /\ Len(history) \in Nat
      /\ n \in Nat /\ Size \in Nat /\ Size >= 5
      /\ HistoricalWindow \in Nat /\ HistoricalWindow >= 10
      /\ steady \in Nat
  BY <1>a, <1>b, ReportedCount, WindowAssumption
     DEF InRound, ValidationTypes, Regular
<1>2. Cardinality(reported') = n + m
  BY <1>a, <1>b DEF Gained
<1>3. /\ history' \in Seq(Int) /\ Len(history') \in Nat
      /\ Len(history') = IF Len(history) + m <= HistoricalWindow
                         THEN Len(history) + m ELSE HistoricalWindow
      /\ \A k \in 0 .. Len(history') - 1 :
           history'[Len(history') - k]
             = IF k < m THEN us[m - k].price ELSE history[Len(history) - (k - m)]
  BY <1>1, <1>b, Recorded
<1>4. Faulty \in reported => Faulty \in reported'
  BY DEF Gained
\* Of the new ones, only that of the faulty source may be wrong.
<1>5. ASSUME NEW i \in DOMAIN us, us[i].price # market
      PROVE  us[i].source = Faulty /\ Faulty \notin reported /\ Faulty \in reported'
  <2>1. us[i] \in Entry
    BY <1>1
  <2>2. us[i].source = Faulty
    BY <2>1, <1>5 DEF InRound, Entry, Sources
  <2>3. Faulty \notin reported
    BY <2>2 DEF InRound
  <2>4. Faulty \in reported'
    BY <2>2 DEF Gained, Reporting, Range
  <2> QED  BY <2>2, <2>3, <2>4
<1>6. ASSUME NEW i \in DOMAIN us, NEW j \in DOMAIN us,
             us[i].price # market, us[j].price # market
      PROVE  i = j
  BY <1>5, <1>6 DEF InRound
<1>7. ASSUME NEW k \in Nat, Wrong(history', market', k)
      PROVE  \/ k < m /\ m - k \in DOMAIN us /\ us[m - k].price # market
             \/ k >= m /\ Wrong(history, market, k - m)
  <2>0. k < Len(history') /\ history'[Len(history') - k] # market
    BY <1>7 DEF Wrong
  <2>1. history'[Len(history') - k]
          = IF k < m THEN us[m - k].price ELSE history[Len(history) - (k - m)]
    BY <1>3, <2>0
  <2>2. k < m => m - k \in DOMAIN us
    BY <1>1
  <2>3. k >= m => k - m < Len(history)
    BY <1>1, <1>3, <2>0
  <2> QED  BY <1>1, <2>0, <2>1, <2>2, <2>3 DEF Wrong
<1>8. ASSUME steady > 0
      PROVE  /\ OneWrong(history', market', 0, n + m)
             /\ Len(history') >= 10 \/ Len(history') >= n + m
             /\ Faulty \notin reported' =>
                  \A i \in 0 .. (n + m) - 1 : ~Wrong(history', market', i)
  <2>1. /\ OneWrong(history, market, 0, n)
        /\ Len(history) >= 10 \/ Len(history) >= n
        /\ Faulty \notin reported =>
             \A i \in 0 .. n - 1 : ~Wrong(history, market, i)
    BY <1>a, <1>8 DEF RegularHistory, OneOff
  <2>2. ASSUME NEW i \in 0 .. (n + m) - 1, NEW j \in 0 .. (n + m) - 1,
               Wrong(history', market', i), Wrong(history', market', j)
        PROVE  i = j
    <3>1. CASE i < m /\ j < m
      <4>1. m - i = m - j
        BY <1>1, <1>6, <1>7, <2>2, <3>1
      <4> QED  BY <1>1, <4>1
    <3>2. CASE i < m /\ j >= m
      <4>1. Faulty \notin reported
        <5>1. m - i \in DOMAIN us /\ us[m - i].price # market
          BY <1>1, <1>7, <2>2, <3>2
        <5> QED  BY <5>1, <1>5
      <4>2. j - m \in 0 .. n - 1 /\ Wrong(history, market, j - m)
        BY <1>1, <1>7, <2>2, <3>2
      <4> QED  BY <2>1, <4>1, <4>2
    <3>3. CASE i >= m /\ j < m
      <4>1. Faulty \notin reported
        <5>1. m - j \in DOMAIN us /\ us[m - j].price # market
          BY <1>1, <1>7, <2>2, <3>3
        <5> QED  BY <5>1, <1>5
      <4>2. i - m \in 0 .. n - 1 /\ Wrong(history, market, i - m)
        BY <1>1, <1>7, <2>2, <3>3
      <4> QED  BY <2>1, <4>1, <4>2
    <3>4. CASE i >= m /\ j >= m
      <4>1. /\ i - m \in 0 .. n - 1 /\ Wrong(history, market, i - m)
            /\ j - m \in 0 .. n - 1 /\ Wrong(history, market, j - m)
        BY <1>1, <1>7, <2>2, <3>4
      <4>2. i - m = j - m
        BY <2>1, <4>1 DEF OneWrong
      <4> QED  BY <1>1, <4>2
    <3> QED  BY <1>1, <3>1, <3>2, <3>3, <3>4
  <2>3. OneWrong(history', market', 0, n + m)
    BY <2>2, Zenon DEF OneWrong
  <2>4. ASSUME Faulty \notin reported', NEW i \in 0 .. (n + m) - 1,
               Wrong(history', market', i)
        PROVE  FALSE
    <3>1. Faulty \notin reported
      BY <1>4, <2>4
    <3>2. ~ (i < m)
      BY <1>1, <1>5, <1>7, <2>4
    <3>3. i - m \in 0 .. n - 1 /\ Wrong(history, market, i - m)
      BY <1>1, <1>7, <2>4, <3>2
    <3> QED  BY <2>1, <3>1, <3>3
  <2>5. Len(history') >= 10 \/ Len(history') >= n + m
    BY <1>1, <1>3, <2>1
  <2> QED  BY <2>3, <2>4, <2>5
<1>9. ASSUME NEW from \in Nat, NEW to \in Nat,
             OneWrong(history, market, n + from, n + to)
      PROVE  OneWrong(history', market', n + m + from, n + m + to)
  <2>1. ASSUME NEW i \in n + m + from .. (n + m + to) - 1,
               NEW j \in n + m + from .. (n + m + to) - 1,
               Wrong(history', market', i), Wrong(history', market', j)
        PROVE  i = j
    <3>1. /\ i - m \in n + from .. (n + to) - 1 /\ Wrong(history, market, i - m)
          /\ j - m \in n + from .. (n + to) - 1 /\ Wrong(history, market, j - m)
      BY <1>1, <1>7, <2>1
    <3>2. i - m = j - m
      BY <1>9, <3>1, Zenon DEF OneWrong
    <3> QED  BY <1>1, <3>2
  <2> QED  BY <2>1, Zenon DEF OneWrong
<1>10. ASSUME steady > 1
       PROVE  /\ OneWrong(history', market', n + m, n + m + Size)
              /\ Len(history') >= 10 \/ Len(history') >= n + m + Size
  <2>1. /\ OneWrong(history, market, n, n + Size)
        /\ Len(history) >= 10 \/ Len(history) >= n + Size
    BY <1>a, <1>10 DEF RegularHistory, OneOff
  <2>2. n = n + 0 /\ n + m = n + m + 0
    BY <1>1
  <2>3. OneWrong(history', market', n + m + 0, n + m + Size)
    BY <1>1, <1>9, <2>1, <2>2
  <2>4. OneWrong(history', market', n + m, n + m + Size)
    BY <2>2, <2>3
  <2>5. Len(history') >= 10 \/ Len(history') >= n + m + Size
    BY <1>1, <1>3, <2>1
  <2> QED  BY <2>4, <2>5
<1>11. ASSUME steady > 2
       PROVE  OneWrong(history', market', n + m + Size, n + m + 2 * Size) /\ Len(history') >= 10
  <2>1. OneWrong(history, market, n + Size, n + 2 * Size) /\ Len(history) >= 10
    BY <1>a, <1>11 DEF RegularHistory, OneOff
  <2>2. OneWrong(history', market', n + m + Size, n + m + 2 * Size)
    <3>1. Size \in Nat /\ 2 * Size \in Nat
      BY <1>1
    <3> QED  BY <1>9, <2>1, <3>1, Zenon
  <2>3. Len(history') >= 10
    BY <1>1, <1>3, <2>1
  <2> QED  BY <2>2, <2>3
<1>12. LET k == Cardinality(reported')
       IN  /\ steady' > 0 =>
                /\ OneWrong(history', market', 0, k)
                /\ Len(history') >= 10 \/ Len(history') >= k
                /\ Faulty \notin reported' =>
                     \A i \in 0 .. k - 1 : ~Wrong(history', market', i)
           /\ steady' > 1 =>
                /\ OneWrong(history', market', k, k + Size)
                /\ Len(history') >= 10 \/ Len(history') >= k + Size
           /\ steady' > 2 =>
                /\ OneWrong(history', market', k + Size, k + 2 * Size)
                /\ Len(history') >= 10
  <2>1. steady' = steady
    OBVIOUS
  <2> QED  BY <1>2, <1>8, <1>10, <1>11, <2>1, Zenon
<1> QED  BY <1>12 DEF RegularHistory, OneOff, OneWrong, Wrong

-----------------------------------------------------------------------------
(* The invariant holds initially, and every action preserves it.           *)

LEMMA RegularAtLeast == Regular \in Nat /\ Regular >= 3
  BY WindowAssumption DEF Regular

(* After a disturbance nothing is claimed of rounds.                       *)
LEMMA Disturbed ==
  ASSUME steady' = 0
  PROVE  RegularStored' /\ RegularHistory' /\ OneBadSourceIsIsolated'
<1>1. \A a \in Nat : ~ (steady' > a)
  OBVIOUS
<1>2. RegularStored'
  BY <1>1 DEF RegularStored
<1>3. ~ (steady' > 0) /\ ~ (steady' > 1) /\ ~ (steady' > 2)
  OBVIOUS
<1>4. RegularHistory'
  BY <1>3 DEF RegularHistory
<1>5. ~ (steady = Regular)'
  BY WindowAssumption DEF Regular
<1>6. OneBadSourceIsIsolated'
  BY <1>5 DEF OneBadSourceIsIsolated
<1> QED  BY <1>2, <1>4, <1>6

(* The verdicts after regular rounds.                                      *)
LEMMA JudgedRight ==
  ASSUME ValidationTypes, RegularHistory, steady = Regular,
         NEW u \in Entry, NEW known, RegularKnown(known, u.source)
  PROVE  /\ MarketInRange /\ u.source \in Honest /\ u.price = market /\ u.formed =>
              ValidateUpdate(u, history, known).valid
         /\ u.source = Faulty /\ 25 * Difference(u.price, market) > market =>
              ~ValidateUpdate(u, history, known).valid
<1>1. steady > 2 /\ market \in Markets
  BY RegularAtLeast DEF ValidationTypes
<1>2. ASSUME MarketInRange, u.source \in Honest, u.price = market, u.formed
      PROVE  ValidateUpdate(u, history, known).valid
  <2>1. FromConsensus(u, history) = "none"
    BY <1>1, <1>2, HistoryAgrees
  <2>2. FromOthers(u, known) = "none"
    BY <1>1, <1>2, OthersAgree
  <2> QED  BY <1>1, <1>2, <2>1, <2>2, AgreedIsValid
<1>3. ASSUME u.source = Faulty, 25 * Difference(u.price, market) > market
      PROVE  ~ValidateUpdate(u, history, known).valid
  <2>1. FromConsensus(u, history) = "high"
    BY <1>1, <1>3, HistoryAgrees
  <2>2. FromOthers(u, known) = "high"
    BY <1>1, <1>3, OthersDiffer
  <2> QED  BY <2>1, <2>2, DeviantIsInvalid
<1> QED  BY <1>2, <1>3

LEMMA ValidationInitially == ValidationInit => ValidationInv
<1> SUFFICES ASSUME ValidationInit PROVE ValidationInv
  OBVIOUS
<1>1. IsFiniteSet({})
  BY FS_EmptySet
<1>2. ValidationTypes
  BY <1>1, RegularAtLeast DEF ValidationInit, ValidationTypes
<1>3. CachedIsVerdict
  BY DEF ValidationInit, CachedIsVerdict
<1>4. NoneTooOld
  BY DEF ValidationInit, NoneTooOld
<1>5. RegularStored
  BY DEF ValidationInit, RegularStored
<1>6. RegularHistory
  <2>1. ~ (steady > 0) /\ ~ (steady > 1) /\ ~ (steady > 2)
    BY DEF ValidationInit
  <2> QED  BY <2>1 DEF RegularHistory
<1>7. OneBadSourceIsIsolated
  BY RegularAtLeast DEF ValidationInit, OneBadSourceIsIsolated
<1> QED  BY <1>2, <1>3, <1>4, <1>5, <1>6, <1>7 DEF ValidationInv

(* validateRealTime, when the verdict is not cached.                       *)
LEMMA RecordedOne ==
  ASSUME ValidationTypes, CachedIsVerdict,
         NEW u \in Entry, ValidateRealTime(u), ~Known(u.source),
         steady' \in 0 .. Regular
  PROVE  /\ ValidationTypes' /\ CachedIsVerdict'
         /\ market' = market
         /\ <<u>> \in Seq(Entry) /\ Range(<<u>>) = {u}
         /\ UpdateHistoricalData(<<u>>)
         /\ reported' = reported \cup {u.source}
         /\ verdict' = [verdict EXCEPT ![u.source] =
                          ValidateUpdate(u, history, CrossSourcePrices(u))]
<1> DEFINE result == ValidateUpdate(u, history, CrossSourcePrices(u))
<1>1. /\ reported' = reported \cup {u.source}
      /\ verdict' = [verdict EXCEPT ![u.source] = result]
      /\ cached' = [cached EXCEPT ![u.source] = result]
      /\ UpdateHistoricalData(<<u>>)
      /\ market' = market
  BY DEF ValidateRealTime
<1> HIDE DEF result
<1>2. <<u>> \in Seq(Entry) /\ Range(<<u>>) = {u}
  BY DEF Range
<1>3. u.source \in Sources
  BY DEF Entry
<1>4. /\ history' \in Seq(Int)
      /\ crossSource' \subseteq Entry /\ IsFiniteSet(crossSource')
  BY <1>1, <1>2, Recorded
<1>5. ValidationTypes'
  BY <1>1, <1>3, <1>4 DEF ValidationTypes
<1>6. CachedIsVerdict'
  BY <1>1, <1>3 DEF ValidationTypes, CachedIsVerdict
<1> QED  BY <1>1, <1>2, <1>5, <1>6 DEF result

LEMMA ReportsAre ==
  ASSUME market \in Markets, NEW s \in Sources, NEW u \in ReportsOf(s)
  PROVE  /\ u \in Entry /\ u.source = s /\ u.age = 0
         /\ s \in Honest => u.price = market /\ u.formed
         /\ u.formed \/ u.price = market
<1>1. /\ market \in Int /\ Mistakes[market] \subseteq Int
      /\ Faulty \notin Honest
  BY MarketAssumption DEF Faulty, Honest
<1>2. \A p \in Int : /\ Update(s, p) \in Entry /\ Update(s, p).source = s
                    /\ Update(s, p).price = p /\ Update(s, p).formed
                    /\ Update(s, p).age = 0
  BY DEF Update, Entry
<1>3. CASE s # Faulty
  <2>1. u = Update(s, market)
    BY <1>3 DEF ReportsOf
  <2> QED  BY <1>1, <1>2, <2>1
<1>4. CASE \E p \in Mistakes[market] : s = Faulty /\ u = Update(s, p)
  <2>1. PICK p \in Mistakes[market] : s = Faulty /\ u = Update(s, p)
    BY <1>4
  <2> QED  BY <1>1, <1>2, <2>1
<1>5. CASE s = Faulty /\ u = [Update(s, market) EXCEPT !.formed = FALSE]
  <2>1. u = [source |-> s, price |-> market, formed |-> FALSE, age |-> 0, copy |-> 0]
    BY <1>5 DEF Update
  <2>2. u \in Entry
    BY <1>1, <2>1 DEF Entry
  <2>3. u.source = s /\ u.price = market /\ u.age = 0
    BY <2>1
  <2>4. s \notin Honest
    BY <1>1, <1>5
  <2> QED  BY <2>2, <2>3, <2>4
<1>6. s = Faulty => \/ \E p \in Mistakes[market] : u = Update(s, p)
                    \/ u = [Update(s, market) EXCEPT !.formed = FALSE]
  BY DEF ReportsOf
<1> QED  BY <1>3, <1>4, <1>5, <1>6

LEMMA ReportKeeps ==
  ASSUME ValidationInv, NEW s \in Sources, Report(s)
  PROVE  ValidationInv'
<1>1. /\ ValidationTypes /\ CachedIsVerdict /\ NoneTooOld /\ RegularStored
      /\ RegularHistory /\ OneBadSourceIsIsolated
  BY DEF ValidationInv
<1>2. PICK u \in ReportsOf(s) : ValidateRealTime(u)
  BY DEF Report
<1>3. s \notin reported /\ steady' = steady
  BY DEF Report, Turn
<1>4. /\ u \in Entry /\ u.source = s /\ u.age = 0
      /\ s \in Honest => u.price = market /\ u.formed
      /\ u.formed \/ u.price = market
  BY <1>1, ReportsAre DEF ValidationTypes
<1>5. ~Known(u.source)
  BY <1>1, <1>3, <1>4 DEF CachedIsVerdict, Known
<1>6. /\ ValidationTypes' /\ CachedIsVerdict'
      /\ market' = market
      /\ <<u>> \in Seq(Entry) /\ Range(<<u>>) = {u}
      /\ UpdateHistoricalData(<<u>>)
      /\ reported' = reported \cup {s}
      /\ verdict' = [verdict EXCEPT ![s] =
                       ValidateUpdate(u, history, CrossSourcePrices(u))]
  <2>1. steady' \in 0 .. Regular
    BY <1>1, <1>3 DEF ValidationTypes
  <2> QED  BY <1>1, <1>2, <1>4, <1>5, <2>1, RecordedOne
<1>7. InRound(<<u>>) /\ <<u>> # << >>
  BY <1>3, <1>4, <1>6 DEF InRound
<1>8. Gained(<<u>>) /\ reported' \subseteq Sources
  <2>1. Reporting(Range(<<u>>)) = {s}
    BY <1>4, <1>6 DEF Reporting
  <2>2. IsFiniteSet(reported)
    BY <1>1, ReportedCount DEF ValidationTypes
  <2>3. Cardinality(reported \cup {s}) = Cardinality(reported) + 1
    BY <1>3, <2>2, FS_AddElement
  <2>4. Len(<<u>>) = 1
    OBVIOUS
  <2> QED  BY <1>6, <2>1, <2>3, <2>4 DEF Gained, ValidationTypes
<1>9. NoneTooOld' /\ RegularStored'
  BY <1>1, <1>3, <1>6, <1>7, <1>8, RecordedStored
<1>10. RegularHistory'
  BY <1>1, <1>3, <1>6, <1>7, <1>8, RecordedHistory
<1>11. OneBadSourceIsIsolated'
  <2> SUFFICES ASSUME steady' = Regular
               PROVE  /\ MarketInRange' =>
                           \A r \in reported' \cap Honest : verdict'[r].valid
                      /\ \A v \in UpdatesOf(Faulty)' :
                           25 * Difference(v.price, market') > market' =>
                             ~verdict'[Faulty].valid
    BY DEF OneBadSourceIsIsolated, Regular
  <2>0. MarketInRange' <=> MarketInRange
    BY <1>6 DEF MarketInRange
  <2>1. steady = Regular
    BY <1>3
  <2>2. /\ MarketInRange => \A r \in reported \cap Honest : verdict[r].valid
        /\ \A v \in UpdatesOf(Faulty) :
             25 * Difference(v.price, market) > market => ~verdict[Faulty].valid
    BY <1>1, <2>1 DEF OneBadSourceIsIsolated
  <2>3. verdict'[s] = ValidateUpdate(u, history, CrossSourcePrices(u))
        /\ \A r \in Sources \ {s} : verdict'[r] = verdict[r]
    BY <1>1, <1>6 DEF ValidationTypes
  <2>4. u.formed => RegularKnown(CrossSourcePrices(u), s)
    BY <1>1, <1>4, <2>1, KnownToReport
  <2>5. /\ MarketInRange /\ s \in Honest => verdict'[s].valid
        /\ s = Faulty /\ u.formed /\ 25 * Difference(u.price, market) > market =>
             ~verdict'[s].valid
    BY <1>1, <1>4, <2>1, <2>3, <2>4, JudgedRight
  <2>6. MarketInRange => \A r \in reported' \cap Honest : verdict'[r].valid
    BY <1>6, <2>2, <2>3, <2>5 DEF Sources
  <2>7. ASSUME NEW v \in UpdatesOf(Faulty)',
               25 * Difference(v.price, market') > market'
        PROVE  ~verdict'[Faulty].valid
    <3>1. v.source = Faulty /\ v.age = 0 /\ (v \in crossSource \/ v = u)
      <4>1. crossSource' \subseteq crossSource \cup {u}
        BY <1>6 DEF UpdateHistoricalData, Recent
      <4> QED  BY <4>1 DEF UpdatesOf
    <3>2. CASE s = Faulty
      <4>1. v = u
        BY <1>1, <1>3, <3>1, <3>2 DEF NoneTooOld
      <4>2. u.formed
        <5>1. market \in Int
          BY <1>1, MarketAssumption DEF ValidationTypes
        <5>2. u.price # market
          BY <1>1, <1>6, <2>7, <4>1, <5>1, MarketAssumption
             DEF Difference, ValidationTypes
        <5> QED  BY <1>4, <5>2
      <4> QED  BY <1>6, <2>5, <2>7, <3>2, <4>1, <4>2
    <3>3. CASE s # Faulty
      <4>1. v \in UpdatesOf(Faulty)
        BY <1>4, <3>1, <3>3 DEF UpdatesOf
      <4>2. ~verdict[Faulty].valid
        BY <1>6, <2>2, <2>7, <4>1
      <4> QED  BY <2>3, <3>3, <4>2 DEF Sources
    <3> QED  BY <3>2, <3>3
  <2> QED  BY <2>0, <2>6, <2>7
<1> QED  BY <1>6, <1>9, <1>10, <1>11 DEF ValidationInv

(* An update that is delivered again.                                      *)
LEMMA RepeatKeeps ==
  ASSUME ValidationInv, NEW s \in Sources, Repeat(s)
  PROVE  ValidationInv'
<1>1. /\ ValidationTypes /\ CachedIsVerdict /\ NoneTooOld
  BY DEF ValidationInv
<1>2. PICK w \in UpdatesOf(s) : ValidateRealTime([w EXCEPT !.copy = @ + 1])
  BY DEF Repeat
<1>3. PICK u : u = [w EXCEPT !.copy = @ + 1]
  OBVIOUS
<1>4. u \in Entry /\ u.source = s /\ u.age = 0
  <2>1. w \in Entry /\ w.source = s /\ w.age = 0
    BY <1>1 DEF UpdatesOf, ValidationTypes
  <2> QED  BY <1>3, <2>1 DEF Entry
<1>5. ValidateRealTime(u) /\ s \in reported
  BY <1>2, <1>3 DEF Repeat
<1>6. CASE Known(s)
  <2>1. cached[s] = verdict[s] /\ cached[s] # NoVerdict
    BY <1>1, <1>6 DEF CachedIsVerdict, Known
  <2>2. /\ reported' = reported \cup {s}
        /\ verdict' = [verdict EXCEPT ![s] = cached[s]]
        /\ UNCHANGED <<market, history, crossSource, cached>>
    BY <1>4, <1>5, <1>6 DEF ValidateRealTime
  <2>3. steady' = steady
    BY <1>6 DEF Repeat
  <2>4. reported' = reported
    BY <1>5, <2>2
  <2>5. verdict' = verdict
    BY <1>1, <2>1, <2>2 DEF ValidationTypes
  <2>6. OneBadSourceIsIsolated'
    BY <2>2, <2>3, <2>4, <2>5
       DEF ValidationInv, OneBadSourceIsIsolated, MarketInRange, UpdatesOf
  <2>7. (ValidationTypes /\ CachedIsVerdict /\ NoneTooOld)'
    BY <2>2, <2>3, <2>4, <2>5
       DEF ValidationInv, ValidationTypes, CachedIsVerdict, NoneTooOld
  <2>8. (RegularStored /\ RegularHistory)'
    BY <2>2, <2>3, <2>4, <2>5
       DEF ValidationInv, OfAge, HonestIn, OncePerSource, Reporting,
           RegularStored, Wrong, OneWrong, OneOff, RegularHistory
  <2> QED  BY <2>6, <2>7, <2>8 DEF ValidationInv
<1>7. CASE ~Known(s)
  <2>1. steady' = 0
    BY <1>7 DEF Repeat, Disturb
  <2>2. steady' \in 0 .. Regular
    BY <2>1, RegularAtLeast
  <2>3. /\ ValidationTypes' /\ CachedIsVerdict'
        /\ <<u>> \in Seq(Entry) /\ Range(<<u>>) = {u}
        /\ UpdateHistoricalData(<<u>>)
        /\ reported' = reported \cup {s}
    BY <1>1, <1>4, <1>5, <1>7, <2>2, RecordedOne
  <2>4. /\ crossSource' \subseteq Entry
        /\ crossSource' = {v \in crossSource \cup {u} : v.age < CrossSourceWindow}
    BY <1>1, <2>3, Recorded
  <2>5. NoneTooOld'
    BY <1>1, <1>4, <2>1, <2>3, <2>4 DEF NoneTooOld
  <2> QED  BY <2>1, <2>3, <2>5, Disturbed DEF ValidationInv
<1> QED  BY <1>6, <1>7

(* What is stored is gone, or what is cached is.                           *)
LEMMA DisturbanceKeeps ==
  ASSUME ValidationInv, Move \/ ClearHistoricalData \/ ClearCache
  PROVE  ValidationInv'
<1>1. /\ ValidationTypes /\ CachedIsVerdict /\ NoneTooOld
  BY DEF ValidationInv
<1>2. steady' = 0 /\ reported' = reported /\ verdict' = verdict
  BY DEF Move, ClearHistoricalData, ClearCache, Disturb
<1>3. RegularStored' /\ RegularHistory' /\ OneBadSourceIsIsolated'
  BY <1>2, Disturbed
<1>4. market' \in Markets
  BY <1>1 DEF Move, ClearHistoricalData, ClearCache, ValidationTypes
<1>5. history' \in Seq(Int)
  <2>1. history' = history \/ history' = << >>
    BY DEF Move, ClearHistoricalData, ClearCache
  <2>2. << >> \in Seq(Int) /\ history \in Seq(Int)
    BY <1>1 DEF ValidationTypes
  <2> QED  BY <2>1, <2>2
<1>6. crossSource' \subseteq crossSource
  BY DEF Move, ClearHistoricalData, ClearCache
<1>7. crossSource' \subseteq Entry /\ IsFiniteSet(crossSource')
  BY <1>1, <1>6, FS_Subset DEF ValidationTypes
<1>8. cached' = cached \/ cached' = [s \in Sources |-> NoVerdict]
  BY DEF Move, ClearHistoricalData, ClearCache
<1>9. ValidationTypes'
  <2>1. cached' = [s \in Sources |-> cached'[s]]
    BY <1>1, <1>8 DEF ValidationTypes
  <2> QED  BY <1>1, <1>2, <1>4, <1>5, <1>7, <2>1, RegularAtLeast DEF ValidationTypes
<1>10. CachedIsVerdict'
  BY <1>1, <1>2, <1>8 DEF CachedIsVerdict
<1>11. NoneTooOld'
  BY <1>1, <1>2, <1>6 DEF NoneTooOld
<1> QED  BY <1>3, <1>9, <1>10, <1>11 DEF ValidationInv

(* Of a round that is stored, all is removed or nothing.                   *)
LEMMA CleanupKeeps ==
  ASSUME ValidationInv, Cleanup
  PROVE  ValidationInv'
<1>1. /\ ValidationTypes /\ CachedIsVerdict /\ NoneTooOld /\ RegularStored
      /\ RegularHistory /\ OneBadSourceIsIsolated
  BY DEF ValidationInv
<1>2. /\ crossSource' = {v \in crossSource : v.age < CrossSourceWindow}
      /\ UNCHANGED <<market, history, cached, reported, verdict, steady>>
  BY DEF Cleanup, Recent
<1>3. CrossSourceWindow \in Nat /\ CrossSourceWindow >= 2 /\ steady \in Nat
      /\ crossSource \subseteq Entry
  BY <1>1, WindowAssumption DEF ValidationTypes, Regular
<1>4. ValidationTypes'
  <2>1. crossSource' \subseteq crossSource
    BY <1>2
  <2>2. crossSource' \subseteq Entry /\ IsFiniteSet(crossSource')
    BY <1>1, <2>1, FS_Subset DEF ValidationTypes
  <2> QED  BY <1>1, <1>2, <2>2 DEF ValidationTypes
<1>5. CachedIsVerdict'
  BY <1>1, <1>2 DEF CachedIsVerdict
<1>6. NoneTooOld'
  BY <1>1, <1>2 DEF NoneTooOld
<1>7. ASSUME NEW a \in Nat
      PROVE  \/ OfAge(a)' = OfAge(a)
             \/ a >= CrossSourceWindow /\ OfAge(a)' = {}
  BY <1>2, <1>3 DEF OfAge
<1>8. RegularStored'
  <2>1. ASSUME NEW a \in Nat, steady > a
        PROVE  HonestIn(OfAge(a))' /\ OncePerSource(OfAge(a))'
    <3>1. HonestIn(OfAge(a)) /\ OncePerSource(OfAge(a))
      BY <1>1, <2>1 DEF RegularStored
    <3>2. OfAge(a)' = OfAge(a) \/ OfAge(a)' = {}
      BY <1>7
    <3> QED  BY <1>2, <3>1, <3>2 DEF HonestIn, OncePerSource
  <2>2. OfAge(0)' = OfAge(0) /\ OfAge(1)' = OfAge(1)
    BY <1>3, <1>7
  <2>3. /\ steady > 0 => Reporting(OfAge(0))' = reported
        /\ steady > 1 => Reporting(OfAge(1))' = Sources
    BY <1>1, <2>2 DEF RegularStored, Reporting
  <2>4. ASSUME NEW a \in Nat \ {0}, steady > a
        PROVE  Reporting(OfAge(a))' \in {{}, Sources}
    <3>1. Reporting(OfAge(a)) \in {{}, Sources}
      BY <1>1, <2>4 DEF RegularStored
    <3>2. OfAge(a)' = OfAge(a) \/ OfAge(a)' = {}
      BY <1>7
    <3> QED  BY <3>1, <3>2 DEF Reporting
  <2> QED  BY <1>2, <2>1, <2>3, <2>4 DEF RegularStored
<1>9. RegularHistory'
  BY <1>1, <1>2 DEF RegularHistory, OneOff, OneWrong, Wrong
<1>10. OneBadSourceIsIsolated'
  BY <1>1, <1>2 DEF OneBadSourceIsIsolated, MarketInRange, UpdatesOf
<1> QED  BY <1>4, <1>5, <1>6, <1>8, <1>9, <1>10 DEF ValidationInv

(* The end of a round: what is stored is a round older.                    *)
LEMMA StoredAge ==
  ASSUME ValidationTypes, Round
  PROVE  /\ crossSource' \subseteq Entry /\ IsFiniteSet(crossSource')
         /\ \A v \in crossSource' : v.age > 0
         /\ \A v \in crossSource' : \E u \in crossSource : v.age = u.age + 1
         /\ OfAge(0)' = {}
         /\ \A a \in Nat :
              /\ \A v \in OfAge(a + 1)' : \E u \in OfAge(a) :
                   v = [u EXCEPT !.age = @ + 1]
              /\ \A u \in OfAge(a) : [u EXCEPT !.age = @ + 1] \in OfAge(a + 1)'
<1> DEFINE Older(u) == [u EXCEPT !.age = @ + 1]
<1>1. /\ crossSource \subseteq Entry /\ IsFiniteSet(crossSource)
      /\ crossSource' = {Older(u) : u \in crossSource}
  BY DEF ValidationTypes, Round
<1>2. ASSUME NEW u \in Entry
      PROVE  Older(u) \in Entry /\ Older(u).age = u.age + 1 /\ u.age \in Nat
  BY DEF Entry
<1> HIDE DEF Older
<1>3. IsFiniteSet(crossSource')
  <2> DEFINE f == [u \in crossSource |-> Older(u)]
  <2>1. f \in Surjection(crossSource, crossSource')
    BY <1>1 DEF Surjection
  <2> HIDE DEF f
  <2> QED  BY <1>1, <2>1, FS_Surjection, Zenon
<1>4. crossSource' \subseteq Entry
  BY <1>1, <1>2
<1>5. \A v \in crossSource' : v.age > 0
  BY <1>1, <1>2
<1>6. \A v \in crossSource' : \E u \in crossSource : v.age = u.age + 1
  BY <1>1, <1>2
<1>7. OfAge(0)' = {}
  BY <1>5 DEF OfAge
<1>8. ASSUME NEW a \in Nat
      PROVE  /\ \A v \in OfAge(a + 1)' : \E u \in OfAge(a) : v = Older(u)
             /\ \A u \in OfAge(a) : Older(u) \in OfAge(a + 1)'
  <2>1. \A v \in OfAge(a + 1)' : \E u \in OfAge(a) : v = Older(u)
    <3> SUFFICES ASSUME NEW v \in crossSource', v.age = a + 1
                 PROVE  \E u \in OfAge(a) : v = Older(u)
      BY DEF OfAge
    <3>1. PICK u \in crossSource : v = Older(u)
      BY <1>1
    <3>2. u.age = a
      BY <1>1, <1>2, <3>1
    <3> QED  BY <3>1, <3>2 DEF OfAge
  <2>2. \A u \in OfAge(a) : Older(u) \in OfAge(a + 1)'
    BY <1>1, <1>2 DEF OfAge
  <2> QED  BY <2>1, <2>2
<1> QED  BY <1>3, <1>4, <1>5, <1>6, <1>7, <1>8 DEF Older

LEMMA RoundTypes ==
  ASSUME ValidationTypes, Round, steady' \in 0 .. Regular
  PROVE  ValidationTypes' /\ CachedIsVerdict'
<1>1. /\ market' = market /\ history' = history /\ reported' = {}
      /\ cached' = [s \in Sources |-> NoVerdict]
      /\ verdict' = [s \in Sources |-> NoVerdict]
  BY DEF Round
<1>2. crossSource' \subseteq Entry /\ IsFiniteSet(crossSource')
  BY StoredAge
<1>3. ValidationTypes'
  BY <1>1, <1>2 DEF ValidationTypes
<1>4. CachedIsVerdict'
  BY <1>1 DEF CachedIsVerdict
<1> QED  BY <1>3, <1>4

LEMMA PauseKeeps ==
  ASSUME ValidationInv, Pause
  PROVE  ValidationInv'
<1>1. ValidationTypes /\ Round /\ steady' = 0
  BY DEF ValidationInv, Pause, Disturb
<1>2. ValidationTypes' /\ CachedIsVerdict'
  BY <1>1, RoundTypes, RegularAtLeast
<1>3. NoneTooOld'
  <2>1. reported' = {}
    BY <1>1 DEF Round
  <2> QED  BY <1>1, <2>1, StoredAge DEF NoneTooOld
<1> QED  BY <1>1, <1>2, <1>3, Disturbed DEF ValidationInv

LEMMA EndRoundKeeps ==
  ASSUME ValidationInv, EndRound
  PROVE  ValidationInv'
<1>1. /\ ValidationTypes /\ NoneTooOld /\ RegularStored /\ RegularHistory
      /\ Round /\ reported = Sources
      /\ steady' = Min({Regular, steady + 1})
  BY DEF ValidationInv, EndRound
<1>2. steady \in Nat /\ Regular \in Nat /\ Regular >= 3
  BY <1>1, RegularAtLeast DEF ValidationTypes
<1>3. steady' \in Nat /\ steady' <= steady + 1 /\ steady' <= Regular
  <2> DEFINE S == {Regular, steady + 1}
  <2>1. \E x \in S : \A y \in S : x <= y
    BY <1>2
  <2>2. steady' = CHOOSE x \in S : \A y \in S : x <= y
    BY <1>1 DEF Min
  <2>3. steady' \in S /\ \A y \in S : steady' <= y
    BY <2>1, <2>2
  <2> QED  BY <1>2, <2>3
<1>4. /\ market' = market /\ history' = history /\ reported' = {}
      /\ verdict' = [s \in Sources |-> NoVerdict]
  BY <1>1 DEF Round
<1>5. ValidationTypes' /\ CachedIsVerdict'
  BY <1>1, <1>2, <1>3, RoundTypes
<1>6. NoneTooOld'
  <2>1. reported # {} /\ CrossSourceWindow \in Nat
    BY <1>1, WindowAssumption DEF Sources
  <2>2. \A u \in crossSource : u.age < CrossSourceWindow /\ u.age \in Nat
    BY <1>1, <2>1 DEF NoneTooOld, ValidationTypes, Entry
  <2>3. \A v \in crossSource' : v.age <= CrossSourceWindow
    BY <1>1, <2>1, <2>2, StoredAge
  <2>4. \A v \in crossSource' : v.age # 0
    BY <1>1, StoredAge
  <2> QED  BY <1>4, <2>3, <2>4 DEF NoneTooOld
<1>7. RegularStored'
  <2>1. OfAge(0)' = {}
    BY <1>1, StoredAge
  <2>2. ASSUME NEW b \in Nat, steady > b
        PROVE  /\ HonestIn(OfAge(b + 1))' /\ OncePerSource(OfAge(b + 1))'
               /\ Reporting(OfAge(b + 1))' = Reporting(OfAge(b))
    <3>1. HonestIn(OfAge(b)) /\ OncePerSource(OfAge(b))
      BY <1>1, <2>2 DEF RegularStored
    <3> DEFINE Older(u) == [u EXCEPT !.age = @ + 1]
    <3>2. /\ \A v \in OfAge(b + 1)' : \E u \in OfAge(b) : v = Older(u)
          /\ \A u \in OfAge(b) : Older(u) \in OfAge(b + 1)'
      BY <1>1, StoredAge
    <3>3. \A u \in OfAge(b) : /\ Older(u).source = u.source
                              /\ Older(u).price = u.price
                              /\ Older(u).formed = u.formed
      BY <1>1 DEF OfAge, ValidationTypes, Entry
    <3> HIDE DEF Older
    <3>4. HonestIn(OfAge(b + 1))'
      <4>1. \A v \in OfAge(b + 1)' : v.source \in Honest => v.price = market' /\ v.formed
        BY <1>4, <3>1, <3>2, <3>3 DEF HonestIn
      <4> QED  BY <4>1 DEF HonestIn
    <3>5. OncePerSource(OfAge(b + 1))'
      <4>1. \A v, w \in OfAge(b + 1)' : v.source = w.source => v = w
        BY <3>1, <3>2, <3>3 DEF OncePerSource
      <4> QED  BY <4>1 DEF OncePerSource
    <3>6. Reporting(OfAge(b + 1))' = Reporting(OfAge(b))
      <4>1. {v.source : v \in OfAge(b + 1)'} = {u.source : u \in OfAge(b)}
        BY <3>2, <3>3
      <4> QED  BY <4>1 DEF Reporting
    <3> QED  BY <3>4, <3>5, <3>6
  <2>3. ASSUME NEW a \in Nat, steady' > a
        PROVE  HonestIn(OfAge(a))' /\ OncePerSource(OfAge(a))'
    <3>1. CASE a = 0
      BY <2>1, <3>1 DEF HonestIn, OncePerSource
    <3>2. CASE a # 0
      <4>1. PICK b \in Nat : a = b + 1 /\ steady > b
        <5>1. a - 1 \in Nat /\ a = (a - 1) + 1 /\ steady > a - 1
          BY <1>2, <1>3, <2>3, <3>2
        <5> QED  BY <5>1
      <4> QED  BY <2>2, <4>1
    <3> QED  BY <3>1, <3>2
  <2>4. Reporting(OfAge(0))' = reported'
    BY <1>4, <2>1 DEF Reporting
  <2>5. steady > 0 => Reporting(OfAge(0)) = Sources
    BY <1>1 DEF RegularStored
  <2>6. steady' > 1 => Reporting(OfAge(1))' = Sources
    <3> SUFFICES ASSUME steady' > 1 PROVE Reporting(OfAge(1))' = Sources
      OBVIOUS
    <3>1. 0 \in Nat /\ steady > 0 /\ 0 + 1 = 1
      BY <1>2, <1>3
    <3>2. Reporting(OfAge(0 + 1))' = Reporting(OfAge(0))
      BY <2>2, <3>1
    <3> QED  BY <2>5, <3>1, <3>2
  <2>7. ASSUME NEW a \in Nat \ {0}, steady' > a
        PROVE  Reporting(OfAge(a))' \in {{}, Sources}
    <3>1. PICK b \in Nat : a = b + 1 /\ steady > b
      <4>1. a - 1 \in Nat /\ a = (a - 1) + 1 /\ steady > a - 1
        BY <1>2, <1>3, <2>7
      <4> QED  BY <4>1
    <3>2. Reporting(OfAge(a))' = Reporting(OfAge(b))
      BY <2>2, <3>1
    <3>3. Reporting(OfAge(b)) \in {{}, Sources}
      BY <1>1, <1>2, <2>5, <3>1 DEF RegularStored
    <3> QED  BY <3>2, <3>3
  <2> QED  BY <2>3, <2>4, <2>6, <2>7 DEF RegularStored
<1>8. RegularHistory'
  <2>1. Cardinality(reported) = Size /\ Size \in Nat /\ Size >= 5
    BY <1>1, ReportedCount DEF ValidationTypes
  <2>2. Cardinality(reported') = 0
    BY <1>4, FS_EmptySet
  <2>3. Len(history) \in Nat
    BY <1>1 DEF ValidationTypes
  <2>4. steady > 0 => /\ OneWrong(history, market, 0, Size)
                      /\ Len(history) >= 10 \/ Len(history) >= Size
    BY <1>1, <2>1 DEF RegularHistory, OneOff
  <2>5. steady > 1 => /\ OneWrong(history, market, Size, Size + Size)
                      /\ Len(history) >= 10 \/ Len(history) >= Size + Size
    BY <1>1, <2>1 DEF RegularHistory, OneOff
  <2>6. OneWrong(history', market', 0, 0)
    BY DEF OneWrong
  <2>7. Len(history') >= 0 /\ \A i \in 0 .. 0 - 1 : ~Wrong(history', market', i)
    BY <1>4, <2>3
  <2>8. steady' > 1 => /\ OneWrong(history', market', 0, 0 + Size)
                       /\ Len(history') >= 10 \/ Len(history') >= 0 + Size
    <3>1. 0 + Size = Size
      BY <2>1
    <3>2. steady' > 1 => steady > 0
      BY <1>2, <1>3
    <3> QED  BY <1>4, <2>4, <3>1, <3>2
  <2>9. steady' > 2 => /\ OneWrong(history', market', 0 + Size, 0 + 2 * Size)
                       /\ Len(history') >= 10
    <3>1. 0 + Size = Size /\ 0 + 2 * Size = Size + Size
      BY <2>1
    <3>2. steady' > 2 => steady > 1
      BY <1>2, <1>3
    <3>3. Len(history) >= Size + Size => Len(history) >= 10
      BY <2>1, <2>3
    <3> QED  BY <1>4, <2>5, <3>1, <3>2, <3>3
  <2>10. LET k == Cardinality(reported')
         IN  /\ steady' > 0 =>
                  /\ OneWrong(history', market', 0, k)
                  /\ Len(history') >= 10 \/ Len(history') >= k
                  /\ Faulty \notin reported' =>
                       \A i \in 0 .. k - 1 : ~Wrong(history', market', i)
             /\ steady' > 1 =>
                  /\ OneWrong(history', market', k, k + Size)
                  /\ Len(history') >= 10 \/ Len(history') >= k + Size
             /\ steady' > 2 =>
                  /\ OneWrong(history', market', k + Size, k + 2 * Size)
                  /\ Len(history') >= 10
    BY <2>2, <2>6, <2>7, <2>8, <2>9, Zenon
  <2> QED  BY <2>10 DEF RegularHistory, OneOff, OneWrong, Wrong
<1>9. OneBadSourceIsIsolated'
  <2>1. UpdatesOf(Faulty)' = {}
    BY <1>1, StoredAge DEF UpdatesOf
  <2> QED  BY <1>4, <2>1 DEF OneBadSourceIsIsolated
<1> QED  BY <1>5, <1>6, <1>7, <1>8, <1>9 DEF ValidationInv

(* A whole round at once.                                                  *)
LEMMA BatchIs ==
  ASSUME ValidationTypes, NoneTooOld, Batch
  PROVE  \E us : /\ InRound(us) /\ us # << >> /\ ValidateBatch(us) /\ Gained(us)
                 /\ \A s \in Sources : \E u \in Range(us) : u.source = s
<1>1. PICK k \in 1 .. HonestCount + 1, mistake \in Mistakes[market] :
        ValidateBatch([i \in 1 .. HonestCount + 1 |->
                         IF i = k THEN Update(Faulty, mistake)
                         ELSE Update(IF i < k THEN i ELSE i - 1, market)])
  BY DEF Batch
<1>2. PICK us : us = [i \in 1 .. HonestCount + 1 |->
                        IF i = k THEN Update(Faulty, mistake)
                        ELSE Update(IF i < k THEN i ELSE i - 1, market)]
  OBVIOUS
<1>3. /\ HonestCount \in Nat /\ HonestCount >= 4 /\ Faulty \notin Honest
      /\ market \in Int /\ mistake \in Int /\ k \in 1 .. HonestCount + 1
  BY SourceAssumption, MarketAssumption DEF ValidationTypes, Faulty, Honest
<1>4. ASSUME NEW s \in Sources, NEW p \in Int
      PROVE  /\ Update(s, p) \in Entry /\ Update(s, p).source = s
             /\ Update(s, p).price = p /\ Update(s, p).formed
             /\ Update(s, p).age = 0
  BY DEF Update, Entry
<1>5. /\ us[k] = Update(Faulty, mistake)
      /\ \A i \in 1 .. HonestCount + 1 :
           /\ i < k => i \in Honest /\ us[i] = Update(i, market)
           /\ i > k => i - 1 \in Honest /\ us[i] = Update(i - 1, market)
  BY <1>2, <1>3 DEF Honest
<1>6. Faulty \in Sources /\ Honest \subseteq Sources
  BY DEF Sources
<1>7. ASSUME NEW i \in 1 .. HonestCount + 1
      PROVE  /\ us[i] \in Entry /\ us[i].age = 0 /\ us[i].formed
             /\ us[i].source = IF i = k THEN Faulty ELSE IF i < k THEN i ELSE i - 1
             /\ us[i].source \in Honest => us[i].price = market
  <2>1. CASE i = k
    BY <1>3, <1>4, <1>5, <1>6, <2>1
  <2>2. CASE i < k
    BY <1>3, <1>4, <1>5, <1>6, <2>2
  <2>3. CASE i > k
    BY <1>3, <1>4, <1>5, <1>6, <2>3
  <2> QED  BY <1>3, <2>1, <2>2, <2>3
<1>8. DOMAIN us = 1 .. HonestCount + 1 /\ us \in Seq(Entry) /\ Len(us) = HonestCount + 1
  <2>1. DOMAIN us = 1 .. HonestCount + 1
    BY <1>2
  <2>2. us \in [1 .. HonestCount + 1 -> Entry]
    BY <1>2, <1>7
  <2>3. HonestCount + 1 \in Nat
    BY <1>3
  <2> QED  BY <2>1, <2>2, <2>3
<1>9. reported = {} /\ reported' = Sources
  BY <1>1 DEF Batch, ValidateBatch
<1>10. ASSUME NEW i \in DOMAIN us, NEW j \in DOMAIN us, us[i].source = us[j].source
       PROVE  i = j
  <2>1. /\ i = k \/ us[i].source \in Honest
        /\ j = k \/ us[j].source \in Honest
    <3>1. \A x \in 1 .. HonestCount + 1 : x = k \/ us[x].source \in Honest
      BY <1>3, <1>5, <1>7
    <3> QED  BY <1>8, <3>1
  <2>2. us[k].source \notin Honest
    BY <1>3, <1>7
  <2> QED  BY <1>3, <1>7, <1>8, <1>10, <2>1, <2>2
<1>11. InRound(us)
  BY <1>7, <1>8, <1>9, <1>10 DEF InRound
<1>12. ASSUME NEW s \in Sources
       PROVE  \E u \in Range(us) : u.source = s
  <2>1. \E i \in DOMAIN us : us[i].source = s
    <3>1. CASE s = Faulty
      BY <1>3, <1>7, <1>8, <3>1
    <3>2. CASE s \in Honest /\ s < k
      <4>1. s \in 1 .. HonestCount + 1 /\ s # k
        BY <1>3, <3>2 DEF Honest
      <4> QED  BY <1>7, <1>8, <3>2, <4>1
    <3>3. CASE s \in Honest /\ s >= k
      <4>1. s + 1 \in 1 .. HonestCount + 1 /\ s + 1 # k /\ ~(s + 1 < k) /\ (s + 1) - 1 = s
        BY <1>3, <3>3 DEF Honest
      <4> QED  BY <1>7, <1>8, <4>1
    <3> QED  BY <1>3, <3>1, <3>2, <3>3 DEF Sources, Honest
  <2> QED  BY <2>1 DEF Range
<1>13. Gained(us)
  <2>1. \A u \in Range(us) : u.source \in Sources
    BY <1>7, <1>8 DEF Range, Entry
  <2>2. Reporting(Range(us)) = Sources
    BY <1>12, <2>1 DEF Reporting
  <2>3. Cardinality(reported') = HonestCount + 1 /\ Cardinality(reported) = 0
    BY <1>9, SourcesAre, FS_EmptySet DEF Size
  <2> QED  BY <1>3, <1>8, <1>9, <2>2, <2>3 DEF Gained
<1>14. us # << >>
  BY <1>3, <1>8
<1> QED  BY <1>1, <1>2, <1>11, <1>12, <1>13, <1>14

LEMMA BatchKeeps ==
  ASSUME ValidationInv, Batch
  PROVE  ValidationInv'
<1>1. /\ ValidationTypes /\ CachedIsVerdict /\ NoneTooOld /\ RegularStored
      /\ RegularHistory
  BY DEF ValidationInv
<1>2. PICK us : /\ InRound(us) /\ us # << >> /\ ValidateBatch(us) /\ Gained(us)
                /\ \A s \in Sources : \E u \in Range(us) : u.source = s
  BY <1>1, BatchIs
<1>3. /\ us \in Seq(Entry) /\ UpdateHistoricalData(us)
      /\ reported = {} /\ reported' = Sources
      /\ market' = market /\ cached' = cached /\ steady' = steady
  BY <1>2 DEF InRound, ValidateBatch, Batch
<1>4. /\ verdict' = [s \in Sources |-> verdict'[s]]
      /\ \A s \in Sources :
           verdict'[s] = ValidateUpdate(CHOOSE u \in Range(us) : u.source = s,
                                        history, crossSource \cup Range(us))
  BY <1>2 DEF ValidateBatch
<1>5. ValidationTypes'
  <2>1. history' \in Seq(Int) /\ crossSource' \subseteq Entry /\ IsFiniteSet(crossSource')
    BY <1>1, <1>3, Recorded
  <2> QED  BY <1>1, <1>3, <1>4, <2>1 DEF ValidationTypes
<1>6. CachedIsVerdict'
  BY <1>1, <1>3 DEF CachedIsVerdict
<1>7. NoneTooOld' /\ RegularStored'
  BY <1>1, <1>2, <1>3, RecordedStored
<1>8. RegularHistory'
  BY <1>1, <1>2, <1>3, RecordedHistory
<1>9. OneBadSourceIsIsolated'
  <2> SUFFICES ASSUME steady' = Regular
               PROVE  /\ MarketInRange' =>
                           \A r \in reported' \cap Honest : verdict'[r].valid
                      /\ \A v \in UpdatesOf(Faulty)' :
                           25 * Difference(v.price, market') > market' =>
                             ~verdict'[Faulty].valid
    BY DEF OneBadSourceIsIsolated, Regular
  <2>0. MarketInRange' <=> MarketInRange
    BY <1>3 DEF MarketInRange
  <2>1. steady = Regular
    BY <1>3
  <2>2. ASSUME NEW u \in Range(us)
        PROVE  /\ MarketInRange /\ u.source \in Honest => verdict'[u.source].valid
               /\ u.source = Faulty /\ 25 * Difference(u.price, market) > market =>
                    ~verdict'[u.source].valid
    <3>1. u \in Entry /\ u.source \in Sources
      <4>1. PICK i \in DOMAIN us : u = us[i]
        BY DEF Range
      <4>2. us[i] \in Entry
        BY <1>3
      <4> QED  BY <4>1, <4>2 DEF Entry
    <3>2. u.source \in Honest => u.price = market /\ u.formed
      BY <1>2 DEF Range, InRound
    <3>3. \A v \in Range(us) : v.source = u.source => v = u
      BY <1>2 DEF Range, InRound
    <3>4. u = CHOOSE v \in Range(us) : v.source = u.source
      BY <3>3
    <3>5. verdict'[u.source]
            = ValidateUpdate(u, history, crossSource \cup Range(us))
      BY <1>4, <3>1, <3>4
    <3>6. RegularKnown(crossSource \cup Range(us), u.source)
      BY <1>1, <1>2, <1>3, <2>1, KnownToBatch
    <3> QED  BY <1>1, <2>1, <3>1, <3>2, <3>5, <3>6, JudgedRight
  <2>3. ASSUME MarketInRange, NEW s \in Honest
        PROVE  verdict'[s].valid
    BY <1>2, <2>2, <2>3 DEF Sources
  <2>4. ASSUME NEW v \in UpdatesOf(Faulty)',
               25 * Difference(v.price, market') > market'
        PROVE  ~verdict'[Faulty].valid
    <3>1. v.source = Faulty /\ v.age = 0 /\ (v \in crossSource \/ v \in Range(us))
      <4>1. crossSource' \subseteq crossSource \cup Range(us)
        BY <1>3 DEF UpdateHistoricalData, Recent
      <4> QED  BY <4>1 DEF UpdatesOf
    <3>2. v \in Range(us)
      BY <1>1, <1>3, <3>1 DEF NoneTooOld
    <3> QED  BY <1>3, <2>2, <2>4, <3>1, <3>2
  <2> QED  BY <2>0, <2>3, <2>4
<1> QED  BY <1>5, <1>6, <1>7, <1>8, <1>9 DEF ValidationInv

LEMMA ValidationStep == ValidationInv /\ [ValidationNext]_validationVars => ValidationInv'
<1> SUFFICES ASSUME ValidationInv, [ValidationNext]_validationVars
             PROVE  ValidationInv'
  OBVIOUS
<1>1. ASSUME NEW s \in Sources, Report(s)
      PROVE  ValidationInv'
  BY <1>1, ReportKeeps
<1>2. ASSUME NEW s \in Sources, Repeat(s)
      PROVE  ValidationInv'
  BY <1>2, RepeatKeeps
<1>3. CASE Batch
  BY <1>3, BatchKeeps
<1>4. CASE EndRound
  BY <1>4, EndRoundKeeps
<1>5. CASE Pause
  BY <1>5, PauseKeeps
<1>6. CASE Move \/ ClearHistoricalData \/ ClearCache
  BY <1>6, DisturbanceKeeps
<1>7. CASE Cleanup
  BY <1>7, CleanupKeeps
<1>8. CASE UNCHANGED validationVars
  BY <1>8 DEF validationVars, ValidationInv, ValidationTypes, CachedIsVerdict,
     NoneTooOld, OfAge, HonestIn, OncePerSource, Reporting, RegularStored, Wrong,
     OneWrong, OneOff, RegularHistory, OneBadSourceIsIsolated, MarketInRange, UpdatesOf
<1> QED  BY <1>1, <1>2, <1>3, <1>4, <1>5, <1>6, <1>7, <1>8 DEF ValidationNext

(* However many honest sources there are, from four, and whatever the      *)
(* windows, the price of the market and the mistakes: after enough regular *)
(* rounds validateUpdate rejects every report of the faulty source that is *)
(* more than 4 % off, and, if the market is in the accepted range, accepts *)
(* every report of an honest one, whether reports come one by one          *)
(* (validateRealTime) or in a batch.                                       *)
THEOREM BadSourceIsIsolated == ValidationSpec => []OneBadSourceIsIsolated
<1>1. ValidationInv => OneBadSourceIsIsolated
  BY DEF ValidationInv
<1> QED  BY <1>1, ValidationInitially, ValidationStep, PTL DEF ValidationSpec
=============================================================================
