----------------------------- MODULE PriceCache -----------------------------
(***************************************************************************)
(* RealTimeCacheService with those that fill it: lookups of a price, the   *)
(* cache warmer, requests of a voting round and published prices.          *)
(*                                                                         *)
(* A price is the version of the feed's aggregate, higher is newer.  Time  *)
(* is relative: an entry holds the ticks it has left.  A lookup that gets  *)
(* the aggregate caches it in the same task; a request of a voting round   *)
(* has to wait for the other feeds it asks for.                            *)
(***************************************************************************)
EXTENDS Naturals, FiniteSets

CONSTANTS
  Feeds, Rounds,
  Current,        \* in the place of a round: the key of the current price
  MaxSize,        \* maxSize
  EvictDivisor,   \* 1 / EVICTION_PERCENTAGE
  MaxEvicted,     \* MAX_EVICTION_COUNT
  InitialTtl,     \* ttl, in ticks
  LeastTtl,       \* where optimizePerformance stops lowering it
  RoundTtl,       \* what a request of a voting round asks for
  AccessGap,      \* ACCESS_UPDATE_THRESHOLD_MS
  Fills,          \* lookups and requests under way
  MaxVersion,     \* bound of the versions
  MaxAccesses,    \* bound of an entry's access count
  MaxIdle         \* bound of the time an entry is not accessed

ASSUME KeyAssumption ==
  /\ IsFiniteSet(Feeds) /\ IsFiniteSet(Rounds)
  /\ Feeds # {} /\ Current \notin Rounds

(* The ranges of the environment give at least 100 entries and 5 percent.  *)
ASSUME EvictionAssumption ==
  /\ MaxSize \in Nat /\ EvictDivisor \in Nat \ {0} /\ MaxEvicted \in Nat \ {0}
  /\ MaxSize >= EvictDivisor

ASSUME TtlAssumption ==
  /\ InitialTtl \in Nat \ {0} /\ LeastTtl \in Nat \ {0}
  /\ RoundTtl \in Nat \ {0} /\ AccessGap \in Nat

ASSUME BoundAssumption ==
  MaxVersion \in Nat /\ MaxAccesses \in Nat /\ MaxIdle \in Nat

VARIABLES
  cache,      \* [Keys -> Item]
  ttl,        \* config.ttl
  latest,     \* [Feeds -> version the aggregation answers], 0: none
  fill,       \* [Fills -> Fill]
  patterns    \* feeds the cache warmer knows

vars == <<cache, ttl, latest, fill, patterns>>

Keys == Feeds \X (Rounds \cup {Current})

Versions == 0 .. MaxVersion

Item == [value : Versions, left : Nat, accesses : Nat, idle : Nat]

(* price, round: waits for the price; priced: for the request's other      *)
(* feeds.                                                                  *)
Fill == [pc : {"idle", "price", "round", "priced"}, key : Keys, value : Versions]

Absent == [value |-> 0, left |-> 0, accesses |-> 0, idle |-> 0]

Smaller(m, n) == IF m <= n THEN m ELSE n
Larger(m, n) == IF m <= n THEN n ELSE m

Held == {k \in Keys : cache[k] # Absent}
Expired == {k \in Held : cache[k].left = 0}
Live == {k \in Held : cache[k].left > 0}

Init ==
  /\ cache = [k \in Keys |-> Absent]
  /\ ttl = InitialTtl
  /\ latest = [f \in Feeds |-> 0]
  /\ fill = [p \in Fills |-> [pc |-> "idle", key |-> CHOOSE k \in Keys : TRUE,
                              value |-> 0]]
  /\ patterns = {}

-----------------------------------------------------------------------------
(* The operations of the cache: the contents each can leave.               *)

Without(K) == [k \in Keys |-> IF k \in K THEN Absent ELSE cache[k]]

(* calculateAdaptiveTTL: up to twice as long as asked for if the entry has *)
(* been accessed, half as long again as the configured time at most.       *)
AdaptiveTtls(key, asked) ==
  LET most == ttl + ttl \div 2
  IN  IF key \notin Held THEN {Smaller(asked, ttl)}
      ELSE IF cache[key].accesses = 0 THEN {Smaller(asked, most)}
      ELSE Smaller(asked, most) .. Smaller(2 * asked, most)

(* intelligentEviction: the score grows with the accesses and falls with   *)
(* the time since; no entry goes before one that was accessed less and is  *)
(* idle at least as long.                                                  *)
Scored(kept, gone) ==
  cache[gone].accesses <= cache[kept].accesses
    \/ cache[gone].idle > cache[kept].idle

Evicted ==
  {E \in SUBSET Held :
     /\ Cardinality(E) = Smaller(MaxEvicted, Cardinality(Held) \div EvictDivisor)
     /\ \A gone \in E, kept \in Held \ E : Scored(kept, gone)}

(* Mutant: off by one.                                                     *)
MutantEvictions == IF Cardinality(Held) > MaxSize THEN Evicted ELSE {{}}

Evictions == IF Cardinality(Held) >= MaxSize THEN Evicted ELSE {{}}

Fresh(value, t) ==
  [value |-> value, left |-> t, accesses |-> 0, idle |-> 0]

Written(key, value, t, gone) ==
  [k \in Keys |-> IF k = key THEN Fresh(value, t)
                  ELSE IF k \in gone THEN Absent ELSE cache[k]]

(* set.                                                                    *)
Set(key, value, asked) ==
  \E t \in AdaptiveTtls(key, asked), gone \in Evictions :
    cache' = Written(key, value, t, gone)

RoundsOf(feed) == {k \in Keys : k[1] = feed /\ k[2] # Current}

(* Mutant: the rounds are not invalidated.                                 *)
MutantSetPrice(feed, value) == Set(<<feed, Current>>, value, ttl)

(* setPrice, invalidateOnPriceUpdate.                                      *)
SetPrice(feed, value) ==
  \E t \in AdaptiveTtls(<<feed, Current>>, ttl), gone \in Evictions :
    cache' = Written(<<feed, Current>>, value, t, gone \cup RoundsOf(feed))

(* cleanupExpiredEntries: a tenth of the entries at most.                  *)
Cleaned ==
  {E \in SUBSET Expired :
     Cardinality(E) = Smaller((Cardinality(Held) + 9) \div 10,
                              Cardinality(Expired))}

(* Mutant: an access renews the entry.                                     *)
MutantTouched(item) ==
  [item EXCEPT !.left = ttl]

Touched(item) ==
  IF item.idle > AccessGap
  THEN [item EXCEPT !.idle = 0,
                    !.accesses = Smaller(item.accesses + 1, MaxAccesses)]
  ELSE item

(* get: an expired entry is deleted, sometimes with others.                *)
Get(key) ==
  \/ key \in Live /\ cache' = [cache EXCEPT ![key] = Touched(cache[key])]
  \/ key \in Expired /\ \E more \in Cleaned \cup {{}} :
                          cache' = Without({key} \cup more)
  \/ key \notin Held /\ UNCHANGED cache

-----------------------------------------------------------------------------
Idle(p) == fill[p].pc = "idle"

Waits(p, pc, key) ==
  fill' = [fill EXCEPT ![p] = [pc |-> pc, key |-> key, value |-> 0]]

Ends(p) == fill' = [fill EXCEPT ![p].pc = "idle", ![p].value = 0]

(* getCurrentPrice, getRealTimeFeedValues: a live entry answers if its     *)
(* price is fresh.                                                         *)
LookupStarts(p, feed) ==
  LET key == <<feed, Current>>
  IN  /\ Idle(p)
      /\ Get(key)
      /\ \/ key \in Live /\ UNCHANGED fill
         \/ Waits(p, "price", key)
      /\ patterns' = patterns \cup {feed}
      /\ UNCHANGED <<ttl, latest>>

(* warmFeedCache, of a feed that was accessed lately.                      *)
WarmingStarts(p, feed) ==
  LET key == <<feed, Current>>
  IN  /\ Idle(p) /\ feed \in patterns
      /\ Get(key)
      /\ \/ key \in Live /\ UNCHANGED fill
         \/ Waits(p, "price", key)
      /\ UNCHANGED <<ttl, latest, patterns>>

(* The aggregation answers, or has nothing.                                *)
PriceFetched(p) ==
  LET feed == fill[p].key[1]
  IN  /\ fill[p].pc = "price"
      /\ \/ latest[feed] > 0 /\ SetPrice(feed, latest[feed])
         \/ UNCHANGED cache
      /\ Ends(p)
      /\ UNCHANGED <<ttl, latest, patterns>>

(* getCachedHistoricalData.                                                *)
RoundStarts(p, feed, round) ==
  LET key == <<feed, round>>
  IN  /\ Idle(p)
      /\ Get(key)
      /\ IF key \in Live THEN UNCHANGED fill ELSE Waits(p, "round", key)
      /\ UNCHANGED <<ttl, latest, patterns>>

(* The price of a round is the current one at this moment.                 *)
RoundPriced(p) ==
  LET feed == fill[p].key[1]
      key == <<feed, Current>>
      With(value) == fill' = [fill EXCEPT ![p].pc = "priced", ![p].value = value]
  IN  /\ fill[p].pc = "round"
      /\ \/ key \in Live /\ Get(key) /\ With(cache[key].value)
         \/ latest[feed] > 0 /\ SetPrice(feed, latest[feed]) /\ With(latest[feed])
         \/ Ends(p) /\ UNCHANGED cache
      /\ patterns' = patterns \cup {feed}
      /\ UNCHANGED <<ttl, latest>>

(* cacheHistoricalData.                                                    *)
RoundStored(p) ==
  /\ fill[p].pc = "priced"
  /\ Set(fill[p].key, fill[p].value, RoundTtl)
  /\ Ends(p)
  /\ UNCHANGED <<ttl, latest, patterns>>

(* handlePriceUpdate: an update changes what the aggregation answers, or   *)
(* does not; its event comes later.                                        *)
UpdateArrives(feed) ==
  /\ \/ latest[feed] < MaxVersion /\ latest' = [latest EXCEPT ![feed] = @ + 1]
     \/ UNCHANGED latest
  /\ patterns' = patterns \cup {feed}
  /\ UNCHANGED <<cache, ttl, fill>>

(* handleAggregatedPrice.                                                  *)
PricePublished(feed) ==
  /\ latest[feed] > 0
  /\ SetPrice(feed, latest[feed])
  /\ UNCHANGED <<ttl, latest, fill, patterns>>

(* The interval of cleanupExpiredEntries.                                  *)
CleanupRuns ==
  /\ \E E \in Cleaned : cache' = Without(E)
  /\ UNCHANGED <<ttl, latest, fill, patterns>>

(* cleanupStalePatterns.                                                   *)
PatternForgotten(feed) ==
  /\ feed \in patterns
  /\ patterns' = patterns \ {feed}
  /\ UNCHANGED <<cache, ttl, latest, fill>>

(* optimizePerformance, when responses are slow.                           *)
OptimizePerformance ==
  /\ ttl' = Larger((9 * ttl) \div 10, LeastTtl)
  /\ UNCHANGED <<cache, latest, fill, patterns>>

(* clear, destroy, cleanup: lookups under way go on.                       *)
Clear ==
  /\ cache' = [k \in Keys |-> Absent]
  /\ patterns' = {}
  /\ UNCHANGED <<ttl, latest, fill>>

Aged(item) ==
  IF item = Absent THEN item
  ELSE [item EXCEPT !.left = IF item.left > 0 THEN item.left - 1 ELSE 0,
                    !.idle = Smaller(item.idle + 1, MaxIdle)]

Tick ==
  /\ cache' = [k \in Keys |-> Aged(cache[k])]
  /\ UNCHANGED <<ttl, latest, fill, patterns>>

Next ==
  \/ \E p \in Fills, f \in Feeds :
       \/ LookupStarts(p, f) \/ WarmingStarts(p, f)
       \/ \E r \in Rounds : RoundStarts(p, f, r)
  \/ \E p \in Fills : PriceFetched(p) \/ RoundPriced(p) \/ RoundStored(p)
  \/ \E f \in Feeds : UpdateArrives(f) \/ PricePublished(f) \/ PatternForgotten(f)
  \/ CleanupRuns \/ OptimizePerformance \/ Clear \/ Tick

Spec == Init /\ [][Next]_vars

(* Time passes.                                                            *)
FairSpec == Spec /\ WF_vars(Tick)

-----------------------------------------------------------------------------
(* Entries, versions, lookups and patterns are of their types.             *)
TypeOK ==
  /\ cache \in [Keys -> Item]
  /\ ttl \in Nat \ {0}
  /\ latest \in [Feeds -> Versions]
  /\ fill \in [Fills -> Fill]
  /\ patterns \in SUBSET Feeds

(* The cache never holds more than its maximum, whatever is set from where *)
(* and however few of the entries can be told apart by score (set,         *)
(* intelligentEviction).                                                   *)
SizeBounded == Cardinality(Held) <= MaxSize

(* What callers see is a price board: the entries that are live.           *)
Board == INSTANCE PriceBoard WITH board <- [k \in Live |-> cache[k].value]

(* However lookups, warming, rounds, published prices, evictions, expiry   *)
(* and clearing overlap, the current price a caller sees never goes back   *)
(* to an older one, a new one takes the rounds of its feed away in the     *)
(* same step, and what is set is seen (setPrice, set, get).                *)
IsPriceBoard == Board!Spec

(* A price that has been superseded is not served for ever, not even for   *)
(* a voting round that was cached after the newer price had invalidated    *)
(* the round and that is asked for all the time (cacheHistoricalData, get).*)
StalePricesEnd ==
  \A k \in Keys :
    []<>(k \in Live => cache[k].value = latest[k[1]])
=============================================================================
