-------------------------- MODULE AggregatorProofs --------------------------
(***************************************************************************)
(* The safety properties of PriceAggregation (which updates a price is     *)
(* made of) and of ConsensusAggregator (which price is made of them), for  *)
(* all values of their constants.                                          *)
(*                                                                         *)
(* PriceAggregation.  That no exchange counts twice by its WebSocket needs *)
(* one more fact, of what a REST fetch has got: none of it has a           *)
(* WebSocket's slot (FromREST), so that replacing the active updates by it *)
(* brings no duplicate.                                                    *)
(*                                                                         *)
(* ConsensusAggregator.  The invariant (ConsensusInv) only says where the  *)
(* cached result and the answer come from: they were computed, of updates  *)
(* that had the key of the cache.  What remains are facts about the price  *)
(* that is computed of any updates, by way of sums over finite sets:       *)
(*   - there is a point at which half of the weight is reached             *)
(*     (CrossingExists), and the price is the one at it or between it and  *)
(*     the one before (MedianBetween), so also                             *)
(*     no more than half of the weight is below it (HalfIsAboveMedian);    *)
(*   - the price and the weight of that point are the same in every order  *)
(*     of the points, though the point may be another (OneHalfway), and so *)
(*     is the price before it (SameMedian); filters commute with a change  *)
(*     of the order (PartIsRearranged).                                    *)
(***************************************************************************)
EXTENDS PriceAggregation, ConsensusAggregator, FiniteSetTheorems,
        WellFoundedInduction, TLAPS

-----------------------------------------------------------------------------
(* PriceAggregation.                                                       *)

FromREST == \A u \in fetch.got : u.slot # Socket

FetchShape == fetch = [next |-> fetch.next, got |-> fetch.got]

IInv ==
  /\ TypeOK
  /\ FetchShape
  /\ FromREST
  /\ SocketsCountOnce

-----------------------------------------------------------------------------
(* FirstOf chooses the least of the sources of an exchange: there is one.  *)
LEMMA FirstOfType ==
  ASSUME NEW i \in Sources
  PROVE  FirstOf(i) \in Sources
<1> DEFINE T == {j \in Sources : Configured[j].exchange = Configured[i].exchange}
<1>1. T \subseteq Nat /\ i \in T
  BY SourcesAssumption DEF Sources
<1>2. PICK j \in T : \A k \in T : ~ (<<k, j>> \in OpToRel(<, Nat))
  <2> HIDE DEF T
  <2> QED  BY <1>1, WFMin, NatLessThanWellFounded
<1>3. \A k \in T : j <= k
  <2> SUFFICES ASSUME NEW k \in T PROVE j <= k
    OBVIOUS
  <2>1. j \in Nat /\ k \in Nat
    BY <1>1, <1>2
  <2>2. ~ (k < j)
    BY <1>2, <2>1 DEF OpToRel
  <2> QED  BY <2>1, <2>2
<1> QED  BY <1>2, <1>3 DEF FirstOf

LEMMA FetchedType ==
  ASSUME NEW i \in Sources, now \in 0 .. MaxTime
  PROVE  Fetched(i) \in Update /\ Fetched(i).slot # Socket
<1>1. FirstOf(i) \in Sources
  BY FirstOfType
<1>2. Configured[FirstOf(i)].symbol \in Labels
  BY <1>1 DEF Labels
<1>3. i # Socket
  BY SourcesAssumption DEF Sources, Socket
<1> QED  BY <1>1, <1>2, <1>3 DEF Fetched, Update

(* What processImmediateUpdate leaves: one update of each source.          *)
LEMMA ImmediateOnce ==
  ASSUME SocketsCountOnce, NEW u,
         NEW v \in Immediate(u), NEW w \in Immediate(u),
         v.slot = Socket, w.slot = Socket, SameSource(v, w)
  PROVE  v = w
<1>1. CASE v = u
  BY <1>1 DEF Immediate, SameSource
<1>2. CASE w = u
  BY <1>2 DEF Immediate, SameSource
<1>3. CASE v # u /\ w # u
  BY <1>3 DEF Immediate, SocketsCountOnce
<1> QED  BY <1>1, <1>2, <1>3

(* A lookup changes the cached price and the fetch, which starts with      *)
(* nothing.                                                                *)
LEMMA LookupFacts ==
  ASSUME IInv, NEW us \in SUBSET Update, NEW entry,
         entry # NoPrice => entry.of \in SUBSET Update /\ entry.at \in 0 .. now,
         GetAggregatedPrice(us, entry)
  PROVE  /\ cached' # NoPrice => cached'.of \in SUBSET Update /\ cached'.at \in 0 .. now
         /\ fetch'.next \in 0 .. Len(Configured)
         /\ fetch'.got \in SUBSET Update
         /\ fetch' = [next |-> fetch'.next, got |-> fetch'.got]
         /\ \A u \in fetch'.got : u.slot # Socket
<1>1. now \in 0 .. now
  BY TimeAssumption DEF IInv, TypeOK
<1>2. 1 \in 0 .. Len(Configured)
  BY SourcesAssumption
<1>3. CASE cached' = entry /\ UNCHANGED fetch
  BY <1>3 DEF IInv, TypeOK, FetchShape, FromREST
<1>4. CASE Aggregated(us, NoPrice) /\ UNCHANGED fetch
  BY <1>1, <1>4 DEF IInv, TypeOK, FetchShape, FromREST, Aggregated,
           CacheEntry
<1>5. CASE cached' = NoPrice /\ fetch' = [next |-> 1, got |-> {}]
  BY <1>2, <1>5
<1> QED  BY <1>3, <1>4, <1>5 DEF GetAggregatedPrice

-----------------------------------------------------------------------------
LEMMA Initially == Init => IInv
BY TimeAssumption, SourcesAssumption
  DEF Init, IInv, TypeOK, FetchShape, FromREST, SocketsCountOnce

LEMMA Step == IInv /\ [Next]_vars => IInv'
<1> SUFFICES ASSUME IInv, [Next]_vars PROVE IInv'
  OBVIOUS
<1>1. CASE Lookup
  <2>1. cached # NoPrice => cached.of \in SUBSET Update /\ cached.at \in 0 .. now
    BY DEF IInv, TypeOK
  <2>2. active \in SUBSET Update
    BY DEF IInv, TypeOK
  <2>3. UNCHANGED <<now, batch, active>> /\ GetAggregatedPrice(active, cached)
    BY <1>1 DEF Lookup
  <2> QED  BY <2>1, <2>2, <2>3, LookupFacts
           DEF IInv, TypeOK, FetchShape, FromREST, SocketsCountOnce
<1>2. ASSUME NEW i \in Sources, NEW delay \in 0 .. MaxDelay,
             NEW critical \in BOOLEAN, NEW warming \in BOOLEAN,
             UpdateArrives(i, delay, critical, warming)
      PROVE  IInv'
  <2> DEFINE u == [source |-> i, symbol |-> FeedSymbol, at |-> now - delay,
                   slot |-> Socket]
  <2>1. /\ delay <= now
        /\ batch' = batch \cup {u}
        /\ active' = IF critical THEN Immediate(u) ELSE active
        /\ GetAggregatedPrice(IF warming THEN active ELSE active', NoPrice)
        /\ UNCHANGED now
    BY <1>2 DEF UpdateArrives, ProcessPriceUpdate, AddPriceUpdate, MappedSymbol
  <2>2. u \in Update
    <3>1. now - delay \in 0 .. MaxTime
      BY <2>1, TimeAssumption DEF IInv, TypeOK
    <3> QED  BY <3>1 DEF Update, Labels, Socket
  <2> HIDE DEF u
  <2>3. active' \in SUBSET Update
    BY <2>1, <2>2 DEF IInv, TypeOK, Immediate
  <2>4. SocketsCountOnce'
    <3> SUFFICES ASSUME NEW v \in active', NEW w \in active',
                        v.slot = Socket, w.slot = Socket, SameSource(v, w)
                 PROVE  v = w
      BY DEF SocketsCountOnce, SameSource, Exchange
    <3>1. CASE active' = active
      BY <3>1 DEF IInv, SocketsCountOnce
    <3>2. CASE active' = Immediate(u)
      BY <3>2, ImmediateOnce DEF IInv
    <3> QED  BY <2>1, <3>1, <3>2
  <2>5. (IF warming THEN active ELSE active') \in SUBSET Update
    BY <2>3 DEF IInv, TypeOK
  <2> QED  BY <2>1, <2>2, <2>3, <2>4, <2>5, LookupFacts
           DEF IInv, TypeOK, FetchShape, FromREST
<1>3. CASE ProcessBatchedUpdates
  <2>1. PICK latest \in SUBSET batch : IsLatest(latest, batch) /\ active' = latest
    BY <1>3 DEF ProcessBatchedUpdates
  <2>2. SocketsCountOnce'
    BY <2>1 DEF IsLatest, SocketsCountOnce, SameSource, Exchange
  <2>3. active' \in SUBSET Update /\ batch' = {} /\ UNCHANGED <<now, cached, fetch>>
    BY <1>3, <2>1 DEF ProcessBatchedUpdates, IInv, TypeOK
  <2> QED  BY <2>2, <2>3 DEF IInv, TypeOK, FetchShape, FromREST
<1>4. CASE SourceAnswers
  <2>1. fetch.next \in Sources /\ UNCHANGED <<now, batch>>
    BY <1>4, SourcesAssumption
    DEF SourceAnswers, Fetching, Sources, IInv, TypeOK
  <2>2. PICK got \in {fetch.got, fetch.got \cup {Fetched(fetch.next)}} :
          \/ /\ fetch.next < Len(Configured)
             /\ fetch' = [next |-> fetch.next + 1, got |-> got]
             /\ UNCHANGED <<active, cached>>
          \/ /\ fetch' = [next |-> 0, got |-> {}]
             /\ \/ UNCHANGED <<active, cached>>
                \/ active' = got /\ Aggregated(got, cached)
    BY <1>4 DEF SourceAnswers
  <2>3. Fetched(fetch.next) \in Update /\ Fetched(fetch.next).slot # Socket
    BY <2>1, FetchedType DEF IInv, TypeOK
  <2>4. got \in SUBSET Update /\ \A u \in got : u.slot # Socket
    BY <2>2, <2>3 DEF IInv, TypeOK, FromREST
  <2>5. now \in 0 .. now
    BY TimeAssumption DEF IInv, TypeOK
  <2>6. CASE /\ fetch.next < Len(Configured)
             /\ fetch' = [next |-> fetch.next + 1, got |-> got]
             /\ UNCHANGED <<active, cached>>
    <3>1. fetch.next + 1 \in 0 .. Len(Configured)
      BY <2>1, <2>6, SourcesAssumption DEF Sources
    <3> QED  BY <2>1, <2>4, <2>6, <3>1
             DEF IInv, TypeOK, FetchShape, FromREST, SocketsCountOnce, SameSource,
                 Exchange
  <2>7. CASE fetch' = [next |-> 0, got |-> {}] /\ UNCHANGED <<active, cached>>
    BY <2>1, <2>7, SourcesAssumption
    DEF IInv, TypeOK, FetchShape, FromREST, SocketsCountOnce, SameSource, Exchange
  <2>8. CASE /\ fetch' = [next |-> 0, got |-> {}]
             /\ active' = got /\ Aggregated(got, cached)
    BY <2>1, <2>4, <2>5, <2>8, SourcesAssumption
    DEF IInv, TypeOK, FetchShape, FromREST, SocketsCountOnce, Aggregated,
        CacheEntry
  <2> QED  BY <2>2, <2>6, <2>7, <2>8
<1>5. CASE TimePasses
  <2>1. now' \in 0 .. MaxTime /\ now <= now' /\ UNCHANGED <<batch, active, cached, fetch>>
    BY <1>5, TimeAssumption DEF TimePasses, IInv, TypeOK
  <2>2. 0 .. now \subseteq 0 .. now'
    BY <2>1 DEF IInv, TypeOK
  <2> QED  BY <2>1, <2>2
           DEF IInv, TypeOK, FetchShape, FromREST, SocketsCountOnce, SameSource,
               Exchange
<1>6. CASE UNCHANGED vars
  BY <1>6 DEF vars, IInv, TypeOK, FetchShape, FromREST, SocketsCountOnce,
              SameSource, Exchange
<1> QED  BY <1>1, <1>2, <1>3, <1>4, <1>5, <1>6 DEF Next

LEMMA Invariant == Spec => []IInv
BY Initially, Step, PTL DEF Spec

-----------------------------------------------------------------------------
(* Updates, the cached price and the fetch keep their types: a fetch is    *)
(* at one of the configured sources and a price is not of the future.      *)
THEOREM TypeCorrect == Spec => []TypeOK
<1>1. IInv => TypeOK
  BY DEF IInv
<1> QED  BY <1>1, Invariant, PTL

(* No exchange counts twice by its WebSocket, however updates at once,     *)
(* batches and REST answers alternate.                                     *)
THEOREM OncePerSocket == Spec => []SocketsCountOnce
<1>1. IInv => SocketsCountOnce
  BY DEF IInv
<1> QED  BY <1>1, Invariant, PTL

(* What leaves the batch becomes active, or a later update of its source.  *)
THEOREM NothingIsLost == Spec => NoUpdateIsLost
<1> DEFINE Kept == \A u \in batch :
                     \/ u \in batch'
                     \/ \E v \in active' : SameSource(u, v) /\ u.at <= v.at
<1>1. IInv /\ [Next]_vars => [Kept]_vars
  <2> SUFFICES ASSUME Next PROVE Kept
    OBVIOUS
  <2>1. CASE ProcessBatchedUpdates
    BY <2>1 DEF ProcessBatchedUpdates, IsLatest
  <2>2. CASE batch \subseteq batch'
    BY <2>2
  <2>3. Next => ProcessBatchedUpdates \/ batch \subseteq batch'
    BY DEF Next, Lookup, UpdateArrives, ProcessPriceUpdate, AddPriceUpdate,
           SourceAnswers, TimePasses
  <2> QED  BY <2>1, <2>2, <2>3
<1> QED  BY <1>1, Invariant, PTL DEF Spec, NoUpdateIsLost

(* The price that is cached when a critical update has arrived counts it   *)
(* in, whatever was active and whatever the limits of time are.            *)
THEOREM CriticalUpdatesCount == Spec => CriticalCountsIn
<1> DEFINE Counted ==
      \A i \in Sources, delay \in 0 .. MaxDelay :
        ~Fetching /\ delay <= FreshFor /\ UpdateArrives(i, delay, TRUE, FALSE)
          => CountedIn(i, delay)
<1>1. IInv => Counted
  <2> SUFFICES ASSUME IInv, NEW i \in Sources, NEW delay \in 0 .. MaxDelay,
                      ~Fetching, delay <= FreshFor,
                      UpdateArrives(i, delay, TRUE, FALSE)
               PROVE  CountedIn(i, delay)
    OBVIOUS
  <2> DEFINE u == [source |-> i, symbol |-> FeedSymbol, at |-> now - delay,
                   slot |-> Socket]
  <2>1. active' = Immediate(u) /\ GetAggregatedPrice(active', NoPrice)
    BY DEF UpdateArrives, ProcessPriceUpdate, AddPriceUpdate, MappedSymbol
  <2>2. u.source = i /\ u.at + delay = now /\ now <= u.at + FreshFor
    BY TimeAssumption DEF IInv, TypeOK
  <2> HIDE DEF u
  <2>3. u \in active'
    BY <2>1, <2>2 DEF Immediate
  <2>4. cached' = NoPrice \/ cached' = [of |-> active', at |-> now]
    BY <2>1 DEF GetAggregatedPrice, Usable, Aggregated, CacheEntry
  <2> QED  BY <2>2, <2>3, <2>4 DEF CountedIn
<1> QED  BY <1>1, Invariant, PTL DEF CriticalCountsIn

-----------------------------------------------------------------------------
(* Sums.  The library computes a sum with a table of the sums of all       *)
(* subsets; induction is by a smallest subset for which a claim fails.     *)

(* Of some subsets of a finite set one has none of the others inside.      *)
LEMMA SmallestSubset ==
  ASSUME NEW S, IsFiniteSet(S), NEW U, U \subseteq SUBSET S, U # {}
  PROVE  \E m \in U : \A n \in U : n \subseteq m => n = m
<1>1. FiniteSubsetsOf(S) = SUBSET S
  BY FS_FiniteSubsetsOfFinite
<1>2. IsWellFoundedOn(StrictSubsetOrdering(S), SUBSET S)
  BY <1>1, FS_StrictSubsetOrderingWellFounded
<1>3. PICK m \in U : \A n \in U : ~ (<<n, m>> \in StrictSubsetOrdering(S))
  BY <1>2, WFMin
<1> QED  BY <1>3 DEF StrictSubsetOrdering

One(s) == CHOOSE x \in s : TRUE

IsTable(f, S, g) ==
  g = [s \in SUBSET S |-> IF s = {} THEN 0 ELSE f[One(s)] + g[s \ {One(s)}]]

LEMMA OneIsMember ==
  ASSUME NEW s, s # {}
  PROVE  One(s) \in s
BY DEF One

(* The table for a set has the sums of all smaller sets in it.             *)
LEMMA TablesAgree ==
  ASSUME NEW f, NEW S, NEW T, IsFiniteSet(T), NEW g, NEW h,
         T \subseteq S, IsTable(f, S, g), IsTable(f, T, h)
  PROVE  \A s \in SUBSET T : g[s] = h[s]
<1> DEFINE U == {s \in SUBSET T : g[s] # h[s]}
<1> SUFFICES ASSUME U # {} PROVE FALSE
  OBVIOUS
<1>1. PICK m \in U : \A n \in U : n \subseteq m => n = m
  <2> HIDE DEF U
  <2>1. U \subseteq SUBSET T
    BY DEF U
  <2> QED  BY <2>1, SmallestSubset
<1>2. \A s \in SUBSET S :
        g[s] = IF s = {} THEN 0 ELSE f[One(s)] + g[s \ {One(s)}]
  BY DEF IsTable
<1>3. \A s \in SUBSET T :
        h[s] = IF s = {} THEN 0 ELSE f[One(s)] + h[s \ {One(s)}]
  BY DEF IsTable
<1>4. m # {}
  BY <1>2, <1>3
<1>5. One(m) \in m
  BY <1>4, OneIsMember
<1>6. m \ {One(m)} \in SUBSET T /\ m \ {One(m)} \subseteq m /\ m \ {One(m)} # m
  BY <1>5
<1>7. g[m \ {One(m)}] = h[m \ {One(m)}]
  BY <1>1, <1>6
<1> QED  BY <1>2, <1>3, <1>4, <1>7

LEMMA TableExists ==
  ASSUME NEW f, NEW S, IsFiniteSet(S)
  PROVE  \E g : IsTable(f, S, g)
<1> DEFINE U == {s \in SUBSET S : ~ \E g : IsTable(f, s, g)}
<1> SUFFICES ASSUME U # {} PROVE FALSE
  OBVIOUS
<1>1. PICK m \in U : \A n \in U : n \subseteq m => n = m
  <2> HIDE DEF U
  <2>1. U \subseteq SUBSET S
    BY DEF U
  <2> QED  BY <2>1, SmallestSubset
<1> DEFINE Table(s) == CHOOSE g : IsTable(f, s, g)
           Sum(s) == Table(s)[s]
           new == [s \in SUBSET m |->
                     IF s = {} THEN 0 ELSE f[One(s)] + Sum(s \ {One(s)})]
<1>2. \A s \in SUBSET m : s # m => IsTable(f, s, Table(s))
  <2> SUFFICES ASSUME NEW s \in SUBSET m, s # m PROVE IsTable(f, s, Table(s))
    OBVIOUS
  <2>1. \E g : IsTable(f, s, g)
    BY <1>1
  <2> QED  BY <2>1
<1>3. \A s \in SUBSET m : s # m =>
        Sum(s) = IF s = {} THEN 0 ELSE f[One(s)] + Sum(s \ {One(s)})
  <2> SUFFICES ASSUME NEW s \in SUBSET m, s # m
               PROVE  Sum(s) = IF s = {} THEN 0
                               ELSE f[One(s)] + Sum(s \ {One(s)})
    OBVIOUS
  <2> DEFINE r == s \ {One(s)}
  <2>1. IsTable(f, s, Table(s))
    BY <1>2
  <2>2. Sum(s) = IF s = {} THEN 0 ELSE f[One(s)] + Table(s)[r]
    <3> HIDE DEF Table
    <3> QED  BY <2>1 DEF IsTable
  <2>3. CASE s = {}
    <3> HIDE DEF Sum
    <3> QED  BY <2>2, <2>3
  <2>4. CASE s # {}
    <3>1. One(s) \in s
      BY <2>4, OneIsMember
    <3>2. r \in SUBSET m /\ r # m /\ r \subseteq s
      BY <3>1
    <3>3. IsTable(f, r, Table(r))
      BY <1>2, <3>2
    <3>4. IsFiniteSet(r)
      BY <3>2, FS_Subset
    <3>5. Table(s)[r] = Table(r)[r]
      <4> HIDE DEF Table, r
      <4> QED  BY <2>1, <3>2, <3>3, <3>4, TablesAgree
    <3> HIDE DEF Table
    <3> QED  BY <2>2, <2>4, <3>5
  <2> QED  BY <2>3, <2>4
<1>4. IsTable(f, m, new)
  <2>1. ASSUME NEW s \in SUBSET m, s # {}
        PROVE  new[s \ {One(s)}] = Sum(s \ {One(s)})
    <3>1. s \ {One(s)} \in SUBSET m /\ s \ {One(s)} # m
      BY <2>1, OneIsMember
    <3> HIDE DEF Sum
    <3> QED  BY <1>3, <3>1
  <2> HIDE DEF Sum
  <2>2. \A s \in SUBSET m :
          new[s] = IF s = {} THEN 0 ELSE f[One(s)] + new[s \ {One(s)}]
    BY <2>1
  <2>3. new = [s \in SUBSET m |-> new[s]]
    OBVIOUS
  <2> HIDE DEF new
  <2> QED  BY <2>2, <2>3 DEF IsTable
<1> QED  BY <1>1, <1>4

(* The sum is the entry of the whole set in the table.                     *)
LEMMA SumIsEntry ==
  ASSUME NEW f, NEW S, IsFiniteSet(S)
  PROVE  \E g : IsTable(f, S, g) /\ SumFunctionOnSet(f, S) = g[S]
<1> DEFINE g == CHOOSE t : t = [s \in SUBSET S |->
                  IF s = {} THEN 0
                  ELSE f[CHOOSE x \in s : TRUE] + t[s \ {CHOOSE x \in s : TRUE}]]
<1>1. SumFunctionOnSet(f, S) = g[S]
  BY DEF SumFunctionOnSet, FoldFunctionOnSet, MapThenFoldSet
<1>2. PICK h : IsTable(f, S, h)
  BY TableExists
<1>3. h = [s \in SUBSET S |->
             IF s = {} THEN 0
             ELSE f[CHOOSE x \in s : TRUE] + h[s \ {CHOOSE x \in s : TRUE}]]
  BY <1>2 DEF IsTable, One
<1>4. g = [s \in SUBSET S |->
             IF s = {} THEN 0
             ELSE f[CHOOSE x \in s : TRUE] + g[s \ {CHOOSE x \in s : TRUE}]]
  <2> HIDE DEF g
  <2> QED  BY <1>3 DEF g
<1> HIDE DEF g
<1>5. IsTable(f, S, g)
  BY <1>4 DEF IsTable, One
<1> QED  BY <1>1, <1>5

LEMMA SumOfEmpty ==
  ASSUME NEW f
  PROVE  SumFunctionOnSet(f, {}) = 0
<1>1. PICK g : IsTable(f, {}, g) /\ SumFunctionOnSet(f, {}) = g[{}]
  BY SumIsEntry, FS_EmptySet
<1> QED  BY <1>1 DEF IsTable

LEMMA SumWithoutOne ==
  ASSUME NEW f, NEW S, IsFiniteSet(S), S # {}
  PROVE  SumFunctionOnSet(f, S) =
           f[One(S)] + SumFunctionOnSet(f, S \ {One(S)})
<1> DEFINE r == S \ {One(S)}
<1>1. IsFiniteSet(r)
  BY FS_RemoveElement
<1>2. PICK g : IsTable(f, S, g) /\ SumFunctionOnSet(f, S) = g[S]
  BY SumIsEntry
<1>3. PICK h : IsTable(f, r, h) /\ SumFunctionOnSet(f, r) = h[r]
  BY <1>1, SumIsEntry
<1>4. g[r] = h[r]
  <2>1. r \subseteq S /\ r \in SUBSET r
    OBVIOUS
  <2> HIDE DEF r
  <2> QED  BY <1>1, <1>2, <1>3, <2>1, TablesAgree
<1>5. g[S] = f[One(S)] + g[r]
  <2>1. S \in SUBSET S
    OBVIOUS
  <2> QED  BY <1>2, <2>1 DEF IsTable
<1> HIDE DEF r
<1> QED  BY <1>2, <1>3, <1>4, <1>5 DEF r

LEMMA SumType ==
  ASSUME NEW f, NEW S, IsFiniteSet(S), NEW N, N \in {Nat, Int},
         \A x \in S : f[x] \in N
  PROVE  SumFunctionOnSet(f, S) \in N
<1> DEFINE U == {T \in SUBSET S : SumFunctionOnSet(f, T) \notin N}
<1> SUFFICES ASSUME U # {} PROVE FALSE
  OBVIOUS
<1>1. PICK m \in U : \A n \in U : n \subseteq m => n = m
  <2>1. U \subseteq SUBSET S
    OBVIOUS
  <2> HIDE DEF U
  <2> QED  BY <2>1, SmallestSubset
<1>2. m # {} /\ IsFiniteSet(m)
  <2>1. SumFunctionOnSet(f, {}) \in N
    <3>1. SumFunctionOnSet(f, {}) = 0
      BY SumOfEmpty
    <3> QED  BY <3>1
  <2> QED  BY <1>1, <2>1, FS_Subset
<1>3. One(m) \in m
  BY <1>2, OneIsMember
<1>4. SumFunctionOnSet(f, m \ {One(m)}) \in N
  BY <1>1, <1>3
<1>5. SumFunctionOnSet(f, m) = f[One(m)] + SumFunctionOnSet(f, m \ {One(m)})
  BY <1>2, SumWithoutOne
<1>6. f[One(m)] \in N
  BY <1>3
<1> QED  BY <1>4, <1>5, <1>6

(* Which element is taken first makes no difference.                       *)
LEMMA SumAnyElement ==
  ASSUME NEW f, NEW S, IsFiniteSet(S), \A y \in S : f[y] \in Int, NEW x \in S
  PROVE  SumFunctionOnSet(f, S) = f[x] + SumFunctionOnSet(f, S \ {x})
<1> DEFINE Sum(T) == SumFunctionOnSet(f, T)
           U == {T \in SUBSET S : \E z \in T : Sum(T) # f[z] + Sum(T \ {z})}
<1> SUFFICES ASSUME U # {} PROVE FALSE
  OBVIOUS
<1>1. PICK m \in U : \A n \in U : n \subseteq m => n = m
  <2>1. U \subseteq SUBSET S
    OBVIOUS
  <2> HIDE DEF U
  <2> QED  BY <2>1, SmallestSubset
<1>2. PICK z \in m : Sum(m) # f[z] + Sum(m \ {z})
  BY <1>1
<1> DEFINE y == One(m)
<1>3. y \in m /\ IsFiniteSet(m) /\ m # {} /\ m \subseteq S
  BY <1>1, <1>2, OneIsMember, FS_Subset
<1>4. Sum(m) = f[y] + Sum(m \ {y})
  BY <1>3, SumWithoutOne
<1>5. y # z
  <2> HIDE DEF y
  <2> QED  BY <1>2, <1>4
<1>6. Sum((m \ {y}) \ {z}) \in Int
  <2> HIDE DEF y
  <2>1. IsFiniteSet((m \ {y}) \ {z}) /\ (m \ {y}) \ {z} \subseteq S
    BY <1>3, FS_RemoveElement
  <2> QED  BY <2>1, SumType
<1> HIDE DEF Sum, y
<1>7. \A a, b \in m : a # b => Sum(m \ {a}) = f[b] + Sum((m \ {a}) \ {b})
  <2> SUFFICES ASSUME NEW a \in m, NEW b \in m, a # b
               PROVE  Sum(m \ {a}) = f[b] + Sum((m \ {a}) \ {b})
    OBVIOUS
  <2>1. m \ {a} \in SUBSET S /\ b \in m \ {a} /\ m \ {a} \subseteq m /\ m \ {a} # m
    BY <1>3
  <2> QED  BY <1>1, <2>1
<1>8. Sum(m \ {y}) = f[z] + Sum((m \ {y}) \ {z})
  BY <1>3, <1>5, <1>7
<1>9. Sum(m \ {z}) = f[y] + Sum((m \ {y}) \ {z})
  <2>1. (m \ {z}) \ {y} = (m \ {y}) \ {z}
    OBVIOUS
  <2> QED  BY <1>3, <1>5, <1>7, <2>1
<1>10. f[y] \in Int /\ f[z] \in Int
  BY <1>3
<1> QED  BY <1>2, <1>4, <1>6, <1>8, <1>9, <1>10

LEMMA SumOfOneMore ==
  ASSUME NEW f, NEW S, IsFiniteSet(S), NEW x, x \notin S,
         \A y \in S \cup {x} : f[y] \in Int
  PROVE  SumFunctionOnSet(f, S \cup {x}) = f[x] + SumFunctionOnSet(f, S)
<1>1. IsFiniteSet(S \cup {x}) /\ (S \cup {x}) \ {x} = S
  BY FS_AddElement
<1>2. SumFunctionOnSet(f, S \cup {x})
        = f[x] + SumFunctionOnSet(f, (S \cup {x}) \ {x})
  BY <1>1, SumAnyElement
<1> QED  BY <1>1, <1>2

LEMMA SumGrows ==
  ASSUME NEW f, NEW S, IsFiniteSet(S), \A x \in S : f[x] \in Nat,
         NEW T \in SUBSET S
  PROVE  SumFunctionOnSet(f, T) <= SumFunctionOnSet(f, S)
<1> DEFINE Sum(R) == SumFunctionOnSet(f, R)
           U == {R \in SUBSET S : T \subseteq R /\ ~ (Sum(T) <= Sum(R))}
<1> SUFFICES ASSUME U # {} PROVE FALSE
  OBVIOUS
<1>1. PICK m \in U : \A n \in U : n \subseteq m => n = m
  <2>1. U \subseteq SUBSET S
    OBVIOUS
  <2> HIDE DEF U
  <2> QED  BY <2>1, SmallestSubset
<1>2. \A R \in SUBSET S : IsFiniteSet(R) /\ Sum(R) \in Nat
  <2> SUFFICES ASSUME NEW R \in SUBSET S PROVE IsFiniteSet(R) /\ Sum(R) \in Nat
    OBVIOUS
  <2>1. IsFiniteSet(R)
    BY FS_Subset
  <2> QED  BY <2>1, SumType
<1>3. m # T
  <2> HIDE DEF Sum
  <2> QED  BY <1>1, <1>2
<1>4. PICK x \in m : x \notin T
  BY <1>1, <1>3
<1>5. m \ {x} \in SUBSET S /\ T \subseteq m \ {x} /\ m \ {x} \subseteq m
        /\ m \ {x} # m
  BY <1>1, <1>4
<1>6. Sum(T) <= Sum(m \ {x})
  <2> HIDE DEF Sum
  <2> QED  BY <1>1, <1>5
<1>7. Sum(m) = f[x] + Sum(m \ {x})
  BY <1>1, <1>2, <1>4, SumAnyElement
<1>8. f[x] \in Nat /\ m \in SUBSET S /\ ~ (Sum(T) <= Sum(m))
  BY <1>1, <1>4
<1> HIDE DEF Sum
<1> QED  BY <1>2, <1>5, <1>6, <1>7, <1>8

(* The sum of a part and of the rest.                                      *)
LEMMA SumOfParts ==
  ASSUME NEW f, NEW S, IsFiniteSet(S), \A x \in S : f[x] \in Int, NEW T \in SUBSET S
  PROVE  SumFunctionOnSet(f, S) = SumFunctionOnSet(f, T) + SumFunctionOnSet(f, S \ T)
<1> DEFINE Sum(R) == SumFunctionOnSet(f, R)
           U == {R \in SUBSET S : Sum(S) # Sum(R) + Sum(S \ R)}
<1> SUFFICES ASSUME U # {} PROVE FALSE
  OBVIOUS
<1>1. PICK m \in U : \A n \in U : n \subseteq m => n = m
  <2>1. U \subseteq SUBSET S
    OBVIOUS
  <2> HIDE DEF U
  <2> QED  BY <2>1, SmallestSubset
<1>2. \A R \in SUBSET S : IsFiniteSet(R) /\ Sum(R) \in Int
  <2> SUFFICES ASSUME NEW R \in SUBSET S PROVE IsFiniteSet(R) /\ Sum(R) \in Int
    OBVIOUS
  <2>1. IsFiniteSet(R)
    BY FS_Subset
  <2> QED  BY <2>1, SumType
<1>3. \A R \in SUBSET S : \A x \in R : Sum(R) = f[x] + Sum(R \ {x})
  BY <1>2, SumAnyElement
<1>4. Sum({}) = 0
  BY SumOfEmpty
<1> HIDE DEF Sum
<1>5. m # {}
  <2>1. Sum(S) = 0 + Sum(S) /\ S \ {} = S
    BY <1>2
  <2> QED  BY <1>1, <1>4, <2>1
<1>6. PICK x \in m : TRUE
  BY <1>5
<1> DEFINE r == m \ {x}
<1>7. /\ r \in SUBSET S /\ r \subseteq m /\ r # m /\ m \in SUBSET S
      /\ S \ r \in SUBSET S /\ S \ m \in SUBSET S
      /\ x \in S \ r /\ (S \ r) \ {x} = S \ m
  BY <1>1, <1>6
<1>8. Sum(S) = Sum(r) + Sum(S \ r)
  <2> HIDE DEF r
  <2> QED  BY <1>1, <1>7
<1>9. Sum(S \ r) = f[x] + Sum(S \ m) /\ Sum(m) = f[x] + Sum(r)
  <2>1. Sum(S \ r) = f[x] + Sum((S \ r) \ {x})
    BY <1>3, <1>7
  <2> QED  BY <1>3, <1>6, <1>7, <2>1
<1>10. Sum(S) # Sum(m) + Sum(S \ m)
  BY <1>1
<1>11. Sum(r) \in Int /\ Sum(S \ m) \in Int /\ f[x] \in Int
  BY <1>2, <1>6, <1>7
<1> HIDE DEF r
<1> QED  BY <1>8, <1>9, <1>10, <1>11

(* A weighted sum lies between the weights times the bounds of its values. *)
LEMMA SumBetween ==
  ASSUME NEW f, NEW g, NEW S, IsFiniteSet(S), NEW low \in Int, NEW high \in Int,
         \A x \in S : /\ f[x] \in Int /\ g[x] \in Int
                      /\ low * g[x] <= f[x] /\ f[x] <= high * g[x]
  PROVE  /\ low * SumFunctionOnSet(g, S) <= SumFunctionOnSet(f, S)
         /\ SumFunctionOnSet(f, S) <= high * SumFunctionOnSet(g, S)
<1> DEFINE F(R) == SumFunctionOnSet(f, R)
           G(R) == SumFunctionOnSet(g, R)
           U == {R \in SUBSET S : ~ (low * G(R) <= F(R) /\ F(R) <= high * G(R))}
<1> SUFFICES ASSUME U # {} PROVE FALSE
  OBVIOUS
<1>1. PICK m \in U : \A n \in U : n \subseteq m => n = m
  <2>1. U \subseteq SUBSET S
    OBVIOUS
  <2> HIDE DEF U
  <2> QED  BY <2>1, SmallestSubset
<1>2. \A R \in SUBSET S : IsFiniteSet(R) /\ F(R) \in Int /\ G(R) \in Int
  <2> SUFFICES ASSUME NEW R \in SUBSET S
               PROVE  IsFiniteSet(R) /\ F(R) \in Int /\ G(R) \in Int
    OBVIOUS
  <2>1. IsFiniteSet(R)
    BY FS_Subset
  <2> QED  BY <2>1, SumType
<1>3. m # {}
  <2>1. F({}) = 0 /\ G({}) = 0 /\ low * 0 = 0 /\ high * 0 = 0
    BY SumOfEmpty
  <2> SUFFICES ASSUME m = {} PROVE FALSE
    OBVIOUS
  <2>2. ~ (low * G({}) <= F({}) /\ F({}) <= high * G({}))
    BY <1>1
  <2> HIDE DEF F, G
  <2>3. low * G({}) = 0 /\ high * G({}) = 0
    BY <2>1
  <2> QED  BY <2>1, <2>2, <2>3
<1>4. PICK x \in m : TRUE
  BY <1>3
<1>5. F(m) = f[x] + F(m \ {x}) /\ G(m) = g[x] + G(m \ {x})
  BY <1>1, <1>2, <1>4, SumAnyElement
<1> HIDE DEF F, G
<1>6. m \ {x} \in SUBSET S /\ m \ {x} \subseteq m /\ m \ {x} # m /\ x \in S
  BY <1>1, <1>4
<1>7. low * G(m \ {x}) <= F(m \ {x}) /\ F(m \ {x}) <= high * G(m \ {x})
  BY <1>1, <1>6
<1>8. ~ (low * G(m) <= F(m) /\ F(m) <= high * G(m))
  BY <1>1
<1> DEFINE a == G(m \ {x})
           b == F(m \ {x})
           c == g[x]
           d == f[x]
<1>9. a \in Int /\ b \in Int /\ c \in Int /\ d \in Int
  BY <1>2, <1>6
<1>10. low * c <= d /\ d <= high * c
  BY <1>6
<1>11. low * (c + a) = low * c + low * a /\ high * (c + a) = high * c + high * a
  <2> HIDE DEF a, b, c, d
  <2> QED  BY <1>9
<1> QED  BY <1>5, <1>7, <1>8, <1>9, <1>10, <1>11

(* The sum of the same values at other positions.                          *)
LEMMA SumRearranged ==
  ASSUME NEW S, IsFiniteSet(S), NEW p, NEW f, NEW g,
         \A x, y \in S : p[x] = p[y] => x = y,
         \A x \in S : f[x] \in Int /\ f[x] = g[p[x]]
  PROVE  SumFunctionOnSet(f, S) = SumFunctionOnSet(g, {p[x] : x \in S})
<1> DEFINE Image(R) == {p[x] : x \in R}
           U == {R \in SUBSET S :
                   SumFunctionOnSet(f, R) # SumFunctionOnSet(g, Image(R))}
<1> SUFFICES ASSUME U # {} PROVE FALSE
  OBVIOUS
<1>1. PICK m \in U : \A n \in U : n \subseteq m => n = m
  <2>1. U \subseteq SUBSET S
    OBVIOUS
  <2> HIDE DEF U
  <2> QED  BY <2>1, SmallestSubset
<1>2. ASSUME m = {} PROVE FALSE
  <2>1. Image(m) = {}
    BY <1>2
  <2>2. SumFunctionOnSet(f, {}) = 0 /\ SumFunctionOnSet(g, {}) = 0
    BY SumOfEmpty
  <2>3. SumFunctionOnSet(f, m) # SumFunctionOnSet(g, Image(m))
    BY <1>1
  <2>4. SumFunctionOnSet(f, {}) # SumFunctionOnSet(g, {})
    BY <1>2, <2>1, <2>3
  <2> QED  BY <2>2, <2>4
<1>3. PICK x \in m : TRUE
  BY <1>2
<1>4. m \ {x} \in SUBSET S /\ m \ {x} \subseteq m /\ m \ {x} # m
  BY <1>1, <1>3
<1>5. SumFunctionOnSet(f, m \ {x}) = SumFunctionOnSet(g, Image(m \ {x}))
  BY <1>1, <1>4
<1>6. Image(m \ {x}) = Image(m) \ {p[x]}
  BY <1>1, <1>3
<1>7. SumFunctionOnSet(f, m) = f[x] + SumFunctionOnSet(f, m \ {x})
  <2>1. IsFiniteSet(m)
    BY <1>1, FS_Subset
  <2> QED  BY <1>1, <1>3, <2>1, SumAnyElement
<1>8. SumFunctionOnSet(g, Image(m))
        = g[p[x]] + SumFunctionOnSet(g, Image(m) \ {p[x]})
  <2>1. IsFiniteSet(m)
    BY <1>1, FS_Subset
  <2>2. IsFiniteSet(Image(m))
    <3>1. [y \in m |-> p[y]] \in Surjection(m, Image(m))
      BY DEF Surjection
    <3> QED  BY <2>1, <3>1, FS_Surjection
  <2>3. p[x] \in Image(m) /\ \A y \in Image(m) : g[y] \in Int
    BY <1>1, <1>3
  <2> HIDE DEF Image
  <2> QED  BY <2>2, <2>3, SumAnyElement
<1>9. f[x] = g[p[x]] /\ SumFunctionOnSet(f, m) # SumFunctionOnSet(g, Image(m))
  BY <1>1, <1>3
<1> HIDE DEF Image
<1> QED  BY <1>5, <1>6, <1>7, <1>8, <1>9

-----------------------------------------------------------------------------
(* The weighted median of a list of points.                                *)

PointList(s) ==
  /\ s = [i \in DOMAIN s |-> s[i]]
  /\ IsFiniteSet(DOMAIN s) /\ DOMAIN s \subseteq Nat
  /\ \A i \in DOMAIN s : s[i].price \in Nat /\ s[i].weight \in Nat

(* Points are in a strict total order that respects prices.                *)
LEMMA PrecedesIsOrder ==
  ASSUME NEW s, PointList(s),
         NEW i \in DOMAIN s, NEW j \in DOMAIN s, NEW k \in DOMAIN s
  PROVE  /\ ~ Precedes(s, i, i)
         /\ i = j \/ Precedes(s, i, j) \/ Precedes(s, j, i)
         /\ Precedes(s, i, j) /\ Precedes(s, j, k) => Precedes(s, i, k)
         /\ Precedes(s, i, j) => s[i].price <= s[j].price
BY DEF PointList, Precedes

LEMMA FirstExists ==
  ASSUME NEW s, PointList(s), NEW T \in SUBSET DOMAIN s, T # {}
  PROVE  \E i \in T : \A j \in T : j = i \/ Precedes(s, i, j)
<1> DEFINE Has(R) == \E i \in R : \A j \in R : j = i \/ Precedes(s, i, j)
           U == {R \in SUBSET T : R # {} /\ ~ Has(R)}
<1> SUFFICES ASSUME U # {} PROVE FALSE
  OBVIOUS
<1>1. PICK m \in U : \A n \in U : n \subseteq m => n = m
  <2>1. U \subseteq SUBSET T /\ IsFiniteSet(T)
    BY FS_Subset DEF PointList
  <2> HIDE DEF U
  <2> QED  BY <2>1, SmallestSubset
<1>2. PICK x \in m : TRUE
  BY <1>1
<1>3. m \ {x} = {} \/ Has(m \ {x})
  <2>1. m \ {x} \in SUBSET T /\ m \ {x} \subseteq m /\ m \ {x} # m
    BY <1>1, <1>2
  <2> HIDE DEF Has
  <2> QED  BY <1>1, <2>1
<1>4. CASE m \ {x} = {}
  BY <1>1, <1>2, <1>4
<1>5. CASE Has(m \ {x})
  <2>1. PICK i \in m \ {x} : \A j \in m \ {x} : j = i \/ Precedes(s, i, j)
    BY <1>5
  <2>2. m \subseteq DOMAIN s
    BY <1>1
  <2>3. CASE Precedes(s, i, x)
    BY <1>1, <2>1, <2>3
  <2>4. CASE Precedes(s, x, i)
    <3>1. \A j \in m : j = x \/ Precedes(s, x, j)
      BY <1>2, <2>1, <2>2, <2>4, PrecedesIsOrder
    <3> QED  BY <1>1, <1>2, <3>1
  <2> QED  BY <1>2, <2>1, <2>2, <2>3, <2>4, PrecedesIsOrder
<1> QED  BY <1>3, <1>4, <1>5

LEMMA LastExists ==
  ASSUME NEW s, PointList(s), NEW T \in SUBSET DOMAIN s, T # {}
  PROVE  \E i \in T : \A j \in T : j = i \/ Precedes(s, j, i)
<1> DEFINE Has(R) == \E i \in R : \A j \in R : j = i \/ Precedes(s, j, i)
           U == {R \in SUBSET T : R # {} /\ ~ Has(R)}
<1> SUFFICES ASSUME U # {} PROVE FALSE
  OBVIOUS
<1>1. PICK m \in U : \A n \in U : n \subseteq m => n = m
  <2>1. U \subseteq SUBSET T /\ IsFiniteSet(T)
    BY FS_Subset DEF PointList
  <2> HIDE DEF U
  <2> QED  BY <2>1, SmallestSubset
<1>2. PICK x \in m : TRUE
  BY <1>1
<1>3. m \ {x} = {} \/ Has(m \ {x})
  <2>1. m \ {x} \in SUBSET T /\ m \ {x} \subseteq m /\ m \ {x} # m
    BY <1>1, <1>2
  <2> HIDE DEF Has
  <2> QED  BY <1>1, <2>1
<1>4. CASE m \ {x} = {}
  BY <1>1, <1>2, <1>4
<1>5. CASE Has(m \ {x})
  <2>1. PICK i \in m \ {x} : \A j \in m \ {x} : j = i \/ Precedes(s, j, i)
    BY <1>5
  <2>2. m \subseteq DOMAIN s
    BY <1>1
  <2>3. CASE Precedes(s, x, i)
    BY <1>1, <2>1, <2>3
  <2>4. CASE Precedes(s, i, x)
    <3>1. \A j \in m : j = x \/ Precedes(s, j, x)
      BY <1>2, <2>1, <2>2, <2>4, PrecedesIsOrder
    <3> QED  BY <1>1, <1>2, <3>1
  <2> QED  BY <1>2, <2>1, <2>2, <2>3, <2>4, PrecedesIsOrder
<1> QED  BY <1>3, <1>4, <1>5

LEMMA WeightOfSet ==
  ASSUME NEW s, PointList(s), NEW T \in SUBSET DOMAIN s
  PROVE  /\ Weight(s, T) \in Nat
         /\ \A R \in SUBSET T : Weight(s, R) <= Weight(s, T)
         /\ \A i \in T : Weight(s, T) = s[i].weight + Weight(s, T \ {i})
         /\ Weight(s, {}) = 0
<1> DEFINE f == [i \in DOMAIN s |-> s[i].weight]
<1>1. IsFiniteSet(T) /\ \A i \in T : f[i] \in Nat /\ f[i] \in Int
  BY FS_Subset DEF PointList
<1>2. SumFunctionOnSet(f, T) \in Nat
  <2> HIDE DEF f
  <2> QED  BY <1>1, SumType
<1>3. \A R \in SUBSET T : SumFunctionOnSet(f, R) <= SumFunctionOnSet(f, T)
  <2> HIDE DEF f
  <2> QED  BY <1>1, SumGrows
<1>4. \A i \in T : SumFunctionOnSet(f, T) = f[i] + SumFunctionOnSet(f, T \ {i})
  <2> HIDE DEF f
  <2> QED  BY <1>1, SumAnyElement
<1>5. SumFunctionOnSet(f, {}) = 0
  <2> HIDE DEF f
  <2> QED  BY SumOfEmpty
<1> QED  BY <1>2, <1>3, <1>4, <1>5 DEF Weight

LEMMA BeforeAndAt ==
  ASSUME NEW s, PointList(s), NEW i \in DOMAIN s
  PROVE  /\ Before(s, i) \in SUBSET DOMAIN s /\ i \notin Before(s, i)
         /\ Weight(s, Before(s, i)) \in Nat
         /\ Weight(s, Before(s, i) \cup {i}) = s[i].weight + Weight(s, Before(s, i))
<1>1. Before(s, i) \in SUBSET DOMAIN s /\ i \notin Before(s, i)
  BY PrecedesIsOrder DEF Before
<1>2. (Before(s, i) \cup {i}) \ {i} = Before(s, i)
  BY <1>1
<1> QED  BY <1>1, <1>2, WeightOfSet

IsCrossing(s, i) ==
  /\ 2 * Weight(s, Before(s, i)) < Weight(s, DOMAIN s)
  /\ 2 * Weight(s, Before(s, i) \cup {i}) >= Weight(s, DOMAIN s)

(* There is a point at which half of the weight is reached, if any has     *)
(* weight: the first of those up to which there is enough of it.           *)
LEMMA CrossingExists ==
  ASSUME NEW s, PointList(s), Weight(s, DOMAIN s) # 0
  PROVE  Crossing(s) \in DOMAIN s /\ IsCrossing(s, Crossing(s))
<1> DEFINE total == Weight(s, DOMAIN s)
           T == {i \in DOMAIN s : 2 * Weight(s, Before(s, i) \cup {i}) >= total}
<1>1. total \in Nat /\ total > 0 /\ DOMAIN s # {}
  BY WeightOfSet
<1>2. T # {}
  <2>1. PICK i \in DOMAIN s : \A j \in DOMAIN s : j = i \/ Precedes(s, j, i)
    BY <1>1, LastExists
  <2>2. Before(s, i) \cup {i} = DOMAIN s
    BY <2>1 DEF Before
  <2> QED  BY <1>1, <2>2
<1>3. PICK i \in T : \A j \in T : j = i \/ Precedes(s, i, j)
  <2>1. T \in SUBSET DOMAIN s
    OBVIOUS
  <2> HIDE DEF T
  <2> QED  BY <1>2, <2>1, FirstExists
<1>4. 2 * Weight(s, Before(s, i)) < total
  <2>1. CASE Before(s, i) = {}
    BY <1>1, <2>1, WeightOfSet
  <2>2. CASE Before(s, i) # {}
    <3>1. PICK j \in Before(s, i) : \A k \in Before(s, i) : k = j \/ Precedes(s, k, j)
      BY <2>2, LastExists, BeforeAndAt
    <3>2. j \in DOMAIN s /\ Precedes(s, j, i)
      BY <3>1 DEF Before
    <3>3. Before(s, j) \cup {j} = Before(s, i)
      BY <3>1, <3>2, PrecedesIsOrder DEF Before
    <3>4. j \notin T
      BY <1>3, <3>2, PrecedesIsOrder
    <3>5. Weight(s, Before(s, i)) \in Nat
      BY BeforeAndAt
    <3> QED  BY <1>1, <3>2, <3>3, <3>4, <3>5
  <2> QED  BY <2>1, <2>2
<1>5. i \in DOMAIN s /\ IsCrossing(s, i)
  BY <1>3, <1>4 DEF IsCrossing
<1> HIDE DEF total, T
<1> QED  BY <1>5 DEF Crossing, IsCrossing

LEMMA PreviousIsLast ==
  ASSUME NEW s, PointList(s), NEW i \in DOMAIN s, Before(s, i) # {}
  PROVE  /\ Previous(s, i) \in Before(s, i) /\ Previous(s, i) \in DOMAIN s
         /\ \A k \in Before(s, i) : k = Previous(s, i) \/ Precedes(s, k, Previous(s, i))
         /\ s[Previous(s, i)].price <= s[i].price
<1>1. PICK j \in Before(s, i) : \A k \in Before(s, i) : k = j \/ Precedes(s, k, j)
  BY LastExists, BeforeAndAt
<1>2. /\ Previous(s, i) \in Before(s, i)
      /\ \A k \in Before(s, i) : k = Previous(s, i) \/ Precedes(s, k, Previous(s, i))
  BY <1>1 DEF Previous
<1>3. Previous(s, i) \in DOMAIN s /\ Precedes(s, Previous(s, i), i)
  BY <1>2 DEF Before
<1> QED  BY <1>2, <1>3, PrecedesIsOrder

(* A point between two numbers: what an interpolation is.                  *)
LEMMA BetweenEnds ==
  ASSUME NEW low \in Nat, NEW high \in Nat, low <= high,
         NEW part \in Nat, NEW span \in Nat, part <= span
  PROVE  /\ low * span + (high - low) * part \in Nat
         /\ low * span <= low * span + (high - low) * part
         /\ low * span + (high - low) * part <= high * span
<1> DEFINE d == high - low
<1>1. d \in Nat /\ high = low + d
  OBVIOUS
<1>2. d * part \in Nat /\ d * part <= d * span /\ low * span \in Nat
  <2> HIDE DEF d
  <2>1. PICK r \in Nat : span = part + r
    <3>1. span - part \in Nat /\ span = part + (span - part)
      OBVIOUS
    <3> QED  BY <3>1
  <2>2. d * span = d * part + d * r /\ d * r \in Nat /\ d * part \in Nat
    BY <1>1, <2>1
  <2> QED  BY <2>2
<1>3. high * span = low * span + d * span
  <2> HIDE DEF d
  <2> QED  BY <1>1
<1> HIDE DEF d
<1>4. d * part \in Int /\ d * span \in Int /\ low * span \in Int
  BY <1>1
<1> QED  BY <1>2, <1>3, <1>4 DEF d

Fraction == [num : Nat, den : Nat \ {0}]

LEMMA InterpolatedBetween ==
  ASSUME NEW s, PointList(s), NEW i \in DOMAIN s, IsCrossing(s, i), Before(s, i) # {}
  PROVE  /\ Interpolated(s, i) \in Fraction
         /\ Within(Interpolated(s, i), Prices(s), 0)
<1> DEFINE j == Previous(s, i)
           before == Weight(s, Before(s, i))
           part == Weight(s, DOMAIN s) - 2 * before
           span == 2 * s[i].weight
<1>1. /\ j \in DOMAIN s /\ s[j].price \in Nat /\ s[i].price \in Nat
      /\ s[i].weight \in Nat /\ s[j].price <= s[i].price
  BY PreviousIsLast DEF PointList
<1>2. /\ Weight(s, DOMAIN s) \in Nat /\ before \in Nat
      /\ 2 * before < Weight(s, DOMAIN s)
      /\ 2 * (s[i].weight + before) >= Weight(s, DOMAIN s)
  BY WeightOfSet, BeforeAndAt DEF IsCrossing
<1>3. part \in Nat /\ span \in Nat /\ span > 0 /\ part <= span
  <2> HIDE DEF before
  <2> QED  BY <1>1, <1>2
<1> DEFINE num == s[j].price * span + (s[i].price - s[j].price) * part
<1>4. num \in Nat /\ s[j].price * span <= num /\ num <= s[i].price * span
  <2> HIDE DEF span, part, j
  <2> QED  BY <1>1, <1>3, BetweenEnds
<1>5. Interpolated(s, i) = [num |-> num, den |-> span]
  BY DEF Interpolated
<1>6. s[j].price \in Prices(s) /\ s[i].price \in Prices(s)
  BY <1>1 DEF Prices
<1> DEFINE low == s[j].price
           high == s[i].price
<1>7. low \in Nat /\ high \in Nat /\ low \in Prices(s) /\ high \in Prices(s)
        /\ low * span <= num /\ num <= high * span
  BY <1>1, <1>4, <1>6
<1> HIDE DEF num, span, low, high
<1>8. Interpolated(s, i) \in Fraction
  BY <1>3, <1>4, <1>5 DEF Fraction
<1>9. LE(Whole(low - 0), Interpolated(s, i)) /\ LE(Interpolated(s, i), Whole(high + 0))
  <2>1. low - 0 = low /\ high + 0 = high
    BY <1>7
  <2>2. Whole(low).num = low /\ Whole(low).den = 1 /\ Whole(high).num = high
          /\ Whole(high).den = 1
    BY DEF Whole
  <2>3. Interpolated(s, i).num = num /\ Interpolated(s, i).den = span
    BY <1>5
  <2>4. num * 1 = num
    BY <1>4
  <2> QED  BY <1>7, <2>1, <2>2, <2>3, <2>4 DEF LE
<1> QED  BY <1>7, <1>8, <1>9 DEF Within

LEMMA WholeWithin ==
  ASSUME NEW P, NEW p \in P, p \in Nat
  PROVE  Whole(p) \in Fraction /\ Within(Whole(p), P, 0)
BY DEF Whole, Fraction, Within, LE

(* The prices of a list have a lowest and a highest.                       *)
LEMMA PricesHaveEnds ==
  ASSUME NEW s, PointList(s), DOMAIN s # {}
  PROVE  \E low, high \in Prices(s) :
           /\ low \in Nat /\ high \in Nat
           /\ \A i \in DOMAIN s : low <= s[i].price /\ s[i].price <= high
<1>1. PICK i \in DOMAIN s : \A k \in DOMAIN s : k = i \/ Precedes(s, i, k)
  BY FirstExists
<1>2. PICK j \in DOMAIN s : \A k \in DOMAIN s : k = j \/ Precedes(s, k, j)
  BY LastExists
<1>3. \A k \in DOMAIN s : s[k].price \in Nat
  BY DEF PointList
<1>4. \A k \in DOMAIN s : s[i].price <= s[k].price /\ s[k].price <= s[j].price
  BY <1>1, <1>2, <1>3, PrecedesIsOrder
<1> QED  BY <1>3, <1>4 DEF Prices

LEMMA TierMeanBetween ==
  ASSUME NEW s, PointList(s), DOMAIN s # {}
  PROVE  TierMean(s) \in Fraction /\ Within(TierMean(s), Prices(s), 0)
<1> DEFINE t(i) == IF s[i].tier = 1 THEN 2 ELSE 1
           f == [i \in DOMAIN s |-> s[i].price * t(i)]
           g == [i \in DOMAIN s |-> t(i)]
           num == SumFunctionOnSet(f, DOMAIN s)
           den == SumFunctionOnSet(g, DOMAIN s)
<1>1. TierMean(s) = [num |-> num, den |-> den]
  BY DEF TierMean, SumFunction
<1>2. PICK low, high \in Prices(s) :
           /\ low \in Nat /\ high \in Nat
           /\ \A i \in DOMAIN s : low <= s[i].price /\ s[i].price <= high
  BY PricesHaveEnds
<1>3. \A i \in DOMAIN s :
        /\ f[i] = s[i].price * g[i]
        /\ g[i] \in {1, 2} /\ s[i].price \in Nat
  BY DEF PointList
<1> HIDE DEF f, g
<1>4. \A i \in DOMAIN s :
        /\ f[i] \in Nat /\ f[i] \in Int /\ g[i] \in Nat /\ g[i] \in Int
        /\ low * g[i] <= f[i] /\ f[i] <= high * g[i]
  <2> SUFFICES ASSUME NEW i \in DOMAIN s
               PROVE  /\ f[i] \in Nat /\ f[i] \in Int /\ g[i] \in Nat /\ g[i] \in Int
                      /\ low * g[i] <= f[i] /\ f[i] <= high * g[i]
    OBVIOUS
  <2>1. low <= s[i].price /\ s[i].price <= high /\ s[i].price \in Nat
    BY <1>2, <1>3
  <2>2. CASE g[i] = 1
    BY <1>2, <1>3, <2>1, <2>2
  <2>3. CASE g[i] = 2
    BY <1>2, <1>3, <2>1, <2>3
  <2> QED  BY <1>3, <2>2, <2>3
<1>5. IsFiniteSet(DOMAIN s)
  BY DEF PointList
<1>6. num \in Nat /\ den \in Nat
  BY <1>4, <1>5, SumType
<1>7. den > 0
  <2>1. PICK i \in DOMAIN s : TRUE
    OBVIOUS
  <2>2. den = g[i] + SumFunctionOnSet(g, DOMAIN s \ {i})
    BY <1>4, <1>5, SumAnyElement
  <2>3. SumFunctionOnSet(g, DOMAIN s \ {i}) \in Nat
    <3>1. IsFiniteSet(DOMAIN s \ {i})
      BY <1>5, FS_RemoveElement
    <3> QED  BY <1>4, <3>1, SumType
  <2> HIDE DEF den
  <2> QED  BY <1>3, <2>2, <2>3
<1>8. low * den <= num /\ num <= high * den
  BY <1>2, <1>4, <1>5, SumBetween
<1> HIDE DEF num, den
<1>9. TierMean(s) \in Fraction
  BY <1>1, <1>6, <1>7 DEF Fraction
<1>10. LE(Whole(low - 0), TierMean(s)) /\ LE(TierMean(s), Whole(high + 0))
  <2>1. low - 0 = low /\ high + 0 = high /\ num * 1 = num
    BY <1>2, <1>6
  <2>2. /\ Whole(low).num = low /\ Whole(low).den = 1
        /\ Whole(high).num = high /\ Whole(high).den = 1
    BY DEF Whole
  <2>3. TierMean(s).num = num /\ TierMean(s).den = den
    BY <1>1
  <2> QED  BY <1>8, <2>1, <2>2, <2>3 DEF LE
<1> QED  BY <1>2, <1>9, <1>10 DEF Within

LEMMA MaxOfTwo ==
  ASSUME NEW a \in Int, NEW b \in Int
  PROVE  Max({a, b}) \in Int /\ Max({a, b}) >= a /\ Max({a, b}) >= b
<1>1. \E x \in {a, b} : \A y \in {a, b} : x >= y
  <2>1. CASE a >= b
    BY <2>1
  <2>2. CASE ~ (a >= b)
    BY <2>2
  <2> QED  BY <2>1, <2>2
<1> QED  BY <1>1 DEF Max

(* A filter leaves a restriction of the list.                              *)
LEMMA RestrictionOfList ==
  ASSUME NEW s, PointList(s), NEW K \in SUBSET DOMAIN s
  PROVE  PointList(Restrict(s, K)) /\ Prices(Restrict(s, K)) \subseteq Prices(s)
<1>1. IsFiniteSet(K)
  BY FS_Subset DEF PointList
<1> QED  BY <1>1 DEF PointList, Prices, Restrict

(* fastOutlierRemoval leaves a part of the points that is not empty.       *)
LEMMA OutliersLeaveSome ==
  ASSUME NEW s, PointList(s), DOMAIN s # {}
  PROVE  \E K \in SUBSET DOMAIN s : K # {} /\ WithoutOutliers(s) = Restrict(s, K)
<1> DEFINE K == {i \in DOMAIN s :
                   \/ Trusted(s, s[i])
                   \/ ~ \/ OutsideQuartiles(s, s[i].price)
                        \/ FarFromMean(s, s[i].price)
                        \/ FarFromMedian(s, s[i].price)}
           few == (3 * Length(s)) \div 5
<1>1. WithoutOutliers(s) =
        IF Length(s) <= 3 \/ Length(Restrict(s, K)) < Max({2, few}) THEN s
        ELSE Restrict(s, K)
  BY DEF WithoutOutliers, RestrictValues
<1> HIDE DEF K
<1>2. CASE WithoutOutliers(s) = s
  <2>1. s = Restrict(s, DOMAIN s)
    BY DEF PointList, Restrict
  <2> QED  BY <1>2, <2>1
<1>3. CASE ~ (Length(Restrict(s, K)) < Max({2, few}))
  <2>1. Length(s) \in Nat
    BY FS_CardinalityType DEF Length, PointList
  <2>2. Max({2, few}) \in Int /\ Max({2, few}) >= 2
    <3>1. few \in Int
      BY <2>1
    <3> HIDE DEF few
    <3> QED  BY <3>1, MaxOfTwo
  <2>3. K # {}
    <3> SUFFICES ASSUME K = {} PROVE FALSE
      OBVIOUS
    <3>1. Length(Restrict(s, K)) = 0
      BY FS_EmptySet DEF Restrict, Length
    <3> QED  BY <1>3, <2>2, <3>1
  <2>4. K \in SUBSET DOMAIN s
    BY DEF K
  <2> QED  BY <1>1, <1>2, <2>3, <2>4
<1> QED  BY <1>1, <1>2, <1>3

(* The weighted median is a fraction between two of the prices, in each    *)
(* case of calculateOptimizedWeightedMedian.                               *)
LEMMA MedianBetween ==
  ASSUME NEW points, PointList(points), DOMAIN points # {}
  PROVE  /\ WeightedMedian(points) \in Fraction
         /\ Within(WeightedMedian(points), Prices(points), 0)
<1>1. PICK K \in SUBSET DOMAIN points :
             K # {} /\ WithoutOutliers(points) = Restrict(points, K)
  BY OutliersLeaveSome
<1> DEFINE s == WithoutOutliers(points)
           i == Crossing(s)
           k == CHOOSE k \in DOMAIN points : TRUE
<1>2. PointList(s) /\ DOMAIN s # {} /\ Prices(s) \subseteq Prices(points)
  <2>1. DOMAIN Restrict(points, K) = K
    BY DEF Restrict
  <2> QED  BY <1>1, <2>1, RestrictionOfList
<1>3. WeightedMedian(points) =
        IF Length(points) = 1 THEN Whole(points[k].price)
        ELSE IF Weight(s, DOMAIN s) = 0 THEN TierMean(s)
        ELSE IF Before(s, i) = {} THEN Whole(s[i].price)
        ELSE Interpolated(s, i)
  BY DEF WeightedMedian
<1>4. k \in DOMAIN points
  OBVIOUS
<1> HIDE DEF s, i, k
<1> DEFINE m == WeightedMedian(points)
<1>5. CASE m = Whole(points[k].price)
  <2>1. points[k].price \in Prices(points) /\ points[k].price \in Nat
    BY <1>4 DEF Prices, PointList
  <2> QED  BY <1>5, <2>1, WholeWithin
<1>6. ASSUME m \in Fraction, Within(m, Prices(s), 0)
      PROVE  m \in Fraction /\ Within(m, Prices(points), 0)
  BY <1>2, <1>6 DEF Within
<1>7. CASE m = TierMean(s)
  BY <1>2, <1>6, <1>7, TierMeanBetween
<1>8. CASE Weight(s, DOMAIN s) # 0 /\ m = IF Before(s, i) = {} THEN Whole(s[i].price)
                                          ELSE Interpolated(s, i)
  <2>1. i \in DOMAIN s /\ IsCrossing(s, i)
    BY <1>2, <1>8, CrossingExists DEF i
  <2>2. CASE Before(s, i) = {}
    <3>1. s[i].price \in Prices(s) /\ s[i].price \in Nat
      BY <1>2, <2>1 DEF Prices, PointList
    <3> QED  BY <1>6, <1>8, <2>2, <3>1, WholeWithin
  <2>3. CASE Before(s, i) # {}
    BY <1>2, <1>6, <1>8, <2>1, <2>3, InterpolatedBetween
  <2> QED  BY <2>2, <2>3
<1> QED  BY <1>3, <1>5, <1>7, <1>8

-----------------------------------------------------------------------------
(* What aggregate computes of the updates of a feed.                       *)

(* validateUpdates gives a part of the valid updates.                      *)
LEMMA ValidatedIsValid ==
  ASSUME NEW us \in Seq(PriceUpdate)
  PROVE  /\ \E K \in SUBSET DOMAIN us :
              /\ Valid(us) = Restrict(us, K)
              /\ K = {i \in DOMAIN us : us[i].price > 0 /\ us[i].confidence \in 1 .. 10}
         /\ \E K \in SUBSET DOMAIN Valid(us) : Validated(us) = Restrict(us, K)
<1> DEFINE K == {i \in DOMAIN us : us[i].price > 0 /\ us[i].confidence \in 1 .. 10}
           v == Valid(us)
           middle == MiddlePrice(v)
           L == {i \in DOMAIN v : 4 * Distance(v[i].price, middle) <= middle}
<1>1. v = Restrict(us, K)
  BY DEF Valid, RestrictValues
<1>2. Stable(v) = Restrict(v, L)
  BY DEF Stable, RestrictValues
<1> HIDE DEF L
<1>3. L \subseteq DOMAIN v
  BY DEF L
<1>4. Validated(us) \in {v, Stable(v)}
  BY DEF Validated
<1>5. v = Restrict(us, DOMAIN v) /\ Restrict(v, L) = Restrict(us, L)
  BY <1>1, <1>3 DEF Restrict
<1>6. \E I \in SUBSET DOMAIN v : Validated(us) = Restrict(us, I)
  <2>1. DOMAIN v \in SUBSET DOMAIN v /\ L \in SUBSET DOMAIN v
    BY <1>3
  <2> HIDE DEF v
  <2> QED  BY <1>2, <1>4, <1>5, <2>1
<1>7. K \in SUBSET DOMAIN us
  OBVIOUS
<1> QED  BY <1>1, <1>6, <1>7

LEMMA PointsOfUpdates ==
  ASSUME NEW us \in Seq(PriceUpdate), NEW K \in SUBSET DOMAIN us
  PROVE  /\ PointList(Points(Restrict(us, K)))
         /\ DOMAIN Points(Restrict(us, K)) = K
         /\ Prices(Points(Restrict(us, K))) = Prices(Restrict(us, K))
<1> DEFINE s == Points(Restrict(us, K))
<1>1. DOMAIN us = 1 .. Len(us) /\ Len(us) \in Nat /\ \A i \in DOMAIN us : us[i] \in PriceUpdate
  OBVIOUS
<1>2. IsFiniteSet(K) /\ K \subseteq Nat
  <2>1. IsFiniteSet(DOMAIN us)
    BY <1>1, FS_Interval
  <2> QED  BY <1>1, <2>1, FS_Subset
<1>3. DOMAIN s = K /\
      \A i \in K : s[i] = [price |-> us[i].price,
                           weight |-> Trust[us[i].source] * Decay[us[i].age] * us[i].confidence,
                           tier |-> Tier[us[i].source]]
  BY DEF Points, Restrict
<1> HIDE DEF s
<1>4. s = [i \in DOMAIN s |-> s[i]]
  BY DEF s, Points
<1>5. \A i \in K : s[i].price \in Nat /\ s[i].weight \in Nat
  <2> SUFFICES ASSUME NEW i \in K PROVE s[i].price \in Nat /\ s[i].weight \in Nat
    OBVIOUS
  <2>1. /\ us[i].source \in DOMAIN Trust /\ us[i].age \in DOMAIN Decay
        /\ us[i].price \in Nat /\ us[i].confidence \in Nat
    BY <1>1 DEF PriceUpdate
  <2>2. Trust[us[i].source] \in 1 .. 10 /\ Decay[us[i].age] \in 0 .. 10
    BY <2>1, WeightAssumption, Zenon
  <2>3. \A t \in 1 .. 10, d \in 0 .. 10, c \in Nat : t * d * c \in Nat
    <3>1. \A t \in 1 .. 10, d \in 0 .. 10 : t * d \in Nat
      OBVIOUS
    <3>2. \A a, c \in Nat : a * c \in Nat
      OBVIOUS
    <3> QED  BY <3>1, <3>2
  <2>4. Trust[us[i].source] * Decay[us[i].age] * us[i].confidence \in Nat
    BY <2>1, <2>2, <2>3
  <2> QED  BY <1>3, <2>1, <2>4
<1>6. Prices(s) = Prices(Restrict(us, K))
  BY <1>3 DEF Prices, Restrict
<1> QED  BY <1>2, <1>3, <1>5, <1>6, <1>4 DEF PointList, s

(* The price of updates that have one is between those that are valid.     *)
LEMMA ComputedBetween ==
  ASSUME NEW us \in Seq(PriceUpdate), Computed(us) # Rejected
  PROVE  /\ Computed(us) \in Result \ {Rejected}
         /\ Within(Computed(us).price, Prices(Valid(us)), 0)
<1>1. PICK K \in SUBSET DOMAIN Valid(us) : Validated(us) = Restrict(us, K)
  BY ValidatedIsValid
<1>2. PICK V \in SUBSET DOMAIN us : Valid(us) = Restrict(us, V)
  BY ValidatedIsValid
<1>3. DOMAIN Valid(us) = V /\ K \subseteq V
  BY <1>1, <1>2 DEF Restrict
<1> DEFINE points == Points(Validated(us))
           m == WeightedMedian(points)
<1>4. K # {} /\ Computed(us) = [kind |-> "price", price |-> m]
  <2>1. DOMAIN Validated(us) = K
    BY <1>1 DEF Restrict
  <2> QED  BY <2>1 DEF Computed
<1>5. PointList(points) /\ DOMAIN points = K /\ Prices(points) = Prices(Restrict(us, K))
  BY <1>1, <1>3, PointsOfUpdates
<1>6. m \in Fraction /\ Within(m, Prices(points), 0)
  <2> HIDE DEF points
  <2> QED  BY <1>4, <1>5, MedianBetween
<1>7. Prices(points) \subseteq Prices(Valid(us))
  BY <1>2, <1>3, <1>5 DEF Prices, Restrict
<1> HIDE DEF m, points
<1>8. Within(m, Prices(Valid(us)), 0)
  BY <1>6, <1>7 DEF Within
<1> QED  BY <1>4, <1>6, <1>8 DEF Result, Rejected, Fraction

-----------------------------------------------------------------------------
(* Reuse of a cached result.                                               *)

(* Prices that round to the same number of cents are a cent apart at most. *)
LEMMA SameCent ==
  ASSUME NEW p \in Nat, NEW q \in Nat, Rounded(p) = Rounded(q)
  PROVE  p <= q + Cent /\ q <= p + Cent
<1>1. Cent \in Nat /\ Cent > 0
  BY CentAssumption
<1> DEFINE r == Rounded(p)
<1>2. ASSUME NEW x \in Nat
      PROVE  /\ Rounded(x) \in Int
             /\ 2 * Cent * Rounded(x) <= 2 * x + Cent
             /\ 2 * x + Cent < 2 * Cent * Rounded(x) + 2 * Cent
  <2> DEFINE a == 2 * x + Cent
             b == 2 * Cent
  <2>1. a \in Nat /\ b \in Nat /\ b > 0
    BY <1>1
  <2> HIDE DEF a, b
  <2>2. a \div b \in Int /\ b * (a \div b) <= a /\ a < b * (a \div b) + b
    BY <2>1
  <2> QED  BY <2>2 DEF a, b, Rounded
<1>3. 2 * Cent * r \in Int
  BY <1>1, <1>2
<1> DEFINE k == 2 * Cent * r
<1>4. k <= 2 * p + Cent /\ 2 * p + Cent < k + 2 * Cent
      /\ k <= 2 * q + Cent /\ 2 * q + Cent < k + 2 * Cent
  BY <1>2
<1> HIDE DEF k
<1> QED  BY <1>1, <1>3, <1>4 DEF k

(* Updates that look the same have the same prices, give or take a cent.   *)
LEMMA SameKey ==
  ASSUME NEW us \in Seq(PriceUpdate), NEW vs \in Seq(PriceUpdate), Key(us) = Key(vs),
         NEW p \in Prices(us)
  PROVE  p \in Nat /\ \E q \in Prices(vs) : q \in Nat /\ p <= q + Cent /\ q <= p + Cent
<1> DEFINE f(ws) == [i \in DOMAIN ws |->
                       <<ws[i].source, Rounded(ws[i].price), ws[i].second>>]
<1>1. Range(f(us)) = Range(f(vs))
  <2>1. \A ws : DOMAIN Key(ws) = Range(f(ws))
    BY DEF Key, ToBag
  <2> HIDE DEF f
  <2> QED  BY <2>1
<1>2. PICK i \in DOMAIN us : p = us[i].price
  BY DEF Prices
<1>3. PICK j \in DOMAIN vs : f(us)[i] = f(vs)[j]
  <2>1. DOMAIN f(us) = DOMAIN us /\ DOMAIN f(vs) = DOMAIN vs
    OBVIOUS
  <2> HIDE DEF f
  <2> QED  BY <1>1, <1>2, <2>1 DEF Range
<1>4. Rounded(us[i].price) = Rounded(vs[j].price)
  BY <1>3
<1>5. us[i] \in PriceUpdate /\ vs[j] \in PriceUpdate
  OBVIOUS
<1>6. us[i].price \in Nat /\ vs[j].price \in Nat
  BY <1>5 DEF PriceUpdate
<1> QED  BY <1>2, <1>4, <1>6, SameCent DEF Prices

LEMMA WithinWider ==
  ASSUME NEW x \in Fraction, NEW P \in SUBSET Nat, NEW Q \in SUBSET Nat, NEW c \in Nat,
         Within(x, P, 0),
         \A p \in P : \E q \in Q : p <= q + c /\ q <= p + c
  PROVE  Within(x, Q, c)
<1>1. PICK low, high \in P : LE(Whole(low - 0), x) /\ LE(x, Whole(high + 0))
  BY DEF Within
<1>2. PICK l \in Q : l <= low + c
  BY <1>1
<1>3. PICK h \in Q : high <= h + c
  BY <1>1
<1>4. low \in Nat /\ high \in Nat /\ l \in Nat /\ h \in Nat
  BY <1>1, <1>2, <1>3
<1> DEFINE n == x.num
           d == x.den
<1>5. n \in Nat /\ d \in Nat /\ n * 1 = n
  BY DEF Fraction
<1>6. low * d <= n /\ n <= high * d
  <2>1. low - 0 = low /\ high + 0 = high
    BY <1>4
  <2> QED  BY <1>1, <1>5, <2>1 DEF LE, Whole
<1> HIDE DEF n, d
<1>7. (l - c) * d <= low * d /\ high * d <= (h + c) * d
  <2>1. \A a, b \in Int : a <= b => a * d <= b * d
    BY <1>5
  <2> QED  BY <1>2, <1>3, <1>4, <2>1
<1>8. /\ (l - c) * d \in Int /\ low * d \in Int
      /\ high * d \in Int /\ (h + c) * d \in Int
  BY <1>4, <1>5
<1>9. (l - c) * d <= n /\ n <= (h + c) * d
  BY <1>5, <1>6, <1>7, <1>8
<1> QED  BY <1>2, <1>3, <1>5, <1>9 DEF Within, LE, Whole, n, d

-----------------------------------------------------------------------------
(* The invariant of the aggregator: what is cached was computed from       *)
(* updates that had its key, and so was the answer, of these or those.     *)

CacheOK ==
  aggregationCache # NoResult =>
    \E us \in Seq(PriceUpdate) :
      /\ Computed(us) # Rejected
      /\ aggregationCache = [key |-> Key(us), result |-> Computed(us), of |-> us]

AnswerOK ==
  \/ answer = NoResult
  \/ answer = Computed(updates)
  \/ Hit /\ answer = aggregationCache.result

ConsensusInv ==
  /\ updates \in Seq(PriceUpdate)
  /\ revisions \in 0 .. MaxRevisions
  /\ CacheOK
  /\ AnswerOK

(* The invariant holds at first and is kept by every step.                 *)
LEMMA ConsensusInitInv == ConsensusInit => ConsensusInv
BY PriceAssumption, BoundAssumption
   DEF ConsensusInit, ConsensusInv, CacheOK, AnswerOK

LEMMA ConsensusNextInv == ConsensusInv /\ [ConsensusNext]_consensusVars => ConsensusInv'
<1> SUFFICES ASSUME ConsensusInv, [ConsensusNext]_consensusVars PROVE ConsensusInv'
  OBVIOUS
<1> USE DEF ConsensusInv
<1>1. CASE Aggregate
  <2>1. updates' = updates /\ revisions' = revisions
    BY <1>1 DEF Aggregate
  <2>2. CASE Hit
    <3>1. aggregationCache' = aggregationCache /\ answer' = aggregationCache.result
      BY <1>1, <2>2 DEF Aggregate
    <3>2. Hit'
      BY <2>1, <2>2, <3>1 DEF Hit, Key, Rounded
    <3> QED  BY <2>1, <3>1, <3>2 DEF CacheOK, AnswerOK
  <2>3. CASE ~Hit
    <3>1. answer' = Computed(updates)
      BY <1>1, <2>3 DEF Aggregate
    <3>2. Computed(updates)' = Computed(updates)
      BY <2>1
    <3>3. CacheOK'
      BY <1>1, <2>3 DEF Aggregate, CacheOK
    <3> QED  BY <2>1, <3>1, <3>2, <3>3 DEF AnswerOK
  <2> QED  BY <2>2, <2>3
<1>2. CASE Expire
  BY <1>2 DEF Expire, CacheOK, AnswerOK
<1>3. ASSUME NEW i \in DOMAIN updates, Revise(i)
      PROVE  ConsensusInv'
  <2>1. PICK p \in NewPrices, later \in {0, 1} :
          updates' = [updates EXCEPT ![i].price = p, ![i].second = @ + later]
    BY <1>3 DEF Revise
  <2>2. updates[i] \in PriceUpdate /\ p \in Nat
    BY <2>1, PriceAssumption
  <2> DEFINE u == [[updates[i] EXCEPT !.price = p] EXCEPT !.second = @ + later]
  <2>3. u \in PriceUpdate
    <3>1. \A v \in PriceUpdate, q, t \in Nat :
            [[v EXCEPT !.price = q] EXCEPT !.second = t] \in PriceUpdate
      BY DEF PriceUpdate
    <3>2. updates[i].second + later \in Nat
      BY <2>1, <2>2 DEF PriceUpdate
    <3>3. u = [[updates[i] EXCEPT !.price = p] EXCEPT !.second = updates[i].second + later]
      BY <2>2 DEF PriceUpdate
    <3> HIDE DEF u
    <3> QED  BY <2>2, <3>1, <3>2, <3>3
  <2>4. updates' = [updates EXCEPT ![i] = u]
    BY <2>1
  <2>5. updates' \in Seq(PriceUpdate)
    <3> HIDE DEF u
    <3> QED  BY <2>3, <2>4
  <2>6. revisions' \in 0 .. MaxRevisions
    BY <1>3, BoundAssumption DEF Revise
  <2> QED  BY <1>3, <2>5, <2>6 DEF Revise, CacheOK, AnswerOK
<1>4. CASE UNCHANGED consensusVars
  BY <1>4 DEF consensusVars, CacheOK, AnswerOK, Hit
<1> QED  BY <1>1, <1>2, <1>3, <1>4 DEF ConsensusNext

LEMMA ConsensusInvariant == ConsensusSpec => []ConsensusInv
BY ConsensusInitInv, ConsensusNextInv, PTL DEF ConsensusSpec

LEMMA CachedResult ==
  ASSUME ConsensusInv, aggregationCache # NoResult
  PROVE  \E us \in Seq(PriceUpdate) :
           /\ Computed(us) # Rejected
           /\ aggregationCache.of = us
           /\ aggregationCache.key = Key(us) /\ aggregationCache.result = Computed(us)
BY DEF ConsensusInv, CacheOK

(* What aggregate gives is a rejection or a fraction with a positive       *)
(* denominator: whatever weights, tiers and filters do,                    *)
(* calculateOptimizedWeightedMedian divides by no zero, and a rejection is *)
(* never cached.                                                           *)
THEOREM ConsensusTypeCorrect == ConsensusSpec => []ConsensusTypeOK
<1>1. ConsensusInv => ConsensusTypeOK
  <2> SUFFICES ASSUME ConsensusInv PROVE ConsensusTypeOK
    OBVIOUS
  <2>1. updates \in Seq(PriceUpdate) /\ revisions \in 0 .. MaxRevisions
    BY DEF ConsensusInv
  <2>2. \A us \in Seq(PriceUpdate) : Computed(us) \in Result
    <3>1. Rejected \in Result
      BY DEF Rejected, Result
    <3> QED  BY <3>1, ComputedBetween
  <2>3. aggregationCache # NoResult => aggregationCache.result \in Result \ {Rejected}
    BY <2>2, CachedResult
  <2>4. answer \in Result \cup {NoResult}
    BY <2>1, <2>2, <2>3 DEF ConsensusInv, AnswerOK, Hit
  <2> QED  BY <2>1, <2>3, <2>4 DEF ConsensusTypeOK
<1> QED  BY <1>1, ConsensusInvariant, PTL

LEMMA PricesAreNatural ==
  ASSUME NEW us \in Seq(PriceUpdate)
  PROVE  Prices(us) \in SUBSET Nat /\ Prices(Valid(us)) \in SUBSET Prices(us)
<1>1. \A i \in DOMAIN us : us[i] \in PriceUpdate
  OBVIOUS
<1>2. PICK V \in SUBSET DOMAIN us : Valid(us) = Restrict(us, V)
  BY ValidatedIsValid
<1> QED  BY <1>1, <1>2 DEF Prices, Restrict, PriceUpdate

(* A computed price lies between the lowest and the highest valid price,   *)
(* and one that is taken from the cache at most a cent outside the prices  *)
(* of the present updates.                                                 *)
THEOREM PriceIsWithinSources == ConsensusSpec => []PriceWithinSources
<1>1. ConsensusInv => PriceWithinSources
  <2> SUFFICES ASSUME ConsensusInv PROVE PriceWithinSources
    OBVIOUS
  <2>1. updates \in Seq(PriceUpdate)
    BY DEF ConsensusInv
  <2>2. ASSUME Fresh PROVE Within(answer.price, Prices(Valid(updates)), 0)
    <3>1. Computed(updates) # Rejected /\ aggregationCache.result = Computed(updates)
      BY <2>2, CachedResult DEF Fresh
    <3>2. answer = Computed(updates)
      BY <2>2, <3>1 DEF Fresh, ConsensusInv, AnswerOK
    <3> QED  BY <2>1, <3>1, <3>2, ComputedBetween
  <2>3. ASSUME answer # NoResult, answer # Rejected
        PROVE  Within(answer.price, Prices(updates), Cent)
    <3>1. PICK us \in Seq(PriceUpdate) : answer = Computed(us) /\ Key(us) = Key(updates)
      <4>1. CASE answer = Computed(updates)
        BY <2>1, <4>1
      <4>2. CASE Hit /\ answer = aggregationCache.result
        BY <4>2, CachedResult DEF Hit
      <4> QED  BY <2>3, <4>1, <4>2 DEF ConsensusInv, AnswerOK
    <3>2. answer \in Result \ {Rejected} /\ Within(answer.price, Prices(Valid(us)), 0)
      BY <2>3, <3>1, ComputedBetween
    <3>3. answer.price \in Fraction
      BY <3>2 DEF Result, Fraction, Rejected
    <3>4. \A p \in Prices(Valid(us)) :
            \E q \in Prices(updates) : p <= q + Cent /\ q <= p + Cent
      BY <2>1, <3>1, SameKey, PricesAreNatural
    <3>5. Prices(Valid(us)) \in SUBSET Nat /\ Prices(updates) \in SUBSET Nat /\ Cent \in Nat
      BY <2>1, PricesAreNatural, CentAssumption
    <3> QED  BY <3>2, <3>3, <3>4, <3>5, WithinWider
  <2> QED  BY <2>2, <2>3 DEF PriceWithinSources
<1> QED  BY <1>1, ConsensusInvariant, PTL
-----------------------------------------------------------------------------
(* The same list in another order: t has at i what s has at p[i].          *)

Rearranged(s, t, p) ==
  /\ s = [i \in DOMAIN s |-> s[i]] /\ t = [i \in DOMAIN t |-> t[i]]
  /\ IsFiniteSet(DOMAIN s) /\ IsFiniteSet(DOMAIN t)
  /\ \A i \in DOMAIN t : p[i] \in DOMAIN s /\ t[i] = s[p[i]]
  /\ \A i, j \in DOMAIN t : p[i] = p[j] => i = j
  /\ \A k \in DOMAIN s : \E i \in DOMAIN t : p[i] = k

(* K and L are the same part of the two lists.                             *)
SamePart(s, t, p, K, L) ==
  /\ K \in SUBSET DOMAIN s /\ L \in SUBSET DOMAIN t
  /\ \A i \in DOMAIN t : i \in L <=> p[i] \in K

LEMMA PartIsImage ==
  ASSUME NEW s, NEW t, NEW p, Rearranged(s, t, p),
         NEW K, NEW L, SamePart(s, t, p, K, L)
  PROVE  /\ K = {p[i] : i \in L}
         /\ IsFiniteSet(K) /\ IsFiniteSet(L) /\ Cardinality(K) = Cardinality(L)
<1>1. K = {p[i] : i \in L}
  BY DEF Rearranged, SamePart
<1>2. IsFiniteSet(L)
  BY FS_Subset DEF Rearranged, SamePart
<1>3. [i \in L |-> p[i]] \in Bijection(L, K)
  <2>1. \A i, j \in L : p[i] = p[j] => i = j
    BY DEF Rearranged, SamePart
  <2> QED  BY <1>1, <2>1 DEF Bijection, Injection, Surjection, IsInjective
<1>4. ExistsBijection(L, K)
  BY <1>3 DEF ExistsBijection
<1> QED  BY <1>1, <1>2, <1>4, FS_Bijection

(* A filter that keeps the same part of both leaves rearranged lists.      *)
LEMMA PartIsRearranged ==
  ASSUME NEW s, NEW t, NEW p, Rearranged(s, t, p),
         NEW K, NEW L, SamePart(s, t, p, K, L)
  PROVE  Rearranged(Restrict(s, K), Restrict(t, L), p)
<1>1. IsFiniteSet(K) /\ IsFiniteSet(L) /\ K = {p[i] : i \in L}
  BY PartIsImage
<1>2. DOMAIN Restrict(s, K) = K /\ DOMAIN Restrict(t, L) = L
  BY DEF Restrict
<1>3. \A i \in L : p[i] \in K /\ Restrict(t, L)[i] = Restrict(s, K)[p[i]]
  BY DEF Restrict, Rearranged, SamePart
<1>4. \A i, j \in L : p[i] = p[j] => i = j
  BY DEF Rearranged, SamePart
<1>5. /\ Restrict(s, K) = [i \in K |-> Restrict(s, K)[i]]
      /\ Restrict(t, L) = [i \in L |-> Restrict(t, L)[i]]
  BY DEF Restrict
<1>6. \A k \in K : \E i \in L : p[i] = k
  BY <1>1
<1> DEFINE a == Restrict(s, K)
           b == Restrict(t, L)
<1> HIDE DEF a, b
<1>7. /\ DOMAIN a = K /\ DOMAIN b = L /\ a = [i \in K |-> a[i]] /\ b = [i \in L |-> b[i]]
      /\ \A i \in L : p[i] \in K /\ b[i] = a[p[i]]
  BY <1>2, <1>3, <1>5 DEF a, b
<1>8. Rearranged(a, b, p)
  BY <1>1, <1>4, <1>6, <1>7 DEF Rearranged
<1> QED  BY <1>8 DEF a, b

LEMMA SameLength ==
  ASSUME NEW s, NEW t, NEW p, Rearranged(s, t, p)
  PROVE  /\ Length(s) = Length(t)
         /\ SamePart(s, t, p, DOMAIN s, DOMAIN t)
         /\ Prices(s) = Prices(t)
<1>1. SamePart(s, t, p, DOMAIN s, DOMAIN t)
  BY DEF SamePart, Rearranged
<1>2. Prices(s) = Prices(t)
  BY DEF Prices, Rearranged
<1> QED  BY <1>1, <1>2, PartIsImage DEF Length

(* Sorting forgets the order: the sorted prices are the same.              *)
LEMMA SamePrices ==
  ASSUME NEW s, NEW t, NEW p, Rearranged(s, t, p)
  PROVE  /\ \A k : PriceAt(s, k) = PriceAt(t, k)
         /\ MiddlePrice(s) = MiddlePrice(t)
         /\ \A x : OutsideQuartiles(s, x) <=> OutsideQuartiles(t, x)
         /\ \A x : FarFromMedian(s, x) <=> FarFromMedian(t, x)
         /\ \A x : Trusted(s, x) <=> Trusted(t, x)
<1>1. ASSUME NEW q
      PROVE  /\ Cardinality({i \in DOMAIN s : s[i].price < q})
                  = Cardinality({i \in DOMAIN t : t[i].price < q})
             /\ Cardinality({i \in DOMAIN s : s[i].price <= q})
                  = Cardinality({i \in DOMAIN t : t[i].price <= q})
  <2>1. SamePart(s, t, p, {i \in DOMAIN s : s[i].price < q},
                          {i \in DOMAIN t : t[i].price < q})
    BY DEF SamePart, Rearranged
  <2>2. SamePart(s, t, p, {i \in DOMAIN s : s[i].price <= q},
                          {i \in DOMAIN t : t[i].price <= q})
    BY DEF SamePart, Rearranged
  <2> QED  BY <2>1, <2>2, PartIsImage
<1>2. ASSUME NEW k PROVE PriceAt(s, k) = PriceAt(t, k)
  <2> DEFINE below(r, q) == Cardinality({i \in DOMAIN r : r[i].price < q})
             upTo(r, q) == Cardinality({i \in DOMAIN r : r[i].price <= q})
  <2>1. PricesAt(s, k) = PricesAt(t, k)
    <3>1. \A r : PricesAt(r, k) = {q \in Prices(r) : below(r, q) <= k /\ upTo(r, q) > k}
      BY DEF PricesAt
    <3>2. \A q : below(s, q) = below(t, q) /\ upTo(s, q) = upTo(t, q)
      BY <1>1
    <3> HIDE DEF below, upTo
    <3> QED  BY <3>1, <3>2, SameLength
  <2> QED  BY <2>1 DEF PriceAt
<1>3. Length(s) = Length(t)
  BY SameLength
<1>4. MiddlePrice(s) = MiddlePrice(t)
  BY <1>2, <1>3 DEF MiddlePrice
<1>5. \A x : OutsideQuartiles(s, x) <=> OutsideQuartiles(t, x)
  BY <1>2, <1>3 DEF OutsideQuartiles
<1>6. \A x : FarFromMedian(s, x) <=> FarFromMedian(t, x)
  BY <1>4 DEF FarFromMedian
<1>7. \A x : Trusted(s, x) <=> Trusted(t, x)
  BY <1>4 DEF Trusted
<1> QED  BY <1>2, <1>4, <1>5, <1>6, <1>7

(* The same values, summed over the same part, have the same sum.          *)
LEMMA SameSum ==
  ASSUME NEW s, NEW t, NEW p, Rearranged(s, t, p),
         NEW K, NEW L, SamePart(s, t, p, K, L), NEW f, NEW g,
         \A i \in L : g[i] \in Int /\ g[i] = f[p[i]]
  PROVE  SumFunctionOnSet(f, K) = SumFunctionOnSet(g, L)
<1>1. K = {p[i] : i \in L} /\ IsFiniteSet(L)
  BY PartIsImage
<1>2. \A i, j \in L : p[i] = p[j] => i = j
  BY DEF Rearranged, SamePart
<1> QED  BY <1>1, <1>2, SumRearranged

(* Sums, and so mean and deviation, are the same in any order.             *)
LEMMA SameMean ==
  ASSUME NEW s, NEW t, NEW p, Rearranged(s, t, p), PointList(s), PointList(t), NEW x
  PROVE  FarFromMean(s, x) <=> FarFromMean(t, x)
<1> DEFINE n(r) == Length(r)
           prices(r) == [i \in DOMAIN r |-> r[i].price]
           total(r) == SumFunctionOnSet(prices(r), DOMAIN r)
           square(r, y) == (n(r) * y - total(r)) * (n(r) * y - total(r))
           squares(r) == [i \in DOMAIN r |-> square(r, r[i].price)]
           all(r) == SumFunctionOnSet(squares(r), DOMAIN r)
<1>1. \A r : FarFromMean(r, x) <=> n(r) * square(r, x) > 4 * all(r)
  BY DEF FarFromMean, SumFunction
<1>2. n(s) = n(t) /\ n(t) \in Nat
  BY SameLength, FS_CardinalityType DEF Length, Rearranged
<1>3. SamePart(s, t, p, DOMAIN s, DOMAIN t)
  BY SameLength
<1>4. \A i \in DOMAIN t : p[i] \in DOMAIN s /\ t[i] = s[p[i]] /\ t[i].price \in Nat
  BY DEF Rearranged, PointList
<1>5. total(s) = total(t) /\ total(t) \in Int
  <2>1. \A i \in DOMAIN t : prices(t)[i] \in Int /\ prices(t)[i] = prices(s)[p[i]]
    BY <1>4
  <2>2. IsFiniteSet(DOMAIN t)
    BY DEF PointList
  <2> HIDE DEF prices
  <2> QED  BY <1>3, <2>1, <2>2, SameSum, SumType
<1> HIDE DEF total, n
<1>6. \A y : square(s, y) = square(t, y)
  BY <1>2, <1>5
<1>7. \A y \in Nat : square(t, y) \in Int
  <2>1. \A y \in Nat : n(t) * y - total(t) \in Int
    BY <1>2, <1>5
  <2>2. \A a \in Int : a * a \in Int
    OBVIOUS
  <2> QED  BY <2>1, <2>2
<1>8. all(s) = all(t)
  <2>1. \A i \in DOMAIN t : squares(t)[i] \in Int /\ squares(t)[i] = squares(s)[p[i]]
    <3> HIDE DEF square
    <3> QED  BY <1>4, <1>6, <1>7
  <2> HIDE DEF squares
  <2> QED  BY <1>3, <2>1, SameSum
<1> HIDE DEF square, all
<1> QED  BY <1>1, <1>2, <1>6, <1>8

(* fastOutlierRemoval takes away the same points.                          *)
LEMMA SameWithoutOutliers ==
  ASSUME NEW s, NEW t, NEW p, Rearranged(s, t, p), PointList(s), PointList(t)
  PROVE  Rearranged(WithoutOutliers(s), WithoutOutliers(t), p)
<1> DEFINE Test(r, x) == \/ Trusted(r, x)
                         \/ ~ \/ OutsideQuartiles(r, x.price)
                              \/ FarFromMean(r, x.price)
                              \/ FarFromMedian(r, x.price)
           K(r) == {i \in DOMAIN r : Test(r, r[i])}
           few(r) == Max({2, (3 * Length(r)) \div 5})
<1>1. \A x : Test(s, x) <=> Test(t, x)
  BY SamePrices, SameMean
<1>2. \A r : WithoutOutliers(r) =
               IF Length(r) <= 3 \/ Length(Restrict(r, K(r))) < few(r) THEN r
               ELSE Restrict(r, K(r))
  BY DEF WithoutOutliers, RestrictValues
<1> HIDE DEF Test
<1>3. SamePart(s, t, p, K(s), K(t))
  BY <1>1 DEF SamePart, Rearranged
<1> HIDE DEF K
<1>4. Rearranged(Restrict(s, K(s)), Restrict(t, K(t)), p)
  BY <1>3, PartIsRearranged
<1>5. /\ Length(s) = Length(t)
      /\ Length(Restrict(s, K(s))) = Length(Restrict(t, K(t)))
  BY <1>4, SameLength
<1>6. few(s) = few(t)
  BY <1>5
<1> HIDE DEF few
<1> QED  BY <1>2, <1>4, <1>5, <1>6

(* Which price the median is at, told without the positions of points:     *)
(* the points before those of a price and weight, and up to them.          *)
Cheaper(s, q) == {i \in DOMAIN s : s[i].price < q}
Sooner(s, q, w) ==
  {i \in DOMAIN s : s[i].price < q \/ (s[i].price = q /\ s[i].weight > w)}
UpTo(s, q, w) ==
  {i \in DOMAIN s : s[i].price < q \/ (s[i].price = q /\ s[i].weight >= w)}

Halfway(s, q, w) ==
  /\ 2 * Weight(s, Sooner(s, q, w)) < Weight(s, DOMAIN s)
  /\ 2 * Weight(s, UpTo(s, q, w)) >= Weight(s, DOMAIN s)

(* Half of the weight is reached at the price and weight of the crossing   *)
(* point.                                                                  *)
LEMMA CrossingIsHalfway ==
  ASSUME NEW s, PointList(s), NEW i \in DOMAIN s, IsCrossing(s, i)
  PROVE  Halfway(s, s[i].price, s[i].weight)
<1> DEFINE S == Sooner(s, s[i].price, s[i].weight)
           U == UpTo(s, s[i].price, s[i].weight)
<1>1. S \subseteq Before(s, i) /\ Before(s, i) \cup {i} \subseteq U
  BY DEF PointList, Sooner, UpTo, Before, Precedes
<1>2. U \in SUBSET DOMAIN s /\ S \in SUBSET U /\ Before(s, i) \in SUBSET DOMAIN s
        /\ Before(s, i) \cup {i} \in SUBSET U /\ S \in SUBSET Before(s, i)
  BY <1>1 DEF UpTo, Before
<1> HIDE DEF S, U
<1>3. Weight(s, S) <= Weight(s, Before(s, i))
        /\ Weight(s, Before(s, i) \cup {i}) <= Weight(s, U)
  BY <1>2, WeightOfSet
<1>4. /\ Weight(s, S) \in Nat /\ Weight(s, Before(s, i)) \in Nat
      /\ Weight(s, Before(s, i) \cup {i}) \in Nat /\ Weight(s, U) \in Nat
      /\ Weight(s, DOMAIN s) \in Nat
  <2>1. S \in SUBSET DOMAIN s /\ Before(s, i) \cup {i} \in SUBSET DOMAIN s
    BY <1>2
  <2> QED  BY <1>2, <2>1, WeightOfSet
<1> QED  BY <1>3, <1>4 DEF Halfway, IsCrossing, S, U

(* Half of the weight is reached at one price, by points of one weight.    *)
LEMMA OneHalfway ==
  ASSUME NEW s, PointList(s), NEW q \in Nat, NEW w \in Nat, NEW r \in Nat, NEW x \in Nat,
         Halfway(s, q, w), Halfway(s, r, x)
  PROVE  q = r /\ w = x
<1>1. ASSUME NEW a \in Nat, NEW b \in Nat, NEW c \in Nat, NEW d \in Nat,
             Halfway(s, a, b), Halfway(s, c, d), a < c \/ (a = c /\ b > d)
      PROVE  FALSE
  <2>1. UpTo(s, a, b) \in SUBSET Sooner(s, c, d)
    BY <1>1 DEF UpTo, Sooner, PointList
  <2>2. UpTo(s, a, b) \in SUBSET DOMAIN s /\ Sooner(s, c, d) \in SUBSET DOMAIN s
    BY DEF UpTo, Sooner
  <2>3. Weight(s, UpTo(s, a, b)) <= Weight(s, Sooner(s, c, d))
    BY <2>1, <2>2, WeightOfSet
  <2>4. Weight(s, UpTo(s, a, b)) \in Nat /\ Weight(s, Sooner(s, c, d)) \in Nat
          /\ Weight(s, DOMAIN s) \in Nat
    BY <2>2, WeightOfSet
  <2> QED  BY <1>1, <2>3, <2>4 DEF Halfway
<1> QED  BY <1>1

(* The median is interpolated when the point that takes the weight past    *)
(* its half is the first of its price: its lower end is the next lower     *)
(* price, whichever point has it.                                          *)
FirstOfPrice(s, q, w) ==
  /\ Cheaper(s, q) # {} /\ Sooner(s, q, w) = Cheaper(s, q)
  /\ 2 * (w + Weight(s, Cheaper(s, q))) >= Weight(s, DOMAIN s)

NextLower(s, q, low) ==
  /\ \E i \in Cheaper(s, q) : s[i].price = low
  /\ \A i \in Cheaper(s, q) : s[i].price <= low

Between(low, q, w, before, all) ==
  [num |-> low * (2 * w) + (q - low) * (all - 2 * before), den |-> 2 * w]

AtCrossing(s, i) ==
  IF Before(s, i) = {} THEN Whole(s[i].price) ELSE Interpolated(s, i)

LEMMA CrossingBeforeCheaper ==
  ASSUME NEW s, PointList(s), NEW i \in DOMAIN s, IsCrossing(s, i),
         FirstOfPrice(s, s[i].price, s[i].weight)
  PROVE  Before(s, i) = Cheaper(s, s[i].price)
<1> DEFINE q == s[i].price
           w == s[i].weight
           C == Cheaper(s, q)
<1>1. C \subseteq Before(s, i)
  BY DEF Cheaper, Before, Precedes
<1>2. ASSUME NEW k \in Before(s, i), k \notin C
      PROVE  FALSE
  <2>1. s[k].price = q /\ s[k].weight >= w /\ k \in DOMAIN s
    BY <1>2 DEF Cheaper, Before, Precedes, PointList
  <2>2. ~ (s[k].weight > w)
    <3>1. s[k].weight > w => k \in Sooner(s, q, w)
      BY <2>1 DEF Sooner
    <3> QED  BY <1>2, <3>1 DEF FirstOfPrice
  <2>3. s[k].weight = w /\ w \in Nat
    BY <2>1, <2>2 DEF PointList
  <2> DEFINE D == C \cup {k}
  <2>4. D \in SUBSET Before(s, i) /\ D \in SUBSET DOMAIN s /\ k \in D
          /\ Before(s, i) \in SUBSET DOMAIN s /\ D \ {k} = C /\ C \in SUBSET DOMAIN s
    BY <1>1, <1>2 DEF Before
  <2> HIDE DEF D, C, q, w
  <2>5. Weight(s, D) = s[k].weight + Weight(s, C) /\ Weight(s, D) <= Weight(s, Before(s, i))
    BY <2>4, WeightOfSet
  <2>6. Weight(s, D) \in Nat /\ Weight(s, C) \in Nat /\ Weight(s, Before(s, i)) \in Nat
          /\ Weight(s, DOMAIN s) \in Nat
    BY <2>4, WeightOfSet
  <2>7. 2 * (w + Weight(s, C)) >= Weight(s, DOMAIN s)
    BY DEF FirstOfPrice, C, q, w
  <2> QED  BY <2>3, <2>5, <2>6, <2>7 DEF IsCrossing
<1> QED  BY <1>1, <1>2

LEMMA InterpolatedFromLower ==
  ASSUME NEW s, PointList(s), NEW i \in DOMAIN s, IsCrossing(s, i),
         FirstOfPrice(s, s[i].price, s[i].weight)
  PROVE  \E low \in Nat :
           /\ NextLower(s, s[i].price, low)
           /\ AtCrossing(s, i) =
                Between(low, s[i].price, s[i].weight,
                        Weight(s, Cheaper(s, s[i].price)), Weight(s, DOMAIN s))
<1>1. Before(s, i) = Cheaper(s, s[i].price) /\ Before(s, i) # {}
  BY CrossingBeforeCheaper DEF FirstOfPrice
<1> DEFINE j == Previous(s, i)
<1>2. /\ j \in Before(s, i) /\ j \in DOMAIN s
      /\ \A k \in Before(s, i) : k = j \/ Precedes(s, k, j)
  BY <1>1, PreviousIsLast
<1>3. s[j].price \in Nat
  BY <1>2 DEF PointList
<1>4. AtCrossing(s, i) =
        Between(s[j].price, s[i].price, s[i].weight,
                Weight(s, Cheaper(s, s[i].price)), Weight(s, DOMAIN s))
  BY <1>1 DEF AtCrossing, Interpolated, Between
<1> HIDE DEF j
<1>5. \A k \in Before(s, i) : s[k].price <= s[j].price
  <2>1. \A k \in Before(s, i) : k \in DOMAIN s
    BY DEF Before
  <2> QED  BY <1>2, <1>3, <2>1, PrecedesIsOrder
<1>6. NextLower(s, s[i].price, s[j].price)
  BY <1>1, <1>2, <1>5 DEF NextLower
<1> QED  BY <1>3, <1>4, <1>6

LEMMA SameAsWhole ==
  ASSUME NEW x \in Fraction, NEW y \in Fraction, NEW q \in Nat,
         Same(x, Whole(q)), Same(y, Whole(q))
  PROVE  Same(x, y)
<1> DEFINE a == x.num
           b == x.den
           c == y.num
           d == y.den
<1>1. a \in Nat /\ b \in Nat /\ c \in Nat /\ d \in Nat
  BY DEF Fraction
<1>2. a * 1 = q * b /\ c * 1 = q * d
  BY DEF Same, Whole
<1> HIDE DEF a, b, c, d
<1>3. a = q * b /\ c = q * d
  BY <1>1, <1>2
<1>4. (q * b) * d = (q * d) * b
  BY <1>1
<1>5. a * d = c * b
  BY <1>3, <1>4
<1> QED  BY <1>5 DEF Same, a, b, c, d

(* Otherwise the price of the crossing point is the median.                *)
LEMMA CrossingIsPlain ==
  ASSUME NEW s, PointList(s), NEW i \in DOMAIN s, IsCrossing(s, i),
         ~ FirstOfPrice(s, s[i].price, s[i].weight)
  PROVE  Same(AtCrossing(s, i), Whole(s[i].price))
<1> DEFINE q == s[i].price
           w == s[i].weight
           j == Previous(s, i)
<1>1. q \in Nat /\ w \in Nat
  BY DEF PointList
<1>2. CASE Before(s, i) = {}
  BY <1>1, <1>2 DEF AtCrossing, Same, Whole
<1>3. CASE Before(s, i) # {}
  <2>1. /\ j \in Before(s, i) /\ j \in DOMAIN s /\ s[j].price <= q
        /\ \A k \in Before(s, i) : k = j \/ Precedes(s, k, j)
    BY <1>3, PreviousIsLast
  <2>2. s[j].price \in Nat
    BY <2>1 DEF PointList
  <2>3. ~ (s[j].price < q)
    <3> SUFFICES ASSUME s[j].price < q PROVE FALSE
      OBVIOUS
    <3>1. \A k \in Before(s, i) : s[k].price < q
      <4>1. \A k \in Before(s, i) : k \in DOMAIN s /\ s[k].price \in Nat
        BY DEF Before, PointList
      <4>2. \A k \in Before(s, i) : s[k].price <= s[j].price
        BY <2>1, <2>2, <4>1, PrecedesIsOrder
      <4> QED  BY <1>1, <2>2, <4>1, <4>2
    <3>2. Before(s, i) = Cheaper(s, q)
      BY <3>1 DEF Before, Cheaper, Precedes
    <3>3. Sooner(s, q, w) = Cheaper(s, q)
      <4>1. Sooner(s, q, w) \subseteq Before(s, i)
        BY DEF Sooner, Before, Precedes
      <4>2. Cheaper(s, q) \subseteq Sooner(s, q, w)
        BY DEF Sooner, Cheaper
      <4> QED  BY <3>2, <4>1, <4>2
    <3>4. 2 * (w + Weight(s, Cheaper(s, q))) >= Weight(s, DOMAIN s)
      BY <3>2, BeforeAndAt DEF IsCrossing
    <3> QED  BY <1>3, <3>2, <3>3, <3>4 DEF FirstOfPrice
  <2>4. s[j].price = q
    BY <1>1, <2>1, <2>2, <2>3
  <2> DEFINE span == 2 * w
             part == Weight(s, DOMAIN s) - 2 * Weight(s, Before(s, i))
  <2>5. Interpolated(s, i) = [num |-> q * span + (q - q) * part, den |-> span]
    BY <2>4 DEF Interpolated
  <2>6. part \in Int /\ span \in Nat
    <3>1. Weight(s, DOMAIN s) \in Nat /\ Weight(s, Before(s, i)) \in Nat
      <4>1. DOMAIN s \in SUBSET DOMAIN s
        OBVIOUS
      <4> QED  BY <4>1, BeforeAndAt, WeightOfSet
    <3> QED  BY <1>1, <3>1
  <2> HIDE DEF part, span, q
  <2>7. (q - q) * part = 0 /\ q * span \in Nat
    <3>1. q - q = 0
      BY <1>1
    <3>2. 0 * part = 0
      BY <2>6
    <3> QED  BY <1>1, <2>6, <3>1, <3>2
  <2>8. Interpolated(s, i) = [num |-> q * span, den |-> span]
    BY <2>5, <2>7
  <2>9. (q * span) * 1 = q * span
    BY <2>7
  <2>10. Same(Interpolated(s, i), Whole(q))
    BY <2>8, <2>9 DEF Same, Whole
  <2> QED  BY <1>3, <2>10 DEF AtCrossing, q
<1> QED  BY <1>2, <1>3

LEMMA SamePoints ==
  ASSUME NEW s, NEW t, NEW p, Rearranged(s, t, p), PointList(s), PointList(t)
  PROVE  /\ TierMean(s) = TierMean(t)
         /\ \A K, L : SamePart(s, t, p, K, L) => Weight(s, K) = Weight(t, L)
<1> DEFINE t2(r, i) == IF r[i].tier = 1 THEN 2 ELSE 1
           f(r) == [i \in DOMAIN r |-> r[i].price * t2(r, i)]
           g(r) == [i \in DOMAIN r |-> t2(r, i)]
           h(r) == [i \in DOMAIN r |-> r[i].weight]
<1>1. \A i \in DOMAIN t : /\ p[i] \in DOMAIN s /\ t[i] = s[p[i]]
                          /\ t[i].price \in Nat /\ t[i].weight \in Nat
  BY DEF Rearranged, PointList
<1>2. SamePart(s, t, p, DOMAIN s, DOMAIN t)
  BY SameLength
<1>3. \A i \in DOMAIN t : f(t)[i] \in Int /\ f(t)[i] = f(s)[p[i]]
  BY <1>1
<1>4. \A i \in DOMAIN t : g(t)[i] \in Int /\ g(t)[i] = g(s)[p[i]]
  BY <1>1
<1>5. \A i \in DOMAIN t : h(t)[i] \in Int /\ h(t)[i] = h(s)[p[i]]
  BY <1>1
<1>6. TierMean(s) = TierMean(t)
  <2>1. \A r : TierMean(r) = [num |-> SumFunctionOnSet(f(r), DOMAIN r),
                             den |-> SumFunctionOnSet(g(r), DOMAIN r)]
    BY DEF TierMean, SumFunction
  <2> HIDE DEF f, g
  <2>2. SumFunctionOnSet(f(s), DOMAIN s) = SumFunctionOnSet(f(t), DOMAIN t)
    BY <1>2, <1>3, SameSum
  <2>3. SumFunctionOnSet(g(s), DOMAIN s) = SumFunctionOnSet(g(t), DOMAIN t)
    BY <1>2, <1>4, SameSum
  <2> QED  BY <2>1, <2>2, <2>3
<1>7. ASSUME NEW K, NEW L, SamePart(s, t, p, K, L)
      PROVE  Weight(s, K) = Weight(t, L)
  <2>1. \A r, R : Weight(r, R) = SumFunctionOnSet(h(r), R)
    BY DEF Weight
  <2>2. \A i \in L : h(t)[i] \in Int /\ h(t)[i] = h(s)[p[i]]
    BY <1>5, <1>7 DEF SamePart
  <2> HIDE DEF h
  <2>3. SumFunctionOnSet(h(s), K) = SumFunctionOnSet(h(t), L)
    BY <1>7, <2>2, SameSum
  <2> QED  BY <2>1, <2>3
<1> QED  BY <1>6, <1>7

LEMMA SameHalf ==
  ASSUME NEW s, NEW t, NEW p, Rearranged(s, t, p), PointList(s), PointList(t),
         NEW q \in Nat, NEW w \in Nat
  PROVE  /\ Weight(s, DOMAIN s) = Weight(t, DOMAIN t)
         /\ Weight(s, Cheaper(s, q)) = Weight(t, Cheaper(t, q))
         /\ Halfway(s, q, w) <=> Halfway(t, q, w)
         /\ FirstOfPrice(s, q, w) <=> FirstOfPrice(t, q, w)
         /\ \A low : NextLower(s, q, low) <=> NextLower(t, q, low)
<1>1. /\ SamePart(s, t, p, DOMAIN s, DOMAIN t)
      /\ SamePart(s, t, p, Cheaper(s, q), Cheaper(t, q))
  BY SameLength DEF SamePart, Rearranged, Cheaper
<1>2. /\ SamePart(s, t, p, Sooner(s, q, w), Sooner(t, q, w))
      /\ SamePart(s, t, p, UpTo(s, q, w), UpTo(t, q, w))
  BY DEF SamePart, Rearranged, Sooner, UpTo
<1>3. /\ Weight(s, DOMAIN s) = Weight(t, DOMAIN t)
      /\ Weight(s, Cheaper(s, q)) = Weight(t, Cheaper(t, q))
  BY <1>1, SamePoints
<1>4. /\ Weight(s, Sooner(s, q, w)) = Weight(t, Sooner(t, q, w))
      /\ Weight(s, UpTo(s, q, w)) = Weight(t, UpTo(t, q, w))
  BY <1>2, SamePoints
<1>5. Halfway(s, q, w) <=> Halfway(t, q, w)
  BY <1>3, <1>4 DEF Halfway
<1>6. /\ Cheaper(s, q) = {p[i] : i \in Cheaper(t, q)}
      /\ Sooner(s, q, w) = {p[i] : i \in Sooner(t, q, w)}
  BY <1>1, <1>2, PartIsImage
<1>7. \A i \in DOMAIN t : /\ i \in Cheaper(t, q) <=> p[i] \in Cheaper(s, q)
                          /\ i \in Sooner(t, q, w) <=> p[i] \in Sooner(s, q, w)
  BY <1>1, <1>2 DEF SamePart
<1>8. /\ Cheaper(t, q) \subseteq DOMAIN t /\ Sooner(t, q, w) \subseteq DOMAIN t
  BY DEF Cheaper, Sooner
<1>9. /\ Cheaper(s, q) = {} <=> Cheaper(t, q) = {}
      /\ Sooner(s, q, w) = Cheaper(s, q) <=> Sooner(t, q, w) = Cheaper(t, q)
  BY <1>6, <1>7, <1>8
<1>10. FirstOfPrice(s, q, w) <=> FirstOfPrice(t, q, w)
  BY <1>3, <1>9 DEF FirstOfPrice
<1>11. ASSUME NEW low PROVE NextLower(s, q, low) <=> NextLower(t, q, low)
  <2>1. \A i \in Cheaper(t, q) : p[i] \in Cheaper(s, q) /\ t[i].price = s[p[i]].price
    BY <1>7, <1>8 DEF Rearranged
  <2>2. \A k \in Cheaper(s, q) : \E i \in Cheaper(t, q) : p[i] = k
    BY <1>6
  <2> QED  BY <2>1, <2>2 DEF NextLower
<1> QED  BY <1>3, <1>5, <1>10, <1>11

LEMMA NextLowerIsOne ==
  ASSUME NEW s, PointList(s), NEW q, NEW a \in Nat, NEW b \in Nat,
         NextLower(s, q, a), NextLower(s, q, b)
  PROVE  a = b
BY DEF NextLower

LEMMA AtCrossingIsFraction ==
  ASSUME NEW s, PointList(s), NEW i \in DOMAIN s, IsCrossing(s, i)
  PROVE  AtCrossing(s, i) \in Fraction
<1>1. s[i].price \in Nat
  BY DEF PointList
<1>2. Whole(s[i].price) \in Fraction
  BY <1>1 DEF Whole, Fraction
<1> QED  BY <1>2, InterpolatedBetween DEF AtCrossing

LEMMA SameCrossing ==
  ASSUME NEW s, NEW t, NEW p, Rearranged(s, t, p), PointList(s), PointList(t),
         NEW i \in DOMAIN s, IsCrossing(s, i), NEW j \in DOMAIN t, IsCrossing(t, j)
  PROVE  Same(AtCrossing(s, i), AtCrossing(t, j))
<1> DEFINE q == s[i].price
           w == s[i].weight
<1>1. /\ q \in Nat /\ w \in Nat /\ t[j].price \in Nat /\ t[j].weight \in Nat
  BY DEF PointList
<1>2. Halfway(s, q, w) /\ Halfway(t, t[j].price, t[j].weight)
  BY CrossingIsHalfway
<1>3. t[j].price = q /\ t[j].weight = w
  <2> HIDE DEF q, w
  <2>1. Halfway(t, q, w)
    BY <1>1, <1>2, SameHalf
  <2> QED  BY <1>1, <1>2, <2>1, OneHalfway
<1>4. AtCrossing(s, i) \in Fraction /\ AtCrossing(t, j) \in Fraction
  BY AtCrossingIsFraction
<1>5. CASE FirstOfPrice(s, q, w)
  <2>1. FirstOfPrice(t, t[j].price, t[j].weight)
    <3> HIDE DEF q, w
    <3> QED  BY <1>1, <1>3, <1>5, SameHalf
  <2>2. PICK a \in Nat :
          /\ NextLower(s, q, a)
          /\ AtCrossing(s, i) =
               Between(a, q, w, Weight(s, Cheaper(s, q)), Weight(s, DOMAIN s))
    BY <1>5, InterpolatedFromLower
  <2>3. PICK b \in Nat :
          /\ NextLower(t, t[j].price, b)
          /\ AtCrossing(t, j) =
               Between(b, t[j].price, t[j].weight,
                       Weight(t, Cheaper(t, t[j].price)), Weight(t, DOMAIN t))
    BY <2>1, InterpolatedFromLower
  <2> HIDE DEF q, w
  <2>4. a = b
    <3>1. NextLower(t, q, a)
      BY <1>1, <2>2, SameHalf
    <3> QED  BY <1>3, <2>3, <3>1, NextLowerIsOne
  <2>5. AtCrossing(s, i) = AtCrossing(t, j)
    BY <1>1, <1>3, <2>2, <2>3, <2>4, SameHalf
  <2> QED  BY <2>5 DEF Same
<1>6. CASE ~ FirstOfPrice(s, q, w)
  <2>1. ~ FirstOfPrice(t, t[j].price, t[j].weight)
    <3> HIDE DEF q, w
    <3> QED  BY <1>1, <1>3, <1>6, SameHalf
  <2>2. Same(AtCrossing(s, i), Whole(q)) /\ Same(AtCrossing(t, j), Whole(q))
    BY <1>3, <1>6, <2>1, CrossingIsPlain
  <2> QED  BY <1>1, <1>4, <2>2, SameAsWhole
<1> QED  BY <1>5, <1>6

(* The weighted median of rearranged points is the same price.             *)
LEMMA SameMedian ==
  ASSUME NEW s, NEW t, NEW p, Rearranged(s, t, p), PointList(s), PointList(t),
         DOMAIN s # {}, DOMAIN t # {}
  PROVE  Same(WeightedMedian(s), WeightedMedian(t))
<1> DEFINE only(r) == CHOOSE k \in DOMAIN r : TRUE
           rest(r) == WithoutOutliers(r)
           i(r) == Crossing(rest(r))
<1>1. \A r : WeightedMedian(r) =
        IF Length(r) = 1 THEN Whole(r[only(r)].price)
        ELSE IF Weight(rest(r), DOMAIN rest(r)) = 0 THEN TierMean(rest(r))
        ELSE AtCrossing(rest(r), i(r))
  BY DEF WeightedMedian, AtCrossing
<1>2. Length(s) = Length(t)
  BY SameLength
<1>3. CASE Length(s) = 1
  <2>1. PICK x : DOMAIN t = {x}
    BY <1>2, <1>3, FS_Singleton DEF Length, PointList
  <2>2. only(t) = x /\ only(s) \in DOMAIN s
    BY <2>1
  <2> HIDE DEF only
  <2>3. p[x] = only(s) /\ t[x] = s[only(s)]
    BY <2>1, <2>2 DEF Rearranged
  <2>4. WeightedMedian(s) = WeightedMedian(t)
    BY <1>1, <1>2, <1>3, <2>2, <2>3
  <2> QED  BY <2>4 DEF Same
<1>4. CASE Length(s) # 1
  <2> DEFINE a == rest(s)
             b == rest(t)
  <2>1. Rearranged(a, b, p)
    BY SameWithoutOutliers
  <2>2. PointList(a) /\ PointList(b)
    <3>1. PICK K \in SUBSET DOMAIN s : WithoutOutliers(s) = Restrict(s, K)
      BY OutliersLeaveSome
    <3>2. PICK L \in SUBSET DOMAIN t : WithoutOutliers(t) = Restrict(t, L)
      BY OutliersLeaveSome
    <3> QED  BY <3>1, <3>2, RestrictionOfList
  <2> HIDE DEF a, b
  <2>3. Weight(a, DOMAIN a) = Weight(b, DOMAIN b) /\ TierMean(a) = TierMean(b)
    BY <2>1, <2>2, SamePoints, SameLength
  <2>4. CASE Weight(a, DOMAIN a) = 0
    <3>1. WeightedMedian(s) = WeightedMedian(t)
      BY <1>1, <1>2, <1>4, <2>3, <2>4 DEF a, b
    <3> QED  BY <3>1 DEF Same
  <2>5. CASE Weight(a, DOMAIN a) # 0
    <3>1. Same(AtCrossing(a, Crossing(a)), AtCrossing(b, Crossing(b)))
      BY <2>1, <2>2, <2>3, <2>5, CrossingExists, SameCrossing
    <3>2. /\ WeightedMedian(s) = AtCrossing(a, Crossing(a))
          /\ WeightedMedian(t) = AtCrossing(b, Crossing(b))
      BY <1>1, <1>2, <1>4, <2>3, <2>5 DEF a, b
    <3> QED  BY <3>1, <3>2
  <2> QED  BY <2>4, <2>5
<1> QED  BY <1>3, <1>4

(* Validation keeps the same updates, in whatever order they come.         *)
LEMMA SameValidated ==
  ASSUME NEW us, NEW vs, NEW p, Rearranged(us, vs, p)
  PROVE  Rearranged(Validated(us), Validated(vs), p)
<1> DEFINE V(r) == {i \in DOMAIN r : r[i].price > 0 /\ r[i].confidence \in 1 .. 10}
           S(r) == {i \in DOMAIN r : 4 * Distance(r[i].price, MiddlePrice(r)) <= MiddlePrice(r)}
           enough(r) == Max({1, (2 * Length(Valid(r))) \div 5})
<1>1. \A r : Valid(r) = Restrict(r, V(r)) /\ Stable(r) = Restrict(r, S(r))
  BY DEF Valid, Stable, RestrictValues
<1>2. SamePart(us, vs, p, V(us), V(vs))
  BY DEF SamePart, Rearranged
<1>3. Rearranged(Valid(us), Valid(vs), p)
  <2> HIDE DEF V
  <2> QED  BY <1>1, <1>2, PartIsRearranged
<1> DEFINE a == Valid(us)
           b == Valid(vs)
<1> HIDE DEF V
<1>4. SamePart(a, b, p, S(a), S(b))
  <2> HIDE DEF a, b
  <2>1. MiddlePrice(a) = MiddlePrice(b)
    BY <1>3, SamePrices DEF a, b
  <2> QED  BY <1>3, <2>1 DEF SamePart, Rearranged, a, b
<1> HIDE DEF S, a, b
<1>5. Rearranged(Stable(a), Stable(b), p)
  BY <1>1, <1>3, <1>4, PartIsRearranged DEF a, b
<1>6. Length(a) = Length(b) /\ Length(Stable(a)) = Length(Stable(b))
  BY <1>3, <1>5, SameLength DEF a, b
<1>7. enough(us) = enough(vs)
  BY <1>6 DEF a, b
<1>8. \A r : Validated(r) =
               IF Length(Valid(r)) > 2 /\ Length(Stable(Valid(r))) >= enough(r)
               THEN Stable(Valid(r)) ELSE Valid(r)
  BY DEF Validated
<1> HIDE DEF enough
<1> QED  BY <1>3, <1>5, <1>6, <1>7, <1>8 DEF a, b

LEMMA PointsOfValidated ==
  ASSUME NEW us \in Seq(PriceUpdate)
  PROVE  /\ PointList(Points(Validated(us)))
         /\ DOMAIN Points(Validated(us)) = DOMAIN Validated(us)
<1>1. PICK K \in SUBSET DOMAIN Valid(us) : Validated(us) = Restrict(us, K)
  BY ValidatedIsValid
<1>2. PICK V \in SUBSET DOMAIN us : Valid(us) = Restrict(us, V)
  BY ValidatedIsValid
<1>3. K \in SUBSET DOMAIN us
  BY <1>1, <1>2 DEF Restrict
<1>4. DOMAIN Restrict(us, K) = K
  BY DEF Restrict
<1> QED  BY <1>1, <1>3, <1>4, PointsOfUpdates

(* The same updates in another order have the same price.                  *)
LEMMA SameComputed ==
  ASSUME NEW us \in Seq(PriceUpdate), NEW vs \in Seq(PriceUpdate),
         NEW p, Rearranged(us, vs, p)
  PROVE  /\ Computed(us) = Rejected <=> Computed(vs) = Rejected
         /\ Computed(us) # Rejected => Same(Computed(us).price, Computed(vs).price)
<1> DEFINE a == Validated(us)
           b == Validated(vs)
<1>1. Rearranged(a, b, p)
  BY SameValidated
<1>2. /\ PointList(Points(a)) /\ DOMAIN Points(a) = DOMAIN a
      /\ PointList(Points(b)) /\ DOMAIN Points(b) = DOMAIN b
  BY PointsOfValidated
<1> HIDE DEF a, b
<1>3. Rearranged(Points(a), Points(b), p)
  <2>1. \A i \in DOMAIN b : p[i] \in DOMAIN a /\ Points(b)[i] = Points(a)[p[i]]
    BY <1>1 DEF Rearranged, Points
  <2> QED  BY <1>1, <1>2, <2>1 DEF Rearranged, PointList
<1>4. DOMAIN a = {} <=> DOMAIN b = {}
  BY <1>1 DEF Rearranged
<1>5. CASE DOMAIN a = {}
  BY <1>4, <1>5 DEF Computed, a, b
<1>6. CASE DOMAIN a # {}
  <2>1. Same(WeightedMedian(Points(a)), WeightedMedian(Points(b)))
    BY <1>2, <1>3, <1>4, <1>6, SameMedian
  <2>2. /\ Computed(us) = [kind |-> "price", price |-> WeightedMedian(Points(a))]
        /\ Computed(vs) = [kind |-> "price", price |-> WeightedMedian(Points(b))]
    BY <1>4, <1>6 DEF Computed, a, b
  <2>3. Computed(us) # Rejected /\ Computed(vs) # Rejected
    BY <2>2 DEF Rejected
  <2> QED  BY <2>1, <2>2, <2>3
<1> QED  BY <1>5, <1>6

LEMMA SwapIsRearrangement ==
  ASSUME NEW us \in Seq(PriceUpdate), NEW i \in DOMAIN us, NEW j \in DOMAIN us
  PROVE  LET vs == [us EXCEPT ![i] = us[j], ![j] = us[i]]
         IN  vs \in Seq(PriceUpdate) /\ \E p : Rearranged(vs, us, p)
<1> DEFINE vs == [us EXCEPT ![i] = us[j], ![j] = us[i]]
           p == [k \in DOMAIN us |-> IF k = i THEN j ELSE IF k = j THEN i ELSE k]
<1>1. DOMAIN us = 1 .. Len(us) /\ Len(us) \in Nat /\ \A k \in DOMAIN us : us[k] \in PriceUpdate
  OBVIOUS
<1>2. us = [k \in DOMAIN us |-> us[k]] /\ vs = [k \in DOMAIN vs |-> vs[k]]
  <2>1. \A ws \in Seq(PriceUpdate) : ws = [k \in DOMAIN ws |-> ws[k]]
    OBVIOUS
  <2>2. vs \in Seq(PriceUpdate)
    BY <1>1
  <2> HIDE DEF vs
  <2> QED  BY <2>1, <2>2
<1>3. DOMAIN vs = DOMAIN us /\ IsFiniteSet(DOMAIN us)
  BY <1>1, FS_Interval
<1>4. \A k \in DOMAIN us : p[k] \in DOMAIN vs /\ us[k] = vs[p[k]]
  BY <1>1
<1>5. \A k, l \in DOMAIN us : p[k] = p[l] => k = l
  OBVIOUS
<1>6. \A k \in DOMAIN vs : \E l \in DOMAIN us : p[l] = k
  <2>1. \A k \in DOMAIN us : p[k] \in DOMAIN us /\ p[p[k]] = k
    OBVIOUS
  <2> HIDE DEF p
  <2> QED  BY <1>3, <2>1
<1>7. vs \in Seq(PriceUpdate)
  BY <1>1
<1> HIDE DEF vs, p
<1>8. Rearranged(vs, us, p)
  BY <1>2, <1>3, <1>4, <1>5, <1>6 DEF Rearranged
<1> QED  BY <1>7, <1>8 DEF vs

(* Two updates that change places leave the price as it is                 *)
(* (performAggregation).  SameComputed says so of any change of their      *)
(* order.                                                                  *)
THEOREM OrderMakesNoDifference == ConsensusSpec => []OrderDoesNotMatter
<1>1. ConsensusInv => OrderDoesNotMatter
  <2> SUFFICES ASSUME ConsensusInv, Fresh,
                      NEW i \in DOMAIN updates, NEW j \in DOMAIN updates
               PROVE  Same(Computed([updates EXCEPT ![i] = updates[j],
                                                    ![j] = updates[i]]).price,
                           answer.price)
    BY DEF OrderDoesNotMatter
  <2>1. updates \in Seq(PriceUpdate)
    BY DEF ConsensusInv
  <2>2. Computed(updates) # Rejected /\ aggregationCache.result = Computed(updates)
    BY CachedResult DEF Fresh
  <2>3. answer = Computed(updates)
    BY <2>2 DEF Fresh, ConsensusInv, AnswerOK
  <2> DEFINE vs == [updates EXCEPT ![i] = updates[j], ![j] = updates[i]]
  <2>4. vs \in Seq(PriceUpdate) /\ \E p : Rearranged(vs, updates, p)
    BY <2>1, SwapIsRearrangement
  <2> HIDE DEF vs
  <2>5. Same(Computed(vs).price, answer.price)
    BY <2>1, <2>2, <2>3, <2>4, SameComputed
  <2> QED  BY <2>5 DEF vs
<1> QED  BY <1>1, ConsensusInvariant, PTL


-----------------------------------------------------------------------------
(* How many of the updates that are counted are at the price or above it.  *)

PointsCounted(us) == WithoutOutliers(Points(Validated(us)))
AtLeast(s, price) == {i \in DOMAIN s : LE(price, Whole(s[i].price))}

(* No more than half of the weight is below the price.  So sources with    *)
(* less than half of the weight cannot raise it above the prices of all    *)
(* others.  (They can lower it below those of all others: where half of    *)
(* the weight is reached, calculateOptimizedWeightedMedian interpolates    *)
(* from the price of the point before, whatever its weight.)               *)
HalfTheWeightAbove ==
  Fresh =>
    LET s == PointsCounted(updates)
    IN  2 * Weight(s, AtLeast(s, answer.price)) >= Weight(s, DOMAIN s)

(* The median is at most the price of the point where half of the weight   *)
(* is reached.                                                             *)
LEMMA AtCrossingIsBelow ==
  ASSUME NEW s, PointList(s), NEW i \in DOMAIN s, IsCrossing(s, i)
  PROVE  LE(AtCrossing(s, i), Whole(s[i].price))
<1> DEFINE j == Previous(s, i)
           part == Weight(s, DOMAIN s) - 2 * Weight(s, Before(s, i))
           span == 2 * s[i].weight
<1>1. s[i].price \in Nat /\ s[i].weight \in Nat
  BY DEF PointList
<1>2. CASE Before(s, i) = {}
  BY <1>1, <1>2 DEF AtCrossing, LE, Whole
<1>3. CASE Before(s, i) # {}
  <2>1. j \in DOMAIN s /\ s[j].price <= s[i].price
    BY <1>3, PreviousIsLast
  <2>2. s[j].price \in Nat
    BY <2>1 DEF PointList
  <2>3. Weight(s, DOMAIN s) \in Nat
    <3>1. DOMAIN s \in SUBSET DOMAIN s
      OBVIOUS
    <3> QED  BY <3>1, WeightOfSet
  <2>4. part \in Nat /\ span \in Nat /\ part <= span
    <3> DEFINE b == Weight(s, Before(s, i))
    <3>1. b \in Nat /\ 2 * b < Weight(s, DOMAIN s)
          /\ 2 * (s[i].weight + b) >= Weight(s, DOMAIN s)
      BY BeforeAndAt DEF IsCrossing
    <3> HIDE DEF b
    <3> QED  BY <1>1, <2>3, <3>1 DEF b
  <2>5. Interpolated(s, i) =
          [num |-> s[j].price * span + (s[i].price - s[j].price) * part, den |-> span]
    BY DEF Interpolated
  <2> HIDE DEF part, span, j
  <2> DEFINE num == s[j].price * span + (s[i].price - s[j].price) * part
  <2>6. num \in Nat /\ num <= s[i].price * span
    BY <1>1, <2>1, <2>2, <2>4, BetweenEnds
  <2> HIDE DEF num
  <2>7. Interpolated(s, i).num = num /\ Interpolated(s, i).den = span /\ num * 1 = num
    BY <2>5, <2>6 DEF num
  <2>8. Whole(s[i].price).num = s[i].price /\ Whole(s[i].price).den = 1
    BY DEF Whole
  <2> QED  BY <1>3, <2>6, <2>7, <2>8 DEF AtCrossing, LE
<1> QED  BY <1>2, <1>3

(* What precedes the crossing has less than half of the weight, and all    *)
(* other points are at the median or above.                                *)
LEMMA HalfIsAboveCrossing ==
  ASSUME NEW s, PointList(s), NEW i \in DOMAIN s, IsCrossing(s, i)
  PROVE  2 * Weight(s, AtLeast(s, AtCrossing(s, i))) >= Weight(s, DOMAIN s)
<1> DEFINE B == Before(s, i)
           R == DOMAIN s \ B
           A == AtLeast(s, AtCrossing(s, i))
<1>1. B \in SUBSET DOMAIN s /\ R \in SUBSET DOMAIN s /\ A \in SUBSET DOMAIN s
        /\ DOMAIN s \in SUBSET DOMAIN s
  BY DEF Before, AtLeast
<1>2. R \subseteq A
  <2> SUFFICES ASSUME NEW k \in R PROVE LE(AtCrossing(s, i), Whole(s[k].price))
    BY DEF AtLeast
  <2>1. k \in DOMAIN s /\ ~ Precedes(s, k, i)
    BY DEF Before
  <2>2. s[i].price <= s[k].price /\ s[i].price \in Nat /\ s[k].price \in Nat
    BY <2>1 DEF Precedes, PointList
  <2> DEFINE n == AtCrossing(s, i).num
             d == AtCrossing(s, i).den
  <2>3. n \in Nat /\ d \in Nat
    BY AtCrossingIsFraction DEF Fraction
  <2>4. n * 1 <= s[i].price * d
    BY AtCrossingIsBelow DEF LE, Whole
  <2> HIDE DEF n, d
  <2>5. \A a, b \in Nat : a <= b => a * d <= b * d
    BY <2>3
  <2>6. s[i].price * d <= s[k].price * d
    BY <2>2, <2>5
  <2>7. s[i].price * d \in Nat /\ s[k].price * d \in Nat
    BY <2>2, <2>3
  <2>8. n * 1 <= s[k].price * d
    BY <2>3, <2>4, <2>6, <2>7
  <2> QED  BY <2>8 DEF LE, Whole, n, d
<1>3. Weight(s, DOMAIN s) = Weight(s, B) + Weight(s, R)
  <2> DEFINE f == [k \in DOMAIN s |-> s[k].weight]
  <2>1. IsFiniteSet(DOMAIN s) /\ \A k \in DOMAIN s : f[k] \in Int
    BY DEF PointList
  <2>2. SumFunctionOnSet(f, DOMAIN s) = SumFunctionOnSet(f, B) + SumFunctionOnSet(f, R)
    <3> HIDE DEF f, B
    <3> QED  BY <1>1, <2>1, SumOfParts
  <2> QED  BY <2>2 DEF Weight
<1> HIDE DEF A, B, R
<1>4. Weight(s, R) <= Weight(s, A)
  BY <1>1, <1>2, WeightOfSet
<1>5. Weight(s, A) \in Nat /\ Weight(s, B) \in Nat /\ Weight(s, R) \in Nat
        /\ Weight(s, DOMAIN s) \in Nat
  BY <1>1, WeightOfSet
<1>6. 2 * Weight(s, B) < Weight(s, DOMAIN s)
  BY DEF IsCrossing, B
<1>7. 2 * Weight(s, A) >= Weight(s, DOMAIN s)
  BY <1>3, <1>4, <1>5, <1>6
<1> QED  BY <1>7 DEF A

LEMMA HalfIsAboveMedian ==
  ASSUME NEW points, PointList(points), DOMAIN points # {}
  PROVE  LET s == WithoutOutliers(points)
         IN  2 * Weight(s, AtLeast(s, WeightedMedian(points))) >= Weight(s, DOMAIN s)
<1> DEFINE s == WithoutOutliers(points)
           m == WeightedMedian(points)
           only == CHOOSE k \in DOMAIN points : TRUE
<1>1. m = IF Length(points) = 1 THEN Whole(points[only].price)
          ELSE IF Weight(s, DOMAIN s) = 0 THEN TierMean(s)
          ELSE AtCrossing(s, Crossing(s))
  BY DEF WeightedMedian, AtCrossing
<1>2. PointList(s)
  <2>1. PICK K \in SUBSET DOMAIN points : WithoutOutliers(points) = Restrict(points, K)
    BY OutliersLeaveSome
  <2> QED  BY <2>1, RestrictionOfList
<1>3. AtLeast(s, m) \in SUBSET DOMAIN s /\ DOMAIN s \in SUBSET DOMAIN s
  BY DEF AtLeast
<1>4. Weight(s, AtLeast(s, m)) \in Nat /\ Weight(s, DOMAIN s) \in Nat
  <2> HIDE DEF s, m
  <2> QED  BY <1>2, <1>3, WeightOfSet
<1>5. CASE Length(points) = 1
  <2>1. s = points
    BY <1>5 DEF WithoutOutliers
  <2>2. PICK x : DOMAIN points = {x}
    BY <1>5, FS_Singleton DEF Length, PointList
  <2>3. only = x /\ points[x].price \in Nat
    BY <2>2 DEF PointList
  <2>4. LE(m, Whole(points[x].price))
    <3> HIDE DEF only
    <3>1. m = Whole(points[x].price)
      BY <1>1, <1>5, <2>3
    <3> HIDE DEF m
    <3> QED  BY <2>3, <3>1 DEF LE, Whole
  <2>5. AtLeast(s, m) = DOMAIN s
    <3> HIDE DEF m
    <3> QED  BY <2>1, <2>2, <2>4 DEF AtLeast
  <2> HIDE DEF s, m
  <2>6. 2 * Weight(s, AtLeast(s, m)) >= Weight(s, DOMAIN s)
    BY <1>4, <2>5
  <2> QED  BY <2>6 DEF s, m
<1>6. CASE Weight(s, DOMAIN s) = 0
  <2> HIDE DEF s, m
  <2>1. 2 * Weight(s, AtLeast(s, m)) >= Weight(s, DOMAIN s)
    BY <1>4, <1>6
  <2> QED  BY <2>1 DEF s, m
<1>7. CASE Length(points) # 1 /\ Weight(s, DOMAIN s) # 0
  <2>1. m = AtCrossing(s, Crossing(s))
    BY <1>1, <1>7
  <2> HIDE DEF s, m
  <2>2. Crossing(s) \in DOMAIN s /\ IsCrossing(s, Crossing(s))
    BY <1>2, <1>7, CrossingExists
  <2>3. 2 * Weight(s, AtLeast(s, m)) >= Weight(s, DOMAIN s)
    BY <1>2, <2>1, <2>2, HalfIsAboveCrossing
  <2> QED  BY <2>3 DEF s, m
<1> QED  BY <1>5, <1>6, <1>7

(* No more than half of the weight of the updates that are counted is      *)
(* below a computed price (calculateOptimizedWeightedMedian).              *)
THEOREM HalfTheWeightIsAbove == ConsensusSpec => []HalfTheWeightAbove
<1>1. ConsensusInv => HalfTheWeightAbove
  <2> SUFFICES ASSUME ConsensusInv, Fresh
               PROVE  LET s == PointsCounted(updates)
                      IN  2 * Weight(s, AtLeast(s, answer.price)) >= Weight(s, DOMAIN s)
    BY DEF HalfTheWeightAbove
  <2> DEFINE a == Validated(updates)
  <2>1. updates \in Seq(PriceUpdate)
    BY DEF ConsensusInv
  <2>2. Computed(updates) # Rejected /\ answer = Computed(updates)
    BY CachedResult DEF Fresh, ConsensusInv, AnswerOK
  <2>3. PointList(Points(a)) /\ DOMAIN Points(a) = DOMAIN a
    BY <2>1, PointsOfValidated
  <2>4. DOMAIN a # {} /\ answer.price = WeightedMedian(Points(a))
    BY <2>2 DEF Computed
  <2> HIDE DEF a
  <2> QED  BY <2>3, <2>4, HalfIsAboveMedian DEF PointsCounted, a
<1> QED  BY <1>1, ConsensusInvariant, PTL
=============================================================================
