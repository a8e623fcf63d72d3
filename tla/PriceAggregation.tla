-------------------------- MODULE PriceAggregation --------------------------
(***************************************************************************)
(* Which updates the price of a feed is computed from: the three ways by   *)
(* which updates get into activePriceUpdates of RealTimeAggregationService *)
(* (at once, with the batch timer, from the exchanges' REST interfaces)    *)
(* and the cached price.  One feed; feeds share nothing here.              *)
(*                                                                         *)
(* Updates are known by the configured source they report, the symbol they *)
(* are labelled with and their time.  Whether a price differs much from    *)
(* the last one is free.  The lists of the code are sets: their order      *)
(* decides nothing else, and an update fetched twice has two slots.        *)
(*                                                                         *)
(* Nothing but a REST fetch lets other tasks in: the awaits of a batch and *)
(* of an aggregation end within their task, as nobody subscribes; but two  *)
(* lookups of one task overlap.  Time is counted in steps, of which Ttl    *)
(* and FreshFor are the program's limits.                                  *)
(***************************************************************************)
EXTENDS Naturals, Sequences

CONSTANTS
  Configured,    \* the feed's sources: a sequence of [exchange, symbol]
  FeedSymbol,    \* the name of the feed
  Ttl,           \* AGGREGATION_CACHE_TTL_MS
  FreshFor,      \* FRESH_DATA_THRESHOLD_MS
  MaxDelay,      \* the age of an update when it arrives
  MaxTime,       \* bound of the clock
  NoPrice        \* no cached price

ASSUME TimeAssumption == {Ttl, FreshFor, MaxDelay, MaxTime} \subseteq Nat

(* A feed has sources.                                                     *)
ASSUME SourcesAssumption ==
  /\ Len(Configured) \in Nat \ {0}
  /\ DOMAIN Configured = 1 .. Len(Configured)

VARIABLES
  now,
  batch,      \* batchProcessor
  active,     \* activePriceUpdates
  cached,     \* cache: the updates a price was computed from, and when
  fetch       \* getPriceUpdatesForFeed: the source it is at, what it got

vars == <<now, batch, active, cached, fetch>>

-----------------------------------------------------------------------------
Sources == DOMAIN Configured

Labels == {FeedSymbol} \cup {Configured[i].symbol : i \in Sources}

Socket == 0     \* the slot of updates that came through a WebSocket

Update == [source : Sources, symbol : Labels, at : 0 .. MaxTime,
           slot : Sources \cup {Socket}]

Exchange(u) == Configured[u.source].exchange

(* getCompositeSource.                                                     *)
SameSource(u, v) == Exchange(u) = Exchange(v) /\ u.symbol = v.symbol

Fetching == fetch.next # 0

Init ==
  /\ now = 0
  /\ batch = {}
  /\ active = {}
  /\ cached = NoPrice
  /\ fetch = [next |-> 0, got |-> {}]

-----------------------------------------------------------------------------
(* getAggregatedPrice.                                                     *)

Usable(entry) == entry # NoPrice /\ now <= entry.at + Ttl

(* setCachedPrice.                                                         *)
CacheEntry(updates) == [of |-> updates, at |-> now]

(* The aggregation of updates, which may throw.                            *)
Aggregated(updates, old) == cached' \in {CacheEntry(updates), old}

(* With the active updates and the cached price it finds.                  *)
GetAggregatedPrice(updates, entry) ==
  \/ /\ Fetching \/ Usable(entry)
     /\ cached' = entry
     /\ UNCHANGED fetch
  \/ /\ ~Fetching /\ ~Usable(entry) /\ updates # {}
     /\ Aggregated(updates, NoPrice)
     /\ UNCHANGED fetch
  \/ /\ ~Fetching /\ ~Usable(entry) /\ updates = {}
     /\ cached' = NoPrice
     /\ fetch' = [next |-> 1, got |-> {}]

(* A request, the warmer, or an update that is not valid.                  *)
Lookup ==
  /\ GetAggregatedPrice(active, cached)
  /\ UNCHANGED <<now, batch, active>>

-----------------------------------------------------------------------------
(* Updates from WebSockets.                                                *)

(* processImmediateUpdate.                                                 *)
Immediate(u) ==
  {v \in {w \in active : ~SameSource(w, u)} \cup {u} : now <= v.at + FreshFor}

(* addPriceUpdate, of a valid update.                                      *)
AddPriceUpdate(u, critical) ==
  /\ batch' = batch \cup {u}
  /\ active' = IF critical THEN Immediate(u) ELSE active

(* processPriceUpdate: addPriceUpdate, then getAggregatedPrice without a   *)
(* cached price.  If the arrival started to warm the cache, that lookup    *)
(* took the lock before and works on what was active then.  An update that *)
(* is the same as one being processed is dropped, which changes nothing.   *)
ProcessPriceUpdate(u, critical, warming) ==
  /\ AddPriceUpdate(u, critical)
  /\ GetAggregatedPrice(IF warming THEN active ELSE active', NoPrice)

(* isCriticalUpdate: the first is, and so is one whose price differs much. *)
MayBeCritical(critical) == active = {} => critical

(* mapExchangeSymbolToFeedSymbol: a market that has the feed's name, or    *)
(* the first feed that has the market of source i; here there is one feed. *)
MappedSymbol(i) ==
  IF Configured[i].symbol = FeedSymbol THEN Configured[i].symbol ELSE FeedSymbol

(* handlePriceUpdate of the coordinator: the access is tracked, which may  *)
(* warm; the update is labelled with the name of the feed.                 *)
UpdateArrives(i, delay, critical, warming) ==
  /\ delay <= now
  /\ MayBeCritical(critical)
  /\ warming => ~Fetching /\ ~Usable(cached)
  /\ ProcessPriceUpdate([source |-> i, symbol |-> MappedSymbol(i),
                         at |-> now - delay, slot |-> Socket],
                        critical, warming)
  /\ UNCHANGED now

(* Mutant: the oldest update of each source is kept.                       *)
MutantIsLatest(latest, updates) ==
  /\ \A u \in updates : \E v \in latest : SameSource(u, v)
  /\ \A u, v \in latest : SameSource(u, v) => u = v
  /\ \A u \in updates, v \in latest : SameSource(u, v) => v.at <= u.at

(* getLatestUpdatesBySource: of each source one, the latest.               *)
IsLatest(latest, updates) ==
  /\ \A u \in updates : \E v \in latest : SameSource(u, v)
  /\ \A u, v \in latest : SameSource(u, v) => u = v
  /\ \A u \in updates, v \in latest : SameSource(u, v) => u.at <= v.at

(* Mutant: a batch waits until there is nothing active.                    *)
MutantProcessBatchedUpdates ==
  /\ batch # {}
  /\ active = {}
  /\ batch' = {}
  /\ \E latest \in SUBSET batch : IsLatest(latest, batch) /\ active' = latest
  /\ UNCHANGED <<now, cached, fetch>>

(* processBatchedUpdates.  Updates of sources that are not in the batch    *)
(* are gone; the cached price stays.                                       *)
ProcessBatchedUpdates ==
  /\ batch # {}
  /\ batch' = {}
  /\ \E latest \in SUBSET batch : IsLatest(latest, batch) /\ active' = latest
  /\ UNCHANGED <<now, cached, fetch>>

-----------------------------------------------------------------------------
(* Updates from REST interfaces, one source after the other.               *)

(* find: the first source configured for the exchange of source i.         *)
FirstOf(i) ==
  CHOOSE j \in Sources :
    /\ Configured[j].exchange = Configured[i].exchange
    /\ \A k \in Sources : Configured[k].exchange = Configured[i].exchange
                            => j <= k

Fetched(i) == [source |-> FirstOf(i), symbol |-> Configured[FirstOf(i)].symbol,
               at |-> now, slot |-> i]

(* The answer of a source, or a failure, which is skipped.  What the last  *)
(* one completes replaces the active updates.                              *)
SourceAnswers ==
  /\ Fetching
  /\ \E got \in {fetch.got, fetch.got \cup {Fetched(fetch.next)}} :
       \/ /\ fetch.next < Len(Configured)
          /\ fetch' = [next |-> fetch.next + 1, got |-> got]
          /\ UNCHANGED <<active, cached>>
       \/ /\ fetch.next = Len(Configured)
          /\ fetch' = [next |-> 0, got |-> {}]
          /\ \/ got = {} /\ UNCHANGED <<active, cached>>
             \/ got # {} /\ active' = got /\ Aggregated(got, cached)
  /\ UNCHANGED <<now, batch>>

TimePasses ==
  /\ now < MaxTime
  /\ now' = now + 1
  /\ UNCHANGED <<batch, active, cached, fetch>>

-----------------------------------------------------------------------------
Next ==
  \/ Lookup
  \/ \E i \in Sources, delay \in 0 .. MaxDelay, critical, warming \in BOOLEAN :
       UpdateArrives(i, delay, critical, warming)
  \/ ProcessBatchedUpdates
  \/ SourceAnswers
  \/ TimePasses

Spec == Init /\ [][Next]_vars

(* The batch timer is an interval.                                         *)
FairSpec == Spec /\ WF_vars(ProcessBatchedUpdates)

-----------------------------------------------------------------------------
(* Updates and the cached price are of their types; a fetch is at one of   *)
(* the configured sources.                                                 *)
TypeOK ==
  /\ now \in 0 .. MaxTime
  /\ batch \in SUBSET Update
  /\ active \in SUBSET Update
  /\ cached # NoPrice => cached.of \in SUBSET Update /\ cached.at \in 0 .. now
  /\ fetch.next \in 0 .. Len(Configured)
  /\ fetch.got \in SUBSET Update

(* However updates at once, batches and REST answers alternate, no         *)
(* exchange counts twice by its WebSocket (processImmediateUpdate,         *)
(* getLatestUpdatesBySource).                                              *)
SocketsCountOnce ==
  \A u, v \in active :
    u.slot = Socket /\ v.slot = Socket /\ SameSource(u, v) => u = v

(* No update is lost on its way: what leaves the batch becomes active, or  *)
(* a later update of the same source does, though REST answers replace     *)
(* what is active meanwhile (processBatchedUpdates, getAggregatedPrice).   *)
NoUpdateIsLost ==
  [][\A u \in batch :
       \/ u \in batch'
       \/ \E v \in active' : SameSource(u, v) /\ u.at <= v.at]_vars

CountedIn(i, delay) ==
  cached' = NoPrice \/ \E u \in cached'.of : u.source = i /\ u.at + delay = now

(* The price that is cached when a critical update has arrived counts it   *)
(* in, unless another lookup holds the feed ("invalidate cache for         *)
(* real-time priority", addPriceUpdate).                                   *)
CriticalCountsIn ==
  [][\A i \in Sources, delay \in 0 .. MaxDelay :
       ~Fetching /\ delay <= FreshFor /\ UpdateArrives(i, delay, TRUE, FALSE)
         => CountedIn(i, delay)]_vars

(* Every update is aggregated in the end, it or a later one of its source  *)
(* (startBatchProcessing).                                                 *)
Reflected ==
  \A e \in {Configured[i].exchange : i \in Sources}, t \in 0 .. MaxTime :
    LET from(u) == Exchange(u) = e /\ t <= u.at
    IN  (\E u \in batch : from(u)) ~> (\E u \in active : from(u))
=============================================================================
