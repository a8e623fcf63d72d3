----------------------------- MODULE FeedValues -----------------------------
(***************************************************************************)
(* How a price gets from the aggregation service to a client: the two      *)
(* endpoints of FeedController, FtsoProviderService, getCurrentPrice of    *)
(* PriceAggregationCoordinatorService, the cache warmer, the caches, and   *)
(* the lock (activeAggregations) that lets one caller at a time aggregate  *)
(* a feed.                                                                 *)
(*                                                                         *)
(* The program is one event loop.  A request, an exchange's update, an     *)
(* answer of an exchange's REST interface and a timer are tasks of their   *)
(* own; what a task resolves (microtasks) runs before the next task, in    *)
(* any order.  "Idle" says that no microtask is left.                      *)
(*                                                                         *)
(* Prices are not modelled as numbers: what matters is whose they are and  *)
(* how old.  The price cache is keyed by the feed of the price it holds,   *)
(* so an entry is its age alone; what a voting round holds for a feed is   *)
(* the feed whose price was stored.  One voting round stands for all.      *)
(* Entries expire; the size limits of the caches are not modelled here.    *)
(***************************************************************************)
EXTENDS Integers, Sequences

CONSTANTS
  Feeds,
  Requests,      \* HTTP requests in progress
  FeedLists,     \* the lists of feeds requests ask for
  MaxTries,      \* attempts of executeWithRetry and the direct call after
  NoFeed         \* nothing stored for a voting round

\* Who may hold a feed's lock besides a request.
Background == "background"  \* warmFeedCache or processPriceUpdate: both
                            \* publish what they get
Late       == "late"        \* a request whose attempt timed out meanwhile
Free       == "free"
Others     == {Background, Late, Free}

ASSUME RequestAssumption == Requests \cap Others = {}
ASSUME FeedAssumption == /\ FeedLists \subseteq Seq(Feeds)
                         /\ \A l \in FeedLists : l # << >>
                         /\ NoFeed \notin Feeds
ASSUME TriesAssumption == MaxTries \in Nat \ {0}

VARIABLES
  feed,       \* [Feeds -> FeedState]
  request     \* [Requests -> Request]

vars == <<feed, request>>

FeedState ==
  [updates : {"none", "batched", "active"},  \* of the feed: in
                                       \* batchProcessor, activePriceUpdates
   lock    : Requests \cup Others,     \* whose entry in activeAggregations
   phase   : {"none", "fetching", "aggregating"},  \* the await it is at
   late    : 0 .. 2,                   \* fallbacks a late attempt has left
   price   : {"none", "usable", "recent"},  \* in the caches; see below
   round   : Feeds \cup {NoFeed}]      \* RealTimeCacheService "voting:"

\* The price of a feed in RealTimeCacheService ("price:") is "usable" up to
\* an age of 2 s (isFreshData); up to 300 ms, unless an update came, it is
\* in the cache of RealTimeAggregationService as well: "recent".

Outcomes == {"unasked", "pending", "null", "failed", "value"}

Request ==
  [kind   : {"current", "round"},
   status : {"idle", "attempt", "waiting", "backoff", "answered", "failed"},
   feeds  : Seq(Feeds),
   tries  : 0 .. MaxTries,
   stored : [Feeds -> Feeds \cup {NoFeed}],  \* cachedResults
   result : [Feeds -> Outcomes],
   spare  : [Feeds -> 0 .. 2],               \* fallbacks left
   answer : Seq([feed : Feeds, value : Feeds])]

Elements(seq) == {seq[i] : i \in DOMAIN seq}

-----------------------------------------------------------------------------
(* One feed.                                                               *)

(* setPrice: the entry is new and what rounds hold for the feed goes.      *)
Published(s) == [s EXCEPT !.price = "recent", !.round = NoFeed]

(* getAggregatedPrice up to its first await; "null" while another caller   *)
(* holds the lock.                                                         *)
Aggregated(s) ==
  IF s.lock # Free THEN "null"
  ELSE IF s.price = "recent" THEN "value"
  ELSE "pending"

AfterAggregated(s, who) ==
  IF s.lock # Free THEN s
  ELSE IF s.price = "recent" THEN Published(s)
  ELSE [s EXCEPT !.lock = who,
                 !.phase = IF s.updates = "active" THEN "aggregating"
                           ELSE "fetching"]

Usable(s) == s.price # "none"

(* trackFeedAccess: "warm" says that the feed is accessed often enough, or *)
(* for the first time, and that its price is not less than 200 ms old.     *)
Warmed(s, warm) == IF warm THEN AfterAggregated(s, Background) ELSE s

(* getCurrentPrice of the coordinator: the access is tracked first.        *)
CurrentPrice(s, warm) ==
  IF Usable(s) THEN "value" ELSE Aggregated(Warmed(s, warm))

AfterCurrentPrice(s, who, warm) ==
  IF Usable(s) THEN Warmed(s, warm)
  ELSE AfterAggregated(Warmed(s, warm), who)

(* getRealTimeFeedValues, for one feed: no access is tracked.              *)
RealTimePrice(s) == IF Usable(s) THEN "value" ELSE Aggregated(s)
AfterRealTimePrice(s, who) == IF Usable(s) THEN s ELSE AfterAggregated(s, who)

-----------------------------------------------------------------------------
(* One request.                                                            *)

NoRequest ==
  [kind |-> "current", status |-> "idle", feeds |-> << >>, tries |-> 0,
   stored |-> [f \in Feeds |-> NoFeed],
   result |-> [f \in Feeds |-> "unasked"],
   spare |-> [f \in Feeds |-> 0], answer |-> << >>]

(* missingFeeds: the requested feeds the voting round has no value of.     *)
Missing(q) == SelectSeq(q.feeds, LAMBDA f : q.stored[f] = NoFeed)

(* Null with no fallback left is an error result, or a rejected promise    *)
(* that allSettled turns into none.                                        *)
Settled(outcome, spare) ==
  IF outcome = "null" /\ spare = 0 THEN "failed" ELSE outcome

Resolved(q) ==
  q.status = "waiting" /\ \A f \in Feeds : q.result[f] \notin {"pending", "null"}

(* getCurrentPrices: the prices that were found, in order.                 *)
Found(result, feeds) == SelectSeq(feeds, LAMBDA f : result[f] = "value")

(* getValues: the i-th price found is the value of the i-th feed asked     *)
(* for.                                                                    *)
FreshData(q) ==
  LET found == Found(q.result, Missing(q))
  IN  [i \in DOMAIN found |-> [feed |-> Missing(q)[i], value |-> found[i]]]

(* combineHistoricalResults: the missing feeds take the fresh data in      *)
(* order.                                                                  *)
Combined(q) ==
  [i \in DOMAIN q.feeds |->
     IF q.stored[q.feeds[i]] # NoFeed
     THEN [feed |-> q.feeds[i], value |-> q.stored[q.feeds[i]]]
     ELSE FreshData(q)[Len(SelectSeq(SubSeq(q.feeds, 1, i),
                                     LAMBDA f : q.stored[f] = NoFeed))]]

(* Mutant: values are paired with the feeds by position.                   *)
MutantSuccessful(q) ==
  LET found == Found(q.result, q.feeds)
  IN  [i \in DOMAIN found |-> [feed |-> q.feeds[i], value |-> found[i]]]

(* successfulResults of getRealTimeFeedValues.                             *)
Successful(q) ==
  LET found == Found(q.result, q.feeds)
  IN  [i \in DOMAIN found |-> [feed |-> found[i], value |-> found[i]]]

-----------------------------------------------------------------------------
(* A late attempt got null and has a fallback left.                        *)
LateNull(s) == s.late > 0 /\ s.lock # Late

(* No microtask is left: nobody is between two awaits that need no I/O.    *)
Idle ==
  /\ \A f \in Feeds : feed[f].phase # "aggregating" /\ ~LateNull(feed[f])
  /\ \A r \in Requests :
       /\ request[r].status \in {"idle", "waiting", "backoff"}
       /\ ~Resolved(request[r])
       /\ \A f \in Feeds : request[r].result[f] # "null"

Init ==
  /\ feed = [f \in Feeds |->
       [updates |-> "none", lock |-> Free, phase |-> "none", late |-> 0,
        price |-> "none", round |-> NoFeed]]
  /\ request = [r \in Requests |-> NoRequest]

(* getCurrentFeedValues and getFeedValues; the latter looks up what the    *)
(* voting round has.                                                       *)
Receive(r, kind, feeds) ==
  /\ Idle
  /\ request[r].status = "idle"
  /\ request' = [request EXCEPT ![r] =
       [NoRequest EXCEPT
          !.kind = kind, !.feeds = feeds, !.status = "attempt",
          !.stored = [f \in Feeds |-> IF kind = "round" THEN feed[f].round
                                                        ELSE NoFeed]]]
  /\ UNCHANGED feed

(* One run of the operation that executeWithRetry is given: all its feeds  *)
(* are asked for at once.                                                  *)
Attempt(r) ==
  LET q     == request[r]
      asked == Elements(Missing(q))
  IN  /\ \/ q.status = "attempt"
         \/ q.status = "backoff" /\ Idle
      /\ \E warm \in [asked -> BOOLEAN] :
           LET outcome(f) == IF q.kind = "current" THEN RealTimePrice(feed[f])
                             ELSE CurrentPrice(feed[f], warm[f])
               spare(f)   == IF q.kind = "current" THEN 2 ELSE 0
           IN  /\ feed' = [f \in Feeds |->
                    IF f \notin asked THEN feed[f]
                    ELSE IF q.kind = "current"
                         THEN AfterRealTimePrice(feed[f], r)
                         ELSE AfterCurrentPrice(feed[f], r, warm[f])]
               /\ request' = [request EXCEPT
                    ![r].status = "waiting",
                    ![r].tries  = @ + 1,
                    ![r].spare  = [f \in Feeds |-> spare(f)],
                    ![r].result = [f \in Feeds |->
                       IF f \in asked THEN Settled(outcome(f), spare(f))
                       ELSE "unasked"]]

(* getRealTimeFeedValues falls back on providerService.getValue, once when *)
(* there is no aggregated price and once more when that throws.            *)
Fallback(r, f) ==
  /\ request[r].result[f] = "null"
  /\ \E warm \in BOOLEAN :
       LET left == request[r].spare[f] - 1
       IN  /\ feed' = [feed EXCEPT ![f] = AfterCurrentPrice(@, r, warm)]
           /\ request' = [request EXCEPT
                ![r].spare[f]  = left,
                ![r].result[f] = Settled(CurrentPrice(feed[f], warm), left)]

(* The same, for an attempt that nobody waits for any more.                *)
LateFallback(f) ==
  /\ LateNull(feed[f])
  /\ \E warm \in BOOLEAN :
       feed' = [feed EXCEPT ![f] =
         [AfterCurrentPrice(feed[f], Late, warm) EXCEPT
            !.late = IF CurrentPrice(feed[f], warm) = "value" THEN 0
                     ELSE @ - 1]]
  /\ UNCHANGED request

-----------------------------------------------------------------------------
(* The rest of getAggregatedPrice, after each of its awaits.               *)

(* Mutant: a rejection is lost.                                            *)
MutantDelivered(f, outcome) ==
  LET r == feed[f].lock
  IN  IF r \in Requests /\ outcome = "value"
      THEN [request EXCEPT ![r].result[f] = outcome]
      ELSE request

(* The result goes to the request that holds the lock, if it is one.       *)
Delivered(f, outcome) ==
  LET r == feed[f].lock
  IN  IF r \in Requests
      THEN [request EXCEPT ![r].result[f] = Settled(outcome, request[r].spare[f])]
      ELSE request

(* getPriceUpdatesForFeed found updates: they replace the active ones.     *)
RestSucceeds(f) ==
  /\ Idle
  /\ feed[f].phase = "fetching"
  /\ feed' = [feed EXCEPT ![f].updates = "active",
                           ![f].phase = "aggregating"]
  /\ UNCHANGED request

(* Mutant: the early return leaves the feed in activeAggregations.         *)
MutantRestFails(f) ==
  /\ Idle
  /\ feed[f].phase = "fetching"
  /\ request' = Delivered(f, "null")
  /\ feed' = [feed EXCEPT ![f].phase = "none"]

(* It found none, or threw: null, also if updates have come in meanwhile.  *)
RestFails(f) ==
  /\ Idle
  /\ feed[f].phase = "fetching"
  /\ request' = Delivered(f, "null")
  /\ feed' = [feed EXCEPT ![f].lock = Free, ![f].phase = "none"]

(* aggregate resolved: whoever called it publishes the price.              *)
AggregationSucceeds(f) ==
  /\ feed[f].phase = "aggregating"
  /\ request' = Delivered(f, "value")
  /\ feed' = [feed EXCEPT ![f] =
       [Published(feed[f]) EXCEPT !.lock = Free, !.phase = "none",
                            !.late = IF feed[f].lock = Late THEN 0 ELSE @]]

(* aggregate threw: no update passed its validation.                       *)
AggregationFails(f) ==
  /\ feed[f].phase = "aggregating"
  /\ request' = Delivered(f, "null")
  /\ feed' = [feed EXCEPT ![f].lock = Free, ![f].phase = "none"]

-----------------------------------------------------------------------------
(* The end of a request.                                                   *)

(* getRealTimeFeedValues: what was found, or ALL_FEEDS_FAILED and another  *)
(* attempt.                                                                *)
AnswerCurrent(r) ==
  LET q == request[r]
  IN  /\ q.kind = "current"
      /\ Resolved(q)
      /\ request' = [request EXCEPT ![r] =
           IF Successful(q) # << >>
           THEN [q EXCEPT !.status = "answered", !.answer = Successful(q)]
           ELSE [q EXCEPT !.status = IF q.tries < MaxTries THEN "backoff"
                                     ELSE "failed"]]
      /\ UNCHANGED feed

(* getFeedValues: the fresh data is stored for the round (by position),    *)
(* then checked: DATA_UNAVAILABLE, INSUFFICIENT_DATA.                      *)
AnswerRound(r) ==
  LET q    == request[r]
      data == FreshData(q)
  IN  /\ q.kind = "round"
      /\ Resolved(q)
      /\ feed' = [f \in Feeds |->
           IF \E i \in DOMAIN data : data[i].feed = f
           THEN [feed[f] EXCEPT !.round =
                   data[CHOOSE i \in DOMAIN data : data[i].feed = f].value]
           ELSE feed[f]]
      /\ request' = [request EXCEPT ![r] =
           IF Len(data) = Len(Missing(q))
           THEN [q EXCEPT !.status = "answered", !.answer = Combined(q)]
           ELSE [q EXCEPT !.status = "failed"]]

(* The response is sent; nothing of the request is kept.                   *)
Respond(r) ==
  /\ request[r].status \in {"answered", "failed"}
  /\ request' = [request EXCEPT ![r] = NoRequest]
  /\ UNCHANGED feed

(* The circuit breaker gives up on an attempt, not on the lookups it       *)
(* started.  The last attempt is the direct call, which has no timeout.    *)
TimesOut(r) ==
  /\ Idle
  /\ request[r].status = "waiting"
  /\ request[r].tries < MaxTries
  /\ feed' = [f \in Feeds |->
       IF feed[f].lock = r
       THEN [feed[f] EXCEPT !.lock = Late, !.late = request[r].spare[f]]
       ELSE feed[f]]
  /\ request' = [request EXCEPT
       ![r].status = "backoff",
       ![r].result = [f \in Feeds |-> "unasked"]]

-----------------------------------------------------------------------------
(* handlePriceUpdate: the access is tracked, then the update is batched,   *)
(* the cache of the aggregation service invalidated and the feed           *)
(* aggregated.  A critical update (any is, if none is active) is active at *)
(* once; whatever is older than 2 s is dropped on the way, all of it when  *)
(* nothing is "timely".                                                    *)
UpdateArrives(f) ==
  /\ Idle
  /\ \E warm, critical, timely \in BOOLEAN :
       LET s == Warmed(feed[f], warm)
       IN  /\ s.updates # "active" => critical
           /\ feed' = [feed EXCEPT ![f] =
                AfterAggregated(
                  [s EXCEPT
                     !.updates = IF critical /\ ~timely THEN "batched"
                                 ELSE "active",
                     !.price = IF @ = "recent" THEN "usable" ELSE @],
                  Background)]
  /\ UNCHANGED request

(* processBatchedUpdates: what was batched becomes active; no cache is     *)
(* invalidated, and nobody subscribes to prices.                           *)
BatchProcessed(f) ==
  /\ Idle
  /\ feed[f].updates = "batched"
  /\ feed' = [feed EXCEPT ![f].updates = "active"]
  /\ UNCHANGED request

(* The periodic strategies of the cache warmer.                            *)
WarmingTimer(f) ==
  /\ Idle
  /\ feed' = [feed EXCEPT ![f] = Warmed(@, TRUE)]
  /\ UNCHANGED request

(* After 300 ms, and after 2 s.                                            *)
PriceAges(f) ==
  /\ Idle
  /\ \/ /\ feed[f].price = "recent"
        /\ feed' = [feed EXCEPT ![f].price = "usable"]
     \/ /\ feed[f].price = "usable"
        /\ feed' = [feed EXCEPT ![f].price = "none"]
  /\ UNCHANGED request

RoundExpires(f) ==
  /\ Idle
  /\ feed[f].round # NoFeed
  /\ feed' = [feed EXCEPT ![f].round = NoFeed]
  /\ UNCHANGED request

-----------------------------------------------------------------------------
Next ==
  \/ \E r \in Requests :
       \/ \E kind \in {"current", "round"}, feeds \in FeedLists :
            Receive(r, kind, feeds)
       \/ Attempt(r)
       \/ \E f \in Feeds : Fallback(r, f)
       \/ AnswerCurrent(r)
       \/ AnswerRound(r)
       \/ Respond(r)
       \/ TimesOut(r)
  \/ \E f \in Feeds :
       \/ RestSucceeds(f)
       \/ RestFails(f)
       \/ AggregationSucceeds(f)
       \/ AggregationFails(f)
       \/ LateFallback(f)
       \/ UpdateArrives(f)
       \/ BatchProcessed(f)
       \/ WarmingTimer(f)
       \/ PriceAges(f)
       \/ RoundExpires(f)

Spec == Init /\ [][Next]_vars

(* Microtasks run.  An answer of a REST interface (or its timeout) comes,  *)
(* and a delay between two attempts ends: these are tasks, enabled again   *)
(* and again while other tasks run between them, and the event loop takes  *)
(* each in turn, hence SF.  Nothing is assumed of clients, updates and     *)
(* caches.                                                                 *)
Fairness ==
  /\ \A r \in Requests :
       /\ SF_vars(Attempt(r))
       /\ WF_vars(AnswerCurrent(r) \/ AnswerRound(r))
       /\ WF_vars(Respond(r))
       /\ \A f \in Feeds : WF_vars(Fallback(r, f))
  /\ \A f \in Feeds :
       /\ WF_vars(LateFallback(f))
       /\ SF_vars(RestSucceeds(f) \/ RestFails(f))
       /\ WF_vars(AggregationSucceeds(f) \/ AggregationFails(f))

FairSpec == Spec /\ Fairness

-----------------------------------------------------------------------------
(* Feeds and requests are well-formed records.                             *)
TypeOK ==
  /\ feed \in [Feeds -> FeedState]
  /\ request \in [Requests -> Request]

(* Nobody waits for a price that nobody fetches: a pending lookup holds    *)
(* the lock of its feed, whatever retries, timeouts and callers compete    *)
(* for it (getAggregatedPrice, executeWithRetry).                          *)
PendingHoldsLock ==
  \A r \in Requests, f \in Feeds :
    request[r].result[f] = "pending" => feed[f].lock = r

(* A lock is held across an await only: every path out of                  *)
(* getAggregatedPrice gives it back.                                       *)
LockHasWork ==
  \A f \in Feeds : feed[f].lock # Free <=> feed[f].phase # "none"

(* /feed-values reports each feed's own price, the feeds in the order      *)
(* asked for, those that failed left out (getRealTimeFeedValues).          *)
CurrentAnswersOwnValues ==
  \A r \in Requests :
    LET q == request[r]
        found == Found(q.result, q.feeds)
    IN  q.kind = "current" /\ q.status = "answered" =>
          /\ DOMAIN q.answer = DOMAIN found
          /\ \A i \in DOMAIN found : /\ q.answer[i].feed = found[i]
                                     /\ q.answer[i].value = q.answer[i].feed

(* Every request is answered or fails, whatever other callers do to the    *)
(* locks it needs (getAggregatedPrice, allSettled, executeWithRetry).      *)
RequestsEnd ==
  \A r \in Requests :
    request[r].status \in {"attempt", "waiting", "backoff"}
      ~> request[r].status \in {"answered", "failed"}
=============================================================================
