-------------------------- MODULE FeedValuesProofs --------------------------
(***************************************************************************)
(* FeedValues and MarketData, for any feeds, requests, attempts, tickers   *)
(* and pairs.                                                              *)
(*                                                                         *)
(* Locks and lookups: the invariant is LockHasWork and PendingHoldsLock    *)
(* with the shape of the two variables; a lookup becomes pending in the    *)
(* step that takes the lock, and stops being pending in the step that      *)
(* frees it or hands it to a late attempt.  Answers: the invariant follows *)
(* what a request asked to the values it answers with.                     *)
(*                                                                         *)
(* Market data: what an event passes on is nothing, the work on one        *)
(* message or one answer, so that the properties are of one ticker: of the *)
(* sum its confidence is, and of the way of its name and back.             *)
(***************************************************************************)
EXTENDS FeedValues, MarketData, SequenceTheorems, TLAPS

RequestFields ==
  {"kind", "status", "feeds", "tries", "stored", "result", "spare", "answer"}

FeedFields == {"updates", "lock", "phase", "late", "price", "round"}

FeedShape(s) ==
  /\ DOMAIN s = FeedFields
  /\ s.lock \in Requests \cup Others
  /\ s.phase \in {"none", "fetching", "aggregating"}

Callers == Requests \cup {Background, Late}

LockOK(s) == s.lock # Free <=> s.phase # "none"

Shape ==
  /\ DOMAIN feed = Feeds
  /\ \A f \in Feeds : FeedShape(feed[f])
  /\ DOMAIN request = Requests
  /\ \A r \in Requests :
       /\ DOMAIN request[r] = RequestFields
       /\ request[r].result \in [Feeds -> Outcomes]
       /\ request[r].spare \in [Feeds -> Int]

IInv == Shape /\ PendingHoldsLock /\ LockHasWork

-----------------------------------------------------------------------------
(* The operators on one feed.                                              *)

LEMMA AggregatedFacts ==
  ASSUME NEW s, FeedShape(s), NEW who \in Callers, LockOK(s)
  PROVE  /\ FeedShape(AfterAggregated(s, who))
         /\ LockOK(AfterAggregated(s, who))
         /\ s.lock # Free => AfterAggregated(s, who).lock = s.lock
         /\ Aggregated(s) = "pending" => AfterAggregated(s, who).lock = who
         /\ Aggregated(s) \in {"null", "value", "pending"}
<1>1. CASE s.lock # Free
  BY <1>1 DEF AfterAggregated, Aggregated
<1>2. CASE s.lock = Free /\ s.price = "recent"
  BY <1>2 DEF AfterAggregated, Aggregated, Published, FeedShape, FeedFields, LockOK
<1>3. CASE s.lock = Free /\ s.price # "recent"
  BY <1>3, RequestAssumption
  DEF AfterAggregated, Aggregated, FeedShape, FeedFields, LockOK, Callers, Others,
      Background, Late, Free
<1> QED BY <1>1, <1>2, <1>3

LEMMA CurrentPriceFacts ==
  ASSUME NEW s, FeedShape(s), NEW who \in Callers, NEW warm \in BOOLEAN,
         LockOK(s)
  PROVE  /\ FeedShape(AfterCurrentPrice(s, who, warm))
         /\ LockOK(AfterCurrentPrice(s, who, warm))
         /\ s.lock # Free => AfterCurrentPrice(s, who, warm).lock = s.lock
         /\ CurrentPrice(s, warm) = "pending" =>
              AfterCurrentPrice(s, who, warm).lock = who
         /\ CurrentPrice(s, warm) \in {"null", "value", "pending"}
<1>1. /\ FeedShape(Warmed(s, warm))
      /\ LockOK(Warmed(s, warm))
      /\ s.lock # Free => Warmed(s, warm).lock = s.lock
  BY AggregatedFacts DEF Warmed, Callers
<1>2. CASE Usable(s)
  BY <1>1, <1>2 DEF CurrentPrice, AfterCurrentPrice
<1>3. CASE ~Usable(s)
  BY <1>1, <1>3, AggregatedFacts DEF CurrentPrice, AfterCurrentPrice
<1> QED BY <1>2, <1>3

LEMMA RealTimePriceFacts ==
  ASSUME NEW s, FeedShape(s), NEW who \in Callers, LockOK(s)
  PROVE  /\ FeedShape(AfterRealTimePrice(s, who))
         /\ LockOK(AfterRealTimePrice(s, who))
         /\ s.lock # Free => AfterRealTimePrice(s, who).lock = s.lock
         /\ RealTimePrice(s) = "pending" => AfterRealTimePrice(s, who).lock = who
         /\ RealTimePrice(s) \in {"null", "value", "pending"}
BY AggregatedFacts DEF RealTimePrice, AfterRealTimePrice

(* Settling keeps a lookup pending or not.                                 *)
LEMMA SettledFacts ==
  ASSUME NEW o \in {"null", "value", "pending"}, NEW n \in Int
  PROVE  /\ Settled(o, n) \in Outcomes
         /\ Settled(o, n) = "pending" => o = "pending"
BY DEF Settled, Outcomes

-----------------------------------------------------------------------------
LEMMA InitEstablishes == Init => IInv
<1> SUFFICES ASSUME Init PROVE IInv
  OBVIOUS
<1>1. DOMAIN feed = Feeds /\ \A f \in Feeds : FeedShape(feed[f])
  BY DEF Init, FeedShape, FeedFields, Others
<1>2. \A r \in Requests : request[r] = NoRequest
  BY DEF Init
<1>3. Shape
  <2>1. DOMAIN request = Requests
    BY DEF Init
  <2>2. DOMAIN NoRequest = RequestFields
    BY DEF NoRequest, RequestFields
  <2>3. /\ NoRequest.result \in [Feeds -> Outcomes]
        /\ NoRequest.spare \in [Feeds -> Int]
    BY DEF NoRequest, Outcomes
  <2> QED BY <1>1, <1>2, <2>1, <2>2, <2>3 DEF Shape
<1>4. PendingHoldsLock
  BY <1>2 DEF PendingHoldsLock, NoRequest
<1>5. LockHasWork
  BY DEF Init, LockHasWork
<1> QED BY <1>3, <1>4, <1>5 DEF IInv
-----------------------------------------------------------------------------
(* One lemma for each kind of step.                                        *)

LEMMA ReceiveKeeps ==
  ASSUME IInv, NEW r \in Requests, NEW kind, NEW feeds,
         Receive(r, kind, feeds)
  PROVE  IInv'
<1> DEFINE stored == [f \in Feeds |-> IF kind = "round" THEN feed[f].round
                                     ELSE NoFeed]
           q == [NoRequest EXCEPT !.kind = kind, !.feeds = feeds,
                                  !.status = "attempt", !.stored = stored]
<1>1. /\ DOMAIN q = RequestFields
      /\ q.result = [f \in Feeds |-> "unasked"]
      /\ q.spare = [f \in Feeds |-> 0]
  BY DEF NoRequest, RequestFields
<1>2. /\ feed' = feed
      /\ DOMAIN request' = Requests
      /\ request'[r] = q
      /\ \A p \in Requests : p # r => request'[p] = request[p]
  BY DEF Receive, IInv, Shape
<1> HIDE DEF q, stored
<1>3. Shape'
  BY <1>1, <1>2 DEF IInv, Shape, Outcomes
<1>4. PendingHoldsLock'
  BY <1>1, <1>2 DEF IInv, PendingHoldsLock
<1>5. LockHasWork'
  BY <1>2 DEF IInv, LockHasWork
<1> QED BY <1>3, <1>4, <1>5 DEF IInv

LEMMA AttemptKeeps ==
  ASSUME IInv, NEW r \in Requests, Attempt(r)
  PROVE  IInv'
<1> DEFINE q == request[r]
           asked == Elements(Missing(q))
<1>1. PICK warm \in [asked -> BOOLEAN] :
        LET outcome(f) == IF q.kind = "current" THEN RealTimePrice(feed[f])
                          ELSE CurrentPrice(feed[f], warm[f])
            spare(f)   == IF q.kind = "current" THEN 2 ELSE 0
        IN  /\ feed' = [f \in Feeds |->
                 IF f \notin asked THEN feed[f]
                 ELSE IF q.kind = "current"
                      THEN AfterRealTimePrice(feed[f], r)
                      ELSE AfterCurrentPrice(feed[f], r, warm[f])]
            /\ request' = [request EXCEPT
                 ![r].status = "waiting",
                 ![r].tries  = @ + 1,
                 ![r].spare  = [f \in Feeds |-> spare(f)],
                 ![r].result = [f \in Feeds |->
                    IF f \in asked THEN Settled(outcome(f), spare(f))
                    ELSE "unasked"]]
  BY DEF Attempt
<1> HIDE DEF asked
<1> DEFINE outcome(f) == IF q.kind = "current" THEN RealTimePrice(feed[f])
                         ELSE CurrentPrice(feed[f], warm[f])
           spare(f)   == IF q.kind = "current" THEN 2 ELSE 0
<1>2. \A f \in Feeds :
        /\ FeedShape(feed[f])
        /\ LockOK(feed[f])
        /\ f \in asked => warm[f] \in BOOLEAN
  BY DEF IInv, Shape, LockHasWork, LockOK
<1>3. r \in Callers
  BY DEF Callers
<1>4. \A f \in Feeds :
        /\ FeedShape(feed'[f])
        /\ LockOK(feed'[f])
        /\ feed[f].lock # Free => feed'[f].lock = feed[f].lock
        /\ f \in asked => /\ outcome(f) \in {"null", "value", "pending"}
                          /\ outcome(f) = "pending" => feed'[f].lock = r
  <2> TAKE f \in Feeds
  <2>1. CASE f \notin asked
    BY <1>1, <1>2, <2>1
  <2>2. CASE f \in asked /\ q.kind = "current"
    BY <1>1, <1>2, <1>3, <2>2, RealTimePriceFacts
  <2>3. CASE f \in asked /\ q.kind # "current"
    BY <1>1, <1>2, <1>3, <2>3, CurrentPriceFacts
  <2> QED BY <2>1, <2>2, <2>3
<1>5. /\ DOMAIN feed' = Feeds
      /\ \A f \in Feeds : FeedShape(feed'[f])
      /\ LockHasWork'
  BY <1>1, <1>4 DEF LockHasWork, LockOK
<1> DEFINE result == [f \in Feeds |->
                        IF f \in asked THEN Settled(outcome(f), spare(f))
                        ELSE "unasked"]
<1>6. /\ DOMAIN request' = Requests
      /\ DOMAIN request'[r] = RequestFields
      /\ request'[r].result = result
      /\ request'[r].spare = [f \in Feeds |-> spare(f)]
      /\ \A p \in Requests : p # r => request'[p] = request[p]
  BY <1>1 DEF IInv, Shape, RequestFields
<1>7. \A f \in Feeds : /\ result[f] \in Outcomes
                       /\ result[f] = "pending" => feed'[f].lock = r
  <2> TAKE f \in Feeds
  <2>1. CASE f \in asked
    <3>1. spare(f) \in Int
      OBVIOUS
    <3>2. result[f] = Settled(outcome(f), spare(f))
      BY <2>1
    <3> HIDE DEF outcome, spare, result
    <3> QED BY <1>4, <2>1, <3>1, <3>2, SettledFacts
  <2>2. CASE f \notin asked
    BY <2>2 DEF Outcomes
  <2> QED BY <2>1, <2>2
<1>8. /\ result \in [Feeds -> Outcomes]
      /\ [f \in Feeds |-> spare(f)] \in [Feeds -> Int]
  BY <1>7
<1> HIDE DEF outcome, spare, result
<1>9. Shape'
  BY <1>5, <1>6, <1>8 DEF IInv, Shape
<1>10. PendingHoldsLock'
  BY <1>4, <1>6, <1>7, RequestAssumption
  DEF IInv, PendingHoldsLock, Others
<1> QED BY <1>5, <1>9, <1>10 DEF IInv

(* A step that replaces the state of one feed and no request.              *)
LEMMA FeedStepKeeps ==
  ASSUME IInv, NEW f \in Feeds, NEW s, FeedShape(s),
         feed' = [feed EXCEPT ![f] = s], request' = request,
         LockOK(s), feed[f].lock \in Requests => s.lock = feed[f].lock
  PROVE  IInv'
<1>1. /\ feed'[f] = s
      /\ \A g \in Feeds : g # f => feed'[g] = feed[g]
      /\ DOMAIN feed' = Feeds
  BY DEF IInv, Shape
<1>2. Shape'
  BY <1>1 DEF IInv, Shape
<1>3. PendingHoldsLock'
  BY <1>1 DEF IInv, PendingHoldsLock
<1>4. LockHasWork'
  BY <1>1 DEF IInv, LockHasWork, LockOK
<1> QED BY <1>2, <1>3, <1>4 DEF IInv

(* A request's lock is not free and not a background one.                  *)
LEMMA RequestLock ==
  ASSUME NEW r \in Requests
  PROVE  r # Free /\ r # Background /\ r # Late
BY RequestAssumption DEF Others

LEMMA FallbackKeeps ==
  ASSUME IInv, NEW r \in Requests, NEW f \in Feeds, Fallback(r, f)
  PROVE  IInv'
<1> DEFINE left == request[r].spare[f] - 1
<1>1. PICK warm \in BOOLEAN :
        /\ feed' = [feed EXCEPT ![f] = AfterCurrentPrice(@, r, warm)]
        /\ request' = [request EXCEPT
             ![r].spare[f]  = left,
             ![r].result[f] = Settled(CurrentPrice(feed[f], warm), left)]
  BY DEF Fallback
<1>2. FeedShape(feed[f]) /\ LockOK(feed[f]) /\ r \in Callers
  BY DEF IInv, Shape, LockHasWork, LockOK, Callers
<1> DEFINE s == AfterCurrentPrice(feed[f], r, warm)
           o == CurrentPrice(feed[f], warm)
<1>3. /\ FeedShape(s)
      /\ LockOK(s)
      /\ feed[f].lock # Free => s.lock = feed[f].lock
      /\ o \in {"null", "value", "pending"}
      /\ o = "pending" => s.lock = r
  BY <1>2, CurrentPriceFacts
<1>4. /\ feed'[f] = s
      /\ \A g \in Feeds : g # f => feed'[g] = feed[g]
      /\ DOMAIN feed' = Feeds
  BY <1>1, <1>3 DEF IInv, Shape
<1>5. left \in Int
  BY DEF IInv, Shape
<1>6. /\ Settled(o, left) \in Outcomes
      /\ Settled(o, left) = "pending" => o = "pending"
  BY <1>3, <1>5, SettledFacts
<1> DEFINE new == Settled(o, left)
<1>7. /\ DOMAIN request' = Requests
      /\ DOMAIN request'[r] = RequestFields
      /\ request'[r].result = [request[r].result EXCEPT ![f] = new]
      /\ request'[r].spare = [request[r].spare EXCEPT ![f] = left]
      /\ \A p \in Requests : p # r => request'[p] = request[p]
  BY <1>1 DEF IInv, Shape, RequestFields
<1> HIDE DEF s, o, left, new
<1>8. /\ request'[r].result \in [Feeds -> Outcomes]
      /\ request'[r].spare \in [Feeds -> Int]
      /\ request'[r].result[f] = new
      /\ \A g \in Feeds : g # f => request'[r].result[g] = request[r].result[g]
  BY <1>5, <1>6, <1>7 DEF IInv, Shape, new
<1>9. Shape'
  <2>1. \A g \in Feeds : FeedShape(feed'[g])
    BY <1>3, <1>4 DEF IInv, Shape
  <2> HIDE DEF FeedShape
  <2> QED BY <1>4, <1>7, <1>8, <2>1 DEF IInv, Shape
<1>10. PendingHoldsLock'
  BY <1>3, <1>4, <1>6, <1>7, <1>8, RequestLock
  DEF IInv, PendingHoldsLock, new
<1>11. LockHasWork'
  BY <1>3, <1>4 DEF IInv, LockHasWork, LockOK
<1> QED BY <1>9, <1>10, <1>11 DEF IInv

LEMMA LateFallbackKeeps ==
  ASSUME IInv, NEW f \in Feeds, LateFallback(f)
  PROVE  IInv'
<1>1. PICK warm \in BOOLEAN :
        feed' = [feed EXCEPT ![f] =
          [AfterCurrentPrice(feed[f], Late, warm) EXCEPT
             !.late = IF CurrentPrice(feed[f], warm) = "value" THEN 0
                      ELSE @ - 1]]
  BY DEF LateFallback
<1>2. FeedShape(feed[f]) /\ LockOK(feed[f]) /\ feed[f].late > 0
  BY DEF IInv, Shape, LockHasWork, LockOK, LateFallback, LateNull
<1> DEFINE t == AfterCurrentPrice(feed[f], Late, warm)
           s == [t EXCEPT !.late = IF CurrentPrice(feed[f], warm) = "value"
                                   THEN 0 ELSE @ - 1]
<1>3. /\ FeedShape(t)
      /\ LockOK(t)
      /\ feed[f].lock # Free => t.lock = feed[f].lock
      /\ t.late = feed[f].late
  <2>1. Late \in Callers
    BY DEF Callers
  <2>2. t.late = feed[f].late
    BY <1>2
    DEF AfterCurrentPrice, Warmed, AfterAggregated, Published, FeedShape, FeedFields
  <2> QED BY <1>2, <2>1, <2>2, CurrentPriceFacts
<1>4. /\ FeedShape(s)
      /\ LockOK(s)
      /\ s.lock = t.lock
  <2> HIDE DEF t
  <2> QED BY <1>2, <1>3 DEF FeedShape, FeedFields, LockOK
<1>5. feed' = [feed EXCEPT ![f] = s]
  BY <1>1
<1>6. request' = request
  BY DEF LateFallback
<1> HIDE DEF s, t
<1> QED BY <1>3, <1>4, <1>5, <1>6, FeedStepKeeps, RequestLock

(* A result is delivered to whoever holds the lock, which is freed.        *)
LEMMA DeliveredKeeps ==
  ASSUME IInv, NEW f \in Feeds, NEW outcome \in {"null", "value"},
         request' = Delivered(f, outcome),
         NEW s, feed' = [feed EXCEPT ![f] = s],
         FeedShape(s), LockOK(s), s.lock = Free
  PROVE  IInv'
<1>1. /\ feed'[f] = s
      /\ \A g \in Feeds : g # f => feed'[g] = feed[g]
      /\ DOMAIN feed' = Feeds
  BY DEF IInv, Shape
<1>2. \A g \in Feeds : FeedShape(feed'[g])
  BY <1>1 DEF IInv, Shape
<1>3. LockHasWork'
  BY <1>1 DEF IInv, LockHasWork, LockOK
<1>4. CASE feed[f].lock \notin Requests
  <2>1. request' = request
    BY <1>4 DEF Delivered
  <2>2. Shape'
    BY <1>1, <1>2, <2>1 DEF IInv, Shape
  <2>3. PendingHoldsLock'
    BY <1>1, <1>4, <2>1 DEF IInv, PendingHoldsLock
  <2> QED BY <1>3, <2>2, <2>3 DEF IInv
<1>5. CASE feed[f].lock \in Requests
  <2> DEFINE r == feed[f].lock
             new == Settled(outcome, request[r].spare[f])
  <2>1. new \in Outcomes /\ new # "pending"
    BY <1>5 DEF IInv, Shape, Settled, Outcomes
  <2>2. request' = [request EXCEPT ![r].result[f] = new]
    BY <1>5 DEF Delivered
  <2>3. /\ DOMAIN request' = Requests
        /\ DOMAIN request'[r] = RequestFields
        /\ request'[r].result = [request[r].result EXCEPT ![f] = new]
        /\ request'[r].spare = request[r].spare
        /\ \A p \in Requests : p # r => request'[p] = request[p]
    BY <1>5, <2>2 DEF IInv, Shape, RequestFields
  <2> HIDE DEF new
  <2>4. /\ request'[r].result \in [Feeds -> Outcomes]
        /\ request'[r].result[f] = new
        /\ \A g \in Feeds :
             g # f => request'[r].result[g] = request[r].result[g]
    BY <1>5, <2>1, <2>3 DEF IInv, Shape
  <2>5. Shape'
    <3> HIDE DEF r
    <3> QED BY <1>1, <1>2, <2>3, <2>4 DEF IInv, Shape
  <2>6. \A p \in Requests : p # r => request[p].result[f] # "pending"
    BY DEF IInv, PendingHoldsLock
  <2>7. PendingHoldsLock'
    BY <1>1, <2>1, <2>3, <2>4, <2>6 DEF IInv, PendingHoldsLock
  <2> QED BY <1>3, <2>5, <2>7 DEF IInv
<1> QED BY <1>4, <1>5

LEMMA RestSucceedsKeeps ==
  ASSUME IInv, NEW f \in Feeds, RestSucceeds(f)
  PROVE  IInv'
<1> DEFINE s == [feed[f] EXCEPT !.updates = "active", !.phase = "aggregating"]
<1>1. /\ feed' = [feed EXCEPT ![f] = s]
      /\ request' = request
  BY DEF RestSucceeds, IInv, Shape
<1>2. FeedShape(s) /\ LockOK(s) /\ s.lock = feed[f].lock
  BY DEF RestSucceeds, IInv, Shape, FeedShape, FeedFields, LockOK, LockHasWork
<1> HIDE DEF s
<1> QED BY <1>1, <1>2, FeedStepKeeps

LEMMA RestFailsKeeps ==
  ASSUME IInv, NEW f \in Feeds, RestFails(f)
  PROVE  IInv'
<1> DEFINE s == [feed[f] EXCEPT !.lock = Free, !.phase = "none"]
<1>1. /\ feed' = [feed EXCEPT ![f] = s]
      /\ request' = Delivered(f, "null")
  BY DEF RestFails, IInv, Shape
<1>2. /\ FeedShape(s) /\ LockOK(s) /\ s.lock = Free
  BY DEF RestFails, IInv, Shape, FeedShape, FeedFields, LockOK, Others
<1> HIDE DEF s
<1> QED BY <1>1, <1>2, DeliveredKeeps

LEMMA AggregationSucceedsKeeps ==
  ASSUME IInv, NEW f \in Feeds, AggregationSucceeds(f)
  PROVE  IInv'
<1> DEFINE s == [Published(feed[f]) EXCEPT
                   !.lock = Free, !.phase = "none",
                   !.late = IF feed[f].lock = Late THEN 0 ELSE @]
<1>1. /\ feed' = [feed EXCEPT ![f] = s]
      /\ request' = Delivered(f, "value")
  BY DEF AggregationSucceeds
<1>2. /\ FeedShape(s) /\ LockOK(s) /\ s.lock = Free
  BY DEF IInv, Shape, FeedShape, FeedFields, LockOK, Others, Published
<1> HIDE DEF s
<1> QED BY <1>1, <1>2, DeliveredKeeps

LEMMA AggregationFailsKeeps ==
  ASSUME IInv, NEW f \in Feeds, AggregationFails(f)
  PROVE  IInv'
<1> DEFINE s == [feed[f] EXCEPT !.lock = Free, !.phase = "none"]
<1>1. /\ feed' = [feed EXCEPT ![f] = s]
      /\ request' = Delivered(f, "null")
  BY DEF AggregationFails, IInv, Shape
<1>2. /\ FeedShape(s) /\ LockOK(s) /\ s.lock = Free
  BY DEF IInv, Shape, FeedShape, FeedFields, LockOK, Others
<1> HIDE DEF s
<1> QED BY <1>1, <1>2, DeliveredKeeps

(* A step that changes neither the lookups of a request nor any lock.      *)
LEMMA RequestStepKeeps ==
  ASSUME IInv, NEW r \in Requests, NEW q,
         request' = [request EXCEPT ![r] = q],
         DOMAIN q = RequestFields,
         q.result \in [Feeds -> Outcomes], q.spare \in [Feeds -> Int],
         \A f \in Feeds : q.result[f] = "pending" =>
                            request[r].result[f] = "pending",
         DOMAIN feed' = Feeds,
         \A f \in Feeds : /\ FeedShape(feed'[f])
                          /\ feed'[f].lock = feed[f].lock
                          /\ feed'[f].phase = feed[f].phase
  PROVE  IInv'
<1>1. /\ request'[r] = q
      /\ \A p \in Requests : p # r => request'[p] = request[p]
      /\ DOMAIN request' = Requests
  BY DEF IInv, Shape
<1>2. Shape'
  BY <1>1 DEF IInv, Shape
<1>3. PendingHoldsLock'
  BY <1>1 DEF IInv, PendingHoldsLock
<1>4. LockHasWork'
  BY DEF IInv, LockHasWork
<1> QED BY <1>2, <1>3, <1>4 DEF IInv

LEMMA AnswerCurrentKeeps ==
  ASSUME IInv, NEW r \in Requests, AnswerCurrent(r)
  PROVE  IInv'
<1>1. PICK q : /\ request' = [request EXCEPT ![r] = q]
               /\ DOMAIN q = RequestFields
               /\ q.result = request[r].result
               /\ q.spare = request[r].spare
  <2>1. CASE Successful(request[r]) # << >>
    <3> DEFINE q == [request[r] EXCEPT !.status = "answered",
                                       !.answer = Successful(request[r])]
    <3>1. /\ DOMAIN q = RequestFields
          /\ q.result = request[r].result
          /\ q.spare = request[r].spare
      BY DEF IInv, Shape, RequestFields
    <3>2. request' = [request EXCEPT ![r] = q]
      BY <2>1 DEF AnswerCurrent
    <3> QED BY <3>1, <3>2
  <2>2. CASE Successful(request[r]) = << >>
    <3> DEFINE q == [request[r] EXCEPT
                       !.status = IF request[r].tries < MaxTries
                                  THEN "backoff" ELSE "failed"]
    <3>1. /\ DOMAIN q = RequestFields
          /\ q.result = request[r].result
          /\ q.spare = request[r].spare
      BY DEF IInv, Shape, RequestFields
    <3>2. request' = [request EXCEPT ![r] = q]
      BY <2>2 DEF AnswerCurrent
    <3> QED BY <3>1, <3>2
  <2> QED BY <2>1, <2>2
<1>2. /\ DOMAIN feed' = Feeds
      /\ \A f \in Feeds : /\ FeedShape(feed'[f])
                          /\ feed'[f].lock = feed[f].lock
                          /\ feed'[f].phase = feed[f].phase
  BY DEF AnswerCurrent, IInv, Shape
<1>3. /\ q.result \in [Feeds -> Outcomes]
      /\ q.spare \in [Feeds -> Int]
      /\ \A f \in Feeds : q.result[f] = "pending" =>
                           request[r].result[f] = "pending"
  BY <1>1 DEF IInv, Shape
<1> HIDE DEF FeedShape
<1> QED BY <1>1, <1>2, <1>3, RequestStepKeeps

LEMMA AnswerRoundKeeps ==
  ASSUME IInv, NEW r \in Requests, AnswerRound(r)
  PROVE  IInv'
<1> DEFINE data == FreshData(request[r])
<1>1. PICK q : /\ request' = [request EXCEPT ![r] = q]
               /\ DOMAIN q = RequestFields
               /\ q.result = request[r].result
               /\ q.spare = request[r].spare
  <2>1. CASE Len(data) = Len(Missing(request[r]))
    <3> DEFINE q == [request[r] EXCEPT !.status = "answered",
                                       !.answer = Combined(request[r])]
    <3>1. /\ DOMAIN q = RequestFields
          /\ q.result = request[r].result
          /\ q.spare = request[r].spare
      BY DEF IInv, Shape, RequestFields
    <3>2. request' = [request EXCEPT ![r] = q]
      BY <2>1 DEF AnswerRound
    <3> QED BY <3>1, <3>2
  <2>2. CASE Len(data) # Len(Missing(request[r]))
    <3> DEFINE q == [request[r] EXCEPT !.status = "failed"]
    <3>1. /\ DOMAIN q = RequestFields
          /\ q.result = request[r].result
          /\ q.spare = request[r].spare
      BY DEF IInv, Shape, RequestFields
    <3>2. request' = [request EXCEPT ![r] = q]
      BY <2>2 DEF AnswerRound
    <3> QED BY <3>1, <3>2
  <2> QED BY <2>1, <2>2
<1>2. feed' = [f \in Feeds |->
        IF \E i \in DOMAIN data : data[i].feed = f
        THEN [feed[f] EXCEPT !.round =
                data[CHOOSE i \in DOMAIN data : data[i].feed = f].value]
        ELSE feed[f]]
  BY DEF AnswerRound
<1> HIDE DEF data
<1>3. \A f \in Feeds : /\ FeedShape(feed'[f])
                       /\ feed'[f].lock = feed[f].lock
                       /\ feed'[f].phase = feed[f].phase
  <2> TAKE f \in Feeds
  <2>1. FeedShape(feed[f])
    BY DEF IInv, Shape
  <2>2. CASE \E i \in DOMAIN data : data[i].feed = f
    <3> DEFINE v == data[CHOOSE i \in DOMAIN data : data[i].feed = f].value
    <3>1. feed'[f] = [feed[f] EXCEPT !.round = v]
      BY <1>2, <2>2
    <3> HIDE DEF v
    <3> QED BY <2>1, <3>1 DEF FeedShape, FeedFields
  <2>3. CASE ~ \E i \in DOMAIN data : data[i].feed = f
    BY <1>2, <2>1, <2>3
  <2> QED BY <2>2, <2>3
<1>4. DOMAIN feed' = Feeds
  BY <1>2
<1>5. /\ request[r].result \in [Feeds -> Outcomes]
      /\ request[r].spare \in [Feeds -> Int]
  BY DEF IInv, Shape
<1>6. /\ q.result \in [Feeds -> Outcomes]
      /\ q.spare \in [Feeds -> Int]
      /\ \A f \in Feeds : q.result[f] = "pending" =>
                           request[r].result[f] = "pending"
  BY <1>1, <1>5
<1> HIDE DEF FeedShape
<1> QED BY <1>1, <1>3, <1>4, <1>6, RequestStepKeeps

LEMMA RespondKeeps ==
  ASSUME IInv, NEW r \in Requests, Respond(r)
  PROVE  IInv'
<1>1. /\ DOMAIN NoRequest = RequestFields
      /\ NoRequest.result = [f \in Feeds |-> "unasked"]
      /\ NoRequest.spare = [f \in Feeds |-> 0]
  BY DEF NoRequest, RequestFields
<1>2. /\ NoRequest.result \in [Feeds -> Outcomes]
      /\ NoRequest.spare \in [Feeds -> Int]
      /\ \A f \in Feeds : NoRequest.result[f] # "pending"
  BY <1>1 DEF Outcomes
<1>3. request' = [request EXCEPT ![r] = NoRequest] /\ feed' = feed
  BY DEF Respond
<1> QED BY <1>1, <1>2, <1>3, RequestStepKeeps DEF IInv, Shape

LEMMA TimesOutKeeps ==
  ASSUME IInv, NEW r \in Requests, TimesOut(r)
  PROVE  IInv'
<1>1. \A f \in Feeds :
        /\ FeedShape(feed'[f])
        /\ LockOK(feed'[f])
        /\ feed[f].lock # r => feed'[f].lock = feed[f].lock
  <2> TAKE f \in Feeds
  <2>1. FeedShape(feed[f]) /\ LockOK(feed[f])
    BY DEF IInv, Shape, LockHasWork, LockOK
  <2>2. CASE feed[f].lock = r
    <3> DEFINE n == request[r].spare[f]
    <3>1. feed'[f] = [feed[f] EXCEPT !.lock = Late, !.late = n]
      BY <2>2 DEF TimesOut
    <3> HIDE DEF n
    <3>2. Late # Free
      BY DEF Late, Free
    <3> QED BY <2>1, <2>2, <3>1, <3>2, RequestLock
        DEF FeedShape, FeedFields, LockOK, Others
  <2>3. CASE feed[f].lock # r
    BY <2>1, <2>3 DEF TimesOut
  <2> QED BY <2>2, <2>3
<1>2. DOMAIN feed' = Feeds
  BY DEF TimesOut
<1>3. /\ DOMAIN request' = Requests
      /\ DOMAIN request'[r] = RequestFields
      /\ request'[r].result = [f \in Feeds |-> "unasked"]
      /\ request'[r].spare = request[r].spare
      /\ \A p \in Requests : p # r => request'[p] = request[p]
  BY DEF TimesOut, IInv, Shape, RequestFields
<1>4. request'[r].result \in [Feeds -> Outcomes]
  BY <1>3 DEF Outcomes
<1>5. Shape'
  BY <1>1, <1>2, <1>3, <1>4 DEF IInv, Shape
<1>6. PendingHoldsLock'
  BY <1>1, <1>3 DEF IInv, PendingHoldsLock
<1>7. LockHasWork'
  BY <1>1 DEF LockHasWork, LockOK
<1> QED BY <1>5, <1>6, <1>7 DEF IInv

LEMMA UpdateArrivesKeeps ==
  ASSUME IInv, NEW f \in Feeds, UpdateArrives(f)
  PROVE  IInv'
<1>1. PICK warm \in BOOLEAN, critical \in BOOLEAN, timely \in BOOLEAN :
        feed' = [feed EXCEPT ![f] =
          AfterAggregated(
            [Warmed(feed[f], warm) EXCEPT
               !.updates = IF critical /\ ~timely THEN "batched" ELSE "active",
               !.price = IF @ = "recent" THEN "usable" ELSE @],
            Background)]
  BY DEF UpdateArrives
<1> DEFINE w == Warmed(feed[f], warm)
           t == [w EXCEPT
                   !.updates = IF critical /\ ~timely THEN "batched"
                               ELSE "active",
                   !.price = IF @ = "recent" THEN "usable" ELSE @]
           s == AfterAggregated(t, Background)
<1>2. FeedShape(feed[f]) /\ LockOK(feed[f]) /\ Background \in Callers
  BY DEF IInv, Shape, LockHasWork, LockOK, Callers
<1>3. /\ FeedShape(w)
      /\ LockOK(w)
      /\ feed[f].lock # Free => w.lock = feed[f].lock
  BY <1>2, AggregatedFacts DEF Warmed
<1>4. FeedShape(t) /\ LockOK(t) /\ t.lock = w.lock
  <2> HIDE DEF w
  <2> QED BY <1>3 DEF FeedShape, FeedFields, LockOK
<1>5. feed' = [feed EXCEPT ![f] = s]
  BY <1>1
<1> HIDE DEF t
<1>6. /\ FeedShape(s)
      /\ LockOK(s)
      /\ t.lock # Free => s.lock = t.lock
  BY <1>2, <1>4, AggregatedFacts
<1>7. request' = request
  BY DEF UpdateArrives
<1> HIDE DEF s, w
<1> QED BY <1>3, <1>4, <1>5, <1>6, <1>7, FeedStepKeeps, RequestLock

LEMMA BatchProcessedKeeps ==
  ASSUME IInv, NEW f \in Feeds, BatchProcessed(f)
  PROVE  IInv'
<1> DEFINE s == [feed[f] EXCEPT !.updates = "active"]
<1>1. feed' = [feed EXCEPT ![f] = s] /\ request' = request
  BY DEF BatchProcessed, IInv, Shape
<1>2. FeedShape(s) /\ LockOK(s) /\ s.lock = feed[f].lock
  BY DEF IInv, Shape, FeedShape, FeedFields, LockOK, LockHasWork
<1> HIDE DEF s
<1> QED BY <1>1, <1>2, FeedStepKeeps

LEMMA WarmingTimerKeeps ==
  ASSUME IInv, NEW f \in Feeds, WarmingTimer(f)
  PROVE  IInv'
<1> DEFINE s == AfterAggregated(feed[f], Background)
<1>1. feed' = [feed EXCEPT ![f] = s] /\ request' = request
  BY DEF WarmingTimer, Warmed
<1>2. FeedShape(feed[f]) /\ LockOK(feed[f]) /\ Background \in Callers
  BY DEF IInv, Shape, LockHasWork, LockOK, Callers
<1>3. /\ FeedShape(s)
      /\ LockOK(s)
      /\ feed[f].lock # Free => s.lock = feed[f].lock
  BY <1>2, AggregatedFacts
<1> HIDE DEF s
<1> QED BY <1>1, <1>3, FeedStepKeeps, RequestLock

LEMMA PriceAgesKeeps ==
  ASSUME IInv, NEW f \in Feeds, PriceAges(f)
  PROVE  IInv'
<1>1. PICK p \in {"usable", "none"} : feed' = [feed EXCEPT ![f].price = p]
  BY DEF PriceAges
<1> DEFINE s == [feed[f] EXCEPT !.price = p]
<1>2. feed' = [feed EXCEPT ![f] = s] /\ request' = request
  BY <1>1 DEF PriceAges, IInv, Shape
<1>3. FeedShape(s) /\ LockOK(s) /\ s.lock = feed[f].lock
  BY DEF IInv, Shape, FeedShape, FeedFields, LockOK, LockHasWork
<1> HIDE DEF s
<1> QED BY <1>2, <1>3, FeedStepKeeps

LEMMA RoundExpiresKeeps ==
  ASSUME IInv, NEW f \in Feeds, RoundExpires(f)
  PROVE  IInv'
<1> DEFINE s == [feed[f] EXCEPT !.round = NoFeed]
<1>1. feed' = [feed EXCEPT ![f] = s] /\ request' = request
  BY DEF RoundExpires, IInv, Shape
<1>2. FeedShape(s) /\ LockOK(s) /\ s.lock = feed[f].lock
  BY DEF IInv, Shape, FeedShape, FeedFields, LockOK, LockHasWork
<1> HIDE DEF s
<1> QED BY <1>1, <1>2, FeedStepKeeps

-----------------------------------------------------------------------------
LEMMA StepKeeps == IInv /\ [Next]_vars => IInv'
<1> SUFFICES ASSUME IInv, [Next]_vars PROVE IInv'
  OBVIOUS
<1>1. CASE UNCHANGED vars
  BY <1>1
  DEF vars, IInv, Shape, FeedShape, PendingHoldsLock, LockHasWork
<1>2. ASSUME NEW r \in Requests, NEW kind \in {"current", "round"},
             NEW feeds \in FeedLists, Receive(r, kind, feeds)
      PROVE  IInv'
  BY <1>2, ReceiveKeeps
<1>3. ASSUME NEW r \in Requests, Attempt(r) PROVE IInv'
  BY <1>3, AttemptKeeps
<1>4. ASSUME NEW r \in Requests, NEW f \in Feeds, Fallback(r, f) PROVE IInv'
  BY <1>4, FallbackKeeps
<1>5. ASSUME NEW r \in Requests, AnswerCurrent(r) PROVE IInv'
  BY <1>5, AnswerCurrentKeeps
<1>6. ASSUME NEW r \in Requests, AnswerRound(r) PROVE IInv'
  BY <1>6, AnswerRoundKeeps
<1>7. ASSUME NEW r \in Requests, Respond(r) PROVE IInv'
  BY <1>7, RespondKeeps
<1>8. ASSUME NEW r \in Requests, TimesOut(r) PROVE IInv'
  BY <1>8, TimesOutKeeps
<1>9. ASSUME NEW f \in Feeds, RestSucceeds(f) PROVE IInv'
  BY <1>9, RestSucceedsKeeps
<1>10. ASSUME NEW f \in Feeds, RestFails(f) PROVE IInv'
  BY <1>10, RestFailsKeeps
<1>11. ASSUME NEW f \in Feeds, AggregationSucceeds(f) PROVE IInv'
  BY <1>11, AggregationSucceedsKeeps
<1>12. ASSUME NEW f \in Feeds, AggregationFails(f) PROVE IInv'
  BY <1>12, AggregationFailsKeeps
<1>13. ASSUME NEW f \in Feeds, LateFallback(f) PROVE IInv'
  BY <1>13, LateFallbackKeeps
<1>14. ASSUME NEW f \in Feeds, UpdateArrives(f) PROVE IInv'
  BY <1>14, UpdateArrivesKeeps
<1>15. ASSUME NEW f \in Feeds, BatchProcessed(f) PROVE IInv'
  BY <1>15, BatchProcessedKeeps
<1>16. ASSUME NEW f \in Feeds, WarmingTimer(f) PROVE IInv'
  BY <1>16, WarmingTimerKeeps
<1>17. ASSUME NEW f \in Feeds, PriceAges(f) PROVE IInv'
  BY <1>17, PriceAgesKeeps
<1>18. ASSUME NEW f \in Feeds, RoundExpires(f) PROVE IInv'
  BY <1>18, RoundExpiresKeeps
<1> QED
  BY <1>1, <1>2, <1>3, <1>4, <1>5, <1>6, <1>7, <1>8, <1>9, <1>10, <1>11,
     <1>12, <1>13, <1>14, <1>15, <1>16, <1>17, <1>18
  DEF Next

LEMMA Invariance == Spec => []IInv
<1>1. Init => IInv
  BY InitEstablishes
<1>2. IInv /\ [Next]_vars => IInv'
  BY StepKeeps
<1> QED BY <1>1, <1>2, PTL DEF Spec

(* Of all the callers that compete for a feed's lock, one that waits for a *)
(* lookup always holds it: a request never waits for a price that nobody   *)
(* fetches (getAggregatedPrice, executeWithRetry).                         *)
THEOREM LookupsHoldTheirLock == Spec => []PendingHoldsLock
<1>1. IInv => PendingHoldsLock
  BY DEF IInv
<1> QED BY <1>1, Invariance, PTL

(* A feed is locked exactly while its lookup or aggregation is under way,  *)
(* so no path out of getAggregatedPrice leaves activeAggregations behind.  *)
THEOREM LocksHaveWork == Spec => []LockHasWork
<1>1. IInv => LockHasWork
  BY DEF IInv
<1> QED BY <1>1, Invariance, PTL

-----------------------------------------------------------------------------
(* Answers.  A request that does not wait has no lookup under way, and     *)
(* whoever is asked for a price holds the lock in the name of a lookup:    *)
(* so nobody delivers a result to a request that is answered already.      *)

Ended ==
  \A r \in Requests : request[r].status # "waiting" =>
    \A f \in Feeds : request[r].result[f] \notin {"pending", "null"}

LockIsAsked ==
  \A r \in Requests, f \in Feeds :
    feed[f].lock = r => request[r].result[f] = "pending"

Honest(q) ==
  q.kind = "current" /\ q.status = "answered" => q.answer = Successful(q)

AnswerInv ==
  /\ Ended
  /\ LockIsAsked
  /\ \A r \in Requests : Honest(request[r])

(* Only a lookup that becomes pending takes a lock.                        *)
LEMMA LockTaken ==
  ASSUME NEW s, FeedShape(s), NEW who \in Callers, NEW warm \in BOOLEAN, LockOK(s)
  PROVE  /\ AfterAggregated(s, who).lock \in {s.lock, who}
         /\ AfterAggregated(s, who).lock # s.lock => Aggregated(s) = "pending"
         /\ Warmed(s, warm).lock \in {s.lock, Background}
         /\ AfterCurrentPrice(s, who, warm).lock \in {s.lock, who, Background}
         /\ AfterCurrentPrice(s, who, warm).lock \in Requests \ {s.lock}
              => CurrentPrice(s, warm) = "pending"
         /\ AfterRealTimePrice(s, who).lock \in {s.lock, who}
         /\ AfterRealTimePrice(s, who).lock # s.lock => RealTimePrice(s) = "pending"
<1>1. \A t, w : FeedShape(t) =>
        /\ AfterAggregated(t, w).lock \in {t.lock, w}
        /\ AfterAggregated(t, w).lock # t.lock => Aggregated(t) = "pending"
  BY DEF AfterAggregated, Aggregated, Published, FeedShape, FeedFields
<1>2. Background \in Callers /\ Background \notin Requests
  BY RequestLock DEF Callers
<1>3. FeedShape(Warmed(s, warm)) /\ Warmed(s, warm).lock \in {s.lock, Background}
  BY <1>1, <1>2, AggregatedFacts DEF Warmed
<1>4. /\ AfterCurrentPrice(s, who, warm).lock \in {s.lock, who, Background}
      /\ AfterCurrentPrice(s, who, warm).lock \in Requests \ {s.lock}
           => CurrentPrice(s, warm) = "pending"
  BY <1>1, <1>2, <1>3 DEF AfterCurrentPrice, CurrentPrice
<1> QED
  BY <1>1, <1>3, <1>4 DEF AfterRealTimePrice, RealTimePrice

(* A step of a feed that gives no request a lock.                          *)
LEMMA FeedStepAnswers ==
  ASSUME AnswerInv, request' = request,
         \A f \in Feeds : feed'[f].lock \in Requests => feed'[f].lock = feed[f].lock
  PROVE  AnswerInv'
BY DEF AnswerInv, Ended, LockIsAsked, Honest, Successful

(* A step of a request that is then of the same state and shape, but for   *)
(* what it waits for.                                                      *)
LEMMA RequestStepAnswers ==
  ASSUME IInv, AnswerInv, NEW r \in Requests, NEW q,
         request' = [request EXCEPT ![r] = q],
         Honest(q),
         q.status # "waiting" => \A f \in Feeds : q.result[f] \notin {"pending", "null"},
         \A f \in Feeds : feed'[f].lock = r => q.result[f] = "pending",
         \A f \in Feeds : feed'[f].lock \in Requests \ {r} => feed'[f].lock = feed[f].lock
  PROVE  AnswerInv'
<1>1. /\ request'[r] = q
      /\ \A p \in Requests : p # r => request'[p] = request[p]
  BY DEF IInv, Shape
<1>2. Ended'
  BY <1>1 DEF AnswerInv, Ended
<1>3. LockIsAsked'
  BY <1>1 DEF AnswerInv, LockIsAsked
<1>4. \A p \in Requests : Honest(request'[p])
  BY <1>1 DEF AnswerInv
<1> QED
  BY <1>2, <1>3, <1>4 DEF AnswerInv, Honest, Successful

(* What a request says depends on its lookups and its feeds alone.         *)
LEMMA AnswerFacts ==
  ASSUME NEW q, DOMAIN q = RequestFields
  PROVE  /\ Honest([q EXCEPT !.status = "answered", !.answer = Successful(q)])
         /\ \A status : status # "answered" => Honest([q EXCEPT !.status = status])
         /\ q.kind # "current" => \A s, a : Honest([q EXCEPT !.status = s, !.answer = a])
<1> DEFINE t == [q EXCEPT !.status = "answered", !.answer = Successful(q)]
<1>1. /\ t.result = q.result /\ t.feeds = q.feeds /\ t.answer = Successful(q)
  BY DEF RequestFields
<1>2. Successful(t) = Successful(q)
  <2> HIDE DEF t
  <2> QED
    BY <1>1 DEF Successful
<1>3. Honest(t)
  <2> HIDE DEF t
  <2> QED
    BY <1>1, <1>2 DEF Honest
<1> QED
  BY <1>3 DEF Honest, RequestFields

LEMMA AnswerInit == Init => AnswerInv
<1> SUFFICES ASSUME Init PROVE AnswerInv
  OBVIOUS
<1>1. \A r \in Requests : request[r] = NoRequest
  BY DEF Init
<1>2. \A f \in Feeds : feed[f].lock = Free
  BY DEF Init
<1> QED
  BY <1>1, <1>2, RequestLock DEF AnswerInv, Ended, LockIsAsked, Honest, NoRequest

LEMMA AttemptAnswers ==
  ASSUME IInv, AnswerInv, NEW r \in Requests, Attempt(r)
  PROVE  AnswerInv'
<1> DEFINE q == request[r]
           asked == Elements(Missing(q))
<1>1. PICK warm \in [asked -> BOOLEAN] :
        LET outcome(f) == IF q.kind = "current" THEN RealTimePrice(feed[f])
                          ELSE CurrentPrice(feed[f], warm[f])
            spare(f)   == IF q.kind = "current" THEN 2 ELSE 0
        IN  /\ feed' = [f \in Feeds |->
                 IF f \notin asked THEN feed[f]
                 ELSE IF q.kind = "current"
                      THEN AfterRealTimePrice(feed[f], r)
                      ELSE AfterCurrentPrice(feed[f], r, warm[f])]
            /\ request' = [request EXCEPT
                 ![r].status = "waiting",
                 ![r].tries  = @ + 1,
                 ![r].spare  = [f \in Feeds |-> spare(f)],
                 ![r].result = [f \in Feeds |->
                    IF f \in asked THEN Settled(outcome(f), spare(f))
                    ELSE "unasked"]]
  BY DEF Attempt
<1> HIDE DEF asked
<1> DEFINE outcome(f) == IF q.kind = "current" THEN RealTimePrice(feed[f])
                         ELSE CurrentPrice(feed[f], warm[f])
           spare(f)   == IF q.kind = "current" THEN 2 ELSE 0
           result == [f \in Feeds |->
                        IF f \in asked THEN Settled(outcome(f), spare(f))
                        ELSE "unasked"]
           p == [q EXCEPT !.status = "waiting", !.tries = @ + 1,
                          !.spare = [f \in Feeds |-> spare(f)], !.result = result]
<1>2. \A f \in Feeds : /\ FeedShape(feed[f]) /\ LockOK(feed[f])
                       /\ f \in asked => warm[f] \in BOOLEAN
                       /\ feed[f].lock # r
  <2>1. q.status # "waiting"
    BY DEF Attempt
  <2> QED
    BY <2>1 DEF IInv, Shape, LockHasWork, LockOK, AnswerInv, Ended, LockIsAsked
<1>3. \A f \in Feeds :
        /\ feed'[f].lock \in {feed[f].lock, r, Background}
        /\ feed'[f].lock = r => f \in asked /\ outcome(f) = "pending"
  <2> TAKE f \in Feeds
  <2>1. r \in Callers
    BY DEF Callers
  <2>2. CASE f \notin asked
    BY <1>1, <1>2, <2>2
  <2>3. CASE f \in asked /\ q.kind = "current"
    BY <1>1, <1>2, <2>1, <2>3, LockTaken
  <2>4. CASE f \in asked /\ q.kind # "current"
    BY <1>1, <1>2, <2>1, <2>4, LockTaken
  <2> QED
    BY <2>2, <2>3, <2>4
<1>4. \A f \in Feeds : feed'[f].lock = r => result[f] = "pending"
  <2> TAKE f \in Feeds
  <2> HAVE feed'[f].lock = r
  <2>1. f \in asked /\ outcome(f) = "pending"
    BY <1>3
  <2>2. result[f] = Settled(outcome(f), spare(f))
    BY <2>1
  <2> HIDE DEF result, outcome
  <2> QED
    BY <2>1, <2>2 DEF Settled
<1>5. request' = [request EXCEPT ![r] = p]
  BY <1>1 DEF IInv, Shape, RequestFields
<1> HIDE DEF outcome, spare, result
<1>6. p.status = "waiting" /\ p.result = result
  BY DEF IInv, Shape, RequestFields
<1> HIDE DEF p
<1>7. \A f \in Feeds : feed'[f].lock \in Requests \ {r} => feed'[f].lock = feed[f].lock
  BY <1>3, RequestLock
<1>8. Honest(p)
  BY <1>6 DEF Honest
<1> QED
  BY <1>4, <1>5, <1>6, <1>7, <1>8, RequestStepAnswers

LEMMA FallbackAnswers ==
  ASSUME IInv, AnswerInv, NEW r \in Requests, NEW f \in Feeds, Fallback(r, f)
  PROVE  AnswerInv'
<1> DEFINE left == request[r].spare[f] - 1
<1>1. PICK warm \in BOOLEAN :
        /\ feed' = [feed EXCEPT ![f] = AfterCurrentPrice(@, r, warm)]
        /\ request' = [request EXCEPT
             ![r].spare[f]  = left,
             ![r].result[f] = Settled(CurrentPrice(feed[f], warm), left)]
  BY DEF Fallback
<1> DEFINE s == AfterCurrentPrice(feed[f], r, warm)
           o == CurrentPrice(feed[f], warm)
           new == Settled(o, left)
           q == [request[r] EXCEPT !.spare[f] = left, !.result[f] = new]
<1>2. /\ FeedShape(feed[f]) /\ LockOK(feed[f]) /\ r \in Callers
      /\ request[r].result[f] = "null" /\ request[r].status = "waiting"
      /\ feed[f].lock # r
  BY DEF IInv, Shape, LockHasWork, LockOK, Callers, Fallback, AnswerInv, Ended,
         LockIsAsked
<1>3. /\ s.lock \in {feed[f].lock, r, Background}
      /\ s.lock = r => o = "pending"
  BY <1>2, LockTaken
<1>4. request' = [request EXCEPT ![r] = q]
  BY <1>1 DEF IInv, Shape, RequestFields
<1>5. /\ feed'[f] = s
      /\ \A g \in Feeds : g # f => feed'[g] = feed[g]
  BY <1>1 DEF IInv, Shape
<1>6. /\ q.status = "waiting"
      /\ q.result = [request[r].result EXCEPT ![f] = new]
  <2> HIDE DEF new, left
  <2> QED
    BY <1>2 DEF IInv, Shape, RequestFields
<1> HIDE DEF s, o, new, q
<1>7. \A g \in Feeds : feed'[g].lock = r => q.result[g] = "pending"
  <2>1. o = "pending" => new = "pending"
    BY DEF new, Settled
  <2>2. ASSUME NEW g \in Feeds, feed'[g].lock = r PROVE q.result[g] = "pending"
    <3>1. request[r].result \in [Feeds -> Outcomes]
      BY DEF IInv, Shape
    <3>2. CASE g = f
      BY <1>3, <1>5, <1>6, <2>1, <2>2, <3>1, <3>2
    <3>3. CASE g # f
      BY <1>5, <1>6, <2>2, <3>1, <3>3 DEF AnswerInv, LockIsAsked
    <3> QED
      BY <3>2, <3>3
  <2> QED
    BY <2>2
<1>8. \A g \in Feeds : feed'[g].lock \in Requests \ {r} => feed'[g].lock = feed[g].lock
  BY <1>3, <1>5, RequestLock
<1>9. Honest(q)
  BY <1>6 DEF Honest
<1> QED
  BY <1>4, <1>6, <1>7, <1>8, <1>9, RequestStepAnswers

(* A result reaches a request that waits, and none that is answered.       *)
LEMMA DeliveredAnswers ==
  ASSUME IInv, AnswerInv, NEW f \in Feeds, NEW outcome \in {"null", "value"},
         request' = Delivered(f, outcome),
         NEW s, feed' = [feed EXCEPT ![f] = s], s.lock = Free
  PROVE  AnswerInv'
<1>1. /\ feed'[f] = s
      /\ \A g \in Feeds : g # f => feed'[g] = feed[g]
  BY DEF IInv, Shape
<1>2. \A g \in Feeds : feed'[g].lock \in Requests => feed'[g].lock = feed[g].lock /\ g # f
  BY <1>1, RequestLock
<1>3. CASE feed[f].lock \notin Requests
  BY <1>2, <1>3, FeedStepAnswers DEF Delivered
<1>4. CASE feed[f].lock \in Requests
  <2> DEFINE r == feed[f].lock
             new == Settled(outcome, request[r].spare[f])
             q == [request[r] EXCEPT !.result[f] = new]
  <2>1. request[r].result[f] = "pending" /\ request[r].status = "waiting"
    BY <1>4 DEF AnswerInv, LockIsAsked, Ended
  <2>2. request' = [request EXCEPT ![r] = q]
    BY <1>4 DEF Delivered, IInv, Shape, RequestFields
  <2>3. /\ q.status = "waiting"
        /\ q.result = [request[r].result EXCEPT ![f] = new]
    <3> HIDE DEF new
    <3> QED
      BY <1>4, <2>1 DEF IInv, Shape, RequestFields
  <2> HIDE DEF new, q
  <2>4. \A g \in Feeds : feed'[g].lock = r => q.result[g] = "pending"
    <3>1. request[r].result \in [Feeds -> Outcomes]
      BY <1>4 DEF IInv, Shape
    <3> QED
      BY <1>2, <1>4, <2>3, <3>1 DEF AnswerInv, LockIsAsked
  <2>5. Honest(q)
    BY <2>3 DEF Honest
  <2> QED
    BY <1>2, <1>4, <2>2, <2>3, <2>4, <2>5, RequestStepAnswers
<1> QED
  BY <1>3, <1>4

(* The end of a request: it waits no more, and holds no lock.              *)
LEMMA EndAnswers ==
  ASSUME IInv, AnswerInv, NEW r \in Requests,
         AnswerCurrent(r) \/ AnswerRound(r) \/ Respond(r)
  PROVE  AnswerInv'
<1> DEFINE q == request[r]
<1>1. /\ DOMAIN q = RequestFields
      /\ \A f \in Feeds : q.result[f] \notin {"pending", "null"}
  BY DEF IInv, Shape, AnswerInv, Ended, Resolved, AnswerCurrent, AnswerRound, Respond
<1>2. \A f \in Feeds : feed'[f].lock = feed[f].lock /\ feed[f].lock # r
  <2>1. \A f \in Feeds : feed[f].lock # r
    BY <1>1 DEF AnswerInv, LockIsAsked
  <2>2. CASE UNCHANGED feed
    BY <2>1, <2>2
  <2>3. CASE AnswerRound(r)
    <3> DEFINE data == FreshData(q)
    <3>1. feed' = [f \in Feeds |->
            IF \E i \in DOMAIN data : data[i].feed = f
            THEN [feed[f] EXCEPT !.round =
                    data[CHOOSE i \in DOMAIN data : data[i].feed = f].value]
            ELSE feed[f]]
      BY <2>3 DEF AnswerRound
    <3> HIDE DEF data
    <3>2. \A f \in Feeds : \A v : [feed[f] EXCEPT !.round = v].lock = feed[f].lock
      BY DEF IInv, Shape, FeedShape, FeedFields
    <3> QED
      BY <2>1, <3>1, <3>2
  <2> QED
    BY <2>2, <2>3 DEF AnswerCurrent, Respond
<1>3. ASSUME NEW p, request' = [request EXCEPT ![r] = p], Honest(p), p.result = q.result
      PROVE  AnswerInv'
  BY <1>1, <1>2, <1>3, RequestStepAnswers
<1>4. CASE AnswerCurrent(r)
  <2>1. CASE Successful(q) # << >>
    <3> DEFINE p == [q EXCEPT !.status = "answered", !.answer = Successful(q)]
    <3>1. request' = [request EXCEPT ![r] = p]
      BY <1>4, <2>1 DEF AnswerCurrent
    <3>2. p.result = q.result
      BY <1>1 DEF RequestFields
    <3>3. Honest(p)
      BY <1>1, AnswerFacts
    <3> HIDE DEF p
    <3> QED
      BY <1>3, <3>1, <3>2, <3>3
  <2>2. CASE Successful(q) = << >>
    <3> DEFINE status == IF q.tries < MaxTries THEN "backoff" ELSE "failed"
               p == [q EXCEPT !.status = status]
    <3>1. request' = [request EXCEPT ![r] = p]
      BY <1>4, <2>2 DEF AnswerCurrent
    <3>2. p.result = q.result
      BY <1>1 DEF RequestFields
    <3>3. Honest(p)
      <4>1. status # "answered"
        OBVIOUS
      <4> HIDE DEF status
      <4> QED
        BY <1>1, <4>1, AnswerFacts
    <3> HIDE DEF p
    <3> QED
      BY <1>3, <3>1, <3>2, <3>3
  <2> QED
    BY <2>1, <2>2
<1>5. CASE AnswerRound(r)
  <2>1. CASE Len(FreshData(q)) = Len(Missing(q))
    <3> DEFINE p == [q EXCEPT !.status = "answered", !.answer = Combined(q)]
    <3>1. request' = [request EXCEPT ![r] = p] /\ q.kind # "current"
      BY <1>5, <2>1 DEF AnswerRound
    <3>2. p.result = q.result
      BY <1>1 DEF RequestFields
    <3>3. Honest(p)
      BY <1>1, <3>1, AnswerFacts
    <3> HIDE DEF p
    <3> QED
      BY <1>3, <3>1, <3>2, <3>3
  <2>2. CASE Len(FreshData(q)) # Len(Missing(q))
    <3> DEFINE p == [q EXCEPT !.status = "failed"]
    <3>1. request' = [request EXCEPT ![r] = p]
      BY <1>5, <2>2 DEF AnswerRound
    <3>2. p.result = q.result
      BY <1>1 DEF RequestFields
    <3>3. Honest(p)
      BY <1>1, AnswerFacts
    <3> HIDE DEF p
    <3> QED
      BY <1>3, <3>1, <3>2, <3>3
  <2> QED
    BY <2>1, <2>2
<1>6. CASE Respond(r)
  <2>1. /\ Honest(NoRequest)
        /\ \A f \in Feeds : NoRequest.result[f] \notin {"pending", "null"}
    BY DEF Honest, NoRequest
  <2>2. request' = [request EXCEPT ![r] = NoRequest]
    BY <1>6 DEF Respond
  <2> QED
    BY <1>2, <2>1, <2>2, RequestStepAnswers
<1> QED
  BY <1>4, <1>5, <1>6

LEMMA ReceiveAnswers ==
  ASSUME IInv, AnswerInv, NEW r \in Requests, NEW kind, NEW feeds,
         Receive(r, kind, feeds)
  PROVE  AnswerInv'
<1> DEFINE stored == [f \in Feeds |-> IF kind = "round" THEN feed[f].round ELSE NoFeed]
           q == [NoRequest EXCEPT !.kind = kind, !.feeds = feeds,
                                  !.status = "attempt", !.stored = stored]
<1>1. /\ q.result = [f \in Feeds |-> "unasked"] /\ q.status = "attempt"
  BY DEF NoRequest
<1>2. request' = [request EXCEPT ![r] = q] /\ feed' = feed
  BY DEF Receive
<1>3. \A f \in Feeds : feed[f].lock # r
  BY DEF Receive, AnswerInv, Ended, LockIsAsked
<1> HIDE DEF q
<1>4. Honest(q)
  BY <1>1 DEF Honest
<1> QED
  BY <1>1, <1>2, <1>3, <1>4, RequestStepAnswers

LEMMA TimesOutAnswers ==
  ASSUME IInv, AnswerInv, NEW r \in Requests, TimesOut(r)
  PROVE  AnswerInv'
<1> DEFINE q == [request[r] EXCEPT !.status = "backoff",
                                   !.result = [f \in Feeds |-> "unasked"]]
<1>1. request' = [request EXCEPT ![r] = q]
  BY DEF TimesOut, IInv, Shape, RequestFields
<1>2. q.status = "backoff" /\ q.result = [f \in Feeds |-> "unasked"]
  BY DEF IInv, Shape, RequestFields
<1> HIDE DEF q
<1>3. \A f \in Feeds : /\ feed'[f].lock # r
                       /\ feed'[f].lock \in Requests => feed'[f].lock = feed[f].lock
  <2> TAKE f \in Feeds
  <2>1. CASE feed[f].lock = r
    <3> DEFINE n == request[r].spare[f]
    <3>1. feed'[f] = [feed[f] EXCEPT !.lock = Late, !.late = n]
      BY <2>1 DEF TimesOut
    <3> HIDE DEF n
    <3>2. feed'[f].lock = Late
      BY <3>1 DEF IInv, Shape, FeedShape, FeedFields
    <3> QED
      BY <3>2, RequestLock
  <2>2. CASE feed[f].lock # r
    BY <2>2 DEF TimesOut
  <2> QED
    BY <2>1, <2>2
<1>4. Honest(q)
  BY <1>2 DEF Honest
<1> QED
  BY <1>1, <1>2, <1>3, <1>4, RequestStepAnswers

(* Steps of a feed that give no request a lock.                            *)
LEMMA FeedAnswers ==
  ASSUME IInv, AnswerInv, NEW f \in Feeds,
         \/ RestSucceeds(f) \/ LateFallback(f) \/ UpdateArrives(f)
         \/ BatchProcessed(f) \/ WarmingTimer(f) \/ PriceAges(f) \/ RoundExpires(f)
  PROVE  AnswerInv'
<1>1. /\ FeedShape(feed[f]) /\ LockOK(feed[f])
      /\ Background \in Callers /\ Late \in Callers
      /\ Background \notin Requests /\ Late \notin Requests
  BY RequestLock DEF IInv, Shape, LockHasWork, LockOK, Callers
<1>2. ASSUME NEW s, feed' = [feed EXCEPT ![f] = s], request' = request,
             s.lock \in Requests => s.lock = feed[f].lock
      PROVE  AnswerInv'
  <2>1. feed'[f] = s /\ \A g \in Feeds : g # f => feed'[g] = feed[g]
    BY <1>2 DEF IInv, Shape
  <2> QED
    BY <1>2, <2>1, FeedStepAnswers
<1>3. CASE RestSucceeds(f) \/ BatchProcessed(f) \/ PriceAges(f) \/ RoundExpires(f)
  <2>1. request' = request /\ \A g \in Feeds : feed'[g].lock = feed[g].lock
    BY <1>3 DEF RestSucceeds, BatchProcessed, PriceAges, RoundExpires,
                IInv, Shape, FeedShape, FeedFields
  <2> QED
    BY <2>1, FeedStepAnswers
<1>4. CASE LateFallback(f)
  <2>1. PICK warm \in BOOLEAN :
          feed' = [feed EXCEPT ![f] =
            [AfterCurrentPrice(feed[f], Late, warm) EXCEPT
               !.late = IF CurrentPrice(feed[f], warm) = "value" THEN 0
                        ELSE @ - 1]]
    BY <1>4 DEF LateFallback
  <2> DEFINE t == AfterCurrentPrice(feed[f], Late, warm)
             s == [t EXCEPT !.late = IF CurrentPrice(feed[f], warm) = "value"
                                     THEN 0 ELSE @ - 1]
  <2>2. FeedShape(t) /\ t.lock \in {feed[f].lock, Late, Background}
    BY <1>1, CurrentPriceFacts, LockTaken
  <2>3. s.lock = t.lock
    <3> HIDE DEF t
    <3> QED
      BY <2>2 DEF FeedShape, FeedFields
  <2>4. feed' = [feed EXCEPT ![f] = s] /\ request' = request
    BY <1>4, <2>1 DEF LateFallback
  <2> HIDE DEF s, t
  <2> QED
    BY <1>1, <1>2, <2>2, <2>3, <2>4
<1>5. CASE WarmingTimer(f)
  <2>1. /\ feed' = [feed EXCEPT ![f] = AfterAggregated(feed[f], Background)]
        /\ request' = request
    BY <1>5 DEF WarmingTimer, Warmed
  <2>2. AfterAggregated(feed[f], Background).lock \in {feed[f].lock, Background}
    BY <1>1, LockTaken
  <2> QED
    BY <1>1, <1>2, <2>1, <2>2
<1>6. CASE UpdateArrives(f)
  <2>1. PICK warm \in BOOLEAN, critical \in BOOLEAN, timely \in BOOLEAN :
          feed' = [feed EXCEPT ![f] =
            AfterAggregated(
              [Warmed(feed[f], warm) EXCEPT
                 !.updates = IF critical /\ ~timely THEN "batched" ELSE "active",
                 !.price = IF @ = "recent" THEN "usable" ELSE @],
              Background)]
    BY <1>6 DEF UpdateArrives
  <2> DEFINE w == Warmed(feed[f], warm)
             t == [w EXCEPT
                     !.updates = IF critical /\ ~timely THEN "batched"
                                 ELSE "active",
                     !.price = IF @ = "recent" THEN "usable" ELSE @]
             s == AfterAggregated(t, Background)
  <2>2. /\ FeedShape(w) /\ LockOK(w) /\ w.lock \in {feed[f].lock, Background}
    BY <1>1, AggregatedFacts, LockTaken DEF Warmed
  <2>3. FeedShape(t) /\ LockOK(t) /\ t.lock = w.lock
    <3> HIDE DEF w
    <3> QED
      BY <2>2 DEF FeedShape, FeedFields, LockOK
  <2>4. feed' = [feed EXCEPT ![f] = s] /\ request' = request
    BY <1>6, <2>1 DEF UpdateArrives
  <2> HIDE DEF w, t
  <2>5. s.lock \in {feed[f].lock, Background}
    BY <1>1, <2>2, <2>3, LockTaken
  <2> HIDE DEF s
  <2> QED
    BY <1>1, <1>2, <2>4, <2>5
<1> QED
  BY <1>3, <1>4, <1>5, <1>6

LEMMA AnswerStep == IInv /\ AnswerInv /\ [Next]_vars => AnswerInv'
<1> SUFFICES ASSUME IInv, AnswerInv, [Next]_vars PROVE AnswerInv'
  OBVIOUS
<1>1. CASE UNCHANGED vars
  BY <1>1, FeedStepAnswers DEF vars
<1>2. ASSUME NEW r \in Requests,
             \/ \E kind \in {"current", "round"}, feeds \in FeedLists :
                  Receive(r, kind, feeds)
             \/ Attempt(r) \/ \E f \in Feeds : Fallback(r, f)
             \/ AnswerCurrent(r) \/ AnswerRound(r) \/ Respond(r) \/ TimesOut(r)
      PROVE  AnswerInv'
  BY <1>2, ReceiveAnswers, AttemptAnswers, FallbackAnswers, EndAnswers, TimesOutAnswers
<1>3. ASSUME NEW f \in Feeds,
             RestFails(f) \/ AggregationSucceeds(f) \/ AggregationFails(f)
      PROVE  AnswerInv'
  <2>1. PICK outcome \in {"null", "value"} : \E s :
          /\ request' = Delivered(f, outcome)
          /\ feed' = [feed EXCEPT ![f] = s] /\ s.lock = Free
    <3> DEFINE t == [feed[f] EXCEPT !.lock = Free, !.phase = "none"]
               u == [Published(feed[f]) EXCEPT
                       !.lock = Free, !.phase = "none",
                       !.late = IF feed[f].lock = Late THEN 0 ELSE @]
    <3>1. t.lock = Free /\ u.lock = Free
      BY DEF IInv, Shape, FeedShape, FeedFields, Published
    <3>2. CASE RestFails(f) \/ AggregationFails(f)
      <4>1. request' = Delivered(f, "null") /\ feed' = [feed EXCEPT ![f] = t]
        BY <3>2 DEF RestFails, AggregationFails, IInv, Shape
      <4> HIDE DEF t
      <4> QED
        BY <3>1, <4>1
    <3>3. CASE AggregationSucceeds(f)
      <4>1. request' = Delivered(f, "value") /\ feed' = [feed EXCEPT ![f] = u]
        BY <3>3 DEF AggregationSucceeds
      <4> HIDE DEF u
      <4> QED
        BY <3>1, <4>1
    <3> QED
      BY <1>3, <3>2, <3>3
  <2>2. PICK s : /\ request' = Delivered(f, outcome)
                 /\ feed' = [feed EXCEPT ![f] = s] /\ s.lock = Free
    BY <2>1
  <2> QED
    BY <2>2, DeliveredAnswers
<1>4. ASSUME NEW f \in Feeds,
             \/ RestSucceeds(f) \/ LateFallback(f) \/ UpdateArrives(f)
             \/ BatchProcessed(f) \/ WarmingTimer(f) \/ PriceAges(f) \/ RoundExpires(f)
      PROVE  AnswerInv'
  BY <1>4, FeedAnswers
<1> QED
  BY <1>1, <1>2, <1>3, <1>4 DEF Next

LEMMA AnswerInvariance == Spec => []AnswerInv
<1>1. IInv /\ AnswerInv /\ [Next]_vars => AnswerInv'
  BY AnswerStep
<1> QED
  BY <1>1, AnswerInit, Invariance, PTL DEF Spec

(* An answer of /feed-values has the prices of the feeds that were found,  *)
(* each as its own and in the order asked for, and stays what it was: no   *)
(* lookup of an earlier attempt changes it (getRealTimeFeedValues,         *)
(* getAggregatedPrice).                                                    *)
THEOREM AnswersAreOwnValues == Spec => []CurrentAnswersOwnValues
<1>1. AnswerInv => CurrentAnswersOwnValues
  <2> SUFFICES ASSUME AnswerInv, NEW r \in Requests,
                      request[r].kind = "current", request[r].status = "answered"
               PROVE  LET q == request[r]
                          found == Found(q.result, q.feeds)
                      IN  /\ DOMAIN q.answer = DOMAIN found
                          /\ \A i \in DOMAIN found :
                               /\ q.answer[i].feed = found[i]
                               /\ q.answer[i].value = q.answer[i].feed
    BY DEF CurrentAnswersOwnValues
  <2> DEFINE found == Found(request[r].result, request[r].feeds)
  <2>1. request[r].answer = [i \in DOMAIN found |-> [feed |-> found[i], value |-> found[i]]]
    BY DEF AnswerInv, Honest, Successful
  <2> HIDE DEF found
  <2>2. /\ DOMAIN request[r].answer = DOMAIN found
        /\ \A i \in DOMAIN found : /\ request[r].answer[i].feed = found[i]
                                   /\ request[r].answer[i].value = found[i]
    BY <2>1
  <2> QED
    BY <2>2 DEF found
<1> QED
  BY <1>1, AnswerInvariance, PTL

-----------------------------------------------------------------------------
(* Market data.                                                            *)

(* Sequences of one, two and three elements: their parts, their joins.     *)
LEMMA FirstOfThree ==
  ASSUME NEW x, NEW y, NEW z
  PROVE  SubSeq(<<x, y, z>>, 1, 1) = <<x>>
<1> DEFINE S == {x, y, z}
           all == <<x, y, z>>
           one == <<x>>
<1>1. /\ all \in Seq(S) /\ Len(all) = 3 /\ all[1] = x /\ all[2] = y /\ all[3] = z
      /\ one \in Seq(S) /\ Len(one) = 1 /\ one[1] = x
  OBVIOUS
<1> HIDE DEF S, all, one
<1>2. /\ SubSeq(all, 1, 1) \in Seq(S) /\ Len(SubSeq(all, 1, 1)) = 1
      /\ SubSeq(all, 1, 1)[1] = all[1]
  BY <1>1, SubSeqProperties
<1>3. SubSeq(all, 1, 1) = one
  BY <1>1, <1>2, SeqEqual
<1> QED BY <1>3 DEF all, one

LEMMA ThirdOfThree ==
  ASSUME NEW x, NEW y, NEW z
  PROVE  SubSeq(<<x, y, z>>, 3, 3) = <<z>>
<1> DEFINE S == {x, y, z}
           all == <<x, y, z>>
           one == <<z>>
<1>1. /\ all \in Seq(S) /\ Len(all) = 3 /\ all[1] = x /\ all[2] = y /\ all[3] = z
      /\ one \in Seq(S) /\ Len(one) = 1 /\ one[1] = z
  OBVIOUS
<1> HIDE DEF S, all, one
<1>2. \A i \in 3 .. 3 : all[i] \in S
  BY <1>1 DEF S
<1>3. /\ SubSeq(all, 3, 3) \in Seq(S) /\ Len(SubSeq(all, 3, 3)) = 1
      /\ SubSeq(all, 3, 3)[1] = all[3]
  BY <1>1, <1>2, SubSeqProperties
<1>4. SubSeq(all, 3, 3) = one
  BY <1>1, <1>3, SeqEqual
<1> QED BY <1>4 DEF all, one

LEMMA FirstOfTwo ==
  ASSUME NEW x, NEW y
  PROVE  SubSeq(<<x, y>>, 1, 1) = <<x>>
<1> DEFINE S == {x, y}
           all == <<x, y>>
           one == <<x>>
<1>1. /\ all \in Seq(S) /\ Len(all) = 2 /\ all[1] = x /\ all[2] = y
      /\ one \in Seq(S) /\ Len(one) = 1 /\ one[1] = x
  OBVIOUS
<1> HIDE DEF S, all, one
<1>2. /\ SubSeq(all, 1, 1) \in Seq(S) /\ Len(SubSeq(all, 1, 1)) = 1
      /\ SubSeq(all, 1, 1)[1] = all[1]
  BY <1>1, SubSeqProperties
<1>3. SubSeq(all, 1, 1) = one
  BY <1>1, <1>2, SeqEqual
<1> QED BY <1>3 DEF all, one

LEMMA OneAndOne ==
  ASSUME NEW x, NEW y
  PROVE  <<x>> \o <<y>> = <<x, y>>
<1> DEFINE S == {x, y}
           left == <<x>>
           right == <<y>>
           all == <<x, y>>
<1>1. /\ left \in Seq(S) /\ right \in Seq(S) /\ all \in Seq(S)
      /\ Len(left) = 1 /\ Len(right) = 1 /\ Len(all) = 2
      /\ left[1] = x /\ right[1] = y
      /\ all[1] = x /\ all[2] = y
  OBVIOUS
<1> HIDE DEF S, left, right, all
<1>2. /\ left \o right \in Seq(S) /\ Len(left \o right) = 2
      /\ \A i \in 1 .. 2 : (left \o right)[i] =
                             IF i <= 1 THEN left[i] ELSE right[i - 1]
  BY <1>1, ConcatProperties
<1>3. left \o right = all
  BY <1>1, <1>2, SeqEqual
<1> QED BY <1>3 DEF left, right, all

LEMMA OneAndTwo ==
  ASSUME NEW x, NEW y, NEW z
  PROVE  <<x>> \o <<y, z>> = <<x, y, z>>
<1> DEFINE S == {x, y, z}
           left == <<x>>
           right == <<y, z>>
           all == <<x, y, z>>
<1>1. /\ left \in Seq(S) /\ right \in Seq(S) /\ all \in Seq(S)
      /\ Len(left) = 1 /\ Len(right) = 2 /\ Len(all) = 3
      /\ left[1] = x /\ right[1] = y /\ right[2] = z
      /\ all[1] = x /\ all[2] = y /\ all[3] = z
  OBVIOUS
<1> HIDE DEF S, left, right, all
<1>2. left \in Seq(S) /\ right \in Seq(S)
  BY <1>1
<1>3. /\ left \o right \in Seq(S)
      /\ Len(left \o right) = Len(left) + Len(right)
      /\ \A i \in 1 .. Len(left) + Len(right) :
           (left \o right)[i] = IF i <= Len(left) THEN left[i]
                                 ELSE right[i - Len(left)]
  BY <1>2, ConcatProperties
<1>4. left \o right = all
  BY <1>1, <1>3, SeqEqual
<1> QED BY <1>4 DEF left, right, all

LEMMA TwoAndOne ==
  ASSUME NEW x, NEW y, NEW z
  PROVE  <<x, y>> \o <<z>> = <<x, y, z>>
<1> DEFINE S == {x, y, z}
           left == <<x, y>>
           right == <<z>>
           all == <<x, y, z>>
<1>1. /\ left \in Seq(S) /\ right \in Seq(S) /\ all \in Seq(S)
      /\ Len(left) = 2 /\ Len(right) = 1 /\ Len(all) = 3
      /\ left[1] = x /\ left[2] = y /\ right[1] = z
      /\ all[1] = x /\ all[2] = y /\ all[3] = z
  OBVIOUS
<1> HIDE DEF S, left, right, all
<1>2. left \in Seq(S) /\ right \in Seq(S)
  BY <1>1
<1>3. /\ left \o right \in Seq(S)
      /\ Len(left \o right) = Len(left) + Len(right)
      /\ \A i \in 1 .. Len(left) + Len(right) :
           (left \o right)[i] = IF i <= Len(left) THEN left[i]
                                 ELSE right[i - Len(left)]
  BY <1>2, ConcatProperties
<1>4. left \o right = all
  BY <1>1, <1>3, SeqEqual
<1> QED BY <1>4 DEF left, right, all

(* The element in the middle of three is found, and replaced.              *)
LEMMA MiddleContained ==
  ASSUME NEW x, NEW y, NEW z
  PROVE  Contains(<<x, y, z>>, y)
<1> DEFINE s == <<x, y, z>>
<1>1. Len(s) = 3 /\ s[2] = y
  OBVIOUS
<1> HIDE DEF s
<1>2. Contains(s, y)
  BY <1>1 DEF Contains
<1> QED BY <1>2 DEF s

LEMMA MiddleReplaced ==
  ASSUME NEW x, NEW y, NEW z, NEW w, x # y, z # y
  PROVE  /\ Replaced(<<x, y, z>>, y, <<w>>) = <<x, w, z>>
         /\ Replaced(<<x, y, z>>, y, <<>>) = <<x, z>>
<1> DEFINE s == <<x, y, z>>
           i == SelectInSeq(s, LAMBDA c : c = y)
<1>1. Len(s) = 3 /\ s[1] = x /\ s[2] = y /\ s[3] = z
  OBVIOUS
<1>2. SubSeq(s, 1, 1) = <<x>>
  BY FirstOfThree
<1>3. SubSeq(s, 3, 3) = <<z>>
  BY ThirdOfThree
<1>4. Contains(s, y)
  BY <1>1 DEF Contains
<1>5. i = 2
  <2>1. {j \in 1 .. Len(s) : s[j] = y} = {2}
    BY <1>1
  <2>2. Min({2}) = 2
    BY DEF Min
  <2> HIDE DEF s
  <2> QED BY <2>1, <2>2 DEF SelectInSeq
<1>6. ASSUME NEW to
      PROVE  Replaced(s, y, to) = SubSeq(s, 1, i - 1) \o to \o SubSeq(s, i + 1, Len(s))
  BY <1>4 DEF Replaced
<1> HIDE DEF s, i
<1>7. ASSUME NEW to PROVE Replaced(s, y, to) = <<x>> \o to \o <<z>>
  <2>1. SubSeq(s, 1, i - 1) = <<x>>
    BY <1>2, <1>5
  <2>2. SubSeq(s, i + 1, Len(s)) = <<z>>
    BY <1>1, <1>3, <1>5
  <2> QED BY <1>6, <2>1, <2>2
<1>8. <<x>> \o <<w>> \o <<z>> = <<x, w, z>>
  <2>1. <<x>> \o <<w>> = <<x, w>>
    BY OneAndOne
  <2>2. <<x, w>> \o <<z>> = <<x, w, z>>
    BY TwoAndOne
  <2> QED BY <2>1, <2>2
<1>9. <<x>> \o <<>> \o <<z>> = <<x, z>>
  <2>1. <<x>> \in Seq({x})
    OBVIOUS
  <2>2. <<x>> \o <<>> = <<x>>
    BY <2>1, ConcatEmptySeq
  <2> QED BY <2>2, OneAndOne
<1> QED BY <1>7, <1>8, <1>9 DEF s

(* Every exchange's name of a pair of the feeds leads back to the pair.    *)
LEMMA NamesLeadBack ==
  ASSUME exchange \in Exchanges, NEW pair \in Required
  PROVE  StandardizeSymbol(SymbolMapping(pair)) = pair
<1> DEFINE a == pair[1]
           c == pair[3]
<1>1. /\ pair = <<a, "/", c>>
      /\ a \notin {"/", "-", "_"} /\ c \notin {"/", "-", "_"} /\ c \in Quotes
  BY PairAssumption DEF Quotes
<1> HIDE DEF a, c
<1>2. /\ Replaced(pair, "/", <<"-">>) = <<a, "-", c>>
      /\ Replaced(pair, "/", <<"_">>) = <<a, "_", c>>
      /\ Replaced(pair, "/", <<>>) = <<a, c>>
  BY <1>1, MiddleReplaced
<1>3. CASE exchange = "kraken"
  <2>1. Contains(pair, "/")
    BY <1>1, MiddleContained
  <2> QED BY <1>3, <2>1
      DEF SymbolMapping, StandardizeSymbol, Separators, AddSlashToSymbol
<1>4. CASE exchange \in {"okx", "coinbase"}
  <2>1. Contains(<<a, "-", c>>, "-")
    BY MiddleContained
  <2>2. Replaced(<<a, "-", c>>, "-", <<"/">>) = pair
    BY <1>1, MiddleReplaced
  <2>3. Separators = {"-"} /\ (CHOOSE s \in Separators : TRUE) = "-"
    BY <1>4 DEF Separators
  <2> QED BY <1>2, <1>4, <2>1, <2>2, <2>3
      DEF SymbolMapping, StandardizeSymbol, OkxName, CoinbaseName
<1>5. CASE exchange = "cryptocom"
  <2>1. Contains(<<a, "_", c>>, "_")
    BY MiddleContained
  <2>2. Replaced(<<a, "_", c>>, "_", <<"/">>) = pair
    BY <1>1, MiddleReplaced
  <2>3. Separators = {"_"} /\ (CHOOSE s \in Separators : TRUE) = "_"
    BY <1>5 DEF Separators
  <2> QED BY <1>2, <1>5, <2>1, <2>2, <2>3
      DEF SymbolMapping, StandardizeSymbol, CryptocomName
<1>6. CASE exchange = "binance"
  <2> DEFINE name == <<a, c>>
  <2>1. Len(name) = 2 /\ name[1] = a /\ name[2] = c
    OBVIOUS
  <2>2. SubSeq(name, 1, 1) = <<a>>
    BY FirstOfTwo
  <2> HIDE DEF name
  <2>3. a # "/" /\ c # "/" /\ c \in Quotes
    BY <1>1
  <2>4. ~Contains(name, "/")
    <3>1. \A i \in 1 .. 2 : name[i] # "/"
      BY <2>1, <2>3
    <3> QED BY <2>1, <3>1 DEF Contains
  <2>5. Last(name) = c
    BY <2>1 DEF Last
  <2>6. Front(name) = <<a>>
    BY <2>1, <2>2 DEF Front
  <2>7. <<a>> \o <<"/", c>> = pair
    BY <1>1, OneAndTwo
  <2>8. AddSlashToSymbol(name) = pair
    BY <2>1, <2>4, <2>6, <2>7, <2>3, <2>5 DEF AddSlashToSymbol
  <2> QED BY <1>2, <1>6, <2>8
      DEF name, SymbolMapping, StandardizeSymbol, BinanceName, Separators
<1> QED BY <1>3, <1>4, <1>5, <1>6 DEF Exchanges

(* What is passed on of a message was made of a ticker of it that the      *)
(* adapter read, and found good enough.                                    *)
LEMMA ProcessedPrices ==
  ASSUME NEW tickers
  PROVE  /\ \A u \in Processed(tickers).prices :
              /\ GoodEnough(u)
              /\ \E i \in DOMAIN tickers :
                   Reads(tickers[i]) /\ u = NormalizePriceData(tickers[i])
         /\ Processed(tickers).fetched = {}
BY DEF Processed, Inspected, Reached

LEMMA HandledPrices ==
  ASSUME exchange \in Exchanges, NEW m
  PROVE  /\ \A u \in Handled(m).prices :
              /\ GoodEnough(u)
              /\ \E i \in DOMAIN m.tickers :
                   Reads(m.tickers[i]) /\ u = NormalizePriceData(m.tickers[i])
         /\ Handled(m).fetched = {}
<1> DEFINE one == [i \in {1} \cap DOMAIN m.tickers |-> m.tickers[i]]
<1>1. CASE exchange = "coinbase" /\ m.kind = "error"
  BY <1>1 DEF Handled, CoinbaseHandles, Nothing
<1>2. CASE exchange = "cryptocom"
  <2>1. Handled(m) = Processed(one)
    BY <1>2 DEF Handled, CryptocomHandles
  <2>2. \A i \in DOMAIN one : i \in DOMAIN m.tickers /\ one[i] = m.tickers[i]
    OBVIOUS
  <2> QED BY <2>1, <2>2, ProcessedPrices
<1>3. CASE exchange # "cryptocom" /\ ~(exchange = "coinbase" /\ m.kind = "error")
  <2>1. Handled(m) = Processed(m.tickers)
    BY <1>3 DEF Handled, KrakenHandles, OkxHandles, CoinbaseHandles, BinanceHandles,
                Exchanges
  <2> QED BY <2>1, ProcessedPrices
<1> QED BY <1>1, <1>2, <1>3

(* The tickers of a message are among those an exchange sends.             *)
LEMMA MessageTickers ==
  ASSUME NEW m \in Message
  PROVE  \A i \in DOMAIN m.tickers : /\ m.tickers[i] \in Tickers
                                     /\ m.kind = "tickers"
                                     /\ m.tickers[i] \in Range(m.tickers)
BY BatchAssumption DEF Message, BoundedSeq, SeqOf, Range

(* An update that is half a second late has lost half of its confidence to *)
(* that, and gets no more than a fifth back for its volume.                *)
LEMMA LateConfidence ==
  ASSUME NEW latency \in Int, NEW volume \in Int, NEW spread \in Int,
         latency >= 500, Confidence(latency, volume, spread) >= 500
  PROVE  spread <= 200
BY DEF Confidence, Lesser, Greater, MaxLatencyPenalty, MaxSpreadPenalty,
       MaxVolumeBonus

LEMMA LateUpdate ==
  ASSUME exchange \in Exchanges, NEW t \in Tickers,
         GoodEnough(NormalizePriceData(t)), NormalizePriceData(t).age >= 500
  PROVE  NormalizePriceData(t).spread <= 200
<1>1. t.volume \in Int /\ t.spread \in Int /\ t.age \in Int
      /\ ("book" \in t.missing => t.spread = 0)
  BY TickerAssumption DEF IsTicker
<1>2. StandardAge(t) \in Int
  BY <1>1 DEF StandardAge
<1>3. ASSUME NEW age, NEW latency, NEW volume, NEW spread,
             NormalizePriceData(t) = Update(t, age, latency, volume, spread)
      PROVE  /\ age >= 500
             /\ Confidence(latency, volume, spread) >= 500
             /\ NormalizePriceData(t).spread = t.spread
  BY <1>3 DEF Update, GoodEnough, MinConfidence
<1>4. CASE exchange \in {"kraken", "okx"}
  <2>1. NormalizePriceData(t) = Update(t, 0, 0, t.volume, t.spread)
    BY <1>4 DEF NormalizePriceData, KrakenUpdate, OkxUpdate
  <2> QED BY <1>3, <2>1
<1>5. CASE exchange = "coinbase"
  <2> DEFINE age == IF StandardAge(t) > MaxCoinbaseAge THEN 0 ELSE StandardAge(t)
             volume == IF "volume" \in t.missing THEN 0 ELSE t.volume
             spread == IF "book" \in t.missing THEN 0 ELSE t.spread
  <2>1. NormalizePriceData(t) = Update(t, age, age, volume, spread)
    BY <1>5 DEF NormalizePriceData, CoinbaseUpdate
  <2>2. age \in Int /\ volume \in Int /\ spread \in Int /\ spread = t.spread
    BY <1>1, <1>2
  <2> HIDE DEF age, volume, spread
  <2>3. /\ age >= 500 /\ Confidence(age, volume, spread) >= 500
        /\ NormalizePriceData(t).spread = t.spread
    BY <1>3, <2>1
  <2> QED BY <2>2, <2>3, LateConfidence
<1>6. CASE exchange \in {"cryptocom", "binance"}
  <2>1. NormalizePriceData(t) =
          Update(t, StandardAge(t), StandardAge(t), t.volume, t.spread)
    BY <1>6 DEF NormalizePriceData, CryptocomUpdate, BinanceUpdate
  <2>2. /\ StandardAge(t) >= 500
        /\ Confidence(StandardAge(t), t.volume, t.spread) >= 500
        /\ NormalizePriceData(t).spread = t.spread
    BY <1>3, <2>1
  <2> QED BY <1>1, <1>2, <2>2, LateConfidence
<1> QED BY <1>4, <1>5, <1>6 DEF Exchanges

(* What an event has passed on is unchanged, nothing, or the work on one   *)
(* message or one answer.                                                  *)
MarketInv ==
  /\ exchange \in Exchanges
  /\ subscriptions \subseteq {SymbolMapping(pair) : pair \in Required}
  /\ LatePricesAreTight
  /\ PricesAreAskedFor

(* The names of pairs are those of the adapter's exchange.                 *)
LEMMA NamesStay ==
  ASSUME NEW CONSTANT pair, exchange' = exchange
  PROVE  SymbolMapping(pair)' = SymbolMapping(pair)
BY DEF SymbolMapping

LEMMA SymbolsOfUpdates ==
  ASSUME exchange \in Exchanges, NEW t
  PROVE  NormalizePriceData(t).symbol = StandardizeSymbol(SymbolMapping(t.pair))
BY DEF Exchanges, NormalizePriceData, KrakenUpdate, OkxUpdate, CoinbaseUpdate,
       CryptocomUpdate, BinanceUpdate, Update

LEMMA SymbolsOfAnswers ==
  ASSUME exchange \in Exchanges, NEW t, NEW answer,
         NEW u \in FetchTickerREST(answer, t)
  PROVE  u.symbol = StandardizeSymbol(SymbolMapping(t.pair))
BY DEF Exchanges, FetchTickerREST, KrakenRest, OkxRest, CoinbaseRest,
       CryptocomRest, CryptocomUpdate, BinanceRest, Update

LEMMA NothingKeeps ==
  ASSUME MarketInv, exchange' = exchange,
         subscriptions' \subseteq {SymbolMapping(pair) : pair \in Required},
         out' = Nothing
  PROVE  MarketInv'
<1>1. \A pair \in Required : SymbolMapping(pair)' = SymbolMapping(pair)
  BY NamesStay
<1> QED BY <1>1 DEF MarketInv, LatePricesAreTight, PricesAreAskedFor, Nothing

LEMMA SubscribesKeeps ==
  ASSUME MarketInv, NEW pair \in Required, Subscribes(pair) \/ Unsubscribes(pair)
  PROVE  MarketInv'
BY NothingKeeps DEF MarketInv, Subscribes, Unsubscribes

LEMMA FetchesTickerKeeps ==
  ASSUME MarketInv, FetchesTicker
  PROVE  MarketInv'
<1>1. PICK t, answer :
        /\ t \in Tickers
        /\ t.pair \in Required
        /\ out' = [Nothing EXCEPT !.fetched = FetchTickerREST(answer, t)]
  BY DEF FetchesTicker
<1>2. exchange' = exchange /\ subscriptions' = subscriptions
  BY DEF FetchesTicker
<1>3. out'.prices = {} /\ out'.fetched = FetchTickerREST(answer, t)
  BY <1>1 DEF Nothing
<1>4. \A u \in out'.fetched : u.symbol \in Required
  BY <1>1, <1>3, SymbolsOfAnswers, NamesLeadBack DEF MarketInv
<1>5. \A pair \in Required : SymbolMapping(pair)' = SymbolMapping(pair)
  BY <1>2, NamesStay
<1> QED BY <1>2, <1>3, <1>4, <1>5 DEF MarketInv, LatePricesAreTight, PricesAreAskedFor

LEMMA MessageKeeps ==
  ASSUME MarketInv, MessageArrives
  PROVE  MarketInv'
<1>1. PICK m \in Message : Sent(m) /\ out' = Handled(m)
  BY DEF MessageArrives
<1>2. exchange' = exchange /\ subscriptions' = subscriptions
  BY DEF MessageArrives
<1>3. ASSUME NEW u \in out'.prices
      PROVE  /\ u.age >= 500 => u.spread <= 200
             /\ u.symbol \in Required
             /\ exchange = "binance" => SymbolMapping(u.symbol) \in subscriptions
  <2>1. PICK i \in DOMAIN m.tickers :
          Reads(m.tickers[i]) /\ u = NormalizePriceData(m.tickers[i])
    BY <1>1, <1>3, HandledPrices DEF MarketInv
  <2> DEFINE t == m.tickers[i]
  <2>2. t \in Tickers /\ m.kind = "tickers" /\ t \in Range(m.tickers)
    BY MessageTickers
  <2>3. GoodEnough(u)
    BY <1>1, <1>3, HandledPrices DEF MarketInv
  <2>4. u = NormalizePriceData(t) /\ Reads(t)
    BY <2>1
  <2>5. exchange # "binance" => t.pair \in Required
    BY <1>1, <2>2 DEF Sent
  <2> HIDE DEF t
  <2>6. u.age >= 500 => u.spread <= 200
    BY <2>2, <2>3, <2>4, LateUpdate DEF MarketInv
  <2>7. u.symbol = StandardizeSymbol(SymbolMapping(t.pair))
    BY <2>4, SymbolsOfUpdates DEF MarketInv
  <2>8. CASE exchange # "binance"
    BY <2>5, <2>6, <2>7, <2>8, NamesLeadBack DEF MarketInv
  <2>9. CASE exchange = "binance"
    <3>1. SymbolMapping(t.pair) \in subscriptions
      BY <2>4, <2>9 DEF Reads, BinanceReads, Wanted
    <3>2. PICK pair \in Required : SymbolMapping(t.pair) = SymbolMapping(pair)
      BY <3>1 DEF MarketInv
    <3>3. u.symbol = pair
      BY <2>7, <3>2, NamesLeadBack DEF MarketInv
    <3> QED BY <2>6, <3>1, <3>2, <3>3
  <2> QED BY <2>8, <2>9
<1>4. out'.fetched = {}
  BY <1>1, HandledPrices DEF MarketInv
<1>5. \A pair \in Required : SymbolMapping(pair)' = SymbolMapping(pair)
  BY <1>2, NamesStay
<1> QED BY <1>2, <1>3, <1>4, <1>5 DEF MarketInv, LatePricesAreTight, PricesAreAskedFor

LEMMA MarketInvHolds == MarketSpec => []MarketInv
<1>1. MarketInit => MarketInv
  BY DEF MarketInit, MarketInv, LatePricesAreTight, PricesAreAskedFor, Nothing
<1>2. MarketInv /\ [MarketNext]_mvars => MarketInv'
  <2> SUFFICES ASSUME MarketInv, [MarketNext]_mvars PROVE MarketInv'
    OBVIOUS
  <2>1. CASE Opens
    BY <2>1, NothingKeeps DEF Opens, MarketInv
  <2>2. CASE PingTimerFires
    BY <2>2, NothingKeeps DEF PingTimerFires, MarketInv
  <2>3. CASE PongTimerFires
    BY <2>3, NothingKeeps DEF PongTimerFires, MarketInv
  <2>4. CASE MessageArrives
    BY <2>4, MessageKeeps
  <2>5. CASE Closes
    BY <2>5, NothingKeeps DEF Closes, MarketInv
  <2>6. CASE FallsSilent
    BY <2>6, NothingKeeps DEF FallsSilent, MarketInv
  <2>7. CASE Tick
    BY <2>7, NothingKeeps DEF Tick, MarketInv
  <2>8. CASE \E pair \in Required : Subscribes(pair) \/ Unsubscribes(pair)
    BY <2>8, SubscribesKeeps
  <2>9. CASE FetchesTicker
    BY <2>9, FetchesTickerKeeps
  <2>10. CASE UNCHANGED mvars
    <3>1. \A pair \in Required : SymbolMapping(pair)' = SymbolMapping(pair)
      BY <2>10, NamesStay DEF mvars
    <3> QED BY <2>10, <3>1 DEF mvars, MarketInv, LatePricesAreTight, PricesAreAskedFor
  <2> QED BY <2>1, <2>2, <2>3, <2>4, <2>5, <2>6, <2>7, <2>8, <2>9, <2>10
          DEF MarketNext
<1> QED BY <1>1, <1>2, PTL DEF MarketSpec

(* However much is traded of it, no price that is half a second late or    *)
(* more gets to the consumers with a book wider than 2 % of the price:     *)
(* calculateConfidence's penalties and bonus against the data manager's    *)
(* threshold, whatever an exchange sends.                                  *)
THEOREM LatePricesNeedTightBooks == MarketSpec => []LatePricesAreTight
<1>1. MarketInv => LatePricesAreTight
  BY DEF MarketInv
<1> QED BY <1>1, MarketInvHolds, PTL

(* For any pairs of the feeds, and whatever else an exchange sends, every  *)
(* price carries the name of a feed, and what Binance's stream of all the  *)
(* tickers leads to is subscribed to: getSymbolMapping, isSubscribed and   *)
(* standardizeSymbol agree.                                                *)
THEOREM PricesAreOfFeeds == MarketSpec => []PricesAreAskedFor
<1>1. MarketInv => PricesAreAskedFor
  BY DEF MarketInv
<1> QED BY <1>1, MarketInvHolds, PTL
-----------------------------------------------------------------------------
(* The types of market data.                                               *)

(* A whole number of ticks.                                                *)
LEMMA TimeoutIsNat ==
  ASSUME exchange \in Exchanges
  PROVE  Timeout \in Nat /\ Long \in Nat /\ Long > 0
<1>1. Seconds[exchange] \in Nat \ {0}
  BY TimeAssumption
<1>2. Pings.timeout \in Nat
  BY DEF Pings, Exchanges, KrakenPings, OkxPings, CoinbasePings, StandardPings,
         BinancePings
<1>3. \A a \in Nat, b \in Nat \ {0} : a \div b \in Nat
  OBVIOUS
<1>4. Timeout \in Nat
  BY <1>1, <1>2, <1>3 DEF Timeout
<1> QED BY <1>4 DEF Long

LEMMA UpdateIsPriced ==
  ASSUME NEW t \in Tickers, NEW age \in Int, NEW latency \in Int,
         NEW volume \in Int, NEW spread \in Int
  PROVE  Update(t, age, latency, volume, spread).symbol \in Required
           => Update(t, age, latency, volume, spread) \in Priced
<1>1. t.price \in Nat /\ t.spread \in Int
  BY TickerAssumption DEF IsTicker
<1>2. Confidence(latency, volume, spread) \in 0 .. 1000
  BY DEF Confidence, Lesser, Greater, MaxLatencyPenalty, MaxSpreadPenalty,
         MaxVolumeBonus
<1> QED BY <1>1, <1>2 DEF Update, Priced

(* An update of the stream, and one by REST, is of its type.               *)
LEMMA NormalizedIsPriced ==
  ASSUME exchange \in Exchanges, NEW t \in Tickers,
         NormalizePriceData(t).symbol \in Required
  PROVE  NormalizePriceData(t) \in Priced
<1>1. t.volume \in Int /\ t.spread \in Int /\ t.age \in Int
  BY TickerAssumption DEF IsTicker
<1>2. StandardAge(t) \in Int
  BY <1>1 DEF StandardAge
<1>3. CASE exchange \in {"kraken", "okx"}
  <2>1. NormalizePriceData(t) = Update(t, 0, 0, t.volume, t.spread)
    BY <1>3 DEF NormalizePriceData, KrakenUpdate, OkxUpdate
  <2> QED BY <1>1, <2>1, UpdateIsPriced
<1>4. CASE exchange = "coinbase"
  <2> DEFINE age == IF StandardAge(t) > MaxCoinbaseAge THEN 0 ELSE StandardAge(t)
             volume == IF "volume" \in t.missing THEN 0 ELSE t.volume
             spread == IF "book" \in t.missing THEN 0 ELSE t.spread
  <2>1. NormalizePriceData(t) = Update(t, age, age, volume, spread)
    BY <1>4 DEF NormalizePriceData, CoinbaseUpdate
  <2>2. age \in Int /\ volume \in Int /\ spread \in Int
    BY <1>1, <1>2
  <2> HIDE DEF age, volume, spread
  <2> QED BY <2>1, <2>2, UpdateIsPriced
<1>5. CASE exchange \in {"cryptocom", "binance"}
  <2>1. NormalizePriceData(t) =
          Update(t, StandardAge(t), StandardAge(t), t.volume, t.spread)
    BY <1>5 DEF NormalizePriceData, CryptocomUpdate, BinanceUpdate
  <2> QED BY <1>1, <1>2, <2>1, UpdateIsPriced
<1> QED BY <1>3, <1>4, <1>5 DEF Exchanges

LEMMA AnswerIsPriced ==
  ASSUME exchange \in Exchanges, NEW t \in Tickers, NEW answer,
         NEW u \in FetchTickerREST(answer, t), u.symbol \in Required
  PROVE  u \in Priced
<1>1. t.volume \in Int /\ t.spread \in Int /\ t.age \in Int
  BY TickerAssumption DEF IsTicker
<1>2. StandardAge(t) \in Int
  BY <1>1 DEF StandardAge
<1>3. CASE exchange = "kraken"
  <2>1. u = Update(t, 0, 0, t.volume, t.spread)
    BY <1>3 DEF FetchTickerREST, KrakenRest
  <2> QED BY <1>1, <2>1, UpdateIsPriced
<1>4. CASE exchange \in {"okx", "binance"}
  <2>1. u = Update(t, t.age, 0, t.volume, t.spread)
    BY <1>4 DEF FetchTickerREST, OkxRest, BinanceRest
  <2> QED BY <1>1, <2>1, UpdateIsPriced
<1>5. CASE exchange = "coinbase"
  <2> DEFINE volume == IF "volume" \in t.missing THEN 0 ELSE t.volume
  <2>1. u = Update(t, StandardAge(t), 0, volume, 0)
    BY <1>5 DEF FetchTickerREST, CoinbaseRest
  <2>2. volume \in Int
    BY <1>1
  <2> HIDE DEF volume
  <2> QED BY <1>2, <2>1, <2>2, UpdateIsPriced
<1>6. CASE exchange = "cryptocom"
  <2>1. u = Update(t, StandardAge(t), StandardAge(t), t.volume, t.spread)
    BY <1>6 DEF FetchTickerREST, CryptocomRest, CryptocomUpdate
  <2> QED BY <1>1, <1>2, <2>1, UpdateIsPriced
<1> QED BY <1>3, <1>4, <1>5, <1>6 DEF Exchanges

(* The errors and the prices of one event.                                 *)
LEMMA HandledErrors ==
  ASSUME exchange \in Exchanges, NEW m
  PROVE  Handled(m).errors \subseteq {"validation", "parsing", "connection"}
<1>1. ASSUME NEW tickers
      PROVE  Processed(tickers).errors
               \subseteq {"validation", "parsing", "connection"}
  BY DEF Processed, Inspected, Classified
<1>2. CASE exchange = "coinbase" /\ m.kind = "error"
  BY <1>2 DEF Handled, CoinbaseHandles, Nothing, Classified
<1>3. CASE ~(exchange = "coinbase" /\ m.kind = "error")
  <2>1. \E tickers : Handled(m) = Processed(tickers)
    BY <1>3 DEF Handled, KrakenHandles, OkxHandles, CoinbaseHandles,
                CryptocomHandles, BinanceHandles, Exchanges
  <2> QED BY <1>1, <2>1
<1> QED BY <1>2, <1>3

LEMMA OutIsTyped ==
  ASSUME MarketInv, MarketInv', [MarketNext]_mvars,
         out.prices \cup out.fetched \subseteq Priced,
         out.errors \subseteq {"validation", "parsing", "connection"}
  PROVE  /\ out'.prices \cup out'.fetched \subseteq Priced
         /\ out'.errors \subseteq {"validation", "parsing", "connection"}
<1>1. CASE MessageArrives
  <2>1. PICK m \in Message : out' = Handled(m)
    BY <1>1 DEF MessageArrives
  <2>2. ASSUME NEW u \in out'.prices PROVE u \in Priced
    <3>1. PICK i \in DOMAIN m.tickers : u = NormalizePriceData(m.tickers[i])
      BY <2>1, <2>2, HandledPrices DEF MarketInv
    <3>2. m.tickers[i] \in Tickers
      BY MessageTickers
    <3>3. u.symbol \in Required
      BY <2>2 DEF MarketInv, PricesAreAskedFor
    <3> QED BY <3>1, <3>2, <3>3, NormalizedIsPriced DEF MarketInv
  <2>3. out'.fetched = {}
    BY <2>1, HandledPrices DEF MarketInv
  <2>4. out'.errors \subseteq {"validation", "parsing", "connection"}
    BY <2>1, HandledErrors DEF MarketInv
  <2> QED BY <2>2, <2>3, <2>4
<1>2. CASE FetchesTicker
  <2>1. PICK t, answer :
          /\ t \in Tickers /\ t.pair \in Required
          /\ out' = [Nothing EXCEPT !.fetched = FetchTickerREST(answer, t)]
    BY <1>2 DEF FetchesTicker
  <2>2. /\ out'.prices = {} /\ out'.errors = {}
        /\ out'.fetched = FetchTickerREST(answer, t)
    BY <2>1 DEF Nothing
  <2>3. \A u \in out'.fetched : u.symbol \in Required
    BY DEF MarketInv, PricesAreAskedFor
  <2>4. \A u \in out'.fetched : u \in Priced
    BY <2>1, <2>2, <2>3, AnswerIsPriced DEF MarketInv
  <2> QED BY <2>2, <2>4
<1>3. CASE out' = Nothing
  BY <1>3 DEF Nothing
<1>4. CASE out' = out
  BY <1>4
<1> QED BY <1>1, <1>2, <1>3, <1>4
        DEF MarketNext, mvars, Opens, PingTimerFires, PongTimerFires, Closes,
            FallsSilent, Tick, Subscribes, Unsubscribes

(* Ages grow up to Long, whatever becomes of the socket; a limit of time   *)
(* is that of the exchange, which stays the same.                          *)
LEMMA SocketIsTyped ==
  ASSUME exchange \in Exchanges, [MarketNext]_mvars,
         socket \in {"closed", "open", "closing"}, peer \in {"talks", "silent"},
         heard \in [pong : {Never} \cup 0 .. Long, message : 0 .. Long]
  PROVE  /\ exchange' = exchange
         /\ socket' \in {"closed", "open", "closing"}
         /\ peer' \in {"talks", "silent"}
         /\ heard' \in [pong : {Never} \cup 0 .. Long, message : 0 .. Long]
<1>1. Long \in Nat /\ Long > 0
  BY TimeoutIsNat
<1>2. CASE Tick
  <2>1. /\ DOMAIN heard = {"pong", "message"}
        /\ heard.pong \in {Never} \cup 0 .. Long /\ heard.message \in 0 .. Long
    OBVIOUS
  <2>2. heard' = [pong |-> heard'.pong, message |-> heard'.message]
    BY <1>2, <2>1 DEF Tick
  <2>3. heard'.pong \in {Never} \cup 0 .. Long /\ heard'.message \in 0 .. Long
    BY <1>1, <1>2, <2>1 DEF Tick, Lesser, Never
  <2> QED BY <1>2, <2>2, <2>3 DEF Tick
<1>3. CASE MessageArrives
  BY <1>1, <1>3 DEF MessageArrives, PongReceived
<1>4. CASE Opens \/ PingTimerFires
  BY <1>4 DEF Opens, PingTimerFires, SchedulePing
<1>5. CASE PongTimerFires \/ Closes \/ FallsSilent \/ FetchesTicker
  BY <1>5 DEF PongTimerFires, Closes, FallsSilent, FetchesTicker
<1>6. CASE \E pair \in Required : Subscribes(pair) \/ Unsubscribes(pair)
  BY <1>6 DEF Subscribes, Unsubscribes
<1>7. CASE UNCHANGED mvars
  BY <1>7 DEF mvars
<1> QED BY <1>2, <1>3, <1>4, <1>5, <1>6, <1>7 DEF MarketNext

(* The socket's state, the ages of what was heard, the subscriptions, the  *)
(* prices and the errors are of their types whatever an exchange sends.    *)
THEOREM MarketTypeCorrect == MarketSpec => []MarketTypeOK
<1>1. MarketInit => MarketTypeOK
  BY TimeoutIsNat DEF MarketInit, MarketTypeOK, Nothing
<1>2. MarketInv /\ MarketInv' /\ MarketTypeOK /\ [MarketNext]_mvars
        => MarketTypeOK'
  <2> SUFFICES ASSUME MarketInv, MarketInv', MarketTypeOK, [MarketNext]_mvars
               PROVE  MarketTypeOK'
    OBVIOUS
  <2>1. /\ exchange' = exchange
        /\ socket' \in {"closed", "open", "closing"}
        /\ peer' \in {"talks", "silent"}
        /\ heard' \in [pong : {Never} \cup 0 .. Long, message : 0 .. Long]
    BY SocketIsTyped DEF MarketTypeOK
  <2>2. /\ out'.prices \cup out'.fetched \subseteq Priced
        /\ out'.errors \subseteq {"validation", "parsing", "connection"}
    BY OutIsTyped DEF MarketTypeOK
  <2>3. Long' = Long
    BY <2>1 DEF Long, Timeout, Pings
  <2> QED BY <2>1, <2>2, <2>3 DEF MarketTypeOK, MarketInv
<1> QED BY <1>1, <1>2, MarketInvHolds, PTL DEF MarketSpec

=============================================================================
