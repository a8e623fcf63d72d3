------------------------------ MODULE Requests ------------------------------
(***************************************************************************)
(* The requests of the feed API, from the rate limiters to the answer, and *)
(* the errors of data sources that the integration service has handled:    *)
(* handleControllerOperation, executeWithRetry with its circuit and its    *)
(* fallback, the 30 seconds a request may take, and                        *)
(* executeWithStandardizedHandling, whose circuit stands twice around the  *)
(* operation.                                                              *)
(*                                                                         *)
(* What the operations compute is left to FeedValues: here they end with   *)
(* an error or without.  The circuits are those of CircuitBreaker without  *)
(* its times, so that an open one may let a request through at any time.   *)
(***************************************************************************)
EXTENDS RateLimiter

CONSTANTS
  Requests,          \* requests and error handlings under way at once
  MaxRetries,        \* retryConfig.maxRetries
  FailureThreshold,  \* of every circuit
  SuccessThreshold

ASSUME RetryAssumption ==
  MaxRetries \in Nat /\ {FailureThreshold, SuccessThreshold} \subseteq Nat \ {0}

VARIABLES
  request,       \* [Requests -> Request]
  circuit,       \* [Services -> Circuit]
  shuttingDown   \* isShuttingDown of the retry service

qvars == <<hits, request, circuit, shuttingDown>>

Services == {"external-api", "integration"}

Circuit == [state : {"closed", "open", "half_open"},
            failures : 0 .. FailureThreshold, successes : 0 .. SuccessThreshold]

(* What an attempt may fail with: a time-out, an error that is not worth a *)
(* retry, and those of an open circuit and of the shutdown.                *)
Errors == {"timeout", "failed", "rejected", "shutdown"}

(* isRetryableError, by the words of the message.                          *)
Retryable(error) == error \in {"timeout", "rejected"}

\* values: the current values; round: those of a voting round; source: an
\* error of a data source.
Kinds == {"values", "volumes", "round", "source"}
ServiceOf(kind) == IF kind = "source" THEN "integration" ELSE "external-api"

(* What an operation itself may fail with.  getOptimizedVolumes answers    *)
(* with empty volumes at once, as there are no others.                     *)
Failures(kind) == IF kind = "volumes" THEN {} ELSE {"timeout", "failed"}

Request == [kind : Kinds \cup {"none"},
            at : {"idle", "due", "running", "waiting", "direct", "stuck"},
            attempt : 0 .. MaxRetries + 1,
            answered : BOOLEAN]

Idle == [kind |-> "none", at |-> "idle", attempt |-> 0, answered |-> FALSE]

Closed == [state |-> "closed", failures |-> 0, successes |-> 0]

RequestsInit ==
  /\ RateLimiterInit
  /\ request = [r \in Requests |-> Idle]
  /\ circuit = [s \in Services |-> Closed]
  /\ shuttingDown = FALSE

-----------------------------------------------------------------------------
(* The circuit of an attempt.                                              *)

More(n, limit) == IF n < limit THEN n + 1 ELSE n
Tripped(c) == [c EXCEPT !.state = "open", !.successes = 0]

Failed(c) ==
  LET d == [c EXCEPT !.failures = More(@, FailureThreshold)]
  IN  IF \/ c.state = "half_open"
         \/ c.state = "closed" /\ d.failures >= FailureThreshold
      THEN Tripped(d) ELSE d

Succeeded(c) ==
  LET d == [c EXCEPT !.successes = More(@, SuccessThreshold)]
  IN  CASE c.state = "closed" -> [d EXCEPT !.failures = 0]
        [] c.state = "half_open" /\ d.successes >= SuccessThreshold -> Closed
        [] OTHER -> d

(* The recovery time of an open circuit is over, or it is not.             *)
Probed(c) == [Closed EXCEPT !.state = "half_open"]
LetThrough(c) == IF c.state = "open" THEN Probed(c) ELSE c

-----------------------------------------------------------------------------
(* Answers.                                                                *)

(* handleControllerOperation answers with the first of two: the end of the *)
(* operation, and the time limit of handleAsyncOperation.                  *)
Answered(job) == [job EXCEPT !.answered = TRUE]

Ended(job) == [Answered(job) EXCEPT !.at = "idle"]

(* The end of executeWithRetry.  executeExternalApiWithRetry of a          *)
(* controller runs the operation itself after any error; a source's error  *)
(* becomes a standardized error that nobody hears of.                      *)
GivenUp(job) ==
  IF job.kind = "source" THEN Idle ELSE [job EXCEPT !.at = "direct"]

(* The catch of an attempt.                                                *)
Caught(job, error) ==
  IF job.attempt = MaxRetries + 1 \/ shuttingDown \/ ~Retryable(error)
  THEN GivenUp(job)
  ELSE [job EXCEPT !.at = "waiting"]

-----------------------------------------------------------------------------
Attempting(kind) == [Idle EXCEPT !.kind = kind, !.at = "due", !.attempt = 1]

(* validateFeedRequest and the like answer at once.                        *)
Refused(kind) == Ended([Idle EXCEPT !.kind = kind])

(* Every value of a round may be in the cache, whose own executeWithRetry  *)
(* fails in a shutdown and has nothing to fall back to: an answer at once, *)
(* as that to a request refused.                                           *)
Begun(kind) ==
  {Refused(kind)} \cup (IF kind = "round" /\ shuttingDown
                        THEN {} ELSE {Attempting(kind)})

(* A request of a client reaches the guards, and maybe a controller.       *)
Arrives(c, kind) ==
  /\ hits' = Guarded(c, kind)
  /\ IF kind = "config" \/ ~Passes(c, kind)
     THEN UNCHANGED request
     ELSE \E r \in Requests, job \in Begun(kind) :
            /\ request[r].at = "idle"
            /\ request' = [request EXCEPT ![r] = job]
  /\ UNCHANGED <<circuit, shuttingDown>>

(* handleSourceError and the like.                                         *)
SourceFails ==
  /\ \E r \in Requests :
       /\ request[r].at = "idle"
       /\ request' = [request EXCEPT ![r] = Attempting("source")]
  /\ UNCHANGED <<hits, circuit, shuttingDown>>

-----------------------------------------------------------------------------
(* The attempts of executeWithRetry.                                       *)

Rejected(r, s) ==
  /\ circuit[s].state = "open"
  /\ circuit' = [circuit EXCEPT ![s] = Failed(@)]
  /\ request' = [request EXCEPT ![r] = Caught(@, "rejected")]

(* The operation only throws the error again, which the two circuits of    *)
(* one name count once each.                                               *)
ThrownAgain(r) ==
  \E error \in {"timeout", "failed"} :
    /\ circuit' = [circuit EXCEPT !["integration"] = Failed(Failed(LetThrough(@)))]
    /\ request' = [request EXCEPT ![r] = Caught(@, error)]

AttemptStarts(r) ==
  LET job == request[r]
      s == ServiceOf(job.kind)
  IN  /\ job.at = "due"
      /\ \/ /\ shuttingDown
            /\ request' = [request EXCEPT ![r] = Caught(@, "shutdown")]
            /\ UNCHANGED circuit
         \/ ~shuttingDown /\ Rejected(r, s)
         \/ /\ ~shuttingDown /\ job.kind = "source"
            /\ ThrownAgain(r)
         \/ /\ ~shuttingDown /\ job.kind # "source"
            /\ circuit' = [circuit EXCEPT ![s] = LetThrough(@)]
            /\ request' = [request EXCEPT ![r].at = "running"]
      /\ UNCHANGED <<hits, shuttingDown>>

AttemptSucceeds(r) ==
  /\ request[r].at = "running"
  /\ circuit' = [circuit EXCEPT !["external-api"] =
                   IF shuttingDown THEN @ ELSE Succeeded(@)]
  /\ request' = [request EXCEPT ![r] = Ended(@)]
  /\ UNCHANGED <<hits, shuttingDown>>

(* The circuit's own time limit ends an attempt at the latest.             *)
AttemptFails(r, error) ==
  /\ request[r].at = "running" /\ error \in Failures(request[r].kind)
  /\ circuit' = [circuit EXCEPT !["external-api"] =
                   IF shuttingDown THEN @ ELSE Failed(@)]
  /\ request' = [request EXCEPT ![r] = Caught(@, error)]
  /\ UNCHANGED <<hits, shuttingDown>>

RetryDue(r) ==
  /\ request[r].at = "waiting"
  /\ request' = [request EXCEPT ![r].at = "due", ![r].attempt = @ + 1]
  /\ UNCHANGED <<hits, circuit, shuttingDown>>

(* The operation without a circuit, with an error or without.              *)
DirectEnds(r) ==
  /\ request[r].at = "direct"
  /\ request' = [request EXCEPT ![r] = Ended(@)]
  /\ UNCHANGED <<hits, circuit, shuttingDown>>

(* Mutant: the time limit holds for what runs, not for what waits.         *)
MutantTimesOut(r) ==
  /\ request[r].at \in {"running", "direct"} /\ ~request[r].answered
  /\ request' = [request EXCEPT ![r] = Answered(@)]
  /\ UNCHANGED <<hits, circuit, shuttingDown>>

(* handleAsyncOperation's 30 seconds: the client has its answer, the work  *)
(* goes on.                                                                *)
TimesOut(r) ==
  /\ request[r].at # "idle" /\ request[r].kind # "source"
  /\ ~request[r].answered
  /\ request' = [request EXCEPT ![r] = Answered(@)]
  /\ UNCHANGED <<hits, circuit, shuttingDown>>

-----------------------------------------------------------------------------
(* The recovery timer, and the health check for stuck circuits.            *)
CircuitRecovers(s) ==
  /\ ~shuttingDown
  /\ \/ circuit[s].state = "open" /\ circuit' = [circuit EXCEPT ![s] = Probed(@)]
     \/ circuit[s].state = "half_open" /\ circuit' = [circuit EXCEPT ![s] = Closed]
  /\ UNCHANGED <<hits, request, shuttingDown>>

(* onModuleDestroy clears the managed timers, also of retries that wait,   *)
(* and tidies the limiter that is a provider once more.                    *)
Shutdown ==
  /\ ~shuttingDown
  /\ shuttingDown' = TRUE
  /\ RateLimiterCleanup("controller")
  /\ circuit' = [s \in Services |-> Closed]
  /\ request' = [r \in Requests |->
                   IF request[r].at = "waiting"
                   THEN [request[r] EXCEPT !.at = "stuck"] ELSE request[r]]

LimiterTidied(l) ==
  /\ l = "controller" => ~shuttingDown
  /\ RateLimiterCleanup(l)
  /\ UNCHANGED <<request, circuit, shuttingDown>>

Tick ==
  /\ hits' = Aged
  /\ UNCHANGED <<request, circuit, shuttingDown>>

-----------------------------------------------------------------------------
RequestsNext ==
  \/ Tick
  \/ Shutdown
  \/ SourceFails
  \/ \E c \in Clients, kind \in {"values", "volumes", "round", "config"} : Arrives(c, kind)
  \/ \E l \in Limiters : LimiterTidied(l)
  \/ \E s \in Services : CircuitRecovers(s)
  \/ \E r \in Requests :
       \/ AttemptStarts(r)
       \/ AttemptSucceeds(r)
       \/ RetryDue(r)
       \/ TimesOut(r)
       \/ \E error \in {"timeout", "failed"} : AttemptFails(r, error)
       \/ DirectEnds(r)

RequestsSpec == RequestsInit /\ [][RequestsNext]_qvars

(* Timers fire; attempts end by their time limit, and what runs without    *)
(* one, a lookup, ends (RequestsEnd of FeedValues).  Nothing is assumed of *)
(* clients and sources.                                                    *)
RequestsFairSpec ==
  /\ RequestsSpec
  /\ WF_qvars(Tick)
  /\ \A l \in Limiters : WF_qvars(LimiterTidied(l))
  /\ \A r \in Requests :
       /\ WF_qvars(AttemptStarts(r))
       /\ WF_qvars(AttemptSucceeds(r) \/ AttemptFails(r, "timeout"))
       /\ WF_qvars(RetryDue(r))
       /\ WF_qvars(TimesOut(r))
       /\ WF_qvars(DirectEnds(r))

-----------------------------------------------------------------------------
(* Hits, requests and circuits keep their types.                           *)
RequestsTypeOK ==
  /\ hits \in [Limiters -> [Clients -> Client]]
  /\ request \in [Requests -> Request]
  /\ circuit \in [Services -> Circuit]
  /\ shuttingDown \in BOOLEAN

(* Whatever is refused, forgotten or tidied up in between, no limiter lets *)
(* more requests of a client through in one window than its limit          *)
(* (checkRateLimit, recordRequest and cleanup, which prune one list by     *)
(* different ages).                                                        *)
AdmittedWithinLimit ==
  \A l \in Limiters, c \in Clients :
    Number(hits[l][c].admitted, 0 .. Window - 1) <= Limit[l]

(* Every request that passes the guards is answered, also when a shutdown  *)
(* has taken the timer its retry waits for.                                *)
EveryRequestIsAnswered ==
  \A r \in Requests :
    request[r].at # "idle" /\ request[r].kind # "source"
      ~> request[r].answered
=============================================================================
