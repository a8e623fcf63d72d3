--------------------------- MODULE CircuitBreaker ---------------------------
(***************************************************************************)
(* The circuit breakers of CircuitBreakerService, one per service id.      *)
(*                                                                         *)
(* The service is single threaded: every method, timer callback and        *)
(* continuation of an await runs to its end, so each is one action.  What  *)
(* interleaves are the requests in flight, the recovery timers, the        *)
(* periodic health check and the calls of other components.                *)
(*                                                                         *)
(* Time is relative: a circuit remembers how long ago things happened      *)
(* (saturating at MaxAge, beyond every bound the code compares with) and a *)
(* timer how long it still has to run, so behaviours are unbounded.  A     *)
(* timer may fire any time after it is due.  The three maps of the code    *)
(* (configs, stats, requestHistory) have the same keys, "registered"; the  *)
(* map circuits has its own, which are not always the same.                *)
(***************************************************************************)
EXTENDS Integers

CONSTANTS
  Services,          \* service ids
  Requests,          \* requests that can be in flight at once, per service
  Timers,            \* identities of pending timeouts, per service
  NoTimer,           \* no entry in the map circuitTimers
  FailureThreshold,  \* config.failureThreshold
  SuccessThreshold,  \* config.successThreshold
  RecoveryTimeout,   \* config.recoveryTimeout
  GracePeriod,       \* the 30000 ms after which an OPEN circuit is stuck
  StuckTimeout       \* the 60000 ms after which a HALF_OPEN circuit is stuck

ASSUME ThresholdAssumption == /\ FailureThreshold \in Nat \ {0}
                              /\ SuccessThreshold \in Nat \ {0}
ASSUME TimeAssumption == /\ RecoveryTimeout \in Nat
                         /\ GracePeriod \in Nat
                         /\ StuckTimeout \in Nat
ASSUME TimerAssumption == NoTimer \notin Timers

VARIABLES
  circuit,      \* [Services -> Circuit]
  running,      \* [Services -> SUBSET Requests]: operations being awaited
  monitoring,   \* the health check interval is running
  streak        \* history variable: results counted towards the next turn

vars == <<circuit, running, monitoring, streak>>

NotPending == -1      \* a timer that is not armed
Undefined  == -1      \* a time that was never recorded

\* Bounds: ages beyond every limit the code tests are not told apart.
MaxAge == RecoveryTimeout + GracePeriod + StuckTimeout + 1

States == {"absent", "closed", "open", "half_open"}

Circuit == [state      : States,                  \* circuits.get(id)
            registered : BOOLEAN,                 \* configs, stats have id
            failures   : 0 .. FailureThreshold,   \* stats.failureCount
            successes  : 0 .. SuccessThreshold,   \* stats.successCount
            sinceFailure : Undefined .. MaxAge,   \* stats.lastFailureTime
            sinceSuccess : Undefined .. MaxAge,   \* stats.lastSuccessTime
            uptime       : 0 .. MaxAge,           \* stats.uptime
            timer     : Timers \cup {NoTimer},    \* circuitTimers.get(id)
            remaining : [Timers -> NotPending .. RecoveryTimeout]]

-----------------------------------------------------------------------------

(* Counters stop at the last value that a comparison can tell apart.       *)
Bump(n, limit) == IF n < limit THEN n + 1 ELSE n

Older(age) == IF age = Undefined THEN age ELSE Bump(age, MaxAge)

(* `now - (time || 0)`: a time never recorded lies arbitrarily far back.   *)
Elapsed(age) == IF age = Undefined THEN MaxAge ELSE age

(* `lastSuccessTime || lastFailureTime || uptime`                          *)
SinceLastRequest(c) ==
  IF c.sinceSuccess # Undefined THEN c.sinceSuccess
  ELSE IF c.sinceFailure # Undefined THEN c.sinceFailure
  ELSE c.uptime

Pending(c, t) == c.remaining[t] # NotPending

(* clearTimeout(circuitTimers.get(id)): a handle whose timer has fired     *)
(* already is cleared in vain.                                             *)
Cancelled(c) ==
  [t \in Timers |-> IF t = c.timer THEN NotPending ELSE c.remaining[t]]

-----------------------------------------------------------------------------
(* The transitions, as functions of a circuit.                             *)

(* Mutant: no new timer while there is a handle, though its timer may have *)
(* fired.                                                                  *)
MutantToOpenOnce(c, t) ==
  IF c.registered /\ c.timer = NoTimer
  THEN [c EXCEPT !.state = "open", !.successes = 0, !.timer = t,
                 !.remaining[t] = RecoveryTimeout]
  ELSE [c EXCEPT !.state = "open", !.successes = 0]

(* A new timer takes the handle; the previous one keeps running.           *)
ToOpen(c, t) ==
  IF c.registered
  THEN [c EXCEPT !.state = "open", !.successes = 0, !.timer = t,
                 !.remaining[t] = RecoveryTimeout]
  ELSE [c EXCEPT !.state = "open"]

(* Mutant: what succeeded while the circuit was open counts as a probe.    *)
MutantToHalfOpen(c) ==
  IF c.registered
  THEN [c EXCEPT !.state = "half_open", !.failures = 0]
  ELSE [c EXCEPT !.state = "half_open"]

ToHalfOpen(c) ==
  IF c.registered
  THEN [c EXCEPT !.state = "half_open", !.successes = 0, !.failures = 0]
  ELSE [c EXCEPT !.state = "half_open"]

ToClosed(c) ==
  [c EXCEPT !.state = "closed",
            !.failures  = IF c.registered THEN 0 ELSE @,
            !.successes = IF c.registered THEN 0 ELSE @,
            !.timer = NoTimer,
            !.remaining = Cancelled(c)]

Reset(c) ==
  IF c.registered
  THEN [c EXCEPT !.failures = 0, !.successes = 0,
                 !.sinceFailure = Undefined, !.sinceSuccess = Undefined]
  ELSE c

RecordSuccess(c) ==
  LET d == [c EXCEPT !.successes = Bump(@, SuccessThreshold),
                     !.sinceSuccess = 0]
  IN  IF ~c.registered THEN c
      ELSE IF c.state = "half_open" /\ d.successes >= SuccessThreshold
           THEN ToClosed(d)
      ELSE IF c.state = "closed" THEN [d EXCEPT !.failures = 0]
      ELSE d

(* A failure that opens the circuit needs a timer.                         *)
FailureOpens(c) ==
  /\ c.registered
  /\ \/ c.state = "half_open"
     \/ c.state = "closed" /\ c.failures + 1 >= FailureThreshold

RecordFailure(c, t) ==
  LET d == [c EXCEPT !.failures = Bump(@, FailureThreshold),
                     !.sinceFailure = 0]
  IN  IF ~c.registered THEN c
      ELSE IF FailureOpens(c) THEN ToOpen(d, t)
      ELSE d

(* performCircuitHealthCheck, for one circuit.                             *)
Checked(c) ==
  IF ~c.registered THEN c
  ELSE IF c.state = "half_open" /\ SinceLastRequest(c) > StuckTimeout
       THEN ToClosed(Reset(c))
  ELSE IF c.state = "open"
          /\ Elapsed(c.sinceFailure) > RecoveryTimeout + GracePeriod
       THEN ToHalfOpen(c)
  ELSE c

-----------------------------------------------------------------------------
(* The history variable streak, which no code reads: in a half-open        *)
(* circuit the successes recorded since it became half-open, in a closed   *)
(* one the failures recorded in a row since it was last closed.  Results   *)
(* that arrive while the circuit is open count for nothing.                *)

Afresh(s) == [streak EXCEPT ![s] = 0]

Turned(s) ==
  IF circuit'[s].state = circuit[s].state THEN streak ELSE Afresh(s)

(* A result that counts in the given state, and ends the row in another.   *)
Counted(s, state, limit) ==
  IF circuit'[s].state = circuit[s].state /\ circuit[s].state = state
  THEN IF circuit[s].registered
       THEN [streak EXCEPT ![s] = Bump(@, limit)]
       ELSE streak
  ELSE Afresh(s)

-----------------------------------------------------------------------------
NoCircuit ==
  [state |-> "absent", registered |-> FALSE, failures |-> 0, successes |-> 0,
   sinceFailure |-> Undefined, sinceSuccess |-> Undefined, uptime |-> 0,
   timer |-> NoTimer, remaining |-> [t \in Timers |-> NotPending]]

Init ==
  /\ circuit = [s \in Services |-> NoCircuit]
  /\ running = [s \in Services |-> {}]
  /\ monitoring = TRUE
  /\ streak = [s \in Services |-> 0]

(* registerCircuit: fresh data, also over a circuit that exists; its       *)
(* timers are left alone.                                                  *)
RegisterCircuit(s) ==
  /\ circuit' = [circuit EXCEPT ![s] =
                   [NoCircuit EXCEPT !.state = "closed", !.registered = TRUE,
                                     !.timer = circuit[s].timer,
                                     !.remaining = circuit[s].remaining]]
  /\ streak' = Afresh(s)
  /\ UNCHANGED <<running, monitoring>>

UnregisterCircuit(s) ==
  /\ circuit' = [circuit EXCEPT ![s] =
                   [NoCircuit EXCEPT !.remaining = Cancelled(circuit[s])]]
  /\ streak' = Afresh(s)
  /\ UNCHANGED <<running, monitoring>>

OpenCircuit(s) ==
  /\ \E t \in Timers :
       /\ ~Pending(circuit[s], t)
       /\ circuit' = [circuit EXCEPT ![s] = ToOpen(@, t)]
  /\ streak' = Afresh(s)
  /\ UNCHANGED <<running, monitoring>>

CloseCircuit(s) ==
  /\ circuit' = [circuit EXCEPT ![s] = ToClosed(@)]
  /\ streak' = Afresh(s)
  /\ UNCHANGED <<running, monitoring>>

ResetStats(s) ==
  /\ circuit[s].registered
  /\ circuit' = [circuit EXCEPT ![s] = Reset(@)]
  /\ streak' = Afresh(s)
  /\ UNCHANGED <<running, monitoring>>

-----------------------------------------------------------------------------
(* execute, up to its await.                                               *)

Rejects(c) ==
  c.state = "open" /\ Elapsed(c.sinceFailure) < RecoveryTimeout

ExecuteRejected(s) ==
  /\ circuit[s].registered
  /\ Rejects(circuit[s])
  /\ circuit' = [circuit EXCEPT ![s] = RecordFailure(@, NoTimer)]
  /\ UNCHANGED <<running, monitoring, streak>>

ExecuteStarts(s, r) ==
  /\ circuit[s].registered
  /\ ~Rejects(circuit[s])
  /\ r \notin running[s]
  /\ circuit' = [circuit EXCEPT ![s] =
                   IF @.state = "open" THEN ToHalfOpen(@) ELSE @]
  /\ running' = [running EXCEPT ![s] = @ \cup {r}]
  /\ streak' = Turned(s)
  /\ UNCHANGED monitoring

(* execute, after its await: the result is judged by the state the circuit *)
(* is in now.                                                              *)
ExecuteSucceeds(s, r) ==
  /\ r \in running[s]
  /\ circuit' = [circuit EXCEPT ![s] = RecordSuccess(@)]
  /\ running' = [running EXCEPT ![s] = @ \ {r}]
  /\ streak' = Counted(s, "half_open", SuccessThreshold)
  /\ UNCHANGED monitoring

(* The operation was rejected, or config.timeout ran out first.            *)
ExecuteFails(s, r) ==
  /\ r \in running[s]
  /\ \E t \in Timers :
       /\ FailureOpens(circuit[s]) => ~Pending(circuit[s], t)
       /\ circuit' = [circuit EXCEPT ![s] = RecordFailure(@, t)]
  /\ running' = [running EXCEPT ![s] = @ \ {r}]
  /\ streak' = Counted(s, "closed", FailureThreshold)
  /\ UNCHANGED monitoring

-----------------------------------------------------------------------------
(* The callback of a recovery timer: it asks neither for the state of the  *)
(* circuit nor whether the timer is the one in circuitTimers.              *)
RecoveryTimerFires(s, t) ==
  /\ circuit[s].remaining[t] = 0
  /\ circuit' = [circuit EXCEPT ![s] =
                   [ToHalfOpen(@) EXCEPT !.remaining[t] = NotPending]]
  /\ streak' = Turned(s)
  /\ UNCHANGED <<running, monitoring>>

HealthCheck ==
  /\ monitoring
  /\ circuit' = [s \in Services |-> Checked(circuit[s])]
  /\ streak' = [s \in Services |-> Turned(s)[s]]
  /\ UNCHANGED <<running, monitoring>>

(* onModuleDestroy: performCleanup clears every managed timer, then        *)
(* cleanup() every map.  Requests in flight are not cancelled.             *)
Cleanup ==
  /\ monitoring
  /\ monitoring' = FALSE
  /\ circuit' = [s \in Services |-> NoCircuit]
  /\ streak' = [s \in Services |-> 0]
  /\ UNCHANGED running

Tick ==
  /\ circuit' =
       [s \in Services |->
          [circuit[s] EXCEPT
             !.sinceFailure = Older(@),
             !.sinceSuccess = Older(@),
             !.uptime = IF circuit[s].registered THEN Older(@) ELSE @,
             !.remaining = [t \in Timers |-> IF @[t] > 0 THEN @[t] - 1
                                                         ELSE @[t]]]]
  /\ UNCHANGED <<running, monitoring, streak>>

-----------------------------------------------------------------------------
Next ==
  \/ Tick
  \/ HealthCheck
  \/ Cleanup
  \/ \E s \in Services :
       \/ RegisterCircuit(s)
       \/ UnregisterCircuit(s)
       \/ OpenCircuit(s)
       \/ CloseCircuit(s)
       \/ ResetStats(s)
       \/ ExecuteRejected(s)
       \/ \E r \in Requests : \/ ExecuteStarts(s, r)
                              \/ ExecuteSucceeds(s, r)
                              \/ ExecuteFails(s, r)
       \/ \E t \in Timers : RecoveryTimerFires(s, t)

Spec == Init /\ [][Next]_vars

-----------------------------------------------------------------------------
(* Every circuit is a well-formed record of its service's maps.            *)
TypeOK ==
  /\ circuit \in [Services -> Circuit]
  /\ running \in [Services -> SUBSET Requests]
  /\ monitoring \in BOOLEAN
  /\ streak \in [Services -> 0 .. FailureThreshold + SuccessThreshold]

(* An open circuit never depends on a request or on the health check to be *)
(* probed again: the timer in circuitTimers is armed.  Rejected requests   *)
(* refresh lastFailureTime, so without it steady traffic would keep the    *)
(* circuit open for good (transitionToOpen, transitionToClosed,            *)
(* registerCircuit, unregisterCircuit, the timer callback).                *)
OpenWillRecover ==
  \A s \in Services :
    circuit[s].registered /\ circuit[s].state = "open" =>
      circuit[s].timer # NoTimer /\ Pending(circuit[s], circuit[s].timer)

(* A closed circuit has not reached its failure threshold, whatever mix of *)
(* late results, manual calls and stray timers led to it (recordFailure,   *)
(* transitionToClosed, transitionToHalfOpen).                              *)
ClosedBelowThreshold ==
  \A s \in Services :
    circuit[s].state = "closed" => circuit[s].failures < FailureThreshold

(* The results of requests turn a circuit only when they have earned it:   *)
(* one closes it only as the last of SuccessThreshold successes recorded   *)
(* while the circuit was half-open, and opens it only as a failure of a    *)
(* half-open circuit or the last of FailureThreshold failures in a row     *)
(* since it was closed.  Requests that began before a turn are still in    *)
(* flight after it: what they report while the circuit is open, or         *)
(* reported before a manual call, a re-registration or a stray timer       *)
(* turned it, is not counted (recordSuccess, recordFailure and the         *)
(* counters that transitionToOpen, -HalfOpen and -Closed reset).  Which    *)
(* requests are counted is not said: a success that began before the trip  *)
(* and is recorded in HALF_OPEN counts like that of a probe.               *)
TurnsAreEarned ==
  [][\A s \in Services :
       running'[s] # running[s] /\ circuit'[s].state # circuit[s].state =>
         /\ circuit'[s].state = "closed" =>
              /\ circuit[s].state = "half_open"
              /\ streak[s] + 1 >= SuccessThreshold
         /\ circuit'[s].state = "open" =>
              \/ circuit[s].state = "half_open"
              \/ /\ circuit[s].state = "closed"
                 /\ streak[s] + 1 >= FailureThreshold]_vars
=============================================================================
