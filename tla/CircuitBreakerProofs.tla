------------------------ MODULE CircuitBreakerProofs ------------------------
(***************************************************************************)
(* The safety properties of CircuitBreaker, for every set of services,     *)
(* requests and timers (finite or not) and every threshold and timeout.    *)
(*                                                                         *)
(* They follow from one property of a single circuit, CircuitOK, that      *)
(* every function on circuits the actions are built from preserves, and    *)
(* ResultsEarnTurns from EarnedInv, that the counters of a circuit never   *)
(* run ahead of the history variable streak.                               *)
(*                                                                         *)
(* The safety properties of Monitoring are at the end.                     *)
(***************************************************************************)
EXTENDS CircuitBreaker, Monitoring, TLAPS

(* What also holds in the middle of a handler.                             *)
WellFormed(c) == /\ c \in Circuit
                 /\ ~c.registered => c.failures = 0

Recovers(c) ==
  c.registered /\ c.state = "open" =>
    c.timer # NoTimer /\ Pending(c, c.timer)

BelowThreshold(c) == c.state = "closed" => c.failures < FailureThreshold

CircuitOK(c) == WellFormed(c) /\ Recovers(c) /\ BelowThreshold(c)

StreakValues == [Services -> 0 .. FailureThreshold + SuccessThreshold]

IInv == /\ TypeOK
        /\ \A s \in Services : CircuitOK(circuit[s])

-----------------------------------------------------------------------------
(* The values the functions below store belong to the fields' sets.        *)
LEMMA FieldFacts ==
  /\ 0 \in 0 .. FailureThreshold
  /\ 0 \in 0 .. SuccessThreshold
  /\ 0 \in Undefined .. MaxAge
  /\ Undefined \in Undefined .. MaxAge
  /\ "open" \in States /\ "half_open" \in States /\ "closed" \in States
  /\ RecoveryTimeout \in NotPending .. RecoveryTimeout
  /\ RecoveryTimeout # NotPending
BY ThresholdAssumption, TimeAssumption
   DEF Undefined, NotPending, MaxAge, States

LEMMA BumpFacts ==
  /\ \A n \in 0 .. FailureThreshold :
       Bump(n, FailureThreshold) \in 0 .. FailureThreshold
  /\ \A n \in 0 .. SuccessThreshold :
       Bump(n, SuccessThreshold) \in 0 .. SuccessThreshold
BY ThresholdAssumption DEF Bump

(* Arming a timer for an opening circuit keeps CircuitOK.                  *)
LEMMA ToOpenOK ==
  ASSUME NEW c, WellFormed(c), NEW t \in Timers
  PROVE  CircuitOK(ToOpen(c, t))
<1>1. CASE c.registered
  <2> DEFINE armed == [c.remaining EXCEPT ![t] = RecoveryTimeout]
             d == [c EXCEPT !.state = "open", !.successes = 0, !.timer = t,
                            !.remaining = armed]
  <2>1. /\ armed \in [Timers -> NotPending .. RecoveryTimeout]
        /\ armed[t] # NotPending
    BY FieldFacts DEF WellFormed, Circuit
  <2> HIDE DEF armed
  <2>2. d \in Circuit
    BY <2>1, FieldFacts DEF WellFormed, Circuit
  <2>3. /\ d.state = "open" /\ d.timer = t /\ d.remaining = armed
        /\ d.registered = c.registered /\ d.failures = c.failures
    BY DEF WellFormed, Circuit
  <2>4. CircuitOK(d)
    BY <2>1, <2>2, <2>3, TimerAssumption
       DEF CircuitOK, WellFormed, Recovers, BelowThreshold, Pending
  <2>5. ToOpen(c, t) = d
    BY <1>1 DEF ToOpen, armed
  <2> QED BY <2>4, <2>5
<1>2. CASE ~c.registered
  <2> DEFINE d == [c EXCEPT !.state = "open"]
  <2>1. d \in Circuit
    BY FieldFacts DEF WellFormed, Circuit
  <2>2. CircuitOK(d)
    BY <1>2, <2>1
       DEF CircuitOK, WellFormed, Recovers, BelowThreshold, Circuit
  <2> QED BY <1>2, <2>2 DEF ToOpen
<1> QED BY <1>1, <1>2

LEMMA ToHalfOpenOK ==
  ASSUME NEW c, WellFormed(c)
  PROVE  CircuitOK(ToHalfOpen(c))
<1> DEFINE d == ToHalfOpen(c)
<1>1. d \in Circuit
  BY FieldFacts DEF ToHalfOpen, WellFormed, Circuit
<1>2. /\ d.state = "half_open"
      /\ d.registered = c.registered
      /\ ~c.registered => d.failures = c.failures
  BY DEF ToHalfOpen, WellFormed, Circuit
<1> QED
  BY <1>1, <1>2 DEF CircuitOK, WellFormed, Recovers, BelowThreshold

LEMMA CancelledType ==
  ASSUME NEW c \in Circuit
  PROVE  Cancelled(c) \in [Timers -> NotPending .. RecoveryTimeout]
BY TimeAssumption DEF Cancelled, Circuit, NotPending

LEMMA ToClosedOK ==
  ASSUME NEW c, WellFormed(c)
  PROVE  CircuitOK(ToClosed(c)) /\ ToClosed(c).state = "closed"
<1> DEFINE d == ToClosed(c)
<1>1. /\ (IF c.registered THEN 0 ELSE c.failures) \in 0 .. FailureThreshold
      /\ (IF c.registered THEN 0 ELSE c.successes) \in 0 .. SuccessThreshold
      /\ Cancelled(c) \in [Timers -> NotPending .. RecoveryTimeout]
  BY FieldFacts, CancelledType DEF WellFormed, Circuit
<1>2. d \in Circuit
  BY <1>1, FieldFacts DEF ToClosed, WellFormed, Circuit
<1>3. /\ d.state = "closed"
      /\ d.registered = c.registered
      /\ d.failures = 0
  BY DEF ToClosed, WellFormed, Circuit
<1> QED
  BY <1>2, <1>3, ThresholdAssumption
     DEF CircuitOK, WellFormed, Recovers, BelowThreshold

LEMMA ResetOK ==
  ASSUME NEW c, CircuitOK(c)
  PROVE  CircuitOK(Reset(c))
<1>1. CASE c.registered
  <2> DEFINE d == Reset(c)
  <2>1. d \in Circuit
    BY <1>1, FieldFacts DEF Reset, CircuitOK, WellFormed, Circuit
  <2>2. /\ d.state = c.state /\ d.registered = c.registered
        /\ d.failures = 0
        /\ d.timer = c.timer /\ d.remaining = c.remaining
    BY <1>1 DEF Reset, CircuitOK, WellFormed, Circuit
  <2> QED
    BY <2>1, <2>2, ThresholdAssumption
       DEF CircuitOK, WellFormed, Recovers, BelowThreshold, Pending
<1>2. CASE ~c.registered
  BY <1>2 DEF Reset
<1> QED BY <1>1, <1>2

(* A success keeps CircuitOK and does not close an open circuit.           *)
LEMMA RecordSuccessOK ==
  ASSUME NEW c, CircuitOK(c)
  PROVE  /\ CircuitOK(RecordSuccess(c))
         /\ c.state = "open" => RecordSuccess(c).state = "open"
<1> DEFINE d == [c EXCEPT !.successes = Bump(@, SuccessThreshold),
                          !.sinceSuccess = 0]
           e == [d EXCEPT !.failures = 0]
<1>1. d \in Circuit /\ e \in Circuit
  BY FieldFacts, BumpFacts DEF CircuitOK, WellFormed, Circuit
<1>2. /\ d.state = c.state /\ d.registered = c.registered
      /\ d.failures = c.failures
      /\ d.timer = c.timer /\ d.remaining = c.remaining
      /\ e.state = c.state /\ e.registered = c.registered
      /\ e.failures = 0
      /\ e.timer = c.timer /\ e.remaining = c.remaining
  BY DEF CircuitOK, WellFormed, Circuit
<1>3. CircuitOK(d)
  BY <1>1, <1>2 DEF CircuitOK, WellFormed, Recovers, BelowThreshold, Pending
<1>4. CircuitOK(e)
  BY <1>1, <1>2, ThresholdAssumption
     DEF CircuitOK, WellFormed, Recovers, BelowThreshold, Pending
<1>5. CASE ~c.registered
  BY <1>5 DEF RecordSuccess
<1>6. CASE /\ c.registered
           /\ c.state = "half_open" /\ d.successes >= SuccessThreshold
  <2>1. RecordSuccess(c) = ToClosed(d)
    BY <1>6 DEF RecordSuccess
  <2> QED BY <2>1, <1>3, <1>6, ToClosedOK DEF CircuitOK
<1>7. CASE /\ c.registered
           /\ ~(c.state = "half_open" /\ d.successes >= SuccessThreshold)
  <2>1. RecordSuccess(c) = IF c.state = "closed" THEN e ELSE d
    BY <1>7 DEF RecordSuccess
  <2> QED BY <2>1, <1>2, <1>3, <1>4
<1> QED BY <1>5, <1>6, <1>7

(* A failure keeps CircuitOK and does not close an open circuit.           *)
LEMMA RecordFailureOK ==
  ASSUME NEW c, CircuitOK(c), NEW t, FailureOpens(c) => t \in Timers
  PROVE  /\ CircuitOK(RecordFailure(c, t))
         /\ c.state = "open" => RecordFailure(c, t).state = "open"
<1> DEFINE d == [c EXCEPT !.failures = Bump(@, FailureThreshold),
                          !.sinceFailure = 0]
<1>1. CASE ~c.registered
  BY <1>1 DEF RecordFailure
<1>2. CASE c.registered
  <2>1. d \in Circuit
    BY FieldFacts, BumpFacts DEF CircuitOK, WellFormed, Circuit
  <2>2. /\ d.state = c.state /\ d.registered = c.registered
        /\ d.failures = Bump(c.failures, FailureThreshold)
        /\ d.timer = c.timer /\ d.remaining = c.remaining
    BY DEF CircuitOK, WellFormed, Circuit
  <2>3. WellFormed(d)
    BY <1>2, <2>1, <2>2 DEF WellFormed
  <2>4. CASE FailureOpens(c)
    <3>1. RecordFailure(c, t) = ToOpen(d, t)
      BY <1>2, <2>4 DEF RecordFailure
    <3> QED BY <3>1, <2>3, <2>4, ToOpenOK DEF FailureOpens
  <2>5. CASE ~FailureOpens(c)
    <3>1. RecordFailure(c, t) = d
      BY <1>2, <2>5 DEF RecordFailure
    <3>2. c.failures \in 0 .. FailureThreshold
      BY DEF CircuitOK, WellFormed, Circuit
    <3>3. BelowThreshold(d)
      BY <1>2, <2>2, <2>5, <3>2, ThresholdAssumption
         DEF BelowThreshold, Bump, FailureOpens
    <3> QED
      BY <3>1, <3>3, <2>2, <2>3 DEF CircuitOK, Recovers, Pending
  <2> QED BY <2>4, <2>5
<1> QED BY <1>1, <1>2

LEMMA CheckedOK ==
  ASSUME NEW c, CircuitOK(c)
  PROVE  CircuitOK(Checked(c))
<1>1. CircuitOK(ToHalfOpen(c))
  BY ToHalfOpenOK DEF CircuitOK
<1>2. CircuitOK(ToClosed(Reset(c)))
  BY ResetOK, ToClosedOK DEF CircuitOK
<1> QED BY <1>1, <1>2 DEF Checked

LEMMA NoCircuitOK == CircuitOK(NoCircuit)
BY ThresholdAssumption, TimeAssumption
   DEF NoCircuit, CircuitOK, WellFormed, Recovers, BelowThreshold, Circuit,
       States, NotPending, Undefined, MaxAge

LEMMA TickOK ==
  ASSUME NEW c, CircuitOK(c)
  PROVE  CircuitOK([c EXCEPT
            !.sinceFailure = Older(@),
            !.sinceSuccess = Older(@),
            !.uptime = IF c.registered THEN Older(@) ELSE @,
            !.remaining = [t \in Timers |-> IF @[t] > 0 THEN @[t] - 1
                                                        ELSE @[t]]])
<1>1. \A a \in Undefined .. MaxAge : Older(a) \in Undefined .. MaxAge
  BY TimeAssumption DEF Older, Bump, Undefined, MaxAge
<1>2. \A a \in 0 .. MaxAge : Older(a) \in 0 .. MaxAge
  BY TimeAssumption DEF Older, Bump, Undefined, MaxAge
<1> DEFINE left == [t \in Timers |-> IF c.remaining[t] > 0
                                     THEN c.remaining[t] - 1
                                     ELSE c.remaining[t]]
<1>3. left \in [Timers -> NotPending .. RecoveryTimeout]
  BY TimeAssumption DEF CircuitOK, WellFormed, Circuit, NotPending
<1>4. \A t \in Timers : c.remaining[t] # NotPending => left[t] # NotPending
  BY TimeAssumption DEF CircuitOK, WellFormed, Circuit, NotPending
<1> HIDE DEF left
<1>5. CircuitOK([c EXCEPT
            !.sinceFailure = Older(@),
            !.sinceSuccess = Older(@),
            !.uptime = IF c.registered THEN Older(@) ELSE @,
            !.remaining = left])
  BY <1>1, <1>2, <1>3, <1>4, TimerAssumption
     DEF CircuitOK, WellFormed, Recovers, BelowThreshold, Circuit, Pending
<1> QED BY <1>5 DEF left

-----------------------------------------------------------------------------
(* The functions above, applied by the actions.                            *)

LEMMA InitInv == Init => IInv
<1> SUFFICES ASSUME Init PROVE IInv
  OBVIOUS
<1>1. TypeOK
  BY NoCircuitOK, ThresholdAssumption DEF Init, TypeOK, CircuitOK, WellFormed
<1> QED BY <1>1, NoCircuitOK DEF Init, IInv

(* One circuit changes, to one that is in order.                           *)
LEMMA OneCircuit ==
  ASSUME IInv, NEW s \in Services, NEW c, CircuitOK(c),
         circuit' = [circuit EXCEPT ![s] = c],
         running' \in [Services -> SUBSET Requests],
         monitoring' \in BOOLEAN,
         streak' \in StreakValues
  PROVE  IInv'
<1>1. circuit' \in [Services -> Circuit]
  BY DEF IInv, TypeOK, CircuitOK, WellFormed
<1>2. \A u \in Services : CircuitOK(circuit'[u])
  BY DEF IInv, TypeOK
<1> QED BY <1>1, <1>2 DEF IInv, TypeOK, StreakValues

(* Every circuit changes, to one that is in order.                         *)
LEMMA AllCircuits ==
  ASSUME NEW f, f = [s \in Services |-> f[s]],
         \A s \in Services : CircuitOK(f[s]),
         circuit' = f,
         running' \in [Services -> SUBSET Requests],
         monitoring' \in BOOLEAN,
         streak' \in StreakValues
  PROVE  IInv'
<1>1. circuit' \in [Services -> Circuit]
  BY DEF CircuitOK, WellFormed
<1>2. \A u \in Services : CircuitOK(circuit'[u])
  OBVIOUS
<1> QED BY <1>1, <1>2 DEF IInv, TypeOK, StreakValues

(* The history variable counts no further than the thresholds.             *)
LEMMA StreakType ==
  ASSUME IInv, [Next]_vars
  PROVE  streak' \in StreakValues
<1> DEFINE limits == 0 .. FailureThreshold + SuccessThreshold
<1>1. streak \in [Services -> limits] /\ 0 \in limits
  BY ThresholdAssumption DEF IInv, TypeOK
<1>2. \A n \in limits : /\ Bump(n, FailureThreshold) \in limits
                        /\ Bump(n, SuccessThreshold) \in limits
  BY ThresholdAssumption DEF Bump
<1> HIDE DEF limits
<1>3. \A s \in Services : /\ Afresh(s) \in [Services -> limits]
                          /\ Turned(s) \in [Services -> limits]
  BY <1>1 DEF Afresh, Turned
<1>4. \A s \in Services :
        /\ Counted(s, "half_open", SuccessThreshold) \in [Services -> limits]
        /\ Counted(s, "closed", FailureThreshold) \in [Services -> limits]
  BY <1>1, <1>2, <1>3 DEF Counted
<1>5. streak' \in [Services -> limits]
  BY <1>1, <1>3, <1>4
     DEF Next, vars, Tick, HealthCheck, Cleanup, RegisterCircuit,
         UnregisterCircuit, OpenCircuit, CloseCircuit, ResetStats,
         ExecuteRejected, ExecuteStarts, ExecuteSucceeds, ExecuteFails,
         RecoveryTimerFires
<1> QED BY <1>5 DEF StreakValues, limits

LEMMA StepInv == IInv /\ [Next]_vars => IInv'
<1> SUFFICES ASSUME IInv, [Next]_vars PROVE IInv'
  OBVIOUS
<1>1. /\ \A s \in Services : CircuitOK(circuit[s])
      /\ running \in [Services -> SUBSET Requests]
      /\ monitoring \in BOOLEAN
      /\ streak' \in StreakValues
  BY StreakType DEF IInv, TypeOK
<1>2. CASE Tick
  <2> DEFINE f == [s \in Services |->
                     [circuit[s] EXCEPT
                        !.sinceFailure = Older(@),
                        !.sinceSuccess = Older(@),
                        !.uptime = IF circuit[s].registered THEN Older(@)
                                                            ELSE @,
                        !.remaining = [t \in Timers |->
                                         IF @[t] > 0 THEN @[t] - 1
                                                     ELSE @[t]]]]
  <2>1. \A s \in Services : CircuitOK(f[s])
    BY <1>1, TickOK
  <2>2. circuit' = f /\ UNCHANGED <<running, monitoring>>
    BY <1>2 DEF Tick
  <2>3. f = [s \in Services |-> f[s]]
    OBVIOUS
  <2> HIDE DEF f
  <2> QED BY <2>1, <2>2, <2>3, <1>1, AllCircuits
<1>3. CASE HealthCheck
  <2> DEFINE f == [s \in Services |-> Checked(circuit[s])]
  <2>1. \A s \in Services : CircuitOK(f[s])
    BY <1>1, CheckedOK
  <2>2. f = [s \in Services |-> f[s]]
    OBVIOUS
  <2>3. circuit' = f /\ UNCHANGED <<running, monitoring>>
    BY <1>3 DEF HealthCheck
  <2> HIDE DEF f
  <2> QED BY <2>1, <2>2, <2>3, <1>1, AllCircuits
<1>4. CASE Cleanup
  <2> DEFINE f == [s \in Services |-> NoCircuit]
  <2>1. \A s \in Services : CircuitOK(f[s])
    BY NoCircuitOK
  <2>2. f = [s \in Services |-> f[s]]
    OBVIOUS
  <2>3. circuit' = f /\ running' = running /\ monitoring' \in BOOLEAN
    BY <1>4 DEF Cleanup
  <2> HIDE DEF f
  <2> QED BY <2>1, <2>2, <2>3, <1>1, AllCircuits
<1>5. ASSUME NEW s \in Services, RegisterCircuit(s) PROVE IInv'
  <2> DEFINE d == [NoCircuit EXCEPT !.state = "closed", !.registered = TRUE,
                                    !.timer = circuit[s].timer,
                                    !.remaining = circuit[s].remaining]
  <2>1. d \in Circuit /\ d.state = "closed" /\ d.failures = 0
    BY <1>1, NoCircuitOK, FieldFacts
       DEF NoCircuit, CircuitOK, WellFormed, Circuit
  <2>2. CircuitOK(d)
    BY <2>1, ThresholdAssumption
       DEF CircuitOK, WellFormed, Recovers, BelowThreshold
  <2> QED BY <2>2, <1>1, <1>5, OneCircuit DEF RegisterCircuit
<1>6. ASSUME NEW s \in Services, UnregisterCircuit(s) PROVE IInv'
  <2> DEFINE d == [NoCircuit EXCEPT !.remaining = Cancelled(circuit[s])]
  <2>1. d \in Circuit /\ d.state = "absent" /\ d.failures = 0
    BY <1>1, NoCircuitOK, CancelledType
       DEF NoCircuit, CircuitOK, WellFormed, Circuit
  <2>2. CircuitOK(d)
    BY <2>1 DEF CircuitOK, WellFormed, Recovers, BelowThreshold
  <2> QED BY <2>2, <1>1, <1>6, OneCircuit DEF UnregisterCircuit
<1>7. ASSUME NEW s \in Services, OpenCircuit(s) PROVE IInv'
  BY <1>1, <1>7, ToOpenOK, OneCircuit DEF OpenCircuit, CircuitOK
<1>8. ASSUME NEW s \in Services, CloseCircuit(s) PROVE IInv'
  BY <1>1, <1>8, ToClosedOK, OneCircuit DEF CloseCircuit, CircuitOK
<1>9. ASSUME NEW s \in Services, ResetStats(s) PROVE IInv'
  BY <1>1, <1>9, ResetOK, OneCircuit DEF ResetStats
<1>10. ASSUME NEW s \in Services, ExecuteRejected(s) PROVE IInv'
  <2>1. ~FailureOpens(circuit[s])
    BY <1>10 DEF ExecuteRejected, Rejects, FailureOpens
  <2> QED BY <2>1, <1>1, <1>10, RecordFailureOK, OneCircuit
             DEF ExecuteRejected
<1>11. ASSUME NEW s \in Services, NEW r \in Requests, ExecuteStarts(s, r)
       PROVE  IInv'
  BY <1>1, <1>11, ToHalfOpenOK, OneCircuit DEF ExecuteStarts, CircuitOK
<1>12. ASSUME NEW s \in Services, NEW r \in Requests, ExecuteSucceeds(s, r)
       PROVE  IInv'
  BY <1>1, <1>12, RecordSuccessOK, OneCircuit DEF ExecuteSucceeds
<1>13. ASSUME NEW s \in Services, NEW r \in Requests, ExecuteFails(s, r)
       PROVE  IInv'
  BY <1>1, <1>13, RecordFailureOK, OneCircuit DEF ExecuteFails
<1>14. ASSUME NEW s \in Services, NEW t \in Timers, RecoveryTimerFires(s, t)
       PROVE  IInv'
  <2> DEFINE c == ToHalfOpen(circuit[s])
             d == [c EXCEPT !.remaining[t] = NotPending]
  <2>1. CircuitOK(c) /\ c.state = "half_open"
    BY <1>1, ToHalfOpenOK DEF CircuitOK, WellFormed, Circuit, ToHalfOpen
  <2> HIDE DEF c
  <2>2. NotPending \in NotPending .. RecoveryTimeout
    BY TimeAssumption DEF NotPending
  <2>3. d \in Circuit
    BY <2>1, <2>2 DEF CircuitOK, WellFormed, Circuit
  <2>4. /\ d.state = "half_open" /\ d.registered = c.registered
        /\ d.failures = c.failures
    BY <2>1 DEF CircuitOK, WellFormed, Circuit
  <2>5. CircuitOK(d)
    BY <2>1, <2>3, <2>4 DEF CircuitOK, WellFormed, Recovers, BelowThreshold
  <2> QED BY <2>5, <1>1, <1>14, OneCircuit DEF RecoveryTimerFires, c
<1>15. CASE UNCHANGED vars
  BY <1>15 DEF IInv, TypeOK, vars
<1> QED
  BY <1>2, <1>3, <1>4, <1>5, <1>6, <1>7, <1>8, <1>9, <1>10, <1>11, <1>12,
     <1>13, <1>14, <1>15 DEF Next

LEMMA InvHolds == Spec => []IInv
BY InitInv, StepInv, PTL DEF Spec

-----------------------------------------------------------------------------
(* The maps and timers of the service are always well formed.              *)
THEOREM TypeCorrect == Spec => []TypeOK
<1>1. IInv => TypeOK
  BY DEF IInv
<1> QED BY <1>1, InvHolds, PTL

(* However calls, results and timers interleave, a registered circuit that *)
(* is open has its recovery timer armed.                                   *)
THEOREM OpenAlwaysRecovers == Spec => []OpenWillRecover
<1>1. IInv => OpenWillRecover
  BY DEF IInv, OpenWillRecover, CircuitOK, Recovers
<1> QED BY <1>1, InvHolds, PTL

(* A circuit that is closed is below its failure threshold: no failure     *)
(* that should have opened it was missed.                                  *)
THEOREM ClosedIsBelowThreshold == Spec => []ClosedBelowThreshold
<1>1. IInv => ClosedBelowThreshold
  BY DEF IInv, ClosedBelowThreshold, CircuitOK, BelowThreshold
<1> QED BY <1>1, InvHolds, PTL

-----------------------------------------------------------------------------
(* TurnsAreEarned: the counters never run ahead of the history.            *)

Earned(c, n) ==
  c.registered => /\ c.state = "half_open" => c.successes <= n
                  /\ c.state = "closed" => c.failures <= n

EarnedInv == \A s \in Services : Earned(circuit[s], streak[s])

(* What the transitions do to the fields that Earned speaks of.            *)
LEMMA TransitionFields ==
  ASSUME NEW c \in Circuit
  PROVE  /\ \A t : /\ ToOpen(c, t).state = "open"
                   /\ ToOpen(c, t).registered = c.registered
         /\ ToHalfOpen(c).state = "half_open"
         /\ ToHalfOpen(c).registered = c.registered
         /\ c.registered => /\ ToHalfOpen(c).successes = 0
                            /\ ToHalfOpen(c).failures = 0
         /\ ToClosed(c).state = "closed"
         /\ ToClosed(c).registered = c.registered
         /\ c.registered => ToClosed(c).failures = 0
BY DEF Circuit, ToOpen, ToHalfOpen, ToClosed

(* A circuit that a transition has just left is earned by any row.         *)
LEMMA AfterTransition ==
  ASSUME NEW c \in Circuit, NEW n \in Nat
  PROVE  /\ \A t : Earned(ToOpen(c, t), n)
         /\ Earned(ToHalfOpen(c), n)
         /\ Earned(ToClosed(c), n)
BY TransitionFields DEF Earned

LEMMA SuccessEarned ==
  ASSUME NEW c, CircuitOK(c), NEW n \in Nat, Earned(c, n)
  PROVE  LET d == RecordSuccess(c)
         IN  IF d.state = c.state
             THEN Earned(d, IF c.state # "half_open" THEN 0
                            ELSE IF c.registered
                                 THEN Bump(n, SuccessThreshold) ELSE n)
             ELSE /\ c.state = "half_open" /\ d.state = "closed"
                  /\ n + 1 >= SuccessThreshold
                  /\ Earned(d, 0)
<1> DEFINE d == [c EXCEPT !.successes = Bump(@, SuccessThreshold),
                          !.sinceSuccess = 0]
           e == [d EXCEPT !.failures = 0]
<1>1. /\ c \in Circuit /\ d \in Circuit
      /\ c.successes \in 0 .. SuccessThreshold
      /\ ~c.registered => c.failures = 0
  BY FieldFacts, BumpFacts DEF CircuitOK, WellFormed, Circuit
<1>2. /\ d.state = c.state /\ d.registered = c.registered
      /\ d.successes = Bump(c.successes, SuccessThreshold)
      /\ e.state = c.state /\ e.registered = c.registered
      /\ e.failures = 0
  BY <1>1 DEF Circuit
<1> HIDE DEF d, e
<1>3. CASE ~c.registered
  BY <1>1, <1>3 DEF RecordSuccess, Earned
<1>4. CASE c.registered /\ c.state = "half_open"
  <2>1. c.successes <= n
    BY <1>4 DEF Earned
  <2>2. CASE d.successes >= SuccessThreshold
    <3>1. RecordSuccess(c) = ToClosed(d)
      BY <1>4, <2>2 DEF RecordSuccess, d
    <3>2. n + 1 >= SuccessThreshold
      BY <1>1, <1>2, <2>1, <2>2, ThresholdAssumption DEF Bump
    <3> QED BY <1>1, <1>4, <3>1, <3>2, TransitionFields, AfterTransition
  <2>3. CASE ~(d.successes >= SuccessThreshold)
    <3>1. RecordSuccess(c) = d
      BY <1>4, <2>3 DEF RecordSuccess, d
    <3>2. d.successes <= Bump(n, SuccessThreshold)
      BY <1>1, <1>2, <2>1, <2>3, ThresholdAssumption DEF Bump
    <3> QED BY <1>2, <1>4, <3>1, <3>2 DEF Earned
  <2> QED BY <2>2, <2>3
<1>5. CASE c.registered /\ c.state = "closed"
  <2>1. RecordSuccess(c) = e
    BY <1>5 DEF RecordSuccess, d, e
  <2> QED BY <1>2, <1>5, <2>1 DEF Earned
<1>6. CASE c.registered /\ c.state \notin {"half_open", "closed"}
  <2>1. RecordSuccess(c) = d
    BY <1>6 DEF RecordSuccess, d
  <2> QED BY <1>2, <1>6, <2>1 DEF Earned
<1> QED BY <1>3, <1>4, <1>5, <1>6

LEMMA FailureEarned ==
  ASSUME NEW c, CircuitOK(c), NEW n \in Nat, Earned(c, n),
         NEW t, FailureOpens(c) => t \in Timers
  PROVE  LET d == RecordFailure(c, t)
         IN  IF d.state = c.state
             THEN Earned(d, IF c.state # "closed" THEN 0
                            ELSE IF c.registered
                                 THEN Bump(n, FailureThreshold) ELSE n)
             ELSE /\ d.state = "open"
                  /\ \/ c.state = "half_open"
                     \/ c.state = "closed" /\ n + 1 >= FailureThreshold
                  /\ Earned(d, 0)
<1> DEFINE d == [c EXCEPT !.failures = Bump(@, FailureThreshold),
                          !.sinceFailure = 0]
<1>1. /\ c \in Circuit /\ d \in Circuit
      /\ c.failures \in 0 .. FailureThreshold
  BY FieldFacts, BumpFacts DEF CircuitOK, WellFormed, Circuit
<1>2. /\ d.state = c.state /\ d.registered = c.registered
      /\ d.failures = Bump(c.failures, FailureThreshold)
  BY <1>1 DEF Circuit
<1> HIDE DEF d
<1>3. CASE ~c.registered
  BY <1>3 DEF RecordFailure, Earned
<1>4. CASE FailureOpens(c)
  <2>1. RecordFailure(c, t) = ToOpen(d, t)
    BY <1>4 DEF RecordFailure, FailureOpens, d
  <2>2. \/ c.state = "half_open"
        \/ c.state = "closed" /\ n + 1 >= FailureThreshold
    BY <1>1, <1>4, ThresholdAssumption DEF FailureOpens, Earned
  <2> QED BY <1>1, <2>1, <2>2, TransitionFields, AfterTransition
<1>5. CASE c.registered /\ ~FailureOpens(c)
  <2>1. RecordFailure(c, t) = d /\ c.state # "half_open"
    BY <1>5 DEF RecordFailure, FailureOpens, d
  <2>2. c.state = "closed" => d.failures <= Bump(n, FailureThreshold)
    BY <1>1, <1>2, <1>5, ThresholdAssumption DEF Bump, Earned, FailureOpens
  <2> QED BY <1>2, <1>5, <2>1, <2>2 DEF Earned
<1> QED BY <1>3, <1>4, <1>5

(* A step changes one circuit and its row.                                 *)
LEMMA OneEarned ==
  ASSUME TypeOK, EarnedInv, NEW s \in Services, NEW c, NEW n,
         circuit' = [circuit EXCEPT ![s] = c],
         streak' = [streak EXCEPT ![s] = n],
         Earned(c, n)
  PROVE  EarnedInv'
BY DEF TypeOK, EarnedInv

(* What one result does, as the actions of execute need it.                *)
LEMMA OneResult ==
  ASSUME IInv, EarnedInv, NEW s \in Services, NEW c,
         NEW state, NEW limit \in {FailureThreshold, SuccessThreshold},
         circuit' = [circuit EXCEPT ![s] = c],
         streak' = Counted(s, state, limit),
         IF c.state = circuit[s].state
         THEN Earned(c, IF c.state # state THEN 0
                        ELSE IF circuit[s].registered
                             THEN Bump(streak[s], limit) ELSE streak[s])
         ELSE Earned(c, 0)
  PROVE  EarnedInv'
<1>1. TypeOK
  BY DEF IInv
<1>2. circuit'[s] = c /\ streak = [streak EXCEPT ![s] = streak[s]]
  BY <1>1 DEF TypeOK
<1>3. CASE c.state = circuit[s].state /\ c.state = state
  <2>1. streak' = [streak EXCEPT ![s] = IF circuit[s].registered
                                        THEN Bump(streak[s], limit)
                                        ELSE streak[s]]
    BY <1>2, <1>3 DEF Counted
  <2> QED BY <1>1, <1>3, <2>1, OneEarned
<1>4. CASE ~(c.state = circuit[s].state /\ c.state = state)
  <2>1. streak' = [streak EXCEPT ![s] = 0]
    BY <1>2, <1>4 DEF Counted, Afresh
  <2> QED BY <1>1, <1>4, <2>1, OneEarned
<1> QED BY <1>3, <1>4

LEMMA EarnedInit == Init => EarnedInv
BY DEF Init, EarnedInv, Earned, NoCircuit

LEMMA EarnedStep == IInv /\ EarnedInv /\ [Next]_vars => EarnedInv'
<1> SUFFICES ASSUME IInv, EarnedInv, [Next]_vars PROVE EarnedInv'
  OBVIOUS
<1>1. /\ TypeOK
      /\ \A s \in Services : /\ CircuitOK(circuit[s])
                             /\ circuit[s] \in Circuit
                             /\ Earned(circuit[s], streak[s])
                             /\ streak[s] \in Nat
  BY ThresholdAssumption DEF IInv, TypeOK, EarnedInv
<1>2. 0 \in Nat
  OBVIOUS
<1>3. CASE Tick
  <2>1. \A s \in Services : /\ circuit'[s].registered = circuit[s].registered
                            /\ circuit'[s].state = circuit[s].state
                            /\ circuit'[s].successes = circuit[s].successes
                            /\ circuit'[s].failures = circuit[s].failures
                            /\ streak'[s] = streak[s]
    BY <1>1, <1>3 DEF Tick, Circuit
  <2> QED BY <1>1, <2>1 DEF EarnedInv, Earned
<1>4. CASE HealthCheck
  <2> SUFFICES ASSUME NEW s \in Services
               PROVE  Earned(circuit'[s], streak'[s])
    BY DEF EarnedInv
  <2>1. /\ circuit'[s] = Checked(circuit[s])
        /\ streak'[s] = Turned(s)[s]
    BY <1>4 DEF HealthCheck
  <2>2. streak'[s] = IF circuit'[s].state = circuit[s].state
                     THEN streak[s] ELSE 0
    BY <1>1, <2>1 DEF Turned, Afresh, TypeOK
  <2>3. CircuitOK(Reset(circuit[s])) /\ Reset(circuit[s]) \in Circuit
    BY <1>1, ResetOK DEF CircuitOK, WellFormed
  <2>4. \/ circuit'[s] = circuit[s]
        \/ circuit'[s] = ToHalfOpen(circuit[s])
        \/ circuit'[s] = ToClosed(Reset(circuit[s]))
    BY <2>1 DEF Checked
  <2>5. streak'[s] \in Nat
    BY <1>1, <2>2
  <2> QED BY <1>1, <2>2, <2>3, <2>4, <2>5, AfterTransition
<1>5. CASE Cleanup
  BY <1>5 DEF Cleanup, NoCircuit, EarnedInv, Earned
<1>6. ASSUME NEW s \in Services, RegisterCircuit(s) PROVE EarnedInv'
  <2> DEFINE d == [NoCircuit EXCEPT !.state = "closed", !.registered = TRUE,
                                    !.timer = circuit[s].timer,
                                    !.remaining = circuit[s].remaining]
  <2>1. Earned(d, 0)
    BY DEF NoCircuit, Earned
  <2> HIDE DEF d
  <2>2. circuit' = [circuit EXCEPT ![s] = d]
    BY <1>6 DEF RegisterCircuit, d
  <2>3. streak' = [streak EXCEPT ![s] = 0]
    BY <1>6 DEF RegisterCircuit, Afresh
  <2> QED BY <1>1, <2>1, <2>2, <2>3, OneEarned
<1>7. ASSUME NEW s \in Services, UnregisterCircuit(s) PROVE EarnedInv'
  <2> DEFINE d == [NoCircuit EXCEPT !.remaining = Cancelled(circuit[s])]
  <2>1. Earned(d, 0)
    BY DEF NoCircuit, Earned
  <2> HIDE DEF d
  <2>2. circuit' = [circuit EXCEPT ![s] = d]
    BY <1>7 DEF UnregisterCircuit, d
  <2>3. streak' = [streak EXCEPT ![s] = 0]
    BY <1>7 DEF UnregisterCircuit, Afresh
  <2> QED BY <1>1, <2>1, <2>2, <2>3, OneEarned
<1>8. ASSUME NEW s \in Services, OpenCircuit(s) PROVE EarnedInv'
  BY <1>1, <1>2, <1>8, AfterTransition, OneEarned DEF OpenCircuit, Afresh
<1>9. ASSUME NEW s \in Services, CloseCircuit(s) PROVE EarnedInv'
  BY <1>1, <1>2, <1>9, AfterTransition, OneEarned DEF CloseCircuit, Afresh
<1>10. ASSUME NEW s \in Services, ResetStats(s) PROVE EarnedInv'
  <2>1. Earned(Reset(circuit[s]), 0)
    BY <1>1, <1>10 DEF ResetStats, Reset, Earned, Circuit
  <2> QED BY <1>1, <1>10, <2>1, OneEarned DEF ResetStats, Afresh
<1>11. ASSUME NEW s \in Services, ExecuteRejected(s) PROVE EarnedInv'
  <2> DEFINE c == circuit[s]
             d == RecordFailure(c, NoTimer)
  <2>1. c.state = "open" /\ ~FailureOpens(c)
    BY <1>11 DEF ExecuteRejected, Rejects, FailureOpens
  <2>2. d.state = "open"
    BY <1>1, <2>1, RecordFailureOK
  <2>3. Earned(d, streak[s])
    BY <2>2 DEF Earned
  <2> HIDE DEF d
  <2>4. circuit' = [circuit EXCEPT ![s] = d]
    BY <1>11 DEF ExecuteRejected, d
  <2>5. streak' = [streak EXCEPT ![s] = streak[s]]
    BY <1>1, <1>11 DEF ExecuteRejected, TypeOK
  <2> QED BY <1>1, <2>3, <2>4, <2>5, OneEarned
<1>12. ASSUME NEW s \in Services, NEW r \in Requests, ExecuteStarts(s, r)
       PROVE  EarnedInv'
  <2> DEFINE c == circuit[s]
             d == IF c.state = "open" THEN ToHalfOpen(c) ELSE c
             n == IF c.state = "open" THEN 0 ELSE streak[s]
  <2>1. Earned(d, n)
    BY <1>1, <1>2, AfterTransition
  <2>2. (d.state = c.state) <=> (c.state # "open")
    BY <1>1, TransitionFields
  <2> HIDE DEF d
  <2>3. circuit' = [circuit EXCEPT ![s] = d] /\ circuit'[s] = d
    BY <1>1, <1>12 DEF ExecuteStarts, d, TypeOK
  <2>4. streak' = [streak EXCEPT ![s] = n]
    BY <1>1, <1>12, <2>2, <2>3 DEF ExecuteStarts, Turned, Afresh, TypeOK
  <2> HIDE DEF n
  <2> QED BY <1>1, <2>1, <2>3, <2>4, OneEarned
<1>13. ASSUME NEW s \in Services, NEW r \in Requests, ExecuteSucceeds(s, r)
       PROVE  EarnedInv'
  <2> DEFINE c == RecordSuccess(circuit[s])
  <2>1. IF c.state = circuit[s].state
        THEN Earned(c, IF c.state # "half_open" THEN 0
                       ELSE IF circuit[s].registered
                            THEN Bump(streak[s], SuccessThreshold)
                            ELSE streak[s])
        ELSE Earned(c, 0)
    BY <1>1, SuccessEarned
  <2> HIDE DEF c
  <2>2. /\ circuit' = [circuit EXCEPT ![s] = c]
        /\ streak' = Counted(s, "half_open", SuccessThreshold)
    BY <1>13 DEF ExecuteSucceeds, c
  <2> QED BY <2>1, <2>2, OneResult
<1>14. ASSUME NEW s \in Services, NEW r \in Requests, ExecuteFails(s, r)
       PROVE  EarnedInv'
  <2>1. PICK t \in Timers : circuit' = [circuit EXCEPT ![s] = RecordFailure(@, t)]
    BY <1>14 DEF ExecuteFails
  <2> DEFINE c == RecordFailure(circuit[s], t)
  <2>2. IF c.state = circuit[s].state
        THEN Earned(c, IF c.state # "closed" THEN 0
                       ELSE IF circuit[s].registered
                            THEN Bump(streak[s], FailureThreshold)
                            ELSE streak[s])
        ELSE Earned(c, 0)
    BY <1>1, FailureEarned
  <2> HIDE DEF c
  <2>3. /\ circuit' = [circuit EXCEPT ![s] = c]
        /\ streak' = Counted(s, "closed", FailureThreshold)
    BY <1>14, <2>1 DEF ExecuteFails, c
  <2> QED BY <2>2, <2>3, OneResult
<1>15. ASSUME NEW s \in Services, NEW t \in Timers, RecoveryTimerFires(s, t)
       PROVE  EarnedInv'
  <2> DEFINE c == ToHalfOpen(circuit[s])
             d == [c EXCEPT !.remaining[t] = NotPending]
             n == IF d.state = circuit[s].state THEN streak[s] ELSE 0
  <2>1. c \in Circuit
    BY <1>1, ToHalfOpenOK DEF CircuitOK, WellFormed
  <2>2. Earned(c, n)
    BY <1>1, AfterTransition
  <2> HIDE DEF c
  <2>3. /\ d.state = c.state /\ d.registered = c.registered
        /\ d.successes = c.successes /\ d.failures = c.failures
    BY <2>1 DEF Circuit
  <2>4. Earned(d, n)
    BY <2>2, <2>3 DEF Earned
  <2> HIDE DEF d
  <2>5. circuit' = [circuit EXCEPT ![s] = d] /\ circuit'[s] = d
    BY <1>1, <1>15 DEF RecoveryTimerFires, c, d, TypeOK
  <2>6. streak' = [streak EXCEPT ![s] = n]
    BY <1>1, <1>15, <2>5 DEF RecoveryTimerFires, Turned, Afresh, TypeOK
  <2> HIDE DEF n
  <2> QED BY <1>1, <2>4, <2>5, <2>6, OneEarned
<1>16. CASE UNCHANGED vars
  BY <1>16 DEF vars, EarnedInv
<1> QED
  BY <1>3, <1>4, <1>5, <1>6, <1>7, <1>8, <1>9, <1>10, <1>11, <1>12,
     <1>13, <1>14, <1>15, <1>16 DEF Next

(* However requests that began before a turn report after it, the results  *)
(* of requests close a circuit only after SuccessThreshold successes       *)
(* recorded since it became half-open, and open it only on a failure while *)
(* half-open or FailureThreshold failures in a row since it was closed.    *)
THEOREM ResultsEarnTurns == Spec => TurnsAreEarned
<1> DEFINE A == \A s \in Services :
                  running'[s] # running[s] /\ circuit'[s].state # circuit[s].state =>
                    /\ circuit'[s].state = "closed" =>
                         /\ circuit[s].state = "half_open"
                         /\ streak[s] + 1 >= SuccessThreshold
                    /\ circuit'[s].state = "open" =>
                         \/ circuit[s].state = "half_open"
                         \/ /\ circuit[s].state = "closed"
                            /\ streak[s] + 1 >= FailureThreshold
<1>1. IInv /\ EarnedInv /\ [Next]_vars => [A]_vars
  <2> SUFFICES ASSUME IInv, EarnedInv, Next,
                      NEW s \in Services,
                      running'[s] # running[s],
                      circuit'[s].state # circuit[s].state
               PROVE  /\ circuit'[s].state = "closed" =>
                           /\ circuit[s].state = "half_open"
                           /\ streak[s] + 1 >= SuccessThreshold
                      /\ circuit'[s].state = "open" =>
                           \/ circuit[s].state = "half_open"
                           \/ /\ circuit[s].state = "closed"
                              /\ streak[s] + 1 >= FailureThreshold
    BY DEF vars
  <2>1. /\ CircuitOK(circuit[s]) /\ circuit[s] \in Circuit
        /\ Earned(circuit[s], streak[s])
        /\ streak[s] \in Nat
    BY ThresholdAssumption DEF IInv, TypeOK, EarnedInv
  <2>2. PICK u \in Services, r \in Requests :
          ExecuteStarts(u, r) \/ ExecuteSucceeds(u, r) \/ ExecuteFails(u, r)
    BY DEF Next, Tick, HealthCheck, Cleanup, RegisterCircuit,
           UnregisterCircuit, OpenCircuit, CloseCircuit, ResetStats,
           ExecuteRejected, RecoveryTimerFires
  <2>3. u = s /\ circuit \in [Services -> Circuit]
    BY <2>2 DEF IInv, TypeOK, ExecuteStarts, ExecuteSucceeds, ExecuteFails
  <2>4. CASE ExecuteStarts(u, r)
    <3>1. circuit'[s] = ToHalfOpen(circuit[s])
      BY <2>3, <2>4 DEF ExecuteStarts
    <3> QED BY <2>1, <3>1, TransitionFields
  <2>5. CASE ExecuteSucceeds(u, r)
    <3>1. circuit'[s] = RecordSuccess(circuit[s])
      BY <2>3, <2>5 DEF ExecuteSucceeds
    <3> QED BY <2>1, <3>1, SuccessEarned
  <2>6. CASE ExecuteFails(u, r)
    <3>1. PICK t \in Timers : circuit'[s] = RecordFailure(circuit[s], t)
      BY <2>3, <2>6 DEF ExecuteFails
    <3> QED BY <2>1, <3>1, FailureEarned
  <2> QED BY <2>2, <2>4, <2>5, <2>6
<1>2. Spec => [][A]_vars
  BY <1>1, InitInv, StepInv, EarnedInit, EarnedStep, PTL DEF Spec
<1> QED BY <1>2 DEF TurnsAreEarned

-----------------------------------------------------------------------------
(* Monitoring, for every finite set of sources, retention and interval of  *)
(* the cleanups.                                                           *)

MonitoringTypeOK ==
  /\ timers \in [check : BOOLEAN, daily : 0 .. Day, cleanup : SUBSET (0 .. Batch)]
  /\ \A t, u \in timers.cleanup : t = u
  /\ alerts \in SUBSET Nat
  /\ active \in [Kinds -> SUBSET Nat]
  /\ bad \in 0 .. 2

(* An alert that is as old as this now is deleted within its limit: by the *)
(* cleanup that is scheduled, or by the one the next day schedules.        *)
Expires(a) ==
  IF timers.cleanup = {} THEN a + timers.daily <= Retention + Day
  ELSE \A t \in timers.cleanup : a + t <= Retention + Day + Batch

(* Alerts of the unhealthy system keep up with bad, one health check       *)
(* behind.                                                                 *)
KeepsUp ==
  /\ bad > 0 => Judged(status) = "unhealthy"
  /\ bad > 0 /\ ~timers.check => 0 \in active["system_unhealthy"]
  /\ bad = 2 => \E a \in active["system_unhealthy"] : a <= 1

MonitoringInv == /\ MonitoringTypeOK
                 /\ \A a \in alerts : Expires(a)
                 /\ \A k \in Kinds : \A a \in active[k] : Expires(a)
                 /\ KeepsUp

(* A new alert expires in time.                                            *)
LEMMA NewAlertExpires ==
  ASSUME MonitoringTypeOK
  PROVE  Expires(0)
BY MonitoringAssumption DEF MonitoringTypeOK, Expires

(* What Sent does: no alert but new ones, which replace those of their     *)
(* kinds.                                                                  *)
LEMMA SentFacts ==
  ASSUME MonitoringInv, NEW kinds \in SUBSET Kinds, Sent(kinds),
         timers'.daily = timers.daily, timers'.cleanup = timers.cleanup
  PROVE  /\ alerts' \in SUBSET Nat
         /\ active' \in [Kinds -> SUBSET Nat]
         /\ \A a \in alerts' : Expires(a)'
         /\ \A k \in Kinds : \A a \in active'[k] : Expires(a)'
         /\ \A k \in kinds : active'[k] = {0}
         /\ \A k \in Kinds \ kinds : active'[k] = active[k]
<1>1. Expires(0)
  BY NewAlertExpires DEF MonitoringInv
<1> QED
  BY <1>1 DEF MonitoringInv, MonitoringTypeOK, Sent, Expires

LEMMA MonitoringInitInv == MonitoringInit => MonitoringInv
<1> SUFFICES ASSUME MonitoringInit PROVE MonitoringInv
  OBVIOUS
<1>1. MonitoringTypeOK
  BY MonitoringAssumption DEF MonitoringInit, MonitoringTypeOK
<1> QED
  BY <1>1 DEF MonitoringInit, MonitoringInv, KeepsUp

LEMMA MonitoringStepInv == MonitoringInv /\ [MonitoringNext]_mvars => MonitoringInv'
<1> SUFFICES ASSUME MonitoringInv, [MonitoringNext]_mvars PROVE MonitoringInv'
  OBVIOUS
<1> USE MonitoringAssumption DEF MonitoringInv, MonitoringTypeOK
<1>1. /\ "system_unhealthy" \in Kinds /\ "source_health_change" \in Kinds
      /\ "aggregation_error" \in Kinds
      /\ "system_unhealthy" # "source_health_change"
      /\ "system_unhealthy" # "aggregation_error"
  BY DEF Kinds
<1>2. ASSUME NEW s \in Watched, NEW new \in Statuses, RecordSourceHealth(s, new)
      PROVE  MonitoringInv'
  <2>1. PICK kinds \in SUBSET {"source_health_change"} : Sent(kinds)
    BY <1>2 DEF RecordSourceHealth, SourceAlert
  <2>2. UNCHANGED timers
    BY <1>2 DEF RecordSourceHealth
  <2>3. /\ alerts' \in SUBSET Nat /\ active' \in [Kinds -> SUBSET Nat]
        /\ \A a \in alerts' : Expires(a)'
        /\ \A k \in Kinds : \A a \in active'[k] : Expires(a)'
        /\ active'["system_unhealthy"] = active["system_unhealthy"]
    <3>1. kinds \in SUBSET Kinds /\ "system_unhealthy" \notin kinds
      BY <1>1
    <3>2. timers'.daily = timers.daily /\ timers'.cleanup = timers.cleanup
      BY <2>2
    <3> QED
      BY <1>1, <2>1, <3>1, <3>2, SentFacts
  <2>4. /\ bad' \in {0, bad}
        /\ bad' > 0 => Judged(status)' = "unhealthy"
    BY <1>2 DEF RecordSourceHealth, SinceBad, Judged
  <2>5. KeepsUp'
    BY <2>2, <2>3, <2>4 DEF KeepsUp
  <2> QED
    BY <2>2, <2>3, <2>4, <2>5
<1>3. ASSUME NEW s \in Watched, NEW new \in Statuses, CooldownEnds(s, new)
      PROVE  MonitoringInv'
  BY <1>3 DEF CooldownEnds, Expires, KeepsUp, Judged
<1>4. ASSUME RecordAggregationError PROVE MonitoringInv'
  <2>1. Sent({"aggregation_error"}) /\ UNCHANGED <<status, timers, bad>>
    BY <1>4 DEF RecordAggregationError
  <2>2. /\ alerts' \in SUBSET Nat /\ active' \in [Kinds -> SUBSET Nat]
        /\ \A a \in alerts' : Expires(a)'
        /\ \A k \in Kinds : \A a \in active'[k] : Expires(a)'
        /\ active'["system_unhealthy"] = active["system_unhealthy"]
    BY <1>1, <2>1, SentFacts
  <2>3. KeepsUp'
    BY <2>1, <2>2 DEF KeepsUp, Judged
  <2> QED
    BY <2>1, <2>2, <2>3
<1>5. ASSUME HealthIsChecked PROVE MonitoringInv'
  <2>1. PICK kinds \in SUBSET {"system_unhealthy"} :
          /\ Sent(kinds)
          /\ Judged(status) = "unhealthy" => kinds = {"system_unhealthy"}
    BY <1>5 DEF HealthIsChecked
  <2>2. /\ timers' = [timers EXCEPT !.check = FALSE]
        /\ UNCHANGED <<status, bad>>
    BY <1>5 DEF HealthIsChecked
  <2>3. timers'.daily = timers.daily /\ timers'.cleanup = timers.cleanup
    BY <2>2
  <2>4. /\ alerts' \in SUBSET Nat /\ active' \in [Kinds -> SUBSET Nat]
        /\ \A a \in alerts' : Expires(a)'
        /\ \A k \in Kinds : \A a \in active'[k] : Expires(a)'
        /\ \A k \in kinds : active'[k] = {0}
    BY <1>1, <2>1, <2>3, SentFacts
  <2>5. KeepsUp'
    <3>1. Judged(status)' = Judged(status)
      BY <2>2 DEF Judged
    <3>2. bad > 0 => active'["system_unhealthy"] = {0}
      BY <2>1, <2>4 DEF KeepsUp
    <3> QED
      BY <2>2, <3>1, <3>2 DEF KeepsUp
  <2> QED
    BY <2>2, <2>3, <2>4, <2>5
<1>6. ASSUME PeriodicCleanup PROVE MonitoringInv'
  <2>1. /\ timers.daily = 0
        /\ timers' = [Scheduled(timers) EXCEPT !.daily = Day]
        /\ UNCHANGED <<status, alerts, active, bad>>
    BY <1>6 DEF PeriodicCleanup
  <2>2. /\ timers'.check = timers.check /\ timers'.daily = Day
        /\ timers'.cleanup = IF timers.cleanup = {} THEN {Batch} ELSE timers.cleanup
        /\ timers' \in [check : BOOLEAN, daily : 0 .. Day, cleanup : SUBSET (0 .. Batch)]
    BY <2>1 DEF Scheduled
  <2>3. \A a \in Nat : Expires(a) => Expires(a)'
    BY <2>1, <2>2 DEF Expires
  <2>4. KeepsUp'
    BY <2>1, <2>2 DEF KeepsUp, Judged
  <2> QED
    BY <2>1, <2>2, <2>3, <2>4
<1>7. ASSUME CleanupOldAlerts PROVE MonitoringInv'
  <2>1. /\ timers' = [timers EXCEPT !.cleanup = {}]
        /\ alerts' = {a \in alerts : a <= Retention}
        /\ active' = [k \in Kinds |-> {a \in active[k] : a <= Retention}]
        /\ UNCHANGED <<status, bad>>
    BY <1>7 DEF CleanupOldAlerts
  <2>2. \A a \in Nat : a <= Retention => Expires(a)'
    BY <2>1 DEF Expires
  <2>3. KeepsUp'
    BY <1>1, <2>1 DEF KeepsUp, Judged
  <2> QED
    BY <2>1, <2>2, <2>3
<1>8. ASSUME Elapse PROVE MonitoringInv'
  <2>1. /\ ~timers.check /\ timers.daily > 0 /\ 0 \notin timers.cleanup
        /\ timers' = [check |-> TRUE, daily |-> timers.daily - 1,
                     cleanup |-> {t - 1 : t \in timers.cleanup}]
        /\ alerts' = {Aged(a) : a \in alerts}
        /\ active' = [k \in Kinds |-> {Aged(a) : a \in active[k]}]
        /\ bad' = IF Judged(status) = "unhealthy" /\ bad < 2 THEN bad + 1 ELSE bad
        /\ UNCHANGED status
    BY <1>8 DEF Elapse
  <2>2. \A a \in Nat : Aged(a) \in Nat /\ Aged(a) <= a + 1
    BY DEF Aged, OldestAlert
  <2>3. Aged(0) = 1
    BY DEF Aged, OldestAlert
  <2>4. \A a \in Nat : Expires(a) => Expires(Aged(a))'
    BY <2>1, <2>2 DEF Expires
  <2>5. KeepsUp'
    <3>1. bad > 0 => 1 \in active'["system_unhealthy"]
      BY <1>1, <2>1, <2>3 DEF KeepsUp
    <3>2. Judged(status)' = Judged(status)
      BY <2>1 DEF Judged
    <3>3. bad' > 0 => Judged(status) = "unhealthy"
      BY <2>1 DEF KeepsUp
    <3>4. bad' = 2 => bad > 0
      BY <2>1
    <3>5. timers'.check
      BY <2>1
    <3>6. bad' = 2 => \E a \in active'["system_unhealthy"] : a <= 1
      BY <3>1, <3>4
    <3> QED
      BY <3>2, <3>3, <3>5, <3>6 DEF KeepsUp
  <2>6. /\ \A a \in alerts' : Expires(a)'
        /\ \A k \in Kinds : \A a \in active'[k] : Expires(a)'
    BY <2>1, <2>4
  <2> QED
    BY <2>1, <2>2, <2>5, <2>6
<1>9. CASE UNCHANGED mvars
  BY <1>9 DEF mvars, Expires, KeepsUp, Judged
<1> QED
  BY <1>2, <1>3, <1>4, <1>5, <1>6, <1>7, <1>8, <1>9 DEF MonitoringNext

LEMMA MonitoringInvHolds == MonitoringSpec => []MonitoringInv
BY MonitoringInitInv, MonitoringStepInv, PTL DEF MonitoringSpec

(* Every alert is deleted in time, whichever comes first, an alert or the  *)
(* schedule of the cleanups, and for whatever retention and intervals.     *)
THEOREM AlertsAreDeleted == MonitoringSpec => []AlertsExpire
<1>1. MonitoringInv => AlertsExpire
  BY MonitoringAssumption
     DEF MonitoringInv, MonitoringTypeOK, Expires, AlertsExpire
<1> QED BY <1>1, MonitoringInvHolds, PTL

(* The alert of an unhealthy system stays current: cleanups never delete   *)
(* it while the system is unhealthy.                                       *)
THEOREM UnhealthyIsKnown == MonitoringSpec => []CriticalIsCurrent
<1>1. MonitoringInv => CriticalIsCurrent
  BY DEF MonitoringInv, MonitoringTypeOK, KeepsUp, CriticalIsCurrent, Kinds
<1> QED BY <1>1, MonitoringInvHolds, PTL
=============================================================================
