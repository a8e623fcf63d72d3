-------------------------- MODULE SourceHealthProofs --------------------------
(***************************************************************************)
(* The safety properties of SourceHealth and of ConnectionRecovery, for    *)
(* every number of retry loops and of errors being handled, every finite   *)
(* set of sources and all delays that are shorter than the cooldown.       *)
(***************************************************************************)
EXTENDS SourceHealth, ConnectionRecovery, FiniteSetTheorems, TLAPS

-----------------------------------------------------------------------------
(* SourceHealth.                                                           *)

(* A loop only sleeps before another try.                                  *)
LoopOK == {x \in Loop : x.pc = "sleeping" => x.tries < Retries}

Inv == TypeOK /\ loop \in [Loops -> LoopOK] /\ AlwaysRetried

LEMMA LoopFacts ==
  /\ NoLoop \in LoopOK
  /\ [pc |-> "connecting", tries |-> 0] \in LoopOK
  /\ \A x \in LoopOK :
       /\ \A pc \in {"connecting", "readying", "checking"} :
            [x EXCEPT !.pc = pc] \in LoopOK
       /\ x.tries < Retries => [x EXCEPT !.pc = "sleeping"] \in LoopOK
       /\ x.pc = "sleeping" =>
            [x EXCEPT !.pc = "connecting", !.tries = @ + 1] \in LoopOK
  /\ \A f \in [Loops -> LoopOK] : f \in [Loops -> Loop]
<1>1. 0 \in 0 .. Retries
  BY LimitAssumption
<1>2. NoLoop \in LoopOK /\ [pc |-> "connecting", tries |-> 0] \in LoopOK
  BY <1>1 DEF NoLoop, LoopOK, Loop
<1>3. ASSUME NEW x \in LoopOK
      PROVE  /\ \A pc \in {"connecting", "readying", "checking"} :
                  [x EXCEPT !.pc = pc] \in LoopOK
             /\ x.tries < Retries => [x EXCEPT !.pc = "sleeping"] \in LoopOK
  BY <1>3 DEF LoopOK, Loop
<1>4. ASSUME NEW x \in LoopOK, x.pc = "sleeping"
      PROVE  [x EXCEPT !.pc = "connecting", !.tries = @ + 1] \in LoopOK
  <2>1. x \in Loop /\ x.tries \in 0 .. Retries /\ x.tries < Retries
    BY <1>4 DEF LoopOK, Loop
  <2>2. x.tries + 1 \in 0 .. Retries
    BY <2>1, LimitAssumption
  <2> QED
    BY <2>1, <2>2 DEF LoopOK, Loop
<1>5. LoopOK \subseteq Loop
  BY DEF LoopOK
<1> QED
  BY <1>2, <1>3, <1>4, <1>5

(* The loops that news start are loops, and there is one if there is news. *)
LEMMA FreeFacts ==
  ASSUME NEW n \in Nat, NEW S \in Free(n)
  PROVE  S \subseteq Loops /\ (n > 0 => S # {})
<1>1. S \in SUBSET {l \in Loops : loop[l].pc = "idle"} /\ Cardinality(S) = n
  BY DEF Free, kSubset
<1> QED
  BY <1>1, FS_EmptySet

(* News leave the loops that run alone.                                    *)
LEMMA RetriedFacts ==
  ASSUME Inv, NEW n \in Nat, NEW new \in Free(n)
  PROVE  /\ Retried(loop, new) \in [Loops -> LoopOK]
         /\ \A l \in Loops : loop[l].pc = "connecting"
              => Retried(loop, new)[l].pc = "connecting"
         /\ known /\ n > 0
              => \E l \in Loops : Retried(loop, new)[l].pc = "connecting"
<1>1. new \subseteq Loops /\ (n > 0 => new # {})
  BY FreeFacts
<1> QED
  BY <1>1, LoopFacts DEF Retried, Inv

LEMMA BeliefFacts ==
  ASSUME TypeOK, NEW b \in Belief
  PROVE  /\ HearsUp(b) \in Belief /\ HearsDown(b) \in Belief
         /\ HearsError(b) \in Belief
         /\ \A healthy \in BOOLEAN : Judged(b, healthy) \in Belief
BY DEF Belief, HearsUp, HearsDown, HearsError, Judged, Told

LEMMA ErrorFacts ==
  ASSUME TypeOK
  PROVE  Erred(errors) \in 0 .. MaxErrors
BY LimitAssumption DEF TypeOK, Erred

LEMMA InitInv == Init => Inv
<1> SUFFICES ASSUME Init PROVE Inv
  OBVIOUS
<1>1. loop \in [Loops -> LoopOK] /\ loop \in [Loops -> Loop]
  BY LoopFacts DEF Init
<1>2. belief \in Belief /\ check \in Check
  BY DEF Init, Belief, Check, NoCheck
<1>3. errors \in 0 .. MaxErrors
  BY LimitAssumption DEF Init
<1>4. TypeOK
  BY <1>1, <1>2, <1>3 DEF Init, TypeOK
<1> QED
  BY <1>1, <1>4 DEF Init, Inv, AlwaysRetried, known

(* A step that starts loops for n pieces of news.                          *)
LEMMA NewsInv ==
  ASSUME Inv, NEW n \in Nat, NEW new \in Free(n), loop' = Retried(loop, new),
         belief' \in Belief, errors' \in 0 .. MaxErrors, up' \in BOOLEAN,
         connected' \in BOOLEAN, check' \in Check, orchestrating' \in BOOLEAN,
         life' = life, ~connected' => n > 0 \/ ~connected
  PROVE  Inv'
<1>1. /\ loop' \in [Loops -> LoopOK] /\ loop' \in [Loops -> Loop]
      /\ \A l \in Loops : loop[l].pc = "connecting" => loop'[l].pc = "connecting"
      /\ known /\ n > 0 => \E l \in Loops : loop'[l].pc = "connecting"
  BY RetriedFacts, LoopFacts DEF Inv
<1> QED
  BY <1>1 DEF Inv, TypeOK, AlwaysRetried, known

(* One loop's step ends its own connect only when the source is connected. *)
LEMMA LoopStepInv ==
  ASSUME Inv, NEW l \in Loops, LoopStep(l)
  PROVE  Inv'
<1> USE LimitAssumption DEF Inv
<1>1. TypeOK /\ belief \in Belief /\ loop \in [Loops -> LoopOK] /\ loop[l] \in LoopOK
  BY DEF TypeOK
<1>2. ASSUME NEW new \in LoopOK
      PROVE  /\ [loop EXCEPT ![l] = new] \in [Loops -> LoopOK]
             /\ [loop EXCEPT ![l] = new] \in [Loops -> Loop]
  BY <1>1, LoopFacts
<1>3. CASE ConnectSucceeds(l)
  <2>1. belief' \in Belief
    BY <1>3, <1>1, BeliefFacts DEF ConnectSucceeds
  <2>2. PICK new \in LoopOK : loop' = [loop EXCEPT ![l] = new]
    BY <1>3, <1>1, LoopFacts DEF ConnectSucceeds
  <2> QED
    BY <1>3, <1>2, <2>1, <2>2 DEF ConnectSucceeds, TypeOK, AlwaysRetried
<1>4. ASSUME NEW c \in BOOLEAN, ConnectFails(l, c) PROVE Inv'
  <2>1. PICK n \in Nat : \E new \in Free(n) :
          loop' = [Retried(loop, new) EXCEPT ![l].pc = "readying"]
    <3>1. (IF connected THEN 1 ELSE 0) + (IF c THEN 1 ELSE 0) \in Nat
      OBVIOUS
    <3> QED
      BY <1>4, <3>1 DEF ConnectFails
  <2>2. loop' \in [Loops -> LoopOK]
    <3>1. PICK new \in Free(n) :
            loop' = [Retried(loop, new) EXCEPT ![l].pc = "readying"]
      BY <2>1
    <3>2. Retried(loop, new) \in [Loops -> LoopOK]
      BY <3>1, RetriedFacts
    <3>3. [Retried(loop, new)[l] EXCEPT !.pc = "readying"] \in LoopOK
      BY <3>2, LoopFacts
    <3> QED
      BY <3>1, <3>2, <3>3
  <2>3. belief' \in Belief
    BY <1>4, <1>1, BeliefFacts DEF ConnectFails
  <2>4. orchestrating' \in BOOLEAN
    BY <1>4 DEF ConnectFails, Orchestrated, TypeOK
  <2>5. /\ connected' = TRUE /\ UNCHANGED <<up, check, life>>
        /\ errors' \in 0 .. MaxErrors
    BY <1>4, <1>1, ErrorFacts DEF ConnectFails
  <2> QED
    BY <2>2, <2>3, <2>4, <2>5, LoopFacts DEF TypeOK, AlwaysRetried
<1>5. CASE CheckReadiness(l) \/ ReadinessChecked(l)
  <2>1. PICK new \in LoopOK : loop' = [loop EXCEPT ![l] = new]
    BY <1>5, <1>1, LoopFacts DEF CheckReadiness, ReadinessChecked, BecomesReady
  <2>2. loop[l].pc # "connecting"
    BY <1>5 DEF CheckReadiness, ReadinessChecked
  <2>3. belief' \in Belief
    BY <1>5, <1>1 DEF CheckReadiness, ReadinessChecked, BecomesReady, Belief
  <2>4. UNCHANGED <<up, connected, check, errors, orchestrating, life>>
    BY <1>5 DEF CheckReadiness, ReadinessChecked
  <2> QED
    BY <1>1, <1>2, <2>1, <2>2, <2>3, <2>4 DEF TypeOK, AlwaysRetried, known
<1>6. CASE NotReady(l)
  <2>1. PICK new \in LoopOK : loop' = [loop EXCEPT ![l] = new]
    BY <1>6, <1>1, LoopFacts DEF NotReady
  <2>2. loop[l].pc # "connecting"
    BY <1>6 DEF NotReady
  <2>3. belief' \in Belief /\ errors' \in 0 .. MaxErrors
    BY <1>6, <1>1, BeliefFacts, ErrorFacts DEF NotReady
  <2>4. UNCHANGED <<up, connected, check, orchestrating, life>>
    BY <1>6 DEF NotReady
  <2> QED
    BY <1>1, <1>2, <2>1, <2>2, <2>3, <2>4 DEF TypeOK, AlwaysRetried, known
<1>7. CASE TryAgain(l)
  <2>1. loop' = [loop EXCEPT ![l] = [loop[l] EXCEPT !.pc = "connecting", !.tries = @ + 1]]
    BY <1>7, <1>1 DEF TryAgain
  <2>2. [loop[l] EXCEPT !.pc = "connecting", !.tries = @ + 1] \in LoopOK
    BY <1>7, <1>1, LoopFacts DEF TryAgain
  <2>3. \A k \in Loops : loop[k].pc = "connecting" => loop'[k].pc = "connecting"
    BY <1>7, <1>1, <2>1 DEF LoopOK, Loop
  <2>4. UNCHANGED <<up, connected, belief, check, errors, orchestrating, life>>
    BY <1>7 DEF TryAgain
  <2> QED
    BY <1>1, <1>2, <2>1, <2>2, <2>3, <2>4 DEF TypeOK, AlwaysRetried, known
<1> QED
  BY <1>3, <1>4, <1>5, <1>6, <1>7 DEF LoopStep

LEMMA StepInv == Inv /\ [Next]_vars => Inv'
<1> SUFFICES ASSUME Inv, [Next]_vars PROVE Inv'
  OBVIOUS
<1> USE LimitAssumption DEF Inv
<1>1. TypeOK /\ belief \in Belief /\ loop \in [Loops -> LoopOK] /\ connected \in BOOLEAN
  BY DEF TypeOK
<1>2. CASE AddDataSource
  <2>1. 1 \in Loops
    BY DEF Loops
  <2>2. loop' = [loop EXCEPT ![1] = [loop[1] EXCEPT !.pc = "connecting"]]
    BY <1>2, <1>1, <2>1 DEF AddDataSource
  <2>3. [loop[1] EXCEPT !.pc = "connecting"] \in LoopOK
    BY <1>1, <2>1, LoopFacts
  <2>4. /\ loop' \in [Loops -> LoopOK] /\ loop' \in [Loops -> Loop]
        /\ loop'[1].pc = "connecting"
    <3>1. [loop[1] EXCEPT !.pc = "connecting"].pc = "connecting"
      BY <1>1, <2>1 DEF LoopOK, Loop
    <3>2. loop' \in [Loops -> LoopOK]
      BY <1>1, <2>1, <2>2, <2>3
    <3> QED
      BY <1>1, <2>1, <2>2, <3>1, <3>2, LoopFacts
  <2> QED
    BY <1>2, <2>1, <2>4 DEF AddDataSource, TypeOK, AlwaysRetried, known
<1>3. CASE AdapterOpens
  <2>1. belief' \in Belief
    BY <1>3, <1>1, BeliefFacts DEF AdapterOpens
  <2> QED
    BY <1>3, <2>1 DEF AdapterOpens, TypeOK, AlwaysRetried, known
<1>4. CASE AdapterCloses
  <2> DEFINE n == IF connected THEN 1 ELSE 0
  <2>1. PICK new \in Free(n) : loop' = Retried(loop, new)
    BY <1>4 DEF AdapterCloses
  <2>2. orchestrating' \in BOOLEAN
    BY <1>4 DEF AdapterCloses, Orchestrated, TypeOK
  <2>3. belief' \in Belief
    BY <1>4, <1>1, BeliefFacts DEF AdapterCloses
  <2>4. /\ connected' = FALSE /\ up' = FALSE /\ check' = check /\ life' = life
        /\ errors' = errors
    BY <1>4 DEF AdapterCloses
  <2>5. n \in Nat /\ (connected => n > 0)
    OBVIOUS
  <2> HIDE DEF n
  <2> QED
    BY <1>1, <2>1, <2>2, <2>3, <2>4, <2>5, NewsInv DEF TypeOK
<1>5. ASSUME NEW c \in BOOLEAN, AdapterError(c) PROVE Inv'
  <2>1. PICK new \in Free(IF c THEN 1 ELSE 0) : loop' = Retried(loop, new)
    BY <1>5 DEF AdapterError
  <2>2. orchestrating' \in BOOLEAN
    BY <1>5 DEF AdapterError, Orchestrated, TypeOK
  <2>3. belief' \in Belief
    BY <1>5, <1>1, BeliefFacts DEF AdapterError
  <2>4. connected' = (connected /\ ~c) /\ up' = up /\ check' = check /\ life' = life
        /\ errors' \in 0 .. MaxErrors
    BY <1>5, <1>1, ErrorFacts DEF AdapterError
  <2> QED
    BY <1>1, <2>1, <2>2, <2>3, <2>4, NewsInv DEF TypeOK
<1>6. ASSUME NEW v \in BOOLEAN, NEW c \in BOOLEAN, UpdateArrives(v, c) PROVE Inv'
  <2>1. belief' \in Belief /\ errors' \in 0 .. MaxErrors
    BY <1>6, <1>1, ErrorFacts DEF UpdateArrives, Belief, TypeOK
  <2> QED
    BY <1>6, <2>1 DEF UpdateArrives, TypeOK, AlwaysRetried, known
<1>7. ASSUME NEW l \in Loops, LoopStep(l) PROVE Inv'
  BY <1>7, LoopStepInv
<1>8. CASE OrchestratorSucceeds
  <2>1. belief' \in Belief
    BY <1>8, <1>1, BeliefFacts DEF OrchestratorSucceeds
  <2> QED
    BY <1>8, <2>1 DEF OrchestratorSucceeds, TypeOK, AlwaysRetried, known
<1>9. ASSUME NEW c \in BOOLEAN, OrchestratorFails(c) PROVE Inv'
  <2> DEFINE n == (IF connected THEN 1 ELSE 0) + (IF c THEN 1 ELSE 0)
  <2>1. PICK new \in Free(n) : loop' = Retried(loop, new)
    BY <1>9 DEF OrchestratorFails
  <2>2. n \in Nat /\ (connected => n > 0)
    OBVIOUS
  <2>3. belief' \in Belief
    BY <1>9, <1>1, BeliefFacts DEF OrchestratorFails
  <2>4. /\ connected' = FALSE /\ up' = up /\ check' = check /\ life' = life
        /\ orchestrating' = FALSE /\ errors' \in 0 .. MaxErrors
    BY <1>9, <1>1, ErrorFacts DEF OrchestratorFails
  <2> HIDE DEF n
  <2> QED
    BY <1>1, <2>1, <2>2, <2>3, <2>4, NewsInv DEF TypeOK
<1>10. CASE ErrorHandled
  <2>1. belief' \in Belief
    <3>1. [belief EXCEPT !.registry = FALSE] \in Belief
      BY <1>1 DEF Belief
    <3> QED
      BY <1>10, <1>1, <3>1 DEF ErrorHandled
  <2>2. errors' \in 0 .. MaxErrors
    BY <1>10 DEF ErrorHandled, TypeOK
  <2> QED
    BY <1>10, <2>1, <2>2 DEF ErrorHandled, TypeOK, AlwaysRetried, known
<1>11. ASSUME NEW a \in BOOLEAN, HealthCheck(a) PROVE Inv'
  <2>1. (belief.healthy /\ connected /\ a) \in BOOLEAN
    OBVIOUS
  <2>2. PICK healthy \in BOOLEAN :
          \/ belief' = Judged(belief, healthy) /\ UNCHANGED check
          \/ /\ check' = [running |-> TRUE, healthy |-> healthy]
             /\ UNCHANGED belief
    BY <1>11, <2>1 DEF HealthCheck
  <2>3. belief' \in Belief /\ check' \in Check
    <3>1. Judged(belief, healthy) \in Belief
      BY <1>1, BeliefFacts
    <3>2. [running |-> TRUE, healthy |-> healthy] \in Check
      BY DEF Check
    <3> QED
      BY <1>1, <2>2, <3>1, <3>2 DEF TypeOK
  <2> QED
    BY <1>11, <2>3 DEF HealthCheck, TypeOK, AlwaysRetried, known
<1>12. ASSUME NEW a \in BOOLEAN, HealthChecked(a) PROVE Inv'
  <2>1. (check.healthy /\ a) \in BOOLEAN
    OBVIOUS
  <2>2. belief' \in Belief /\ check' \in Check
    BY <1>12, <1>1, <2>1, BeliefFacts DEF HealthChecked, Check, NoCheck
  <2> QED
    BY <1>12, <2>2 DEF HealthChecked, TypeOK, AlwaysRetried, known
<1>13. CASE Forget
  BY <1>13 DEF Forget, TypeOK, AlwaysRetried, known
<1>14. CASE UNCHANGED vars
  BY <1>14 DEF vars, TypeOK, AlwaysRetried, known
<1> QED
  BY <1>2, <1>3, <1>4, <1>5, <1>6, <1>7, <1>8, <1>9, <1>10, <1>11, <1>12, <1>13,
     <1>14 DEF Next, OrchestratorStep

(* A source the data manager knows and that is disconnected is being       *)
(* connected at this moment by a loop, and flags, beliefs and loops are of *)
(* their types: handleConnectionChange starts a loop whenever the source   *)
(* ceases to be connected, and a loop leaves its connect only when the     *)
(* data source takes itself for connected.                                 *)
THEOREM SourceIsRetried == Spec => [](TypeOK /\ AlwaysRetried)
<1>1. Inv => TypeOK /\ AlwaysRetried
  BY DEF Inv
<1> QED
  BY <1>1, InitInv, StepInv, PTL DEF Spec

-----------------------------------------------------------------------------
(* ConnectionRecovery.                                                     *)

Health == [known : BOOLEAN, isConnected : BOOLEAN, isHealthy : BOOLEAN,
           attempts : 0 .. MaxAttempts, seen : BOOLEAN]

Timer == [left : Nat, held : BOOLEAN]

(* No timer, or one that fires before the cooldown is over.                *)
Pending(ts, since) ==
  ts = << >> \/ \E t \in Timer : ts = <<t>> /\ t.left + since < Cooldown

RecoveryInv ==
  /\ online \subseteq Sources
  /\ health \in [Sources -> Health]
  /\ sinceAttempt \in [Sources -> Nat]
  /\ DOMAIN timers = Sources
  /\ timers = [s \in Sources |-> timers[s]]
  /\ \A s \in Sources : Pending(timers[s], sinceAttempt[s])
  /\ \A s \in Sources : health[s].isConnected => health[s].known /\ s \in online

LEMMA RecoveryFacts ==
  /\ Cooldown \in Nat \ {0} /\ MaxAttempts \in Nat \ {0} /\ LongAgo \in Nat
  /\ NewHealth \in Health /\ [NewHealth EXCEPT !.known = FALSE] \in Health
<1>1. Cooldown \in Nat \ {0} /\ MaxAttempts \in Nat \ {0}
  BY RecoveryAssumption
<1>2. 0 \in 0 .. MaxAttempts /\ LongAgo \in Nat
  BY <1>1 DEF LongAgo
<1> QED
  BY <1>1, <1>2 DEF NewHealth, Health

(* What becomes of the timer of a source.                                  *)
LEMMA PendingFacts ==
  ASSUME NEW since \in Nat, NEW ts, Pending(ts, since)
  PROVE  /\ Len(ts) <= 1
         /\ since >= Cooldown => ts = << >>
         /\ Pending(Cancelled(ts), since)
         /\ \A i \in DOMAIN ts :
              SubSeq(ts, 1, i - 1) \o SubSeq(ts, i + 1, Len(ts)) = << >>
         /\ \A x : ts = << >> => Append(Forgotten(ts), x) = <<x>>
<1> USE RecoveryFacts
<1>1. CASE ts = << >>
  BY <1>1 DEF Pending, Cancelled, Forgotten
<1>2. CASE \E t \in Timer : ts = <<t>> /\ t.left + since < Cooldown
  <2>1. PICK t \in Timer : ts = <<t>> /\ t.left + since < Cooldown
    BY <1>2
  <2>2. t.left \in Nat /\ Len(ts) = 1 /\ DOMAIN ts = {1} /\ ts # << >>
    BY <2>1 DEF Timer
  <2>3. SubSeq(ts, 1, 0) = << >> /\ SubSeq(ts, 2, 1) = << >>
    BY <2>1
  <2>4. Cancelled(ts) \in {ts, << >>}
    BY <2>2, <2>3 DEF Cancelled
  <2>5. Pending(Cancelled(ts), since)
    BY <2>4, <2>1 DEF Pending
  <2>6. ~ (since >= Cooldown)
    BY <2>1, <2>2
  <2>7. ASSUME NEW i \in DOMAIN ts
        PROVE  SubSeq(ts, 1, i - 1) \o SubSeq(ts, i + 1, Len(ts)) = << >>
    <3>1. i = 1
      BY <2>2
    <3> QED
      BY <3>1, <2>2, <2>3
  <2> QED
    BY <2>2, <2>5, <2>6, <2>7
<1> QED
  BY <1>1, <1>2 DEF Pending

LEMMA RecoveryInitInv == RecoveryInit => RecoveryInv
BY RecoveryFacts DEF RecoveryInit, RecoveryInv, Pending, NewHealth

(* A reconnection is scheduled beside no other.                            *)
LEMMA ScheduleInv ==
  ASSUME RecoveryInv, NEW s \in Sources, ScheduleRecovery(s),
         online \subseteq online', online' \subseteq Sources
  PROVE  RecoveryInv'
<1>1. CASE MaySchedule(s) /\ Len(timers[s]) < MaxTimers
  <2>1. PICK x : /\ x = [left |-> DelayAfter(health[s].attempts), held |-> TRUE]
                 /\ timers' = [timers EXCEPT ![s] = Append(Forgotten(@), x)]
    BY <1>1 DEF ScheduleRecovery
  <2>2. health[s].attempts \in 0 .. MaxAttempts - 1
    BY <1>1, RecoveryFacts DEF RecoveryInv, MaySchedule, Health
  <2>3. x \in Timer /\ x.left < Cooldown /\ x.left \in Nat
    BY <2>1, <2>2, CooldownAssumption, RecoveryFacts DEF Timer
  <2>4. timers[s] = << >>
    BY <1>1, PendingFacts DEF RecoveryInv, MaySchedule
  <2>5. Append(Forgotten(timers[s]), x) = <<x>>
    BY <2>4, PendingFacts DEF RecoveryInv
  <2>6. timers' = [timers EXCEPT ![s] = <<x>>]
    BY <2>1, <2>5
  <2>7. sinceAttempt' = [sinceAttempt EXCEPT ![s] = 0]
    BY <1>1 DEF ScheduleRecovery
  <2>8. ASSUME NEW r \in Sources
        PROVE  Pending(timers'[r], sinceAttempt'[r])
    <3>1. CASE r = s
      <4>1. timers'[r] = <<x>> /\ sinceAttempt'[r] = 0
        BY <3>1, <2>6, <2>7 DEF RecoveryInv
      <4> QED
        BY <4>1, <2>3 DEF Pending
    <3>2. CASE r # s
      BY <3>2, <2>6, <2>7 DEF RecoveryInv
    <3> QED
      BY <3>1, <3>2
  <2>9. /\ DOMAIN timers' = Sources /\ timers' = [r \in Sources |-> timers'[r]]
        /\ sinceAttempt' \in [Sources -> Nat]
    BY <2>6, <2>7 DEF RecoveryInv
  <2>10. health' = [health EXCEPT ![s].attempts = @ + 1]
    BY <1>1 DEF ScheduleRecovery
  <2>11. [health[s] EXCEPT !.attempts = @ + 1] \in Health
    BY <2>2, RecoveryFacts DEF RecoveryInv, Health
  <2>12. health' \in [Sources -> Health]
    BY <2>10, <2>11 DEF RecoveryInv
  <2>13. \A r \in Sources : /\ health'[r].isConnected = health[r].isConnected
                            /\ health'[r].known = health[r].known
    BY <2>10 DEF RecoveryInv, Health
  <2> QED
    BY <2>8, <2>9, <2>12, <2>13 DEF RecoveryInv
<1>2. CASE UNCHANGED <<timers, health, sinceAttempt>>
  BY <1>2 DEF RecoveryInv
<1> QED
  BY <1>1, <1>2 DEF ScheduleRecovery

(* A source that is restored is online, and its timer is cancelled.        *)
LEMMA RestoreInv ==
  ASSUME RecoveryInv, NEW s \in Sources, Restore(s),
         online' = online \cup {s}, sinceAttempt' = sinceAttempt
  PROVE  RecoveryInv'
<1>1. CASE health[s].known /\ ~health[s].isConnected
  <2>1. /\ timers' = [timers EXCEPT ![s] = Cancelled(@)]
        /\ health' = [health EXCEPT ![s] = [known |-> TRUE, isConnected |-> TRUE,
                       isHealthy |-> TRUE, attempts |-> 0, seen |-> TRUE]]
    BY <1>1 DEF Restore
  <2>2. Pending(Cancelled(timers[s]), sinceAttempt[s])
    BY PendingFacts DEF RecoveryInv
  <2>3. \A r \in Sources : Pending(timers'[r], sinceAttempt'[r])
    BY <2>1, <2>2 DEF RecoveryInv
  <2>4. /\ DOMAIN timers' = Sources /\ timers' = [r \in Sources |-> timers'[r]]
    BY <2>1 DEF RecoveryInv
  <2>5. [known |-> TRUE, isConnected |-> TRUE,
         isHealthy |-> TRUE, attempts |-> 0, seen |-> TRUE] \in Health
    BY RecoveryFacts DEF Health
  <2>6. health' \in [Sources -> Health]
    BY <2>1, <2>5 DEF RecoveryInv
  <2> QED
    BY <2>1, <2>3, <2>4, <2>6 DEF RecoveryInv
<1>2. CASE UNCHANGED <<health, timers>>
  BY <1>2 DEF RecoveryInv
<1> QED
  BY <1>1, <1>2 DEF Restore

LEMMA TickInv ==
  ASSUME RecoveryInv, Tick
  PROVE  RecoveryInv'
<1>1. ASSUME NEW s \in Sources
      PROVE  /\ Pending(timers'[s], sinceAttempt'[s])
             /\ sinceAttempt'[s] \in Nat
  <2>1. /\ sinceAttempt[s] \in Nat /\ sinceAttempt'[s] \in Nat
        /\ sinceAttempt'[s] <= sinceAttempt[s] + 1
             \/ sinceAttempt'[s] = LongAgo
        /\ sinceAttempt'[s] = LongAgo => sinceAttempt[s] >= Cooldown
    BY RecoveryFacts DEF Tick, RecoveryInv, LongAgo
  <2>2. timers'[s] = [i \in DOMAIN timers[s] |-> [timers[s][i] EXCEPT !.left = @ - 1]]
    BY DEF Tick
  <2>3. CASE timers[s] = << >>
    <3>1. timers'[s] = << >>
      BY <2>2, <2>3
    <3> QED
      BY <3>1, <2>1 DEF Pending
  <2>4. ASSUME NEW t \in Timer, timers[s] = <<t>>, t.left + sinceAttempt[s] < Cooldown
        PROVE  Pending(timers'[s], sinceAttempt'[s])
    <3>1. t.left > 0 /\ t.left \in Nat
      BY <2>4 DEF Tick, Timer
    <3> DEFINE u == [t EXCEPT !.left = @ - 1]
    <3>2. timers'[s] = <<u>>
      BY <2>2, <2>4
    <3>3. u \in Timer /\ u.left = t.left - 1
      BY <3>1 DEF Timer
    <3>4. u.left + sinceAttempt'[s] < Cooldown
      BY <3>1, <3>3, <2>1, <2>4, RecoveryFacts
    <3> HIDE DEF u
    <3> QED
      BY <3>2, <3>3, <3>4 DEF Pending
  <2> QED
    BY <2>1, <2>3, <2>4 DEF RecoveryInv, Pending
<1>2. /\ DOMAIN timers' = Sources /\ timers' = [s \in Sources |-> timers'[s]]
      /\ DOMAIN sinceAttempt' = Sources
      /\ sinceAttempt' = [s \in Sources |-> sinceAttempt'[s]]
  BY DEF Tick
<1> QED
  BY <1>1, <1>2 DEF Tick, RecoveryInv

LEMMA RecoveryStepInv == RecoveryInv /\ [RecoveryNext]_rvars => RecoveryInv'
<1> SUFFICES ASSUME RecoveryInv, [RecoveryNext]_rvars PROVE RecoveryInv'
  OBVIOUS
<1>1. CASE Tick
  BY <1>1, TickInv
<1>2. ASSUME NEW s \in Sources, Connects(s) PROVE RecoveryInv'
  BY <1>2, RestoreInv DEF Connects
<1>3. ASSUME NEW s \in Sources, Loses(s) PROVE RecoveryInv'
  <2>1. CASE health[s].known
    <3>1. /\ online' = online \ {s} /\ timers' = timers
          /\ health' = [health EXCEPT ![s].isConnected = FALSE,
                                      ![s].isHealthy = FALSE]
          /\ sinceAttempt' = [sinceAttempt EXCEPT
                                ![s] = IF @ > Cooldown THEN 0 ELSE @]
      BY <1>3, <2>1 DEF Loses
    <3>2. [health[s] EXCEPT !.isConnected = FALSE, !.isHealthy = FALSE] \in Health
      BY DEF RecoveryInv, Health
    <3>3. health' = [health EXCEPT ![s] =
                       [health[s] EXCEPT !.isConnected = FALSE, !.isHealthy = FALSE]]
      BY <3>1 DEF RecoveryInv
    <3>4. health' \in [Sources -> Health]
      BY <3>2, <3>3 DEF RecoveryInv
    <3>5. /\ ~health'[s].isConnected
          /\ \A r \in Sources \ {s} : health'[r] = health[r]
      BY <3>3 DEF RecoveryInv, Health
    <3>6. sinceAttempt' \in [Sources -> Nat]
      BY <3>1 DEF RecoveryInv
    <3>7. ASSUME NEW r \in Sources
          PROVE  Pending(timers'[r], sinceAttempt'[r])
      <4>1. Pending(timers[r], sinceAttempt[r]) /\ sinceAttempt[r] \in Nat
        BY DEF RecoveryInv
      <4>2. CASE sinceAttempt'[r] = sinceAttempt[r]
        BY <4>1, <4>2, <3>1
      <4>3. CASE sinceAttempt[r] > Cooldown
        <5>1. sinceAttempt[r] >= Cooldown
          BY <4>1, <4>3, RecoveryFacts
        <5>2. timers[r] = << >>
          BY <4>1, <5>1, RecoveryFacts DEF Pending, Timer
        <5> QED
          BY <5>2, <3>1 DEF Pending
      <4> QED
        BY <4>2, <4>3, <3>1 DEF RecoveryInv
    <3> QED
      BY <3>1, <3>4, <3>5, <3>6, <3>7 DEF RecoveryInv
  <2>2. CASE ~health[s].known
    BY <1>3, <2>2 DEF Loses, RecoveryInv
  <2> QED
    BY <2>1, <2>2
<1>4. ASSUME NEW s \in Sources, Unregister(s) PROVE RecoveryInv'
  <2>1. /\ online' = online /\ sinceAttempt' = sinceAttempt
        /\ health' = [health EXCEPT ![s] = [NewHealth EXCEPT !.known = FALSE]]
        /\ timers' = [timers EXCEPT ![s] = Cancelled(@)]
    BY <1>4 DEF Unregister
  <2>2. Pending(Cancelled(timers[s]), sinceAttempt[s])
    BY PendingFacts DEF RecoveryInv
  <2>3. health' \in [Sources -> Health]
    BY <2>1, RecoveryFacts DEF RecoveryInv
  <2>4. ~health'[s].isConnected
    BY <2>1 DEF RecoveryInv, NewHealth
  <2> QED
    BY <2>1, <2>2, <2>3, <2>4 DEF RecoveryInv
<1>5. ASSUME NEW s \in Sources, AttemptReconnection(s) PROVE RecoveryInv'
  <2>1. timers' = [timers EXCEPT ![s] = << >>]
    BY <1>5, PendingFacts DEF AttemptReconnection, RecoveryInv
  <2>2. UNCHANGED <<online, health, sinceAttempt>>
    BY <1>5 DEF AttemptReconnection
  <2> QED
    BY <2>1, <2>2 DEF RecoveryInv, Pending
<1>6. ASSUME NEW s \in Sources, AttemptEnds(s) PROVE RecoveryInv'
  BY <1>6, RestoreInv, ScheduleInv
     DEF AttemptEnds, AttemptSucceeds, AttemptFails, RecoveryInv
<1>7. ASSUME NEW s \in Sources, NEW yes \in BOOLEAN, FailoverEnds(s, yes)
      PROVE  RecoveryInv'
  <2>1. CASE yes
    BY <1>7, <2>1, ScheduleInv DEF FailoverEnds, RecoveryInv
  <2>2. CASE ~yes
    BY <1>7, <2>2 DEF FailoverEnds, RecoveryInv
  <2> QED
    BY <2>1, <2>2
<1>8. ASSUME NEW s \in Sources, NEW yes \in BOOLEAN, PerformHealthCheck(s, yes)
      PROVE  RecoveryInv'
  <2>1. PICK b \in BOOLEAN : health' = [health EXCEPT ![s].isHealthy = b]
    BY <1>8 DEF PerformHealthCheck, RecoveryInv, Health
  <2>2. [health[s] EXCEPT !.isHealthy = b] \in Health
    BY DEF RecoveryInv, Health
  <2>3. health' \in [Sources -> Health]
    BY <2>1, <2>2 DEF RecoveryInv
  <2>4. \A r \in Sources : /\ health'[r].isConnected = health[r].isConnected
                           /\ health'[r].known = health[r].known
    BY <2>1 DEF RecoveryInv, Health
  <2>5. UNCHANGED <<online, sinceAttempt, timers>>
    BY <1>8 DEF PerformHealthCheck
  <2> QED
    BY <2>3, <2>4, <2>5 DEF RecoveryInv
<1>9. CASE UNCHANGED rvars
  BY <1>9 DEF rvars, RecoveryInv
<1> QED
  BY <1>1, <1>2, <1>3, <1>4, <1>5, <1>6, <1>7, <1>8, <1>9 DEF RecoveryNext

LEMMA RecoveryInvHolds == RecoverySpec => []RecoveryInv
BY RecoveryInitInv, RecoveryStepInv, PTL DEF RecoverySpec

(* A source never has two reconnections pending, of which only the later   *)
(* one could be cancelled: a timer is due before the cooldown that         *)
(* scheduleRecovery waits for is over, and handleConnectionLost does not   *)
(* shorten it.                                                             *)
THEOREM ReconnectionIsSingle == RecoverySpec => []OneReconnection
<1>1. RecoveryInv => OneReconnection
  BY PendingFacts DEF RecoveryInv, OneReconnection
<1> QED
  BY <1>1, RecoveryInvHolds, PTL

(* getSystemHealth never counts a source that is not connected at that     *)
(* moment, so that what it reports rests on enough of them.                *)
THEOREM ReportsAreHonest == RecoverySpec => []HealthIsHonest
<1>1. ASSUME RecoveryInv PROVE HealthIsHonest
  <2> DEFINE C == {s \in online : health[s].known}
             T == {s \in Sources : health[s].known}
  <2>1. HealthySources \subseteq C /\ C \subseteq Sources /\ T \subseteq Sources
    BY <1>1 DEF RecoveryInv, HealthySources
  <2>2. IsFiniteSet(C) /\ IsFiniteSet(T) /\ IsFiniteSet(HealthySources)
    BY <2>1, RecoveryAssumption, FS_Subset
  <2>3. /\ Cardinality(HealthySources) \in Nat /\ Cardinality(C) \in Nat
        /\ Cardinality(T) \in Nat
        /\ Cardinality(HealthySources) <= Cardinality(C)
    BY <2>1, <2>2, FS_Subset, FS_CardinalityType
  <2> HIDE DEF C, T
  <2>4. /\ OverallHealth = "healthy" =>
             Cardinality(HealthySources) * 100 >= 80 * Cardinality(T)
        /\ OverallHealth = "degraded" =>
             Cardinality(HealthySources) * 100 >= 50 * Cardinality(T)
    BY <2>3 DEF OverallHealth, T
  <2> QED
    BY <2>3, <2>4 DEF HealthIsHonest, C, T
<1> QED
  BY <1>1, RecoveryInvHolds, PTL

=============================================================================
