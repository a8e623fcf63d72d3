---------------------------- MODULE SourceHealth ----------------------------
(***************************************************************************)
(* One data source, and who believes what of it: the adapter's own flag,   *)
(* the flag of AdapterDataSource, the metrics of the data manager with its *)
(* retry loops, and the adapter registry.  They hear of each other by      *)
(* events, within one task of the event loop, and by health checks and     *)
(* error handling that await something in between.                         *)
(*                                                                         *)
(* What the adapter does by itself is in ExchangeConnection; here it opens,*)
(* closes and fails as it likes.  The circuit of a source is left out: it  *)
(* is never executed through, so that nothing opens it.                    *)
(***************************************************************************)
EXTENDS Naturals, FiniteSetsExt

CONSTANTS
  MaxLoops,      \* bound of the retry loops that run at once
  Retries,       \* retries of a loop
  MaxErrors      \* bound of the errors that are being handled

ASSUME LimitAssumption == /\ MaxLoops \in Nat \ {0}
                          /\ Retries \in Nat /\ MaxErrors \in Nat \ {0}

Loops == 1 .. MaxLoops

VARIABLES
  up,             \* the adapter is connected
  connected,      \* the data source says it is
  belief,         \* of the data manager and the registry
  loop,           \* [Loops -> connectWithRetry]
  check,          \* the data manager's health check under way
  errors,         \* errors that are being handled
  orchestrating,  \* the orchestrator is connecting the adapter
  life            \* whether the data manager has metrics of the source

vars == <<up, connected, belief, loop, check, errors, orchestrating, life>>

-----------------------------------------------------------------------------
(* healthy: metrics.isHealthy; initialized: may be judged by a check;      *)
(* registry: the status there is healthy, not unknown or unhealthy.        *)
Belief == [healthy : BOOLEAN, initialized : BOOLEAN, registry : BOOLEAN]

(* connecting: source.connect is awaited; readying: between the checks of  *)
(* readiness; checking: the adapter's REST interface is asked; sleeping:   *)
(* until the next try.                                                     *)
Loop == [pc : {"idle", "connecting", "readying", "checking", "sleeping"},
         tries : 0 .. Retries]

(* healthy: as computed before the adapter's REST interface was asked.     *)
Check == [running : BOOLEAN, healthy : BOOLEAN]

NoLoop == [pc |-> "idle", tries |-> 0]
NoCheck == [running |-> FALSE, healthy |-> FALSE]

known == life = "added"

Init ==
  /\ up = FALSE /\ connected = FALSE
  /\ belief = [healthy |-> FALSE, initialized |-> FALSE, registry |-> FALSE]
  /\ loop = [l \in Loops |-> NoLoop]
  /\ check = NoCheck
  /\ errors = 0 /\ orchestrating = FALSE
  /\ life = "new"

(* handleSourceHealthy and handleSourceUnhealthy.                          *)
Told(b, healthy) == [b EXCEPT !.registry = healthy]

(* handleConnectionChange of the data manager, and whom it tells.          *)
HearsUp(b) ==
  IF known
  THEN [Told(b, TRUE) EXCEPT !.healthy = TRUE, !.initialized = TRUE]
  ELSE b

HearsDown(b) ==
  IF known THEN [Told(b, FALSE) EXCEPT !.healthy = FALSE] ELSE b

(* Mutant: no loop for a source that counts as unhealthy already.          *)
MutantRetried(lp, new) ==
  IF known /\ belief.healthy
  THEN [l \in Loops |-> IF l \in new THEN [pc |-> "connecting", tries |-> 0]
                        ELSE lp[l]]
  ELSE lp

(* Each news of a disconnection starts a loop, whatever loops there are.   *)
Retried(lp, new) ==
  IF known
  THEN [l \in Loops |-> IF l \in new THEN [pc |-> "connecting", tries |-> 0]
                        ELSE lp[l]]
  ELSE lp

(* The loops for n news of a disconnection: the first that are free, as    *)
(* loops are alike.  Bound: as many are free.                              *)
Free(n) ==
  LET idle == {l \in Loops : loop[l].pc = "idle"}
  IN  {S \in kSubset(n, idle) : \A l \in S, m \in idle \ S : l < m}

(* Bound: of errors being handled.                                         *)
Erred(n) == IF known /\ n < MaxErrors THEN n + 1 ELSE n

(* The data source's error event: the metrics, and the handling begins.    *)
HearsError(b) == IF known THEN [b EXCEPT !.healthy = FALSE] ELSE b

(* handleSourceDisconnection: the orchestrator connects an adapter that is *)
(* not connected, unless it did so lately.                                 *)
Orchestrated(down) ==
  orchestrating' \in IF down /\ known THEN {orchestrating, orchestrating \/ ~up'}
                     ELSE {orchestrating}

(* addDataSource.                                                          *)
AddDataSource ==
  /\ life = "new" /\ life' = "added"
  /\ loop' = [loop EXCEPT ![1].pc = "connecting"]
  /\ UNCHANGED <<up, connected, belief, check, errors, orchestrating>>

-----------------------------------------------------------------------------
(* The adapter's own events.                                               *)

(* Only a change is told.                                                  *)
AdapterOpens ==
  /\ ~up
  /\ up' = TRUE /\ connected' = TRUE
  /\ belief' = IF connected THEN belief ELSE HearsUp(belief)
  /\ UNCHANGED <<loop, check, errors, orchestrating, life>>

AdapterCloses ==
  /\ up
  /\ up' = FALSE /\ connected' = FALSE
  /\ belief' = IF connected THEN HearsDown(belief) ELSE belief
  /\ \E new \in Free(IF connected THEN 1 ELSE 0) : loop' = Retried(loop, new)
  /\ Orchestrated(connected)
  /\ UNCHANGED <<check, errors, life>>

(* An error of a connection is told as a disconnection, changed or not.    *)
AdapterError(ofConnection) ==
  /\ errors' = Erred(errors)
  /\ connected' = (connected /\ ~ofConnection)
  /\ belief' = IF ofConnection THEN HearsDown(HearsError(belief))
               ELSE HearsError(belief)
  /\ \E new \in Free(IF ofConnection THEN 1 ELSE 0) :
       loop' = Retried(loop, new)
  /\ UNCHANGED up
  /\ Orchestrated(ofConnection)
  /\ UNCHANGED <<check, life>>

(* Updates: the metrics count each that is valid as a sign of health, the  *)
(* registry only those of some confidence; one that is invalid is an error.*)
UpdateArrives(valid, confident) ==
  /\ up
  /\ belief' = IF ~known THEN belief
               ELSE [belief EXCEPT !.healthy = valid,
                       !.registry = @ \/ (valid /\ confident)]
  /\ errors' = IF valid THEN errors ELSE Erred(errors)
  /\ UNCHANGED <<up, connected, loop, check, orchestrating, life>>

-----------------------------------------------------------------------------
(* connectWithRetry, executeWithErrorHandling.                             *)

ConnectSucceeds(l) ==
  /\ loop[l].pc = "connecting"
  /\ up' = TRUE /\ connected' = TRUE
  /\ belief' = HearsUp(belief)
  /\ loop' = [loop EXCEPT ![l].pc = "readying"]
  /\ UNCHANGED <<check, errors, orchestrating, life>>

(* The adapter's connect has failed: it tells so, as a change and as an    *)
(* error, and returns; the data source takes the return for a success.     *)
ConnectFails(l, ofConnection) ==
  /\ loop[l].pc = "connecting" /\ ~up
  /\ errors' = Erred(errors)
  /\ connected' = TRUE
  /\ belief' = HearsUp(HearsError(belief))
  /\ \E new \in Free((IF connected THEN 1 ELSE 0)
                     + (IF ofConnection THEN 1 ELSE 0)) :
       loop' = [Retried(loop, new) EXCEPT ![l].pc = "readying"]
  /\ UNCHANGED up
  /\ Orchestrated(connected \/ ofConnection)
  /\ UNCHANGED <<check, life>>

(* Mutant: a loop that has succeeded starts anew.                          *)
MutantBecomesReady(l) ==
  /\ loop' = [loop EXCEPT ![l] = [pc |-> "connecting", tries |-> 0]]
  /\ belief' = IF known THEN [belief EXCEPT !.healthy = TRUE] ELSE belief

BecomesReady(l) ==
  /\ loop' = [loop EXCEPT ![l] = NoLoop]
  /\ belief' = IF known THEN [belief EXCEPT !.healthy = TRUE] ELSE belief

(* waitForSourceReadiness: an adapter that is connected is healthy; of     *)
(* another the REST interface is asked.                                    *)
CheckReadiness(l) ==
  /\ loop[l].pc = "readying" /\ connected
  /\ \/ up /\ BecomesReady(l)
     \/ ~up /\ loop' = [loop EXCEPT ![l].pc = "checking"] /\ UNCHANGED belief
  /\ UNCHANGED <<up, connected, check, errors, orchestrating, life>>

ReadinessChecked(l) ==
  /\ loop[l].pc = "checking"
  /\ \/ BecomesReady(l)
     \/ loop' = [loop EXCEPT ![l].pc = "readying"] /\ UNCHANGED belief
  /\ UNCHANGED <<up, connected, check, errors, orchestrating, life>>

(* The attempts run out: no latency or answer was good enough.             *)
NotReady(l) ==
  /\ loop[l].pc = "readying"
  /\ loop' = [loop EXCEPT ![l] = IF loop[l].tries < Retries
                                 THEN [loop[l] EXCEPT !.pc = "sleeping"]
                                 ELSE NoLoop]
  /\ belief' = HearsError(belief)
  /\ errors' = Erred(errors)
  /\ UNCHANGED <<up, connected, check, orchestrating, life>>

TryAgain(l) ==
  /\ loop[l].pc = "sleeping"
  /\ loop' = [loop EXCEPT ![l].pc = "connecting", ![l].tries = @ + 1]
  /\ UNCHANGED <<up, connected, belief, check, errors, orchestrating, life>>

(* reconnectExchange: the adapter's connect, past the data source.         *)
OrchestratorSucceeds ==
  /\ orchestrating
  /\ up' = TRUE /\ connected' = TRUE
  /\ belief' = IF connected THEN belief ELSE HearsUp(belief)
  /\ orchestrating' = FALSE
  /\ UNCHANGED <<loop, check, errors, life>>

OrchestratorFails(ofConnection) ==
  /\ orchestrating /\ ~up
  /\ errors' = Erred(errors)
  /\ connected' = FALSE
  /\ belief' = IF connected \/ ofConnection
               THEN HearsDown(HearsError(belief)) ELSE HearsError(belief)
  /\ \E new \in Free((IF connected THEN 1 ELSE 0)
                     + (IF ofConnection THEN 1 ELSE 0)) :
       loop' = Retried(loop, new)
  /\ orchestrating' = FALSE
  /\ UNCHANGED <<up, check, life>>

-----------------------------------------------------------------------------
(* handleSourceError, after the error handler: a normal closure is no      *)
(* error; any other makes the source unhealthy, whatever it is by now.     *)
ErrorHandled ==
  /\ errors > 0
  /\ errors' = errors - 1
  /\ belief' \in {belief, [belief EXCEPT !.registry = FALSE]}
  /\ UNCHANGED <<up, connected, loop, check, orchestrating, life>>

(* performHealthCheck, the end.                                            *)
Judged(b, healthy) ==
  IF ~known \/ b.healthy = healthy THEN b
  ELSE [Told(b, healthy) EXCEPT !.healthy = healthy]

(* current: the latency is below its limit.                                *)
HealthCheck(current) ==
  /\ known /\ belief.initialized /\ ~check.running
  /\ LET healthy == belief.healthy /\ connected /\ current
     IN  \/ /\ up
            /\ belief' = Judged(belief, healthy)
            /\ UNCHANGED check
         \/ /\ ~up
            /\ check' = [running |-> TRUE, healthy |-> healthy]
            /\ UNCHANGED belief
  /\ UNCHANGED <<up, connected, loop, errors, orchestrating, life>>

HealthChecked(answers) ==
  /\ check.running
  /\ check' = NoCheck
  /\ belief' = Judged(belief, check.healthy /\ answers)
  /\ UNCHANGED <<up, connected, loop, errors, orchestrating, life>>

(* removeDataSource, cleanup: loops are not stopped.                       *)
Forget ==
  /\ life = "added" /\ life' = "removed"
  /\ UNCHANGED <<up, connected, belief, loop, check, errors, orchestrating>>

-----------------------------------------------------------------------------
(* What makes trouble: the adapter closes, errs or cannot connect.         *)
Trouble ==
  \/ AdapterCloses
  \/ \E ofConnection \in BOOLEAN :
       \/ AdapterError(ofConnection) \/ OrchestratorFails(ofConnection)
       \/ \E l \in Loops : ConnectFails(l, ofConnection)

LoopStep(l) ==
  \/ ConnectSucceeds(l)
  \/ \E ofConnection \in BOOLEAN : ConnectFails(l, ofConnection)
  \/ CheckReadiness(l) \/ ReadinessChecked(l) \/ NotReady(l)
  \/ TryAgain(l)

OrchestratorStep ==
  \/ OrchestratorSucceeds
  \/ \E ofConnection \in BOOLEAN : OrchestratorFails(ofConnection)

Next ==
  \/ AddDataSource \/ AdapterOpens \/ AdapterCloses
  \/ \E ofConnection \in BOOLEAN : AdapterError(ofConnection)
  \/ \E valid, confident \in BOOLEAN : UpdateArrives(valid, confident)
  \/ \E l \in Loops : LoopStep(l)
  \/ OrchestratorStep
  \/ ErrorHandled
  \/ \E answer \in BOOLEAN : HealthCheck(answer) \/ HealthChecked(answer)
  \/ Forget

Spec == Init /\ [][Next]_vars

(* A connect is bounded by the adapter's time-outs and tries, a pause by   *)
(* its timer, and the checks of readiness by their attempts, which run out *)
(* however often the REST interface is asked in between.                   *)
Fairness == \A l \in Loops : WF_vars(LoopStep(l)) /\ SF_vars(NotReady(l))

FairSpec == Spec /\ Fairness

-----------------------------------------------------------------------------
(* Flags, beliefs and loops are of their types.                            *)
TypeOK ==
  /\ up \in BOOLEAN /\ connected \in BOOLEAN
  /\ belief \in Belief
  /\ loop \in [Loops -> Loop]
  /\ check \in Check
  /\ errors \in 0 .. MaxErrors
  /\ orchestrating \in BOOLEAN /\ life \in {"new", "added", "removed"}

(* A source the data manager knows and that is disconnected is being       *)
(* connected at this moment by a loop, whatever other loops, errors, the   *)
(* orchestrator and the adapter itself do (handleConnectionChange).        *)
AlwaysRetried ==
  known /\ ~connected => \E l \in Loops : loop[l].pc = "connecting"

(* However many loops the trouble of a source has started, they all end    *)
(* once it is over: none keeps another alive (connectWithRetry).           *)
RetriesDieOut ==
  <>[][~Trouble]_vars => <>[](\A l \in Loops : loop[l].pc = "idle")
=============================================================================
