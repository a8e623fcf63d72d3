----------------------------- MODULE ServerProofs -----------------------------
(***************************************************************************)
(* The safety properties of Startup, for every set of adapters, every      *)
(* number of feeds and of retries, and those of Requests with its rate     *)
(* limiters, for every number of clients and requests, and all limits.     *)
(***************************************************************************)
EXTENDS Startup, Requests, FiniteSetTheorems, TLAPS

-----------------------------------------------------------------------------
(* Startup.                                                                *)

LEMMA LimitFacts ==
  /\ Total \in Nat \ {0} /\ Early \in Nat \ {0} /\ Early < Total
  /\ MaxTries \in Nat \ {0} /\ MaxCalls * MaxTries \in Nat \ {0}
  /\ \A me \in Callers : /\ TriesOf(me) \in Nat \ {0}
                         /\ TriesOf(me) <= MaxCalls * MaxTries
<1>1. /\ Total \in Nat \ {0} /\ Early \in Nat \ {0} /\ 10 * Early < 9 * Total
      /\ MaxTries \in Nat \ {0} /\ MaxCalls \in Nat \ {0}
  BY StartupAssumption
<1>2. \A m, n \in Nat \ {0} : m * n \in Nat \ {0} /\ n <= m * n
  OBVIOUS
<1>3. MaxCalls * MaxTries \in Nat \ {0} /\ MaxTries <= MaxCalls * MaxTries
  BY <1>1, <1>2
<1> QED
  BY <1>1, <1>3 DEF TriesOf

(* A caller that waits may try again; nobody has begun before AppInit.     *)
CallerOK(me, c) ==
  /\ c.tries <= TriesOf(me)
  /\ c.at = "waiting" => c.tries < TriesOf(me)

StartupInv ==
  /\ TypeOK
  /\ \A me \in Callers : CallerOK(me, caller[me])
  /\ process.at = "creating" => caller = [c \in Callers |-> NoCall]

(* The callers' steps keep this.                                           *)
LEMMA BeginsType ==
  ASSUME NEW me \in Callers, NEW c \in Caller, c.tries < TriesOf(me)
  PROVE  Begins(c) \in Caller /\ CallerOK(me, Begins(c))
<1>1. c.tries + 1 \in 0 .. MaxCalls * MaxTries /\ c.tries + 1 <= TriesOf(me)
  BY LimitFacts DEF Caller
<1>2. Begins(c) \in Caller
  BY <1>1 DEF Begins, Caller
<1>3. Begins(c).tries = c.tries + 1 /\ Begins(c).at = "orchestrating"
  BY DEF Begins, Caller
<1> QED
  BY <1>1, <1>2, <1>3 DEF CallerOK

LEMMA OnwardType ==
  ASSUME StartupInv, NEW me \in Callers, NEW c \in Caller, CallerOK(me, c),
         Onward(c, me)
  PROVE  /\ caller' \in [Callers -> Caller]
         /\ \A d \in Callers : CallerOK(d, caller'[d])
         /\ source' \in [Adapters -> Source]
<1>1. caller \in [Callers -> Caller] /\ source \in [Adapters -> Source]
  BY DEF StartupInv, TypeOK
<1>2. ASSUME NEW a \in c.todo, Creating(c, me, a)
      PROVE  /\ caller' \in [Callers -> Caller]
             /\ \A d \in Callers : CallerOK(d, caller'[d])
             /\ source' \in [Adapters -> Source]
  <2> DEFINE d == [c EXCEPT !.at = "registering", !.todo = @ \ {a}, !.now = {a}]
  <2>1. a \in Adapters
    BY DEF Caller
  <2>2. d \in Caller /\ d.tries = c.tries /\ d.at = "registering"
    BY <2>1 DEF Caller
  <2>3. CallerOK(me, d)
    BY <2>2 DEF CallerOK
  <2>4. [source[a] EXCEPT !.tells = {me}] \in Source
    BY <1>1, <2>1 DEF Source
  <2>5. caller' = [caller EXCEPT ![me] = d]
    BY <1>2 DEF Creating
  <2>6. source' = [source EXCEPT ![a] = [source[a] EXCEPT !.tells = {me}]]
    BY <1>2, <1>1, <2>1 DEF Creating
  <2> HIDE DEF d
  <2> QED
    BY <1>1, <2>1, <2>2, <2>3, <2>4, <2>5, <2>6 DEF StartupInv
<1>3. CASE /\ caller' = [caller EXCEPT ![me] = [c EXCEPT !.at = "done", !.now = {}]]
           /\ UNCHANGED source
  <2> DEFINE d == [c EXCEPT !.at = "done", !.now = {}]
  <2>1. d \in Caller /\ d.tries = c.tries /\ d.at = "done"
    BY DEF Caller
  <2>2. CallerOK(me, d)
    BY <2>1 DEF CallerOK
  <2> HIDE DEF d
  <2>3. caller' = [caller EXCEPT ![me] = d]
    BY <1>3 DEF d
  <2> QED
    BY <1>3, <1>1, <2>1, <2>2, <2>3 DEF StartupInv
<1> QED
  BY <1>2, <1>3 DEF Onward

(* What becomes of a source.                                               *)
LEMMA SourceFacts ==
  ASSUME NEW s \in Source
  PROVE  /\ Synced(s) \in Source /\ Removed(s) \in Source
         /\ \A b \in BOOLEAN : Tells(s, b) \in Source /\ Hears(s, b) \in Source
         /\ \A b \in BOOLEAN : [s EXCEPT !.up = b] \in Source
         /\ [s EXCEPT !.known = "unhealthy"] \in Source
         /\ \A me \in Callers : [s EXCEPT !.held = {me}] \in Source
         /\ NoSource \in Source
<1>1. Synced(s) \in Source /\ Removed(s) \in Source /\ NoSource \in Source
  BY DEF Synced, Removed, NoSource, Source
<1>2. ASSUME NEW b \in BOOLEAN
      PROVE  Tells(s, b) \in Source /\ Hears(s, b) \in Source
  BY DEF Tells, Hears, Source
<1>3. ASSUME NEW b \in BOOLEAN
      PROVE  [s EXCEPT !.up = b] \in Source
  BY DEF Source
<1>4. /\ [s EXCEPT !.known = "unhealthy"] \in Source
      /\ \A me \in Callers : [s EXCEPT !.held = {me}] \in Source
  BY DEF Source
<1> QED
  BY <1>1, <1>2, <1>3, <1>4

(* What becomes of the coordinator: its count only grows, and it triggers  *)
(* the completion on enough data.                                          *)
LEMMA CoordinatorFacts ==
  ASSUME NEW c \in Coordinator
  PROVE  /\ Started(c) \in Coordinator /\ ShutDown(c) \in Coordinator
         /\ Checked(c) \in Coordinator /\ FellBack(c) \in Coordinator
         /\ c.age < 3 => [c EXCEPT !.age = @ + 1] \in Coordinator
         /\ \A n \in Nat : c.count + n \in Early .. Total
              => Tracked(c, n) \in Coordinator
         /\ NotStarted \in Coordinator
<1> USE LimitFacts
<1>1. Started(c) \in Coordinator /\ ShutDown(c) \in Coordinator
  BY DEF Started, ShutDown, Coordinator
<1>2. NotStarted \in Coordinator
  BY DEF NotStarted, Coordinator
<1>3. ASSUME NEW d \in Coordinator
      PROVE  Triggered(d) \in Coordinator /\ Announced(d) \in Coordinator
  <2>1. (IF d.announced < 2 THEN d.announced + 1 ELSE d.announced) \in 0 .. 2
    BY DEF Coordinator
  <2>2. Announced(d) \in Coordinator
    BY <2>1 DEF Announced, Coordinator
  <2> QED
    BY <2>2 DEF Triggered, Coordinator
<1>4. Checked(c) \in Coordinator
  BY <1>3 DEF Checked
<1>5. FellBack(c) \in Coordinator
  BY <1>3 DEF FellBack, Coordinator
<1>6. ASSUME c.age < 3 PROVE [c EXCEPT !.age = @ + 1] \in Coordinator
  <2>1. c.age + 1 \in 0 .. 3
    BY <1>6 DEF Coordinator
  <2> QED
    BY <2>1 DEF Coordinator
<1>7. ASSUME NEW n \in Nat, c.count + n \in Early .. Total
      PROVE  Tracked(c, n) \in Coordinator
  <2>1. [c EXCEPT !.count = @ + n] \in Coordinator
    BY <1>7 DEF Coordinator
  <2> QED
    BY <2>1, <1>3 DEF Tracked
<1> QED
  BY <1>1, <1>2, <1>4, <1>5, <1>6, <1>7

LEMMA NoCallFacts ==
  /\ NoCall \in Caller /\ NoCall.tries = 0 /\ NoCall.at = "idle"
  /\ \A me \in Callers : CallerOK(me, NoCall)
<1>1. 0 \in 0 .. MaxCalls * MaxTries
  BY LimitFacts
<1> QED
  BY <1>1, LimitFacts DEF NoCall, Caller, CallerOK

LEMMA ExitInv == ASSUME StartupInv, Exit PROVE StartupInv'
<1>1. NotStarted \in Coordinator /\ NoSource \in Source
  BY SourceFacts, CoordinatorFacts DEF NotStarted, Coordinator, NoSource, Source
<1>2. 0 \in 0 .. MaxChecks + 1
  BY StartupAssumption
<1>3. TypeOK'
  BY <1>1, <1>2, NoCallFacts DEF Exit, StartupInv, TypeOK
<1> QED
  BY <1>3, NoCallFacts DEF Exit, StartupInv

LEMMA StartupInitInv == Init => StartupInv
<1> SUFFICES ASSUME Init PROVE StartupInv
  OBVIOUS
<1>1. NotStarted \in Coordinator /\ NoSource \in Source
  BY DEF NotStarted, Coordinator, NoSource, Source
<1>2. 0 \in 0 .. MaxChecks + 1
  BY StartupAssumption
<1>3. TypeOK
  BY <1>1, <1>2, NoCallFacts DEF Init, TypeOK
<1> QED
  BY <1>3, NoCallFacts DEF Init, StartupInv

(* Nothing but AppInit makes a call of one that is idle, and nobody is     *)
(* before it but idle.                                                     *)
LEMMA CallerStepInv ==
  ASSUME StartupInv, NEW me \in Callers,
         Orchestrated(me) \/ Fails(me) \/ Retries(me) \/ Adds(me) \/ Added(me)
  PROVE  StartupInv' /\ UNCHANGED <<process, hooks, integration, coordinator, checks>>
<1>1. /\ caller \in [Callers -> Caller] /\ source \in [Adapters -> Source]
      /\ caller[me] \in Caller /\ CallerOK(me, caller[me])
  BY DEF StartupInv, TypeOK
<1>2. /\ UNCHANGED <<process, hooks, integration, coordinator, checks>>
      /\ caller[me].at # "idle"
  BY DEF Orchestrated, Fails, Retries, Adds, Added, Aside
<1>3. process'.at # "creating"
  BY <1>2, NoCallFacts DEF StartupInv
<1>4. SUFFICES /\ caller' \in [Callers -> Caller]
               /\ \A d \in Callers : CallerOK(d, caller'[d])
               /\ source' \in [Adapters -> Source]
  BY <1>2, <1>3 DEF StartupInv, TypeOK
<1>5. CASE Orchestrated(me)
  <2> DEFINE c == [caller[me] EXCEPT !.todo = Adapters]
  <2>1. c \in Caller /\ c.tries = caller[me].tries /\ c.at = caller[me].at
    BY <1>1 DEF Caller
  <2>2. CallerOK(me, c) /\ Onward(c, me)
    BY <1>5, <1>1, <2>1 DEF CallerOK, Orchestrated
  <2> HIDE DEF c
  <2> QED
    BY <2>1, <2>2, OnwardType
<1>6. CASE Fails(me)
  <2> DEFINE c == [caller[me] EXCEPT !.at =
                     IF caller[me].tries < TriesOf(me) THEN "waiting" ELSE "failed"]
  <2>1. caller' = [caller EXCEPT ![me] = c] /\ source' = source
    BY <1>6 DEF Fails
  <2>2. c \in Caller /\ CallerOK(me, c)
    BY <1>1 DEF Caller, CallerOK
  <2> HIDE DEF c
  <2> QED
    BY <1>1, <2>1, <2>2 DEF StartupInv
<1>7. CASE Retries(me)
  <2> DEFINE c == [caller[me] EXCEPT !.at = "done"]
  <2>1. /\ \/ caller' = [caller EXCEPT ![me] = c]
           \/ caller' = [caller EXCEPT ![me] = Begins(caller[me])]
        /\ source' = source /\ caller[me].at = "waiting"
    BY <1>7, <1>1 DEF Retries
  <2>2. c \in Caller /\ CallerOK(me, c)
    BY <1>1 DEF Caller, CallerOK
  <2>3. Begins(caller[me]) \in Caller /\ CallerOK(me, Begins(caller[me]))
    BY <1>1, <2>1, BeginsType DEF CallerOK
  <2> HIDE DEF c
  <2> QED
    BY <1>1, <2>1, <2>2, <2>3 DEF StartupInv
<1>8. CASE Adds(me)
  <2> DEFINE c == [caller[me] EXCEPT !.at = "adding"]
  <2>1. caller' = [caller EXCEPT ![me] = c]
    BY <1>8, <1>1 DEF Adds
  <2>2. c \in Caller /\ CallerOK(me, c)
    BY <1>1 DEF Caller, CallerOK
  <2>3. source' \in [Adapters -> Source]
    BY <1>8, <1>1, SourceFacts DEF Adds
  <2> HIDE DEF c
  <2> QED
    BY <1>1, <2>1, <2>2, <2>3 DEF StartupInv
<1>9. CASE Added(me)
  BY <1>9, <1>1, OnwardType DEF Added
<1> QED
  BY <1>5, <1>6, <1>7, <1>8, <1>9

(* A step of a source's connection changes its record in one of these ways.*)
LEMMA SourceSteps ==
  ASSUME TypeOK, NEW a \in Adapters,
         Opens(a) \/ Closes(a) \/ Connects(a) \/ FallsBehind(a)
  PROVE  \E s \in Source :
           /\ source' = [source EXCEPT ![a] = s]
           /\ UNCHANGED <<process, hooks, caller, integration, coordinator, checks>>
           /\ \E b \in BOOLEAN :
                \/ s = [Hears(source[a], b) EXCEPT !.up = b]
                \/ source[a].held # {} /\ s = Tells(source[a], b)
                \/ Wired /\ s = [source[a] EXCEPT !.known = "unhealthy"]
<1>1. source[a] \in Source
  BY DEF TypeOK
<1>2. \A b \in BOOLEAN : [Hears(source[a], b) EXCEPT !.up = b] \in Source
  BY <1>1, SourceFacts
<1>3. \A b \in BOOLEAN : Tells(source[a], b) \in Source
  BY <1>1, SourceFacts
<1>4. [source[a] EXCEPT !.known = "unhealthy"] \in Source
  BY <1>1, SourceFacts
<1> QED
  BY <1>2, <1>3, <1>4 DEF Opens, Closes, Connects, FallsBehind, SourceStep

(* A step of the coordinator.                                              *)
LEMMA CoordinatorSteps ==
  ASSUME TypeOK,
         \/ PeriodicCheck \/ FallbackCheck \/ Elapses
         \/ \E a \in Adapters : Prices(a)
  PROVE  /\ UNCHANGED <<process, hooks, caller, integration, source, checks>>
         /\ coordinator' \in Coordinator
         /\ \/ coordinator' = coordinator
            \/ coordinator' = Checked(coordinator)
            \/ coordinator' = FellBack(coordinator)
            \/ coordinator' = [coordinator EXCEPT !.age = @ + 1]
            \/ \E n \in Nat : coordinator' = Tracked(coordinator, n)
<1>1. coordinator \in Coordinator
  BY DEF TypeOK
<1>2. CASE PeriodicCheck
  BY <1>1, <1>2, CoordinatorFacts DEF PeriodicCheck
<1>3. CASE FallbackCheck
  BY <1>1, <1>3, CoordinatorFacts DEF FallbackCheck
<1>4. CASE Elapses
  BY <1>1, <1>4, CoordinatorFacts DEF Elapses
<1>5. ASSUME NEW a \in Adapters, Prices(a)
      PROVE  /\ UNCHANGED <<process, hooks, caller, integration, source, checks>>
             /\ coordinator' \in Coordinator
             /\ \/ coordinator' = coordinator
                \/ \E n \in Nat : coordinator' = Tracked(coordinator, n)
  <2>1. CASE coordinator.count = 0 /\ coordinator' = Tracked(coordinator, Early)
    <3>1. coordinator.count + Early \in Early .. Total
      BY <2>1, LimitFacts
    <3> QED
      BY <1>1, <1>5, <2>1, <3>1, LimitFacts, CoordinatorFacts DEF Prices
  <2>2. CASE /\ coordinator.count \in Early .. Total - 1
             /\ coordinator' = Tracked(coordinator, 1)
    <3>1. coordinator.count + 1 \in Early .. Total
      BY <2>2, LimitFacts
    <3> QED
      BY <1>1, <1>5, <2>2, <3>1, LimitFacts, CoordinatorFacts DEF Prices
  <2>3. CASE UNCHANGED coordinator
    BY <1>1, <1>5, <2>3 DEF Prices
  <2> QED
    BY <1>5, <2>1, <2>2, <2>3 DEF Prices
<1> QED
  BY <1>2, <1>3, <1>4, <1>5

LEMMA StartupStepInv == StartupInv /\ [Next]_vars => StartupInv'
<1> SUFFICES ASSUME StartupInv, [Next]_vars PROVE StartupInv'
  OBVIOUS
<1>1. /\ TypeOK /\ caller \in [Callers -> Caller] /\ source \in [Adapters -> Source]
      /\ coordinator \in Coordinator /\ \A me \in Callers : CallerOK(me, caller[me])
  BY DEF StartupInv, TypeOK
<1>2. CASE AppInit
  <2>1. /\ process' = [process EXCEPT !.at = "initialising"]
        /\ caller = [c \in Callers |-> NoCall]
        /\ integration' = "sources"
        /\ coordinator' \in {coordinator, Started(coordinator)}
        /\ UNCHANGED <<hooks, source, checks>>
    BY <1>2 DEF AppInit, StartupInv
  <2>2. \A me \in Callers : Begins(NoCall) \in Caller /\ CallerOK(me, Begins(NoCall))
    BY NoCallFacts, LimitFacts, BeginsType
  <2>3. /\ caller' \in [Callers -> Caller]
        /\ \A me \in Callers : CallerOK(me, caller'[me])
    BY <1>2, <2>1, <2>2, NoCallFacts DEF AppInit
  <2>4. coordinator' \in Coordinator
    BY <1>1, <2>1, CoordinatorFacts
  <2>5. TypeOK'
    BY <1>1, <2>1, <2>3, <2>4 DEF TypeOK
  <2>6. process'.at # "creating"
    BY <1>1, <2>1 DEF TypeOK
  <2> QED
    BY <2>3, <2>5, <2>6 DEF StartupInv
<1>3. CASE FailureExits \/ Exits
  BY <1>3, ExitInv DEF FailureExits, Exits
<1>4. ASSUME NEW me \in Callers,
             Orchestrated(me) \/ Fails(me) \/ Retries(me) \/ Adds(me) \/ Added(me)
      PROVE  StartupInv'
  BY <1>4, CallerStepInv
<1>5. CASE Wires
  <2>1. coordinator' \in Coordinator /\ source' \in [Adapters -> Source]
    BY <1>1, <1>5, CoordinatorFacts, SourceFacts DEF Wires
  <2> QED
    BY <1>1, <1>5, <2>1 DEF Wires, StartupInv, TypeOK
<1>6. CASE Subscribes \/ GivesUp
  BY <1>6 DEF Subscribes, GivesUp, StartupInv, TypeOK
<1>7. CASE Listens
  <2>1. 1 \in 0 .. MaxChecks + 1
    BY StartupAssumption
  <2> QED
    BY <1>1, <1>7, <2>1 DEF Listens, StartupInv, TypeOK
<1>8. ASSUME NEW a \in Adapters,
             Opens(a) \/ Closes(a) \/ Connects(a) \/ FallsBehind(a)
      PROVE  StartupInv'
  BY <1>1, <1>8, SourceSteps DEF StartupInv, TypeOK
<1>9. CASE \/ PeriodicCheck \/ FallbackCheck \/ Elapses
           \/ \E a \in Adapters : Prices(a)
  BY <1>1, <1>9, CoordinatorSteps DEF StartupInv, TypeOK
<1>10. CASE MonitorAsks
  <2>1. checks' \in 0 .. MaxChecks + 1
    <3>1. checks \in 1 .. MaxChecks /\ MaxChecks \in Nat
      BY <1>10, StartupAssumption DEF MonitorAsks
    <3>2. MaxChecks + 1 \in 0 .. MaxChecks + 1 /\ checks + 1 \in 0 .. MaxChecks + 1
      BY <3>1
    <3> QED
      BY <1>10, <3>2 DEF MonitorAsks
  <2> QED
    BY <1>10, <2>1 DEF MonitorAsks, StartupInv, TypeOK
<1>11. CASE ShutdownBegins \/ StartFails
  BY <1>1, <1>11 DEF ShutdownBegins, StartFails, StartupInv, TypeOK
<1>12. CASE Destroys
  <2>1. coordinator' \in Coordinator
    BY <1>1, <1>12, CoordinatorFacts DEF Destroys
  <2>2. source' \in [Adapters -> Source]
    <3>1. \A a \in Adapters : [Removed(source[a]) EXCEPT !.up = FALSE] \in Source
      BY <1>1, SourceFacts
    <3> QED
      BY <1>12, <3>1 DEF Destroys
  <2> QED
    BY <1>1, <1>12, <2>1, <2>2 DEF Destroys, StartupInv, TypeOK
<1>13. CASE UNCHANGED vars
  BY <1>13 DEF vars, StartupInv, TypeOK
<1> QED
  BY <1>2, <1>3, <1>4, <1>5, <1>6, <1>7, <1>8, <1>9, <1>10, <1>11, <1>12, <1>13
     DEF Next

LEMMA StartupInvHolds == Spec => []StartupInv
BY StartupInitInv, StartupStepInv, PTL DEF Spec

(* Adapters, callers and the coordinator are of their types; no caller     *)
(* tries more often than it may.                                           *)
THEOREM StartupTypeCorrect == Spec => []TypeOK
<1>1. StartupInv => TypeOK
  BY DEF StartupInv
<1> QED
  BY <1>1, StartupInvHolds, PTL

(* How far the process, the integration and its parts are.                 *)
StageInv ==
  /\ process.at = "creating" => integration = "idle"
  /\ Wired => caller["integration"].at = "done" /\ coordinator.on
  /\ process.at = "listening" => integration = "done"

(* The coordinator is not stopped but by the end of the process.           *)
LEMMA CoordinatorStaysOn ==
  ASSUME NEW c \in Coordinator, c.on
  PROVE  /\ Started(c).on /\ Checked(c).on /\ FellBack(c).on /\ ShutDown(c).on
         /\ [c EXCEPT !.age = @ + 1].on
         /\ \A n \in Nat : Tracked(c, n).on
BY DEF Started, Checked, FellBack, ShutDown, Tracked, Triggered, Announced,
       Coordinator

LEMMA StageInitInv == Init => StageInv
BY DEF Init, StageInv, Wired

LEMMA StageStepInv == StartupInv /\ StageInv /\ [Next]_vars => StageInv'
<1> SUFFICES ASSUME StartupInv, StageInv, [Next]_vars PROVE StageInv'
  OBVIOUS
<1>1. /\ TypeOK /\ caller \in [Callers -> Caller]
      /\ coordinator \in Coordinator
      /\ process \in [at : {"creating", "initialising", "listening", "failing", "exited"},
                      closing : BOOLEAN, destroyed : BOOLEAN]
      /\ "integration" \in Callers
  BY DEF StartupInv, TypeOK, Callers
<1>2. ASSUME Exit PROVE StageInv'
  BY <1>2 DEF Exit, StageInv, Wired
<1>3. CASE AppInit
  <2>1. process'.at = "initialising" /\ integration' = "sources"
    BY <1>3, <1>1 DEF AppInit
  <2> QED
    BY <2>1 DEF StageInv, Wired
<1>4. CASE FailureExits \/ Exits
  BY <1>4, <1>2 DEF FailureExits, Exits
<1>5. ASSUME NEW me \in Callers,
             Orchestrated(me) \/ Fails(me) \/ Retries(me) \/ Adds(me) \/ Added(me)
      PROVE  StageInv'
  <2>1. UNCHANGED <<process, hooks, integration, coordinator, checks>>
    BY <1>5, CallerStepInv
  <2>2. caller[me].at # "done"
    BY <1>5 DEF Orchestrated, Fails, Retries, Adds, Added
  <2>3. \A d \in Callers \ {me} : caller'[d] = caller[d]
    BY <1>5, <1>1 DEF Orchestrated, Fails, Retries, Adds, Added, Onward, Creating
  <2> QED
    BY <1>1, <2>1, <2>2, <2>3 DEF StageInv, Wired
<1>6. CASE Wires
  BY <1>6, <1>1 DEF Wires, StageInv, Wired, Started, Coordinator
<1>7. CASE Subscribes \/ GivesUp
  BY <1>7 DEF Subscribes, GivesUp, StageInv, Wired
<1>8. CASE Listens
  BY <1>8, <1>1 DEF Listens, StageInv, Wired, HooksDone
<1>9. ASSUME NEW a \in Adapters,
             Opens(a) \/ Closes(a) \/ Connects(a) \/ FallsBehind(a)
      PROVE  StageInv'
  BY <1>1, <1>9, SourceSteps DEF StageInv, Wired
<1>10. CASE \/ PeriodicCheck \/ FallbackCheck \/ Elapses
           \/ \E a \in Adapters : Prices(a)
  <2>1. /\ UNCHANGED <<process, integration, caller>>
        /\ coordinator.on => coordinator'.on
    BY <1>1, <1>10, CoordinatorSteps, CoordinatorStaysOn
  <2> QED
    BY <2>1 DEF StageInv, Wired
<1>11. CASE MonitorAsks
  BY <1>11 DEF MonitorAsks, StageInv, Wired
<1>12. CASE ShutdownBegins \/ StartFails
  BY <1>1, <1>12 DEF ShutdownBegins, StartFails, StageInv, Wired
<1>13. CASE Destroys
  BY <1>1, <1>13, CoordinatorStaysOn DEF Destroys, StageInv, Wired
<1>14. CASE UNCHANGED vars
  BY <1>14 DEF vars, StageInv, Wired
<1> QED
  BY <1>3, <1>4, <1>5, <1>6, <1>7, <1>8, <1>9, <1>10, <1>11, <1>12, <1>13, <1>14
     DEF Next

LEMMA StageInvHolds == Spec => [](StartupInv /\ StageInv)
BY StartupInvHolds, StageInitInv, StageStepInv, PTL DEF Spec

(* While the server listens, GET /health/live answers that the system is   *)
(* alive: the integration, its data sources and the coordinator are        *)
(* initialized before it listens and stay so until the process exits       *)
(* (main.ts, performLivenessChecks).                                       *)
THEOREM LivenessIsAnswered == Spec => []ListeningIsAlive
<1>1. StageInv => ListeningIsAlive
  BY DEF StageInv, ListeningIsAlive, Alive, IntegrationAnswers, Initialized,
         SourcesInitialized, Wired, Callers
<1> QED
  BY <1>1, StageInvHolds, PTL

(* Before the wiring the health service knows no source; a source is       *)
(* connected only while the data manager has it.                           *)
SourceKnown(s) ==
  /\ Wired /\ ~Stopped =>
       /\ s.held # {} /\ s.connected => s.known # "no"
       /\ s.known = "healthy" => s.connected
  /\ ~Wired => s.known = "no"
  /\ s.connected => s.held # {}

KnownInv == \A a \in Adapters : SourceKnown(source[a])

LEMMA KnownInitInv == Init => KnownInv
BY DEF Init, KnownInv, SourceKnown, NoSource, Wired

LEMMA KnownStepInv ==
  StartupInv /\ StageInv /\ KnownInv /\ [Next]_vars => KnownInv'
<1> SUFFICES ASSUME StartupInv, StageInv, KnownInv, [Next]_vars PROVE KnownInv'
  OBVIOUS
<1>1. /\ TypeOK /\ source \in [Adapters -> Source]
      /\ process \in [at : {"creating", "initialising", "listening", "failing", "exited"},
                      closing : BOOLEAN, destroyed : BOOLEAN]
  BY DEF StartupInv, TypeOK
<1>2. \A a \in Adapters : SourceKnown(source[a])
  BY DEF KnownInv
<1>3. ASSUME Exit PROVE KnownInv'
  <2>1. integration' = "idle" /\ source' = [a \in Adapters |-> NoSource]
    BY <1>3 DEF Exit
  <2> QED
    BY <2>1 DEF KnownInv, SourceKnown, Wired, NoSource
\* Steps that leave the sources and the wiring alone.
<1>4. ASSUME UNCHANGED source, Wired' = Wired, Stopped => Stopped' PROVE KnownInv'
  BY <1>2, <1>4 DEF KnownInv, SourceKnown
<1>5. CASE AppInit
  <2>1. /\ UNCHANGED source /\ integration = "idle" /\ integration' = "sources"
        /\ process'.destroyed = process.destroyed
    BY <1>5, <1>1 DEF AppInit, StageInv
  <2> QED
    BY <2>1, <1>4 DEF Wired, Stopped
<1>6. CASE FailureExits \/ Exits
  BY <1>6, <1>3 DEF FailureExits, Exits
<1>7. ASSUME NEW me \in Callers,
             Orchestrated(me) \/ Fails(me) \/ Retries(me) \/ Adds(me) \/ Added(me)
      PROVE  KnownInv'
  <2>1. UNCHANGED <<process, integration>>
    BY <1>7, CallerStepInv
  <2>2. ASSUME NEW a \in Adapters
        PROVE  \/ source'[a] = source[a]
               \/ source'[a] = [source[a] EXCEPT !.tells = {me}]
               \/ source[a].held = {} /\ source'[a] = [source[a] EXCEPT !.held = {me}]
    BY <1>7, <1>1 DEF Orchestrated, Fails, Retries, Adds, Added, Onward, Creating
  <2>3. Wired' = Wired /\ Stopped' = Stopped
    BY <2>1 DEF Wired, Stopped
  <2>4. ASSUME NEW a \in Adapters PROVE SourceKnown(source[a])'
    <3>1. SourceKnown(source[a]) /\ source[a] \in Source
      BY <1>2, <1>1
    <3>2. /\ source'[a].connected = source[a].connected
          /\ source'[a].known = source[a].known
      <4>1. CASE source'[a] = source[a]
        BY <4>1
      <4>2. CASE source'[a] = [source[a] EXCEPT !.tells = {me}]
        BY <3>1, <4>2 DEF Source
      <4>3. CASE source'[a] = [source[a] EXCEPT !.held = {me}]
        BY <3>1, <4>3 DEF Source
      <4> QED
        BY <2>2, <4>1, <4>2, <4>3
    <3>3. source'[a].held = source[a].held \/ source[a].held = {}
      BY <2>2, <3>1 DEF Source
    <3> QED
      BY <2>3, <3>1, <3>2, <3>3 DEF SourceKnown
  <2> QED
    BY <2>4 DEF KnownInv
<1>8. CASE Wires
  <2>1. /\ ~Wired /\ Wired'
        /\ source' = [a \in Adapters |-> Synced(source[a])]
    BY <1>8 DEF Wires, Wired
  <2> QED
    BY <1>1, <1>2, <2>1 DEF KnownInv, SourceKnown, Synced, Source
<1>9. CASE Subscribes \/ GivesUp
  BY <1>9, <1>4 DEF Subscribes, GivesUp, Wired, Stopped
<1>10. CASE Listens
  BY <1>10, <1>1, <1>4 DEF Listens, Wired, Stopped
<1>11. ASSUME NEW a \in Adapters,
             Opens(a) \/ Closes(a) \/ Connects(a) \/ FallsBehind(a)
      PROVE  KnownInv'
  <2>1. PICK s \in Source :
          /\ source' = [source EXCEPT ![a] = s]
          /\ UNCHANGED <<process, hooks, caller, integration, coordinator, checks>>
          /\ \E b \in BOOLEAN :
               \/ s = [Hears(source[a], b) EXCEPT !.up = b]
               \/ source[a].held # {} /\ s = Tells(source[a], b)
               \/ Wired /\ s = [source[a] EXCEPT !.known = "unhealthy"]
    BY <1>1, <1>11, SourceSteps
  <2>2. SourceKnown(source[a]) /\ source[a] \in Source
    BY <1>2, <1>1
  <2>3. SourceKnown(s)
    <3>1. ASSUME NEW b \in BOOLEAN, source[a].held # {}
          PROVE  SourceKnown(Tells(source[a], b))
      <4> DEFINE t == Tells(source[a], b)
      <4>1. /\ t.connected = b /\ t.held = source[a].held
            /\ t.known = IF ~Wired THEN source[a].known
                         ELSE IF b THEN "healthy" ELSE "unhealthy"
        BY <2>2 DEF Tells, Source
      <4> HIDE DEF t
      <4>2. SourceKnown(t)
        BY <2>2, <3>1, <4>1 DEF SourceKnown
      <4> QED
        BY <4>2 DEF t
    <3>2. ASSUME NEW b \in BOOLEAN
          PROVE  SourceKnown(Hears(source[a], b)) /\ Hears(source[a], b) \in Source
      BY <2>2, <3>1, SourceFacts DEF Hears
    <3>3. ASSUME NEW b \in BOOLEAN
          PROVE  SourceKnown([Hears(source[a], b) EXCEPT !.up = b])
      BY <3>2 DEF SourceKnown, Source
    <3>4. Wired => SourceKnown([source[a] EXCEPT !.known = "unhealthy"])
      BY <2>2 DEF SourceKnown, Source
    <3> QED
      BY <2>1, <3>1, <3>3, <3>4
  <2>4. Wired' = Wired /\ Stopped' = Stopped
    BY <2>1 DEF Wired, Stopped
  <2> QED
    BY <1>1, <1>2, <2>1, <2>3, <2>4 DEF KnownInv, SourceKnown
<1>12. CASE \/ PeriodicCheck \/ FallbackCheck \/ Elapses
           \/ \E a \in Adapters : Prices(a)
  BY <1>1, <1>12, <1>4, CoordinatorSteps DEF Wired, Stopped
<1>13. CASE MonitorAsks
  BY <1>13, <1>4 DEF MonitorAsks, Wired, Stopped
<1>14. CASE ShutdownBegins \/ StartFails
  BY <1>1, <1>14, <1>4 DEF ShutdownBegins, StartFails, Wired, Stopped
<1>15. CASE Destroys
  <2>1. /\ Stopped' /\ Wired' = Wired
        /\ source' = [a \in Adapters |-> [Removed(source[a]) EXCEPT !.up = FALSE]]
    BY <1>15, <1>1 DEF Destroys, Stopped, Wired
  <2>2. ASSUME NEW a \in Adapters
        PROVE  /\ source'[a].known = source[a].known
               /\ ~source'[a].connected
    BY <1>1, <2>1 DEF Removed, Source
  <2> QED
    BY <1>2, <2>1, <2>2 DEF KnownInv, SourceKnown
<1>16. CASE UNCHANGED vars
  BY <1>16, <1>4 DEF vars, Wired, Stopped
<1> QED
  BY <1>5, <1>6, <1>7, <1>8, <1>9, <1>10, <1>11, <1>12, <1>13, <1>14, <1>15, <1>16
     DEF Next

(* From the wiring of the services until they are destroyed the health     *)
(* service has every connected source of the data manager in its list and  *)
(* counts none as healthy that is not connected: the synchronisation       *)
(* catches those that were connected before, and events tell of the others *)
(* (wireServiceInteractions, syncInitialSourceHealth).                     *)
THEOREM HealthServiceKnows == Spec => []SourcesAreKnown
<1>1. KnownInv => SourcesAreKnown
  BY DEF KnownInv, SourceKnown, SourcesAreKnown
<1> QED
  BY <1>1, StageInvHolds, KnownInitInv, KnownStepInv, PTL DEF Spec

(* The flag is the announcement, and was set on enough data.               *)
HonestCoordinator(c) ==
  /\ c.announced = IF c.triggered THEN 1 ELSE 0
  /\ c.triggered => Ready(c, 90)

LEMMA HonestFacts ==
  ASSUME NEW c \in Coordinator, HonestCoordinator(c)
  PROVE  /\ HonestCoordinator(NotStarted)
         /\ HonestCoordinator(Started(c)) /\ HonestCoordinator(ShutDown(c))
         /\ HonestCoordinator(Checked(c)) /\ HonestCoordinator(FellBack(c))
         /\ HonestCoordinator([c EXCEPT !.age = @ + 1])
         /\ \A n \in Nat : HonestCoordinator(Tracked(c, n))
<1> USE LimitFacts
<1>1. c.count \in Nat /\ Total \in Nat /\ c.triggered \in BOOLEAN
  BY DEF Coordinator
<1>2. HonestCoordinator(NotStarted)
  BY DEF HonestCoordinator, NotStarted
<1>3. /\ HonestCoordinator(Started(c)) /\ HonestCoordinator(ShutDown(c))
      /\ HonestCoordinator([c EXCEPT !.age = @ + 1])
  BY <1>1 DEF HonestCoordinator, Started, ShutDown, Ready, Coordinator
\* More data, whatever becomes of it.
<1>4. ASSUME NEW n \in Nat, NEW d, d = [c EXCEPT !.count = @ + n]
      PROVE  /\ HonestCoordinator(d)
             /\ Complete(d) /\ ~d.triggered => HonestCoordinator(Triggered(d))
             /\ Ready(d, 90) /\ ~d.triggered
                  => HonestCoordinator([Announced(d) EXCEPT !.fallback = FALSE])
  <2>1. /\ d.count = c.count + n /\ d.count \in Nat
        /\ d.triggered = c.triggered /\ d.announced = c.announced
    BY <1>4, <1>1 DEF Coordinator
  <2>2. Complete(d) => Ready(d, 90)
    BY <2>1 DEF Complete, Ready
  <2>3. HonestCoordinator(d)
    BY <2>1, <1>1 DEF HonestCoordinator, Ready
  <2>4. ASSUME ~d.triggered
        PROVE  /\ Triggered(d).count = d.count /\ Triggered(d).announced = 1
               /\ Triggered(d).triggered = TRUE
               /\ [Announced(d) EXCEPT !.fallback = FALSE].count = d.count
               /\ [Announced(d) EXCEPT !.fallback = FALSE].announced = 1
               /\ [Announced(d) EXCEPT !.fallback = FALSE].triggered = TRUE
    BY <1>4, <2>3, <2>4 DEF HonestCoordinator, Triggered, Announced, Coordinator
  <2> QED
    BY <2>2, <2>3, <2>4 DEF HonestCoordinator, Ready
<1>5. c = [c EXCEPT !.count = @ + 0]
  BY <1>1 DEF Coordinator
<1>6. HonestCoordinator(Checked(c))
  BY <1>4, <1>5 DEF Checked
<1>7. HonestCoordinator(FellBack(c))
  <2>1. HonestCoordinator([c EXCEPT !.fallback = FALSE])
    BY DEF HonestCoordinator, Ready, Coordinator
  <2> QED
    BY <1>4, <1>5, <2>1 DEF FellBack
<1>8. \A n \in Nat : HonestCoordinator(Tracked(c, n))
  BY <1>4 DEF Tracked
<1> QED
  BY <1>2, <1>3, <1>6, <1>7, <1>8

(* The end of start-up is announced once at most and not below 90 % of the *)
(* feeds, though three checks look for it: each sets the flag as it        *)
(* announces, and data are never taken back.                               *)
THEOREM CompletionIsAnnouncedOnce == Spec => []CompletionIsHonest
<1> DEFINE Honest == HonestCoordinator(coordinator)
<1>1. Init => Honest
  BY DEF Init, HonestCoordinator, NotStarted
<1>2. ASSUME StartupInv, Honest, [Next]_vars PROVE Honest'
  <2>1. TypeOK /\ coordinator \in Coordinator
    BY <1>2 DEF StartupInv, TypeOK
  <2>2. CASE AppInit \/ Wires
    BY <1>2, <2>1, <2>2, HonestFacts DEF AppInit, Wires
  <2>3. CASE FailureExits \/ Exits
    BY <1>2, <2>1, <2>3, HonestFacts DEF FailureExits, Exits, Exit
  <2>4. ASSUME NEW me \in Callers,
               Orchestrated(me) \/ Fails(me) \/ Retries(me) \/ Adds(me) \/ Added(me)
        PROVE  Honest'
    BY <1>2, <2>4, CallerStepInv
  <2>5. CASE \/ Subscribes \/ GivesUp \/ Listens \/ MonitorAsks
           \/ StartFails \/ ShutdownBegins
    BY <1>2, <2>5 DEF Subscribes, GivesUp, Listens, MonitorAsks, StartFails,
                      ShutdownBegins
  <2>6. ASSUME NEW a \in Adapters,
               Opens(a) \/ Closes(a) \/ Connects(a) \/ FallsBehind(a)
        PROVE  Honest'
    BY <1>2, <2>1, <2>6, SourceSteps
  <2>7. CASE \/ PeriodicCheck \/ FallbackCheck \/ Elapses
             \/ \E a \in Adapters : Prices(a)
    BY <1>2, <2>1, <2>7, CoordinatorSteps, HonestFacts
  <2>8. CASE Destroys
    BY <1>2, <2>1, <2>8, HonestFacts DEF Destroys
  <2>9. CASE UNCHANGED vars
    BY <1>2, <2>9 DEF vars
  <2> QED
    BY <1>2, <2>2, <2>3, <2>4, <2>5, <2>6, <2>7, <2>8, <2>9 DEF Next
<1>3. Honest => CompletionIsHonest
  BY DEF HonestCoordinator, CompletionIsHonest
<1> QED
  BY <1>1, <1>2, <1>3, StartupInvHolds, PTL DEF Spec

-----------------------------------------------------------------------------
(* RateLimiter.                                                            *)

Counts == [Ages -> Nat]
InWindow == 0 .. Window - 1
Hits(counts, ages) == UNION {{a} \X (1 .. counts[a]) : a \in ages}

LEMMA WindowFacts ==
  /\ Window \in Nat \ {0} /\ 2 * Window \in Nat
  /\ \A l \in Limiters : Limit[l] \in Nat \ {0}
  /\ 0 \in InWindow /\ 0 \in Ages /\ InWindow \subseteq Ages
  /\ IsFiniteSet(Ages) /\ IsFiniteSet(InWindow)
<1>1. Window \in Nat \ {0} /\ \A l \in Limiters : Limit[l] \in Nat \ {0}
  BY LimitAssumption DEF Limiters, Limit
<1>2. 2 * Window \in Nat /\ Window - 1 \in Nat
  BY <1>1
<1>3. 0 \in InWindow /\ 0 \in Ages /\ InWindow \subseteq Ages
  BY <1>1 DEF InWindow, Ages
<1>4. IsFiniteSet(Ages) /\ IsFiniteSet(InWindow)
  BY <1>2, FS_Interval DEF Ages, InWindow
<1> QED
  BY <1>1, <1>2, <1>3, <1>4

LEMMA HitsElements ==
  ASSUME NEW counts, NEW ages
  PROVE  \A h : h \in Hits(counts, ages)
                  <=> \E a \in ages : \E i \in 1 .. counts[a] : h = <<a, i>>
BY DEF Hits

LEMMA HitsFinite ==
  ASSUME NEW counts \in Counts, NEW ages \in SUBSET Ages
  PROVE  /\ IsFiniteSet(Hits(counts, ages))
         /\ Number(counts, ages) = Cardinality(Hits(counts, ages))
         /\ Number(counts, ages) \in Nat
<1> DEFINE family == {{a} \X (1 .. counts[a]) : a \in ages}
           f == [a \in ages |-> {a} \X (1 .. counts[a])]
<1>1. IsFiniteSet(ages)
  BY WindowFacts, FS_Subset
<1>2. f \in Surjection(ages, family)
  BY DEF Surjection
<1>3. IsFiniteSet(family)
  <2> HIDE DEF f, family
  <2> QED
    BY <1>1, <1>2, FS_Surjection
<1>4. ASSUME NEW a \in ages PROVE IsFiniteSet({a} \X (1 .. counts[a]))
  <2>1. counts[a] \in Nat
    BY DEF Counts
  <2>2. IsFiniteSet(1 .. counts[a])
    BY <2>1, FS_Interval
  <2>3. IsFiniteSet({a})
    BY FS_Singleton
  <2> QED
    BY <2>2, <2>3, FS_Product
<1>5. IsFiniteSet(UNION family)
  <2>1. \A S \in family : IsFiniteSet(S)
    BY <1>4
  <2> HIDE DEF family
  <2> QED
    BY <1>3, <2>1, FS_UNION
<1> QED
  BY <1>5, FS_CardinalityType DEF Hits, Number

(* Less is not more.                                                       *)
LEMMA NumberMonotone ==
  ASSUME NEW c \in Counts, NEW d \in Counts, NEW A \in SUBSET Ages,
         NEW B \in SUBSET Ages, A \subseteq B, \A a \in A : c[a] <= d[a]
  PROVE  Number(c, A) <= Number(d, B)
<1>1. \A a \in A : 1 .. c[a] \subseteq 1 .. d[a]
  BY DEF Counts
<1>2. Hits(c, A) \in SUBSET Hits(d, B)
  BY <1>1, HitsElements
<1> QED
  BY <1>2, HitsFinite, FS_Subset

(* One more is one more at most.                                           *)
LEMMA NumberAdd ==
  ASSUME NEW c \in Counts, NEW A \in SUBSET Ages
  PROVE  /\ [c EXCEPT ![0] = @ + 1] \in Counts
         /\ Number([c EXCEPT ![0] = @ + 1], A) <= Number(c, A) + 1
<1> DEFINE d == [c EXCEPT ![0] = @ + 1]
<1>1. c[0] \in Nat /\ 0 \in Ages
  BY WindowFacts DEF Counts
<1>2. d \in Counts /\ d[0] = c[0] + 1 /\ \A a \in Ages \ {0} : d[a] = c[a]
  BY <1>1 DEF Counts
<1>3. ASSUME NEW a \in A, NEW i \in 1 .. d[a]
      PROVE  <<a, i>> = <<0, c[0] + 1>> \/ i \in 1 .. c[a]
  BY <1>1, <1>2, <1>3 DEF Counts
<1> HIDE DEF d
<1>4. Hits(d, A) \in SUBSET (Hits(c, A) \cup {<<0, c[0] + 1>>})
  BY <1>3, HitsElements
<1>5. /\ IsFiniteSet(Hits(c, A) \cup {<<0, c[0] + 1>>})
      /\ Cardinality(Hits(c, A) \cup {<<0, c[0] + 1>>}) <= Cardinality(Hits(c, A)) + 1
  <2>1. ASSUME NEW S, NEW x, IsFiniteSet(S)
        PROVE  IsFiniteSet(S \cup {x}) /\ Cardinality(S \cup {x}) <= Cardinality(S) + 1
    BY <2>1, FS_AddElement, FS_CardinalityType
  <2> QED
    BY <2>1, HitsFinite
<1>6. /\ Cardinality(Hits(d, A)) <= Cardinality(Hits(c, A) \cup {<<0, c[0] + 1>>})
      /\ Cardinality(Hits(c, A) \cup {<<0, c[0] + 1>>}) \in Nat
  BY <1>4, <1>5, FS_Subset, FS_CardinalityType
<1>7. Number(d, A) <= Number(c, A) + 1
  BY <1>2, <1>5, <1>6, HitsFinite
<1> QED
  BY <1>2, <1>7 DEF d

(* As time goes on, requests leave the window and none enters it.          *)
LEMMA NumberOlder ==
  ASSUME NEW c \in Counts
  PROVE  /\ Older(c) \in Counts
         /\ Number(Older(c), InWindow) <= Number(c, InWindow)
<1> DEFINE H == Hits(Older(c), InWindow)
           G == Hits(c, InWindow)
           f == [h \in H |-> <<h[1] - 1, h[2]>>]
<1>1. Older(c) \in Counts
  BY WindowFacts DEF Older, Counts, Ages
<1>2. ASSUME NEW h \in H
      PROVE  /\ h = <<h[1], h[2]>> /\ h[1] \in Nat \ {0} /\ f[h] \in G
             /\ f[h] = <<h[1] - 1, h[2]>>
  <2>1. PICK a \in InWindow : \E i \in 1 .. Older(c)[a] : h = <<a, i>>
    BY HitsElements
  <2>2. PICK i \in 1 .. Older(c)[a] : h = <<a, i>>
    BY <2>1
  <2>3. a \in Ages /\ a \in Nat
    BY WindowFacts DEF Ages
  <2>4. a # 0
    BY <2>2, <2>3 DEF Older
  <2>5. a - 1 \in InWindow /\ i \in 1 .. c[a - 1]
    BY <2>2, <2>3, <2>4, WindowFacts DEF Older, InWindow
  <2>6. <<a - 1, i>> \in G
    BY <2>5, HitsElements
  <2> QED
    BY <2>2, <2>3, <2>4, <2>6
<1>3. f \in Injection(H, G)
  <2>1. f \in [H -> G]
    BY <1>2
  <2>2. ASSUME NEW h \in H, NEW k \in H, f[h] = f[k] PROVE h = k
    <3>1. h[1] - 1 = k[1] - 1 /\ h[2] = k[2]
      BY <1>2, <2>2
    <3>2. h[1] \in Nat /\ k[1] \in Nat
      BY <1>2
    <3>3. h[1] = k[1]
      BY <3>1, <3>2
    <3> QED
      BY <1>2, <3>1, <3>3
  <2> HIDE DEF f, H, G
  <2> QED
    BY <2>1, <2>2 DEF Injection, IsInjective
<1>4. IsFiniteSet(G) /\ Number(c, InWindow) = Cardinality(G)
      /\ Number(Older(c), InWindow) = Cardinality(H)
  BY <1>1, WindowFacts, HitsFinite
<1> HIDE DEF f, H, G
<1>5. Cardinality(H) <= Cardinality(G)
  BY <1>3, <1>4, FS_Injection
<1> QED
  BY <1>1, <1>4, <1>5

(* The record of a client that has had no more than its limit.             *)
Within(l, client) ==
  client \in Client /\ Number(client.admitted, InWindow) <= Limit[l]

LEMMA KeptFacts ==
  ASSUME NEW c \in Counts, NEW age \in Nat
  PROVE  Kept(c, age) \in Counts /\ \A a \in Ages : Kept(c, age)[a] <= c[a]
BY DEF Kept, Counts

LEMMA YoungerFacts ==
  ASSUME NEW client \in Client, NEW age \in Nat
  PROVE  /\ Younger(client, age) \in Client
         /\ Younger(client, age).admitted = Kept(client.admitted, age)
         /\ Number(Younger(client, age).admitted, InWindow)
              <= Number(client.admitted, InWindow)
<1>1. client.admitted \in Counts /\ client.refused \in Counts
  BY DEF Client, Counts
<1>2. Kept(client.admitted, age) \in Counts /\ Kept(client.refused, age) \in Counts
  BY <1>1, KeptFacts
<1>3. /\ Younger(client, age) \in Client
      /\ Younger(client, age).admitted = Kept(client.admitted, age)
  BY <1>2 DEF Younger, Client, Counts
<1>4. Number(Kept(client.admitted, age), InWindow) <= Number(client.admitted, InWindow)
  BY <1>1, <1>2, KeptFacts, WindowFacts, NumberMonotone
<1> QED
  BY <1>3, <1>4

(* A guard lets a request through while all that it counts, refused        *)
(* requests included, are below the limit.                                 *)
LEMMA RecordedWithin ==
  ASSUME NEW l \in Limiters, NEW client, Within(l, client)
  PROVE  Within(l, Recorded(l, client))
<1> DEFINE pruned == Pruned(client)
           younger == Younger(client, Window)
<1>1. /\ younger \in Client
      /\ Number(younger.admitted, InWindow) <= Number(client.admitted, InWindow)
  BY WindowFacts, YoungerFacts DEF Within
<1>2. /\ pruned \in Client
      /\ pruned.admitted = younger.admitted /\ pruned.admitted \in Counts
  BY <1>1 DEF Pruned, Client, Counts
<1>3. /\ client.admitted \in Counts
      /\ Number(client.admitted, InWindow) \in Nat
      /\ Number(pruned.admitted, InWindow) \in Nat
      /\ Number(client.admitted, InWindow) <= Limit[l]
      /\ Limit[l] \in Nat
  BY <1>2, WindowFacts, HitsFinite DEF Within, Client, Counts
<1>4. CASE Blocked(l, client)
  <2> DEFINE c == [pruned EXCEPT !.refused[0] = IF @ < Limit[l] THEN @ + 1 ELSE @]
  <2>1. Recorded(l, client) = c
    BY <1>4 DEF Recorded
  <2>2. pruned.refused[0] \in Nat
    BY <1>2, WindowFacts DEF Client
  <2>3. (IF pruned.refused[0] < Limit[l] THEN pruned.refused[0] + 1
         ELSE pruned.refused[0]) \in Nat
    BY <2>2
  <2>4. c \in Client /\ c.admitted = pruned.admitted
    BY <1>2, <2>3, WindowFacts DEF Client
  <2> HIDE DEF c, pruned, younger
  <2> QED
    BY <1>1, <1>2, <1>3, <2>1, <2>4 DEF Within
<1>5. CASE ~Blocked(l, client)
  <2> DEFINE more == [pruned.admitted EXCEPT ![0] = @ + 1]
             c == [pruned EXCEPT !.admitted = more]
  <2>1. Recorded(l, client) = c
    BY <1>2, <1>5 DEF Recorded, Client
  <2>2. /\ more \in Counts
        /\ Number(more, InWindow) <= Number(pruned.admitted, InWindow) + 1
        /\ Number(more, InWindow) \in Nat
    <3> HIDE DEF pruned
    <3> QED
      BY <1>2, NumberAdd, HitsFinite, WindowFacts
  <2>3. c \in Client /\ c.admitted = more
    BY <1>2, <2>2 DEF Client, Counts
  <2>4. Number(pruned.admitted, InWindow) <= Number(pruned.admitted, Ages)
    <3> HIDE DEF pruned
    <3>1. \A a \in InWindow : pruned.admitted[a] <= pruned.admitted[a]
      BY <1>2, WindowFacts DEF Counts
    <3> QED
      BY <1>2, <3>1, WindowFacts, NumberMonotone
  <2>5. /\ Number(pruned.admitted, Ages) \in Nat
        /\ pruned.refused \in Counts /\ Number(pruned.refused, Ages) \in Nat
    <3>1. pruned.refused \in Counts
      BY <1>2 DEF Client, Counts
    <3> HIDE DEF pruned
    <3> QED
      BY <1>2, <3>1, HitsFinite
  <2>6. Number(pruned.admitted, Ages) + Number(pruned.refused, Ages) < Limit[l]
    <3>1. ~(Number(pruned.admitted, Ages) + Number(pruned.refused, Ages) >= Limit[l])
      BY <1>5 DEF Blocked, HitsInWindow
    <3> HIDE DEF pruned
    <3> QED
      BY <1>3, <2>5, <3>1
  <2> HIDE DEF pruned, more, c
  <2>7. Number(more, InWindow) <= Limit[l]
    BY <1>3, <2>2, <2>4, <2>5, <2>6
  <2> QED
    BY <2>1, <2>3, <2>7 DEF Within
<1> QED
  BY <1>4, <1>5

LEMMA NobodyWithin == \A l \in Limiters : Within(l, Nobody)
<1>1. Nobody \in Client /\ Nobody.admitted \in Counts
  BY DEF Nobody, Client, Counts
<1>2. Hits(Nobody.admitted, InWindow) = {}
  BY HitsElements, WindowFacts DEF Nobody
<1>3. Number(Nobody.admitted, InWindow) = 0
  BY <1>1, <1>2, HitsFinite, WindowFacts, FS_EmptySet
<1> QED
  BY <1>1, <1>3, WindowFacts DEF Within

LEMMA TidiedWithin ==
  ASSUME NEW l \in Limiters, NEW client, Within(l, client)
  PROVE  Within(l, Tidied(client))
<1> DEFINE younger == Younger(client, 2 * Window)
<1>1. /\ younger \in Client
      /\ Number(younger.admitted, InWindow) <= Number(client.admitted, InWindow)
  BY WindowFacts, YoungerFacts DEF Within
<1>2. /\ Number(younger.admitted, InWindow) \in Nat
      /\ Number(client.admitted, InWindow) \in Nat /\ Limit[l] \in Nat
  <2>1. younger.admitted \in Counts /\ client.admitted \in Counts
    BY <1>1 DEF Within, Client, Counts
  <2> QED
    BY <2>1, HitsFinite, WindowFacts
<1>3. Within(l, younger)
  <2> HIDE DEF younger
  <2> QED
    BY <1>1, <1>2 DEF Within
<1> QED
  BY <1>3, NobodyWithin DEF Tidied

LEMMA AgedWithin ==
  ASSUME NEW l \in Limiters, NEW client, Within(l, client)
  PROVE  Within(l, [client EXCEPT !.admitted = Older(@), !.refused = Older(@)])
<1> DEFINE c == [client EXCEPT !.admitted = Older(@), !.refused = Older(@)]
<1>1. client.admitted \in Counts /\ client.refused \in Counts
  BY DEF Within, Client, Counts
<1>2. /\ Older(client.admitted) \in Counts /\ Older(client.refused) \in Counts
      /\ Number(Older(client.admitted), InWindow) <= Number(client.admitted, InWindow)
  BY <1>1, NumberOlder
<1>3. c \in Client /\ c.admitted = Older(client.admitted)
  BY <1>2 DEF Within, Client, Counts
<1>4. /\ Number(Older(client.admitted), InWindow) \in Nat
      /\ Number(client.admitted, InWindow) \in Nat /\ Limit[l] \in Nat
  BY <1>1, <1>2, HitsFinite, WindowFacts
<1> HIDE DEF c
<1>5. Within(l, c)
  BY <1>2, <1>3, <1>4 DEF Within
<1> QED
  BY <1>5 DEF c

-----------------------------------------------------------------------------
(* Requests.                                                               *)

LimiterInv ==
  /\ hits \in [Limiters -> [Clients -> Client]]
  /\ \A l \in Limiters, c \in Clients : Within(l, hits[l][c])

(* The limiters change one client's record, or all as time goes by.        *)
LEMMA LimiterSteps ==
  ASSUME LimiterInv
  PROVE  /\ \A c \in Clients : \A kind : hits' = Guarded(c, kind) => LimiterInv'
         /\ \A l \in Limiters : RateLimiterCleanup(l) => LimiterInv'
         /\ hits' = Aged => LimiterInv'
         /\ hits' = hits => LimiterInv'
<1>1. hits \in [Limiters -> [Clients -> Client]]
  BY DEF LimiterInv
<1>2. ASSUME NEW c \in Clients, NEW kind, hits' = Guarded(c, kind)
      PROVE  LimiterInv'
  <2>1. /\ Within("global", Recorded("global", hits["global"][c]))
        /\ Within("controller", Recorded("controller", hits["controller"][c]))
    BY RecordedWithin DEF LimiterInv, Limiters
  <2>2. hits' = Guarded(c, kind)
    BY <1>2
  <2>3. \/ hits' = [hits EXCEPT !["global"][c] = Recorded("global", @)]
        \/ hits' = [hits EXCEPT !["global"][c] = Recorded("global", @),
                                !["controller"][c] = Recorded("controller", @)]
    BY <2>2 DEF Guarded
  <2>4. ASSUME NEW l \in Limiters, NEW d \in Clients
        PROVE  \/ hits'[l][d] = hits[l][d]
               \/ d = c /\ hits'[l][d] = Recorded(l, hits[l][c])
    BY <1>1, <2>3 DEF Limiters
  <2>5. \A l \in Limiters, d \in Clients : Within(l, hits'[l][d])
    BY <2>1, <2>4 DEF LimiterInv, Limiters
  <2>6. /\ hits' = [l \in Limiters |-> hits'[l]]
        /\ \A l \in Limiters : hits'[l] = [d \in Clients |-> hits'[l][d]]
    BY <1>1, <2>3 DEF Limiters
  <2>7. hits' \in [Limiters -> [Clients -> Client]]
    BY <2>5, <2>6 DEF Within
  <2> QED
    BY <2>5, <2>7 DEF LimiterInv
<1>3. ASSUME NEW k \in Limiters, RateLimiterCleanup(k)
      PROVE  LimiterInv'
  <2>1. hits' = [hits EXCEPT ![k] = [c \in Clients |-> Tidied(hits[k][c])]]
    BY <1>3, <1>1 DEF RateLimiterCleanup
  <2>2. \A l \in Limiters, d \in Clients : Within(l, hits'[l][d])
    BY <1>1, <2>1, TidiedWithin DEF LimiterInv
  <2>3. \A c \in Clients : Tidied(hits[k][c]) \in Client
    BY TidiedWithin DEF LimiterInv, Within
  <2>4. hits' \in [Limiters -> [Clients -> Client]]
    BY <1>1, <2>1, <2>3
  <2> QED
    BY <2>2, <2>4 DEF LimiterInv
<1>4. ASSUME hits' = Aged
      PROVE  LimiterInv'
  <2>1. ASSUME NEW l \in Limiters, NEW c \in Clients
        PROVE  Within(l, hits'[l][c])
    <3>1. Within(l, hits[l][c])
      BY DEF LimiterInv
    <3>2. hits'[l][c] = [hits[l][c] EXCEPT !.admitted = Older(@), !.refused = Older(@)]
      BY <1>4 DEF Aged
    <3> QED
      BY <3>1, <3>2, AgedWithin
  <2>2. hits' \in [Limiters -> [Clients -> Client]]
    BY <1>4, <2>1 DEF Aged, Within
  <2> QED
    BY <2>1, <2>2 DEF LimiterInv
<1> QED
  BY <1>2, <1>3, <1>4 DEF LimiterInv

(* A request has a retry left when it waits for one.                       *)
GoodRequest == {job \in Request : job.at = "waiting" => job.attempt <= MaxRetries}

RequestsInv ==
  /\ LimiterInv
  /\ request \in [Requests -> GoodRequest]
  /\ circuit \in [Services -> Circuit]
  /\ shuttingDown \in BOOLEAN

LEMMA IdleFacts ==
  /\ MaxRetries \in Nat
  /\ \A kind \in Kinds \cup {"none"} : /\ [Idle EXCEPT !.kind = kind] \in GoodRequest
                                       /\ Attempting(kind) \in GoodRequest
  /\ Idle \in GoodRequest
<1>1. MaxRetries \in Nat /\ 0 \in 0 .. MaxRetries + 1 /\ 1 \in 0 .. MaxRetries + 1
  BY RetryAssumption
<1>2. Idle \in GoodRequest
  BY <1>1 DEF Idle, GoodRequest, Request
<1>3. ASSUME NEW kind \in Kinds \cup {"none"}
      PROVE  [Idle EXCEPT !.kind = kind] \in GoodRequest
  BY <1>1 DEF Idle, GoodRequest, Request
<1>4. ASSUME NEW kind \in Kinds \cup {"none"}
      PROVE  Attempting(kind) \in GoodRequest
  BY <1>1 DEF Attempting, Idle, GoodRequest, Request
<1> QED
  BY <1>1, <1>2, <1>3, <1>4

LEMMA JobFacts ==
  ASSUME NEW job \in GoodRequest, NEW error
  PROVE  /\ Answered(job) \in GoodRequest /\ Ended(job) \in GoodRequest
         /\ GivenUp(job) \in GoodRequest /\ Caught(job, error) \in GoodRequest
         /\ \A at \in {"due", "running", "stuck"} :
              [job EXCEPT !.at = at] \in GoodRequest
         /\ job.at = "waiting" =>
              [job EXCEPT !.at = "due", !.attempt = @ + 1] \in GoodRequest
<1>1. Answered(job) \in GoodRequest
  BY DEF Answered, GoodRequest, Request
<1>2. \A j \in GoodRequest, at \in {"idle", "due", "running", "direct", "stuck"} :
        [j EXCEPT !.at = at] \in GoodRequest
  BY DEF GoodRequest, Request
<1>3. GivenUp(job) \in GoodRequest
  BY <1>2, IdleFacts DEF GivenUp
<1>4. Caught(job, error) \in GoodRequest
  <2>1. ASSUME job.attempt # MaxRetries + 1
        PROVE  [job EXCEPT !.at = "waiting"] \in GoodRequest
    <3>1. job.attempt <= MaxRetries
      BY <2>1, IdleFacts DEF GoodRequest, Request
    <3> QED
      BY <3>1 DEF GoodRequest, Request
  <2> QED
    BY <1>3, <2>1 DEF Caught
<1>5. ASSUME job.at = "waiting"
      PROVE  [job EXCEPT !.at = "due", !.attempt = @ + 1] \in GoodRequest
  <2>1. job.attempt + 1 \in 0 .. MaxRetries + 1
    BY <1>5, IdleFacts DEF GoodRequest, Request
  <2> QED
    BY <2>1 DEF GoodRequest, Request
<1> QED
  BY <1>1, <1>2, <1>3, <1>4, <1>5 DEF Ended

LEMMA BegunFacts ==
  ASSUME NEW kind \in {"values", "volumes", "round"}
  PROVE  Begun(kind) \subseteq GoodRequest
<1>1. \A k \in Kinds : /\ Refused(k) \in GoodRequest /\ Attempting(k) \in GoodRequest
  BY IdleFacts, JobFacts DEF Refused
<1> QED
  BY <1>1 DEF Begun, Kinds

(* Circuits stay what they are.                                            *)
LEMMA ServerCircuitFacts ==
  ASSUME NEW c \in Circuit
  PROVE  /\ Failed(c) \in Circuit /\ Succeeded(c) \in Circuit
         /\ Probed(c) \in Circuit /\ LetThrough(c) \in Circuit /\ Closed \in Circuit
<1>1. /\ FailureThreshold \in Nat \ {0} /\ SuccessThreshold \in Nat \ {0}
      /\ 0 \in 0 .. FailureThreshold /\ 0 \in 0 .. SuccessThreshold
  BY RetryAssumption
<1>2. /\ \A n \in 0 .. FailureThreshold : More(n, FailureThreshold) \in 0 .. FailureThreshold
      /\ \A n \in 0 .. SuccessThreshold : More(n, SuccessThreshold) \in 0 .. SuccessThreshold
  BY <1>1 DEF More
<1>3. Closed \in Circuit
  BY <1>1 DEF Closed, Circuit
<1>4. Probed(c) \in Circuit /\ LetThrough(c) \in Circuit
  BY <1>1 DEF Probed, LetThrough, Closed, Circuit
<1>5. \A d \in Circuit : Tripped(d) \in Circuit
  BY <1>1 DEF Tripped, Circuit
<1>6. Failed(c) \in Circuit
  <2>1. [c EXCEPT !.failures = More(@, FailureThreshold)] \in Circuit
    BY <1>2 DEF Circuit
  <2> QED
    BY <1>5, <2>1 DEF Failed
<1>7. Succeeded(c) \in Circuit
  <2> DEFINE d == [c EXCEPT !.successes = More(@, SuccessThreshold)]
  <2>1. d \in Circuit
    BY <1>2 DEF Circuit
  <2>2. [d EXCEPT !.failures = 0] \in Circuit
    <3> HIDE DEF d
    <3> QED
      BY <1>1, <2>1 DEF Circuit
  <2> HIDE DEF d
  <2>3. Succeeded(c) \in {d, [d EXCEPT !.failures = 0], Closed}
    BY DEF Succeeded, d
  <2> QED
    BY <1>3, <2>1, <2>2, <2>3
<1> QED
  BY <1>3, <1>4, <1>6, <1>7

LEMMA RequestsInitInv == RequestsInit => RequestsInv
<1> SUFFICES ASSUME RequestsInit PROVE RequestsInv
  OBVIOUS
<1>1. LimiterInv
  <2>1. \A l \in Limiters : Within(l, Nobody)
    BY NobodyWithin
  <2>2. Nobody \in Client
    BY <2>1 DEF Within, Limiters
  <2> QED
    BY <2>1, <2>2 DEF RequestsInit, RateLimiterInit, LimiterInv
<1>2. circuit \in [Services -> Circuit]
  BY RetryAssumption DEF RequestsInit, Closed, Circuit
<1> QED
  BY <1>1, <1>2, IdleFacts DEF RequestsInit, RequestsInv

LEMMA RequestsStepInv == RequestsInv /\ [RequestsNext]_qvars => RequestsInv'
<1> SUFFICES ASSUME RequestsInv, [RequestsNext]_qvars PROVE RequestsInv'
  OBVIOUS
<1>1. /\ LimiterInv /\ request \in [Requests -> GoodRequest]
      /\ circuit \in [Services -> Circuit] /\ shuttingDown \in BOOLEAN
      /\ "integration" \in Services /\ "external-api" \in Services
  BY DEF RequestsInv, Services
<1>2. \A r \in Requests : \A job \in GoodRequest :
        [request EXCEPT ![r] = job] \in [Requests -> GoodRequest]
  BY <1>1
<1>3. CASE Tick
  BY <1>1, <1>3, LimiterSteps DEF Tick, RequestsInv
<1>4. CASE Shutdown
  <2>1. LimiterInv'
    BY <1>1, <1>4, LimiterSteps DEF Shutdown, Limiters
  <2>2. circuit' \in [Services -> Circuit]
    BY <1>1, <1>4, ServerCircuitFacts DEF Shutdown
  <2>3. request' \in [Requests -> GoodRequest]
    BY <1>1, <1>4, JobFacts DEF Shutdown
  <2> QED
    BY <1>4, <2>1, <2>2, <2>3 DEF Shutdown, RequestsInv
<1>5. CASE SourceFails
  <2>1. Attempting("source") \in GoodRequest
    BY IdleFacts DEF Kinds
  <2>2. request' \in [Requests -> GoodRequest]
    BY <1>5, <1>2, <2>1 DEF SourceFails
  <2> QED
    BY <1>1, <1>5, <2>2, LimiterSteps DEF SourceFails, RequestsInv
<1>6. ASSUME NEW c \in Clients, NEW kind \in {"values", "volumes", "round", "config"},
             Arrives(c, kind)
      PROVE  RequestsInv'
  <2>1. LimiterInv'
    BY <1>1, <1>6, LimiterSteps DEF Arrives
  <2>2. request' \in [Requests -> GoodRequest]
    <3>1. CASE kind = "config" \/ ~Passes(c, kind)
      BY <1>1, <1>6, <3>1 DEF Arrives
    <3>2. CASE ~(kind = "config" \/ ~Passes(c, kind))
      <4>1. Begun(kind) \subseteq GoodRequest
        BY <3>2, BegunFacts
      <4> QED
        BY <1>2, <1>6, <3>2, <4>1 DEF Arrives
    <3> QED
      BY <3>1, <3>2
  <2> QED
    BY <1>1, <1>6, <2>1, <2>2 DEF Arrives, RequestsInv
<1>7. ASSUME NEW l \in Limiters, LimiterTidied(l) PROVE RequestsInv'
  BY <1>1, <1>7, LimiterSteps DEF LimiterTidied, RequestsInv
<1>8. ASSUME NEW s \in Services, CircuitRecovers(s) PROVE RequestsInv'
  <2>1. circuit' \in [Services -> Circuit]
    BY <1>1, <1>8, ServerCircuitFacts DEF CircuitRecovers
  <2> QED
    BY <1>1, <1>8, <2>1, LimiterSteps DEF CircuitRecovers, RequestsInv
\* Steps of one request, which may end an attempt through a circuit.
<1>9. ASSUME NEW r \in Requests,
             \/ AttemptStarts(r) \/ AttemptSucceeds(r) \/ RetryDue(r) \/ TimesOut(r)
             \/ \E error \in {"timeout", "failed"} : AttemptFails(r, error)
             \/ DirectEnds(r)
      PROVE  RequestsInv'
  <2>1. request[r] \in GoodRequest
    BY <1>1
  <2>2. UNCHANGED <<hits, shuttingDown>>
    BY <1>9 DEF AttemptStarts, AttemptSucceeds, RetryDue, TimesOut, AttemptFails,
                DirectEnds
  <2>3. request' \in [Requests -> GoodRequest]
    <3>1. CASE AttemptStarts(r)
      <4>1. \/ \E error : request' = [request EXCEPT ![r] = Caught(request[r], error)]
            \/ request' = [request EXCEPT ![r] = [request[r] EXCEPT !.at = "running"]]
        BY <1>1, <3>1 DEF AttemptStarts, Rejected, ThrownAgain
      <4>2. [request[r] EXCEPT !.at = "running"] \in GoodRequest
        BY <2>1, JobFacts
      <4>3. \A error : Caught(request[r], error) \in GoodRequest
        BY <2>1, JobFacts
      <4> QED
        BY <1>2, <4>1, <4>2, <4>3
    <3>2. CASE AttemptSucceeds(r) \/ DirectEnds(r)
      <4>1. request' = [request EXCEPT ![r] = Ended(request[r])]
        BY <1>1, <3>2 DEF AttemptSucceeds, DirectEnds
      <4>2. Ended(request[r]) \in GoodRequest
        BY <2>1, JobFacts
      <4> QED
        BY <1>2, <4>1, <4>2
    <3>3. CASE RetryDue(r)
      <4>1. /\ request[r].at = "waiting"
            /\ request' = [request EXCEPT ![r] =
                             [request[r] EXCEPT !.at = "due", !.attempt = @ + 1]]
        BY <1>1, <3>3 DEF RetryDue
      <4> QED
        BY <1>2, <2>1, <4>1, JobFacts
    <3>4. CASE TimesOut(r)
      BY <1>2, <2>1, <3>4, JobFacts DEF TimesOut
    <3>5. CASE \E error \in {"timeout", "failed"} : AttemptFails(r, error)
      <4>1. \E error : request' = [request EXCEPT ![r] = Caught(request[r], error)]
        BY <1>1, <3>5 DEF AttemptFails
      <4>2. \A error : Caught(request[r], error) \in GoodRequest
        BY <2>1, JobFacts
      <4> QED
        BY <1>2, <4>1, <4>2
    <3> QED
      BY <1>9, <3>1, <3>2, <3>3, <3>4, <3>5
  <2>4. circuit' \in [Services -> Circuit]
    <3>1. \A s \in Services, c \in Circuit :
            [circuit EXCEPT ![s] = c] \in [Services -> Circuit]
      BY <1>1
    <3>2. CASE AttemptStarts(r)
      <4>1. ServiceOf(request[r].kind) \in Services
        BY DEF ServiceOf, Services
      <4>2. \/ circuit' = circuit
            \/ \E s \in Services :
                 \/ circuit' = [circuit EXCEPT ![s] = Failed(@)]
                 \/ circuit' = [circuit EXCEPT ![s] = Failed(Failed(LetThrough(@)))]
                 \/ circuit' = [circuit EXCEPT ![s] = LetThrough(@)]
        BY <1>1, <3>2, <4>1 DEF AttemptStarts, Rejected, ThrownAgain
      <4> QED
        BY <1>1, <3>1, <4>2, ServerCircuitFacts
    <3>3. CASE AttemptSucceeds(r) \/ \E error \in {"timeout", "failed"} : AttemptFails(r, error)
      <4>1. circuit' = [circuit EXCEPT !["external-api"] = IF shuttingDown THEN @ ELSE Succeeded(@)]
            \/ circuit' = [circuit EXCEPT !["external-api"] = IF shuttingDown THEN @ ELSE Failed(@)]
        BY <3>3 DEF AttemptSucceeds, AttemptFails
      <4> QED
        BY <1>1, <3>1, <4>1, ServerCircuitFacts
    <3>4. CASE RetryDue(r) \/ TimesOut(r) \/ DirectEnds(r)
      BY <1>1, <3>4 DEF RetryDue, TimesOut, DirectEnds
    <3> QED
      BY <1>9, <3>2, <3>3, <3>4
  <2> QED
    BY <1>1, <2>2, <2>3, <2>4, LimiterSteps DEF RequestsInv
<1>10. CASE UNCHANGED qvars
  BY <1>1, <1>10, LimiterSteps DEF qvars, RequestsInv
<1> QED
  BY <1>3, <1>4, <1>5, <1>6, <1>7, <1>8, <1>9, <1>10 DEF RequestsNext

LEMMA RequestsInvHolds == RequestsSpec => []RequestsInv
BY RequestsInitInv, RequestsStepInv, PTL DEF RequestsSpec

(* Hits, requests and circuits keep their types; no request has more       *)
(* attempts than its retries allow (executeWithRetry).                     *)
THEOREM RequestsTypeCorrect == RequestsSpec => []RequestsTypeOK
<1>1. RequestsInv => RequestsTypeOK
  BY DEF RequestsInv, RequestsTypeOK, LimiterInv, GoodRequest
<1> QED
  BY <1>1, RequestsInvHolds, PTL

(* No limiter lets more requests of a client through in one window than    *)
(* its limit, whatever it refuses, forgets and tidies up in between: a     *)
(* guard prunes by one window and counts what is left before it lets one   *)
(* more through, and what cleanup forgets is older (checkRateLimit,        *)
(* recordRequest, cleanup).                                                *)
THEOREM LimitsHold == RequestsSpec => []AdmittedWithinLimit
<1>1. RequestsInv => AdmittedWithinLimit
  BY DEF RequestsInv, LimiterInv, Within, InWindow, AdmittedWithinLimit
<1> QED
  BY <1>1, RequestsInvHolds, PTL
=============================================================================
