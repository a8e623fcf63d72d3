------------------------------- MODULE Startup -------------------------------
(***************************************************************************)
(* The life of the process: bootstrap and the shutdowns of main.ts, the    *)
(* initialization of the integration service and of its parts, what it     *)
(* wires to whom, the announcement that enough feeds have data, and the    *)
(* health endpoints that are asked meanwhile.                              *)
(*                                                                         *)
(* Nest, which is not under src/, calls onModuleInit of the integration    *)
(* service and, as hooks says, that of its parts at the same time: then    *)
(* two callers run initialize of the data source integration, whose flag   *)
(* is set at its end.  Connections are those of ExchangeConnection and     *)
(* SourceHealth: here they open and close as they like.                    *)
(***************************************************************************)
EXTENDS Naturals, FiniteSets

CONSTANTS
  Adapters,    \* of the registry, active
  Total,       \* totalExpectedFeeds
  Early,       \* bound: feeds that have their first data in one step
  MaxTries,    \* attempts at the initialization of the data sources
  MaxCalls,    \* attempts of the integration service at calling it
  MaxChecks    \* maxAttempts of checkApplicationReadiness

ASSUME StartupAssumption ==
  /\ IsFiniteSet(Adapters) /\ Total \in Nat \ {0}
  /\ Early \in Nat \ {0} /\ 10 * Early < 9 * Total
  /\ {MaxTries, MaxCalls, MaxChecks} \subseteq Nat \ {0}

VARIABLES
  process,      \* [at, closing, destroyed]: main.ts
  hooks,        \* Nest calls the hooks of the integration's parts, too
  caller,       \* [Callers -> Caller]: data source integration's initialize
  integration,  \* how far the integration service is
  source,       \* [Adapters -> Source]
  coordinator,  \* of price aggregation: the announcement
  checks        \* of the readiness, by the process itself

vars == <<process, hooks, caller, integration, source, coordinator, checks>>

-----------------------------------------------------------------------------
Callers == {"hook", "integration"}

(* registering: between the creation of a data source and addDataSource;   *)
(* adding: that and the wait for the adapter; waiting: for a retry.        *)
Caller == [at : {"idle", "orchestrating", "registering", "adding", "waiting",
                 "done", "failed"},
           tries : 0 .. MaxCalls * MaxTries,
           todo : SUBSET Adapters,
           now : SUBSET Adapters]        \* the adapter at hand, if any

(* held: whose data source the data manager has; tells: whose has the      *)
(* adapter's callbacks; connected: what the held one says; known: to the   *)
(* system health service.                                                  *)
Source == [up : BOOLEAN, held : SUBSET Callers, tells : SUBSET Callers,
           connected : BOOLEAN, known : {"no", "healthy", "unhealthy"}]

(* age: 0 below 30 s, 1 below 60 s, 2 below the 2 minutes of the fallback. *)
Coordinator == [on : BOOLEAN, count : {0} \cup Early .. Total, age : 0 .. 3,
                fallback : BOOLEAN, periodic : BOOLEAN,   \* timers
                triggered : BOOLEAN,                      \* fallbackTriggered
                announced : 0 .. 2]                       \* bound: 2

NoCall == [at |-> "idle", tries |-> 0, todo |-> {}, now |-> {}]
NoSource == [up |-> FALSE, held |-> {}, tells |-> {}, connected |-> FALSE,
             known |-> "no"]
NotStarted == [on |-> FALSE, count |-> 0, age |-> 0, fallback |-> FALSE,
               periodic |-> FALSE, triggered |-> FALSE, announced |-> 0]

Init ==
  /\ process = [at |-> "creating", closing |-> FALSE, destroyed |-> FALSE]
  /\ hooks \in BOOLEAN
  /\ caller = [c \in Callers |-> NoCall]
  /\ integration = "idle"
  /\ source = [a \in Adapters |-> NoSource]
  /\ coordinator = NotStarted
  /\ checks = 0

Runs == process.at # "exited"
Stopped == process.destroyed

SourcesInitialized == \E c \in Callers : caller[c].at = "done"

(* isServiceInitialized of the integration service.                        *)
Initialized == /\ integration = "done"
               /\ SourcesInitialized
               /\ coordinator.on

-----------------------------------------------------------------------------
(* The coordinator.                                                        *)

(* initialize: loadFeedsConfiguration and the two timers.                  *)
Started(c) ==
  IF c.on THEN c ELSE [c EXCEPT !.on = TRUE, !.fallback = TRUE, !.periodic = TRUE]

Ready(c, percent) == 100 * c.count >= percent * Total

(* Mutant: only complete data count.                                       *)
MutantComplete(c) == c.count = Total

Complete(c) == \/ c.count = Total
               \/ Ready(c, 95) /\ c.age >= 1
               \/ Ready(c, 90) /\ c.age >= 2

Announced(c) == [c EXCEPT !.triggered = TRUE,
                          !.announced = IF @ < 2 THEN @ + 1 ELSE @]

(* triggerCompletion.                                                      *)
Triggered(c) == [Announced(c) EXCEPT !.fallback = FALSE, !.periodic = FALSE]

(* trackFeedInitialData, of n feeds: one by one, or too few to matter.     *)
Tracked(c, n) ==
  LET d == [c EXCEPT !.count = @ + n]
  IN  IF Complete(d) /\ ~d.triggered THEN Triggered(d) ELSE d

(* checkPeriodicCompletion.                                                *)
Checked(c) == IF Complete(c) /\ ~c.triggered THEN Triggered(c) ELSE c

(* Mutant: the announcement does not set the flag.                         *)
MutantFellBack(c) ==
  IF ~c.triggered /\ Ready(c, 90)
  THEN [c EXCEPT !.announced = IF @ < 2 THEN @ + 1 ELSE @, !.fallback = FALSE]
  ELSE [c EXCEPT !.fallback = FALSE]

(* checkFallbackReadiness, which leaves the other timer alone.             *)
FellBack(c) ==
  IF ~c.triggered /\ Ready(c, 90)
  THEN [Announced(c) EXCEPT !.fallback = FALSE]
  ELSE [c EXCEPT !.fallback = FALSE]

PeriodicCheck ==
  /\ Runs /\ coordinator.periodic
  /\ coordinator' = Checked(coordinator)
  /\ UNCHANGED <<process, hooks, caller, integration, source, checks>>

FallbackDue == coordinator.fallback /\ coordinator.age = 3

FallbackCheck ==
  /\ Runs /\ FallbackDue
  /\ coordinator' = FellBack(coordinator)
  /\ UNCHANGED <<process, hooks, caller, integration, source, checks>>

Elapses ==
  /\ Runs /\ coordinator.on /\ coordinator.age < 3
  /\ coordinator' = [coordinator EXCEPT !.age = @ + 1]
  /\ UNCHANGED <<process, hooks, caller, integration, source, checks>>

-----------------------------------------------------------------------------
(* initialize of the data source integration.                              *)

(* What is left alone while it goes on.                                    *)
Aside == UNCHANGED <<process, hooks, coordinator, checks>>

TriesOf(me) == IF me = "integration" THEN MaxCalls * MaxTries ELSE MaxTries

Begins(c) == [c EXCEPT !.at = "orchestrating", !.tries = @ + 1]

(* createDataSourceFromAdapter: the constructor takes the callbacks.       *)
Creating(c, me, a) ==
  /\ caller' = [caller EXCEPT ![me] =
                 [c EXCEPT !.at = "registering", !.todo = @ \ {a}, !.now = {a}]]
  /\ source' = [source EXCEPT ![a].tells = {me}]

(* The next adapter, or wireDataFlow, the data manager and the flag.       *)
Onward(c, me) ==
  \/ \E a \in c.todo : Creating(c, me, a)
  \/ /\ c.todo = {}
     /\ caller' = [caller EXCEPT ![me] = [c EXCEPT !.at = "done", !.now = {}]]
     /\ UNCHANGED source

(* The orchestrator is initialized; error handling is wired.               *)
Orchestrated(me) ==
  /\ Runs /\ caller[me].at = "orchestrating"
  /\ Onward([caller[me] EXCEPT !.todo = Adapters], me)
  /\ UNCHANGED integration /\ Aside

(* The orchestrator cannot: a retry, then the error.                       *)
Fails(me) ==
  /\ Runs /\ caller[me].at = "orchestrating"
  /\ caller' = [caller EXCEPT ![me].at =
                  IF caller[me].tries < TriesOf(me) THEN "waiting" ELSE "failed"]
  /\ UNCHANGED <<integration, source>> /\ Aside

(* Only a new call looks whether another one has been through.             *)
Retries(me) ==
  LET newCall == caller[me].tries % MaxTries = 0
  IN  /\ Runs /\ caller[me].at = "waiting"
      /\ caller' = [caller EXCEPT ![me] =
                      IF newCall /\ SourcesInitialized
                      THEN [@ EXCEPT !.at = "done"] ELSE Begins(@)]
      /\ UNCHANGED <<integration, source>> /\ Aside

(* addDataSource, which keeps the first of a name; its connection is tried *)
(* (Connects).                                                             *)
Adds(me) ==
  LET c == caller[me]
  IN  /\ Runs /\ c.at = "registering"
      /\ caller' = [caller EXCEPT ![me].at = "adding"]
      /\ source' = [a \in Adapters |->
                     IF a \in c.now /\ source[a].held = {}
                     THEN [source[a] EXCEPT !.held = {me}] ELSE source[a]]
      /\ UNCHANGED integration /\ Aside

(* Connected, given up, or there already.                                  *)
Added(me) ==
  /\ Runs /\ caller[me].at = "adding"
  /\ Onward(caller[me], me)
  /\ UNCHANGED integration /\ Aside

-----------------------------------------------------------------------------
(* The integration service.                                                *)

(* Mutant: as if events alone told of the sources.                         *)
MutantSynced(s) == s

(* syncInitialSourceHealth, of the sources that the data manager has.      *)
Synced(s) ==
  IF s.held # {} /\ s.connected THEN [s EXCEPT !.known = "healthy"] ELSE s

(* The coordinator and the health service are initialized, if their hooks  *)
(* have not done so; wireServiceInteractions.                              *)
Wires ==
  /\ Runs /\ integration = "sources" /\ caller["integration"].at = "done"
  /\ integration' = "subscribing"
  /\ coordinator' = Started(coordinator)
  /\ source' = [a \in Adapters |-> Synced(source[a])]
  /\ UNCHANGED <<process, hooks, caller, checks>>

(* subscribeToFeeds, whose failures are logged; the event "initialized".   *)
Subscribes ==
  /\ Runs /\ integration = "subscribing"
  /\ integration' = "done"
  /\ UNCHANGED <<process, hooks, caller, source, coordinator, checks>>

(* The error of the data sources, after all retries: the hook of the       *)
(* integration service throws.                                             *)
GivesUp ==
  /\ Runs /\ integration = "sources" /\ caller["integration"].at = "failed"
  /\ integration' = "failed"
  /\ UNCHANGED <<process, hooks, caller, source, coordinator, checks>>

Wired == integration \in {"subscribing", "done"}

-----------------------------------------------------------------------------
(* Sources.  What the data manager tells, the integration passes on to the *)
(* health service once it is wired.                                        *)

Tells(s, connected) ==
  [s EXCEPT !.connected = connected,
            !.known = IF ~Wired THEN @
                      ELSE IF connected THEN "healthy" ELSE "unhealthy"]

(* The adapter's callback, which may be that of a data source nobody has.  *)
Hears(s, connected) ==
  IF s.held # {} /\ s.tells = s.held /\ s.connected # connected
  THEN Tells(s, connected) ELSE s

SourceStep(a, s) ==
  /\ source' = [source EXCEPT ![a] = s]
  /\ UNCHANGED <<process, hooks, caller, integration, coordinator, checks>>

Opens(a) ==
  /\ Runs /\ ~Stopped /\ ~source[a].up
  /\ \E c \in Callers : caller[c].at \in {"registering", "adding", "done"}
  /\ SourceStep(a, [Hears(source[a], TRUE) EXCEPT !.up = TRUE])

Closes(a) ==
  /\ Runs /\ source[a].up
  /\ SourceStep(a, [Hears(source[a], FALSE) EXCEPT !.up = FALSE])

(* connect of the held data source returns, as the adapter is connected.   *)
Connects(a) ==
  /\ Runs /\ source[a].held # {} /\ source[a].up
  /\ SourceStep(a, Tells(source[a], TRUE))

(* connect fails, or the health check finds the source too slow.           *)
FallsBehind(a) ==
  /\ Runs /\ source[a].held # {} /\ Wired
  /\ \/ ~source[a].up /\ SourceStep(a, Tells(source[a], FALSE))
     \/ SourceStep(a, [source[a] EXCEPT !.known = "unhealthy"])

(* A price comes through: adapter, data source, data manager, integration, *)
(* coordinator.                                                            *)
Flows(a) == /\ source[a].up /\ source[a].held # {}
            /\ source[a].tells = source[a].held
            /\ Wired

Prices(a) ==
  /\ Runs /\ Flows(a) /\ ~Stopped
  /\ \/ UNCHANGED coordinator
     \/ coordinator.count = 0 /\ coordinator' = Tracked(coordinator, Early)
     \/ /\ coordinator.count \in Early .. Total - 1
        /\ coordinator' = Tracked(coordinator, 1)
  /\ UNCHANGED <<process, hooks, caller, integration, source, checks>>

-----------------------------------------------------------------------------
(* Health endpoints.                                                       *)

Known(status) == {a \in Adapters : source[a].known = status}

(* updateHealthMetrics: of the sources it has heard of.                    *)
Overall ==
  LET bad == Cardinality(Known("unhealthy"))
      all == bad + Cardinality(Known("healthy"))
  IN  CASE 10 * bad <= 2 * all -> "healthy"
        [] 10 * bad > 2 * all /\ 2 * bad <= all -> "degraded"
        [] OTHER -> "unhealthy"

(* performReadinessChecks, of the integration and, as the same, of the     *)
(* provider.                                                               *)
IntegrationReady == Initialized /\ Overall # "unhealthy"

(* The rest of it, in production.  fresh: all test feeds have valid        *)
(* prices; successRate is above 0 whatever fails.                          *)
StartupReady(fresh) == Known("healthy") # {} /\ fresh

(* getReadiness: the answer is 200, and 503 otherwise.                     *)
IsReady(fresh) == IntegrationReady /\ StartupReady(fresh)

(* performLivenessChecks: getSystemHealth throws unless all is             *)
(* initialized, and the provider is taken to be what the integration is.   *)
IntegrationAnswers == Initialized

(* getLiveness.                                                            *)
Alive == IntegrationAnswers

(* checkApplicationReadiness: the process asks itself.                     *)
MonitorAsks ==
  /\ process.at = "listening" /\ checks \in 1 .. MaxChecks
  /\ \E fresh \in BOOLEAN :
       checks' = IF IsReady(fresh) THEN MaxChecks + 1 ELSE checks + 1
  /\ UNCHANGED <<process, hooks, caller, integration, source, coordinator>>

-----------------------------------------------------------------------------
(* main.ts.                                                                *)

(* Nothing is kept on disk.                                                *)
Exit ==
  /\ process' = [at |-> "exited", closing |-> FALSE, destroyed |-> FALSE]
  /\ caller' = [c \in Callers |-> NoCall]
  /\ integration' = "idle"
  /\ source' = [a \in Adapters |-> NoSource]
  /\ coordinator' = NotStarted
  /\ checks' = 0
  /\ UNCHANGED hooks

(* app.listen runs the hooks before it listens.                            *)
AppInit ==
  /\ process.at = "creating"
  /\ process' = [process EXCEPT !.at = "initialising"]
  /\ integration' = "sources"
  /\ caller' = [c \in Callers |->
                 IF c = "integration" \/ hooks THEN Begins(caller[c])
                 ELSE caller[c]]
  /\ coordinator' = IF hooks THEN Started(coordinator) ELSE coordinator
  /\ UNCHANGED <<hooks, source, checks>>

HooksDone == /\ integration = "done"
             /\ hooks => caller["hook"].at = "done"

Listens ==
  /\ process.at = "initialising" /\ HooksDone
  /\ process' = [process EXCEPT !.at = "listening"]
  /\ checks' = 1
  /\ UNCHANGED <<hooks, caller, integration, source, coordinator>>

(* Its configuration, a hook or the port fails: the catch of bootstrap     *)
(* waits for app.close().                                                  *)
StartFails ==
  /\ \/ process.at = "creating"
     \/ /\ process.at = "initialising"
        /\ \/ integration = "failed" \/ caller["hook"].at = "failed"
           \/ HooksDone
  /\ process' = [process EXCEPT !.at = "failing"]
  /\ UNCHANGED <<hooks, caller, integration, source, coordinator, checks>>

(* The application could not be created, or app.close() has ended or has   *)
(* thrown after a failure.                                                 *)
FailureExits ==
  /\ process.at \in {"creating", "failing"}
  /\ Exit

(* A signal, an exception or a rejection; later ones are ignored.          *)
ShutdownBegins ==
  /\ process.at \in {"initialising", "listening", "failing"} /\ ~process.closing
  /\ process' = [process EXCEPT !.closing = TRUE]
  /\ UNCHANGED <<hooks, caller, integration, source, coordinator, checks>>

(* disconnectDataSources: the connected ones leave the data manager.       *)
Removed(s) ==
  IF s.connected THEN [s EXCEPT !.held = {}, !.connected = FALSE] ELSE s

(* shutdown of the coordinator.                                            *)
ShutDown(c) == [c EXCEPT !.fallback = FALSE, !.periodic = FALSE]

(* onModuleDestroy of the services, called by app.close, which ends or     *)
(* throws unless one of them waits for ever.                               *)
Destroys ==
  /\ Runs /\ ~Stopped
  /\ process.closing \/ process.at = "failing"
  /\ process' = [process EXCEPT !.destroyed = TRUE]
  /\ coordinator' = ShutDown(coordinator)
  /\ source' = [a \in Adapters |-> [Removed(source[a]) EXCEPT !.up = FALSE]]
  /\ UNCHANGED <<hooks, caller, integration, checks>>

(* Mutant: no limit of time.                                               *)
MutantExits ==
  /\ Runs /\ process.closing /\ Stopped
  /\ Exit

(* process.exit of a shutdown, after the delay or the error, or at the     *)
(* limit of time.                                                          *)
Exits ==
  /\ Runs /\ process.closing
  /\ Exit

-----------------------------------------------------------------------------
Next ==
  \/ AppInit \/ StartFails \/ FailureExits
  \/ \E c \in Callers :
       Orchestrated(c) \/ Fails(c) \/ Retries(c) \/ Adds(c) \/ Added(c)
  \/ Wires \/ Subscribes \/ GivesUp
  \/ Listens
  \/ \E a \in Adapters :
       Opens(a) \/ Closes(a) \/ Connects(a) \/ FallsBehind(a) \/ Prices(a)
  \/ PeriodicCheck \/ FallbackCheck \/ Elapses
  \/ MonitorAsks
  \/ ShutdownBegins \/ Destroys \/ Exits

Spec == Init /\ [][Next]_vars

(* Promises that only wait for time-outs and bounded retries end, timers   *)
(* fire.  Nothing is assumed of app.close(): a hook may wait for ever.     *)
FairSpec ==
  /\ Spec
  /\ WF_vars(AppInit)
  /\ \A c \in Callers :
       WF_vars(Orchestrated(c) \/ Fails(c) \/ Retries(c) \/ Adds(c) \/ Added(c))
  /\ WF_vars(Wires \/ Subscribes \/ GivesUp)
  /\ WF_vars(Listens \/ StartFails)
  /\ WF_vars(PeriodicCheck)
  /\ WF_vars(FallbackCheck)
  /\ WF_vars(Elapses)
  /\ WF_vars(MonitorAsks)
  /\ WF_vars(Exits)

-----------------------------------------------------------------------------
TypeOK ==
  /\ process \in [at : {"creating", "initialising", "listening", "failing", "exited"},
                  closing : BOOLEAN, destroyed : BOOLEAN]
  /\ hooks \in BOOLEAN
  /\ caller \in [Callers -> Caller]
  /\ integration \in {"idle", "sources", "subscribing", "done", "failed"}
  /\ source \in [Adapters -> Source]
  /\ coordinator \in Coordinator
  /\ checks \in 0 .. MaxChecks + 1

(* Once the services are wired and until a shutdown destroys them, the     *)
(* health service has every connected source of the data manager in its    *)
(* list and counts none as healthy that is not connected, whether it       *)
(* connected before the wiring or after (wireServiceInteractions,          *)
(* syncInitialSourceHealth).                                               *)
SourcesAreKnown ==
  Wired /\ ~Stopped =>
    \A a \in Adapters :
      /\ source[a].held # {} /\ source[a].connected => source[a].known # "no"
      /\ source[a].known = "healthy" => source[a].connected

(* The end of start-up that three checks look for, at new data, every ten  *)
(* seconds and after two minutes, is announced once at most, and never     *)
(* below 90 % of the feeds (PriceAggregationCoordinatorService).           *)
CompletionIsHonest ==
  /\ coordinator.announced <= 1
  /\ coordinator.announced = 1 => Ready(coordinator, 90)

(* With 90 % of the feeds the end of start-up is announced, unless the     *)
(* start-up fails or a shutdown comes first: the fallback looks once, the  *)
(* periodic check goes on.                                                 *)
CompletionIsAnnounced ==
  coordinator.count \in {n \in 0 .. Total : 10 * n >= 9 * Total}
    ~> \/ coordinator.announced > 0
       \/ process.closing \/ process.at \in {"failing", "exited"}

(* From the moment the server listens, GET /health/live answers that the   *)
(* system is alive: a start-up that fails never listens.                   *)
ListeningIsAlive == process.at = "listening" => Alive

(* A start-up ends, and with it what watches it: the server listens, or    *)
(* fails, or is shut down.  Once it listens it is alive as long as it      *)
(* does.  A shutdown, whenever it comes, ends the process, whatever the    *)
(* services' hooks do: also that of a process whose start-up failed, which *)
(* may wait for these hooks for ever otherwise (main, gracefulShutdown).   *)
StartsAndStopsEnd ==
  /\ <>(process.at \in {"listening", "failing", "exited"} \/ process.closing)
  /\ process.at = "listening" ~> checks > MaxChecks \/ ~Runs
  /\ []ListeningIsAlive
  /\ process.closing ~> process.at = "exited"
=============================================================================
