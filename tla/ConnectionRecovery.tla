-------------------------- MODULE ConnectionRecovery --------------------------
(***************************************************************************)
(* ConnectionRecoveryService: what it believes of each source, and the     *)
(* reconnections it schedules after a failover, beside those of the        *)
(* adapters and the orchestrator, who connect a source at any time.        *)
(*                                                                         *)
(* Time is counted in units that are small against the cooldown.  What a   *)
(* failover does is in Failover: here it is awaited for any time.  All     *)
(* sources have sockets, and a loss counts as a normal disconnection, so   *)
(* that no circuit is opened and a reconnection through the circuit only   *)
(* gets its time limit from it.  Whether ten minutes have passed since a   *)
(* source was restored is free.                                            *)
(***************************************************************************)
EXTENDS Integers, Sequences, FiniteSets

CONSTANTS
  Sources,
  Cooldown,       \* RECONNECT_COOLDOWN_MS
  ReconnectDelay, \* RECONNECT_DELAY_MS, doubled with each attempt
  MaxDelay,       \* MAX_RECONNECT_DELAY_MS
  MaxAttempts,    \* MAX_RECONNECT_ATTEMPTS
  TryLimit,       \* the circuit's time limit of an attempt
  MaxFailovers,   \* bound of the failovers of a source awaited at once
  MaxTimers       \* bound of the reconnections of a source

ASSUME RecoveryAssumption ==
  /\ Sources # {} /\ IsFiniteSet(Sources)
  /\ {Cooldown, ReconnectDelay, MaxDelay, MaxAttempts, TryLimit, MaxFailovers,
      MaxTimers} \subseteq Nat \ {0}

VARIABLES
  online,            \* the sources that are connected
  health,        \* [Sources -> connectionHealth]
  sinceAttempt,  \* [Sources -> time since lastReconnectAttempt]
  timers,        \* [Sources -> timers of reconnections, oldest first]
  tries,         \* [Sources -> times the attempts under way have taken]
  failovers      \* [Sources -> number of failovers that are awaited]

rvars == <<online, health, sinceAttempt, timers, tries, failovers>>

-----------------------------------------------------------------------------
LongAgo == Cooldown + 1

(* known: in dataSources and connectionHealth; seen: lastConnected is set. *)
NewHealth == [known |-> TRUE, isConnected |-> FALSE, isHealthy |-> TRUE,
              attempts |-> 0, seen |-> FALSE]

(* registerDataSource, of sources that are not connected yet.              *)
RecoveryInit ==
  /\ online = {}
  /\ health = [s \in Sources |-> NewHealth]
  /\ sinceAttempt = [s \in Sources |-> LongAgo]
  /\ timers = [s \in Sources |-> << >>]
  /\ tries = [s \in Sources |-> {}]
  /\ failovers = [s \in Sources |-> 0]

DelayAfter(attempts) ==
  LET delay == ReconnectDelay * 2 ^ attempts
  IN  IF delay < MaxDelay THEN delay ELSE MaxDelay

(* The next attempt finds the last one a cooldown ago: by default the      *)
(* delays are 5, 10 and 20 seconds and the cooldown is 30.                 *)
ASSUME CooldownAssumption ==
  \A n \in 0 .. MaxAttempts - 1 : DelayAfter(n) \in 0 .. Cooldown - 1

(* held: the timer that reconnectTimers knows, the last if any.            *)
Forgotten(ts) == [i \in DOMAIN ts |-> [ts[i] EXCEPT !.held = FALSE]]

Cancelled(ts) ==
  IF ts # << >> /\ ts[Len(ts)].held THEN SubSeq(ts, 1, Len(ts) - 1) ELSE ts

(* Mutant: no cooldown.                                                    *)
MutantMaySchedule(s) == health[s].known /\ health[s].attempts < MaxAttempts

MaySchedule(s) ==
  /\ health[s].known /\ health[s].attempts < MaxAttempts
  /\ sinceAttempt[s] >= Cooldown

(* Bound: MaxTimers.                                                       *)
ScheduleRecovery(s) ==
  IF MaySchedule(s) /\ Len(timers[s]) < MaxTimers
  THEN /\ timers' = [timers EXCEPT ![s] = Append(Forgotten(@),
                       [left |-> DelayAfter(health[s].attempts), held |-> TRUE])]
       /\ health' = [health EXCEPT ![s].attempts = @ + 1]
       /\ sinceAttempt' = [sinceAttempt EXCEPT ![s] = 0]
  ELSE UNCHANGED <<timers, health, sinceAttempt>>

-----------------------------------------------------------------------------
(* handleConnectionChange, handleConnectionRestored.                       *)
Restore(s) ==
  IF health[s].known /\ ~health[s].isConnected
  THEN /\ health' = [health EXCEPT ![s] = [known |-> TRUE, isConnected |-> TRUE,
                       isHealthy |-> TRUE, attempts |-> 0, seen |-> TRUE]]
       /\ timers' = [timers EXCEPT ![s] = Cancelled(@)]
  ELSE UNCHANGED <<health, timers>>

(* The adapter or the orchestrator connects the source.                    *)
Connects(s) ==
  /\ s \notin online
  /\ online' = online \cup {s}
  /\ Restore(s)
  /\ UNCHANGED <<sinceAttempt, tries, failovers>>

(* Mutant: the health of a source that is lost is left to others.          *)
MutantLoses(s) ==
  /\ s \in online /\ failovers[s] < MaxFailovers
  /\ online' = online \ {s}
  /\ failovers' = [failovers EXCEPT ![s] = @ + 1]
  /\ UNCHANGED <<health, sinceAttempt, timers, tries>>

(* handleConnectionLost, triggerFailover up to its await.  Bound:          *)
(* MaxFailovers.                                                           *)
Loses(s) ==
  /\ s \in online /\ failovers[s] < MaxFailovers
  /\ online' = online \ {s}
  /\ IF health[s].known
     THEN /\ health' = [health EXCEPT ![s].isConnected = FALSE,
                                      ![s].isHealthy = FALSE]
          /\ failovers' = [failovers EXCEPT ![s] = @ + 1]
          /\ sinceAttempt' = [sinceAttempt EXCEPT
                                ![s] = IF @ > Cooldown THEN 0 ELSE @]
     ELSE UNCHANGED <<health, failovers, sinceAttempt>>
  /\ UNCHANGED <<timers, tries>>

(* triggerFailover, the rest: nothing if the failover has thrown.          *)
FailoverEnds(s, success) ==
  /\ failovers[s] > 0
  /\ failovers' = [failovers EXCEPT ![s] = @ - 1]
  /\ IF success THEN ScheduleRecovery(s)
                ELSE UNCHANGED <<timers, health, sinceAttempt>>
  /\ UNCHANGED <<online, tries>>

(* attemptReconnection, up to the await.                                   *)
AttemptReconnection(s) ==
  /\ \E i \in DOMAIN timers[s] :
       /\ timers[s][i].left = 0
       /\ timers' = [timers EXCEPT ![s] =
                       SubSeq(@, 1, i - 1) \o SubSeq(@, i + 1, Len(@))]
  /\ tries' = IF health[s].known THEN [tries EXCEPT ![s] = @ \cup {0}] ELSE tries
  /\ UNCHANGED <<online, health, sinceAttempt, failovers>>

(* Mutant: the next attempt whether or not the last one has failed.        *)
MutantAttemptSucceeds(s, t) ==
  /\ t \in tries[s]
  /\ tries' = [tries EXCEPT ![s] = (@ \ {t}) \cup {0}]
  /\ online' = online \cup {s}
  /\ UNCHANGED <<health, timers, sinceAttempt, failovers>>

(* The data source's connect makes it connected and tells so.              *)
AttemptSucceeds(s, t) ==
  /\ t \in tries[s]
  /\ tries' = [tries EXCEPT ![s] = @ \ {t}]
  /\ online' = online \cup {s}
  /\ Restore(s)
  /\ UNCHANGED <<sinceAttempt, failovers>>

(* It throws, or takes too long.                                           *)
AttemptFails(s, t) ==
  /\ t \in tries[s]
  /\ tries' = [tries EXCEPT ![s] = @ \ {t}]
  /\ ScheduleRecovery(s)
  /\ UNCHANGED <<online, failovers>>

(* performHealthCheck; long: ten minutes since the connection.             *)
PerformHealthCheck(s, long) ==
  /\ health[s].known
  /\ health' = [health EXCEPT ![s].isHealthy = @ /\ ~(long /\ health[s].seen)]
  /\ UNCHANGED <<online, sinceAttempt, timers, tries, failovers>>

(* unregisterDataSource, at shutdown, of a source that is connected.       *)
Unregister(s) ==
  /\ s \in online /\ health[s].known
  /\ health' = [health EXCEPT ![s] = [NewHealth EXCEPT !.known = FALSE]]
  /\ timers' = [timers EXCEPT ![s] = Cancelled(@)]
  /\ UNCHANGED <<online, sinceAttempt, tries, failovers>>

(* A unit of time: what is due goes first.                                 *)
Tick ==
  /\ \A s \in Sources : /\ \A i \in DOMAIN timers[s] : timers[s][i].left > 0
                        /\ TryLimit \notin tries[s]
  /\ timers' = [s \in Sources |-> [i \in DOMAIN timers[s] |->
                  [timers[s][i] EXCEPT !.left = @ - 1]]]
  /\ tries' = [s \in Sources |-> {t + 1 : t \in tries[s]}]
  /\ sinceAttempt' = [s \in Sources |-> IF sinceAttempt[s] < LongAgo
                                        THEN sinceAttempt[s] + 1 ELSE LongAgo]
  /\ UNCHANGED <<online, health, failovers>>

-----------------------------------------------------------------------------
AttemptEnds(s) ==
  \E t \in tries[s] : AttemptSucceeds(s, t) \/ AttemptFails(s, t)

RecoveryNext ==
  \/ Tick
  \/ \E s \in Sources :
       \/ Connects(s) \/ Loses(s) \/ Unregister(s)
       \/ AttemptReconnection(s) \/ AttemptEnds(s)
       \/ \E yes \in BOOLEAN : FailoverEnds(s, yes) \/ PerformHealthCheck(s, yes)

RecoverySpec == RecoveryInit /\ [][RecoveryNext]_rvars

(* Timers fire, time goes on, and attempts and failovers end: the former   *)
(* by the circuit's limit, the latter with the attempts to subscribe.      *)
TasksEnd ==
  \A s \in Sources :
    /\ WF_rvars(AttemptReconnection(s))
    /\ WF_rvars(AttemptEnds(s))
    /\ WF_rvars(\E yes \in BOOLEAN : FailoverEnds(s, yes))

-----------------------------------------------------------------------------
(* getSystemHealth.                                                        *)
HealthySources ==
  {s \in Sources : health[s].known /\ health[s].isHealthy /\ health[s].isConnected}

OverallHealth ==
  LET total == Cardinality({s \in Sources : health[s].known})
      healthy == IF total = 0 THEN 0 ELSE Cardinality(HealthySources) * 100
  IN  IF total > 0 /\ healthy >= 80 * total THEN "healthy"
      ELSE IF total > 0 /\ healthy >= 50 * total THEN "degraded"
      ELSE "critical"

(* What recovery reports rests on sources that are connected at that       *)
(* moment: never "healthy" with less than four fifths of them, nor         *)
(* "degraded" with less than half, also while failovers of sources that    *)
(* were lost and restored and lost again are still awaited.                *)
HealthIsHonest ==
  LET total == Cardinality({s \in Sources : health[s].known})
      connected == Cardinality({s \in online : health[s].known}) * 100
  IN  /\ OverallHealth = "healthy" => connected >= 80 * total
      /\ OverallHealth = "degraded" => connected >= 50 * total

(* A source has one reconnection pending at most: a second one would       *)
(* displace the first in reconnectTimers, and nothing could cancel it when *)
(* the connection is restored (scheduleRecovery: the cooldown is longer    *)
(* than any delay that MaxAttempts allows).                                *)
OneReconnection == \A s \in Sources : Len(timers[s]) <= 1

(* Once a source is connected for good, recovery leaves it alone in the    *)
(* end, though a failover that was awaited meanwhile may have scheduled    *)
(* one more reconnection of it (triggerFailover).                          *)
RecoveryGoesQuiet ==
  \A s \in Sources :
    <>[](s \in online) => <>[](timers[s] = << >> /\ tries[s] = {})
=============================================================================
