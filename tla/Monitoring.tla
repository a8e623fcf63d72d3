------------------------------ MODULE Monitoring ------------------------------
(***************************************************************************)
(* What operators are told: SystemHealthService, which judges the system   *)
(* by the last status of each source and sends alerts, and AlertingService,*)
(* which keeps them for some days.                                         *)
(*                                                                         *)
(* Time is counted in periods of the health check.  When within a period   *)
(* something happens is free, and so is the end of a cooldown.  Sending is *)
(* keeping and logging: the alerts of this service go nowhere else.        *)
(* Alerts of inaccurate prices and of a low rate of success are sent as    *)
(* those of errors are, and left out; so are the rules of evaluateMetric,  *)
(* which nobody evaluates.                                                 *)
(***************************************************************************)
EXTENDS Naturals, FiniteSets

CONSTANTS
  Watched,    \* sources
  Batch,      \* periods for which a cleanup is batched
  Day,        \* periods between two cleanups
  Retention   \* periods for which an alert is kept

ASSUME MonitoringAssumption ==
  /\ Watched # {} /\ IsFiniteSet(Watched)
  /\ {Batch, Day, Retention} \subseteq Nat \ {0}

VARIABLES
  status,   \* [Watched -> sourceHealthMap]
  muted,    \* alertCooldowns: sources and statuses within the cooldown
  alerts,   \* the ages of alerts
  active,   \* [Kinds -> age of the active alert, if any]
  timers,   \* [check, daily, cleanup]
  bad       \* periods for which the system has been unhealthy

mvars == <<status, muted, alerts, active, timers, bad>>

-----------------------------------------------------------------------------
Kinds == {"source_health_change", "aggregation_error", "system_unhealthy"}
Statuses == {"healthy", "unhealthy", "recovered"}

(* Bound: ages beyond all that the timers allow are one.                   *)
OldestAlert == Retention + Day + Batch + 2
Aged(age) == IF age < OldestAlert THEN age + 1 ELSE OldestAlert

(* startAlertCleanup: the first cleanup is scheduled at once.  cleanup:    *)
(* the time left, if one is scheduled.                                     *)
MonitoringInit ==
  /\ status = [s \in Watched |-> "unknown"]
  /\ muted = {}
  /\ alerts = {}
  /\ active = [k \in Kinds |-> {}]
  /\ timers = [check |-> TRUE, daily |-> Day, cleanup |-> {Batch}]
  /\ bad = 0

(* sendAlert, deliverAlert: an alert replaces the active one of its kind.  *)
Sent(kinds) ==
  /\ alerts' = IF kinds = {} THEN alerts ELSE alerts \cup {0}
  /\ active' = [k \in Kinds |-> IF k \in kinds THEN {0} ELSE active[k]]

(* updateHealthMetrics, of the sources it has heard of.                    *)
Judged(known) ==
  LET all == Cardinality({s \in Watched : known[s] # "unknown"})
      well == all - Cardinality({s \in Watched : known[s] = "unhealthy"})
  IN  IF 10 * well >= 8 * all THEN "healthy"
      ELSE IF 2 * well >= all THEN "degraded" ELSE "unhealthy"

SinceBad(known) == IF Judged(known) = "unhealthy" THEN bad ELSE 0

-----------------------------------------------------------------------------
(* checkAndSendHealthAlert: none within the cooldown of this status.       *)
SourceAlert(s, new) ==
  /\ Sent(IF <<s, new>> \in muted THEN {} ELSE {"source_health_change"})
  /\ muted' = muted \cup {<<s, new>>}

(* recordSourceHealth.                                                     *)
RecordSourceHealth(s, new) ==
  /\ status' = [status EXCEPT ![s] = new]
  /\ bad' = SinceBad(status')
  /\ SourceAlert(s, new)
  /\ UNCHANGED timers

CooldownEnds(s, new) ==
  /\ <<s, new>> \in muted
  /\ muted' = muted \ {<<s, new>>}
  /\ UNCHANGED <<status, alerts, active, timers, bad>>

(* recordAggregationError, of an error that is not one of initialization.  *)
RecordAggregationError ==
  /\ Sent({"aggregation_error"})
  /\ UNCHANGED <<status, muted, timers, bad>>

(* Mutant: an alert of the unhealthy system only if there is none.         *)
MutantHealthCheck ==
  /\ timers.check
  /\ timers' = [timers EXCEPT !.check = FALSE]
  /\ Sent(IF Judged(status) = "unhealthy" /\ active["system_unhealthy"] = {}
          THEN {"system_unhealthy"} ELSE {})
  /\ UNCHANGED <<status, muted, bad>>

(* performHealthCheck.                                                     *)
HealthIsChecked ==
  /\ timers.check
  /\ timers' = [timers EXCEPT !.check = FALSE]
  /\ Sent(IF Judged(status) = "unhealthy" THEN {"system_unhealthy"} ELSE {})
  /\ UNCHANGED <<status, muted, bad>>

(* createEventDrivenScheduler: one cleanup at a time.                      *)
Scheduled(t) == IF t.cleanup = {} THEN [t EXCEPT !.cleanup = {Batch}] ELSE t

(* Mutant: the periodic cleanup is not set up again.                       *)
MutantPeriodicCleanup ==
  /\ timers.daily = 0
  /\ timers' = [Scheduled(timers) EXCEPT !.daily = OldestAlert]
  /\ UNCHANGED <<status, muted, alerts, active, bad>>

PeriodicCleanup ==
  /\ timers.daily = 0
  /\ timers' = [Scheduled(timers) EXCEPT !.daily = Day]
  /\ UNCHANGED <<status, muted, alerts, active, bad>>

(* cleanupOldAlerts.                                                       *)
CleanupOldAlerts ==
  /\ timers.cleanup = {0}
  /\ timers' = [timers EXCEPT !.cleanup = {}]
  /\ alerts' = {a \in alerts : a <= Retention}
  /\ active' = [k \in Kinds |-> {a \in active[k] : a <= Retention}]
  /\ UNCHANGED <<status, muted, bad>>

(* A period of the health check: what is due goes first.                   *)
Elapse ==
  /\ ~timers.check /\ timers.daily > 0 /\ 0 \notin timers.cleanup
  /\ timers' = [check |-> TRUE, daily |-> timers.daily - 1,
               cleanup |-> {t - 1 : t \in timers.cleanup}]
  /\ alerts' = {Aged(a) : a \in alerts}
  /\ active' = [k \in Kinds |-> {Aged(a) : a \in active[k]}]
  /\ bad' = IF Judged(status) = "unhealthy" /\ bad < 2 THEN bad + 1 ELSE bad
  /\ UNCHANGED <<status, muted>>

MonitoringNext ==
  \/ \E s \in Watched, new \in Statuses :
       RecordSourceHealth(s, new) \/ CooldownEnds(s, new)
  \/ RecordAggregationError
  \/ HealthIsChecked \/ PeriodicCleanup \/ CleanupOldAlerts
  \/ Elapse

MonitoringSpec == MonitoringInit /\ [][MonitoringNext]_mvars

-----------------------------------------------------------------------------
(* No alert outlives its retention by more than the day between two        *)
(* cleanups and the time for which one is batched, though no alert ever    *)
(* schedules a cleanup and those of an unhealthy system are never resolved *)
(* (startAlertCleanup, cleanupOldAlerts).                                  *)
AlertsExpire ==
  LET limit == Retention + Day + Batch
  IN  /\ \A a \in alerts : a <= limit
      /\ \A k \in Kinds : \A a \in active[k] : a <= limit

(* While the system stays unhealthy there is an alert of it that is no     *)
(* older than two periods of the health check, whatever the cleanups       *)
(* delete (performHealthCheck, which no cooldown holds back).              *)
CriticalIsCurrent ==
  bad = 2 => \E a \in active["system_unhealthy"] : a <= 2
=============================================================================
