----------------------------- MODULE MCFailures -----------------------------
(***************************************************************************)
(* Five parts that share nothing, a behaviour being of one of them: the    *)
(* circuits of one service (CircuitBreaker; circuits share nothing but the *)
(* clock and the health check, which treats each on its own), the failover *)
(* of a feed's sources (Failover), what one adapter asks of its exchange   *)
(* (Subscriptions), the timers of one service (Lifecycle), and the alerts  *)
(* about one source (Monitoring).  Only their safety is checked.           *)
(***************************************************************************)
EXTENDS CircuitBreaker, Failover, Subscriptions, Lifecycle, Monitoring

VARIABLE part

Breaks ==
  /\ part = "circuit breaker"
  /\ Next
  /\ UNCHANGED <<fvars, svars, lvars, mvars, part>>

FailsOver ==
  /\ part = "failover"
  /\ FailoverNext
  /\ UNCHANGED <<vars, svars, lvars, mvars, part>>

Subscribing ==
  /\ part = "subscriptions"
  /\ SubscriptionsNext
  /\ UNCHANGED <<vars, fvars, lvars, mvars, part>>

Lives ==
  /\ part = "lifecycle"
  /\ LifecycleNext
  /\ UNCHANGED <<vars, fvars, svars, mvars, part>>

Alerts ==
  /\ part = "monitoring"
  /\ MonitoringNext
  /\ UNCHANGED <<vars, fvars, svars, lvars, part>>

\* The adapter does not matter to the parts that have none.
UnionInit ==
  /\ Init /\ FailoverInit /\ SubscriptionsInit /\ LifecycleInit
  /\ MonitoringInit
  /\ part \in {"circuit breaker", "failover", "subscriptions", "lifecycle",
              "monitoring"}
  /\ part # "subscriptions" => adapter.exchange = "kraken"

UnionSpec ==
  /\ UnionInit
  /\ [][Breaks \/ FailsOver \/ Subscribing \/ Lives \/ Alerts]_
        <<vars, fvars, svars, lvars, mvars, part>>
=============================================================================
