--------------------------- MODULE MCSourceHealth ---------------------------
(***************************************************************************)
(* Two parts that hear of the same connection changes and do not call each *)
(* other: the data manager's view of a source with its retry loops         *)
(* (SourceHealth), and connection recovery (ConnectionRecovery), whose     *)
(* sources are connected by whoever does it.  A behaviour is of one part.  *)
(***************************************************************************)
EXTENDS SourceHealth, ConnectionRecovery

CONSTANTS s1, s2
VARIABLE part

Manages ==
  /\ part = "data manager"
  /\ Next
  /\ UNCHANGED <<rvars, part>>

Recovering ==
  /\ part = "recovery"
  /\ RecoveryNext
  /\ UNCHANGED <<vars, part>>

UnionInit ==
  Init /\ RecoveryInit /\ part \in {"data manager", "recovery"}

UnionSpec ==
  /\ UnionInit
  /\ [][Manages \/ Recovering]_<<vars, rvars, part>>
  /\ Fairness
  /\ WF_rvars(part = "recovery" /\ Tick) /\ TasksEnd
=============================================================================
