----------------------------- MODULE MCFailover -----------------------------
(* Failover for TLC: the constants are values of Failover.cfg.             *)
EXTENDS Failover
=============================================================================
