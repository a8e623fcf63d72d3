----------------------------- MODULE MCRequests -----------------------------
(* Requests for TLC: the constants are values of Requests.cfg.             *)
EXTENDS Requests
=============================================================================
