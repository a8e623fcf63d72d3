----------------------------- MODULE MCStartup -----------------------------
(* Startup for TLC: the constants are values of Startup.cfg.               *)
EXTENDS Startup
=============================================================================
