---------------------------- MODULE MCPriceCache ----------------------------
(* PriceCache for TLC: the constants are given in PriceCache.cfg.          *)
EXTENDS PriceCache
=============================================================================
