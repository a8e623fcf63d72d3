------------------------- MODULE MCPriceAggregation -------------------------
(* PriceAggregation for TLC: an exchange with two symbols of a feed, and   *)
(* another with one.                                                       *)
EXTENDS PriceAggregation

CONSTANTS coinbase, kraken, ADAUSD, ADAUSDT

ADASources == <<[exchange |-> coinbase, symbol |-> ADAUSD],
                [exchange |-> coinbase, symbol |-> ADAUSDT],
                [exchange |-> kraken, symbol |-> ADAUSDT]>>
=============================================================================
