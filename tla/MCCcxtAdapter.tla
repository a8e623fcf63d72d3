--------------------------- MODULE MCCcxtAdapter ---------------------------
(* CcxtAdapter for TLC: one exchange that is watched in batches of one,    *)
(* one that is watched by symbol.                                          *)
EXTENDS CcxtAdapter, TLC

CONSTANTS e1, e2, s1, s2

MCLists == (e1 :> {s1, s2}) @@ (e2 :> {s1})
MCSymbolLimit == (e1 :> 1) @@ (e2 :> 1)
=============================================================================
