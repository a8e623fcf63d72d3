------------------------ MODULE MCConsensusAggregator ------------------------
(***************************************************************************)
(* Two parts that only compute: the aggregation of the updates of a feed   *)
(* (ConsensusAggregator) and their validation (Validation).  They share    *)
(* nothing and neither calls the other, so a behaviour is of one of them.  *)
(***************************************************************************)
EXTENDS ConsensusAggregator, Validation

VARIABLE part

CONSTANTS binance, kraken, kucoin, upbit, gate, probit, Reported, Crowded, Polar

TrustOf == (binance :> 10) @@ (kraken :> 10) @@ (kucoin :> 9)
             @@ (upbit :> 8) @@ (gate :> 10) @@ (probit :> 7)
TierOf  == (binance :> 1) @@ (kraken :> 1) @@ (kucoin :> 2)
             @@ (upbit :> 3) @@ (gate :> 2) @@ (probit :> 3)
DecayOf == <<10, 4, 0>>

Order == <<binance, kraken, kucoin, upbit, gate, probit>>

\* n exchanges, the third of which is not confident.  At age 2 the second is
\* stale, at age 3 all are.
Reports(n, prices, age) ==
  {[i \in 1 .. n |->
      [source |-> Order[i], price |-> p[i], second |-> 0,
       confidence |-> IF i = 3 THEN 5 ELSE 10,
       age |-> IF i = 2 \/ age = 3 THEN age ELSE 1]]
     : p \in [1 .. n -> prices]}

SomeInputs ==
  UNION {Reports(n, Reported, age) : n \in 1 .. 4, age \in 1 .. 3}
    \cup Reports(5, Crowded, 1)
    \cup Reports(6, Polar, 1)

\* At 50 the price of the market is below the accepted range.
MistakesOf ==
  [m \in Markets |-> CASE m = 50  -> {150}
                       [] m = 100 -> {0, 103}
                       [] OTHER   -> {300}]

Aggregating ==
  /\ part = "aggregation"
  /\ ConsensusNext
  /\ UNCHANGED <<validationVars, part>>

Validates ==
  /\ part = "validation"
  /\ ValidationNext
  /\ UNCHANGED <<consensusVars, part>>

\* The part that does not run is in some initial state.
InitialParts ==
  /\ ValidationInit
  /\ \/ part = "aggregation" /\ market = Min(Markets) /\ ConsensusInit
     \/ /\ part = "validation"
        /\ updates = << >> /\ aggregationCache = NoResult
        /\ answer = NoResult /\ revisions = 0

FairSpec ==
  /\ InitialParts
  /\ [][Aggregating \/ Validates]_<<consensusVars, validationVars, part>>
  /\ part = "validation" => Fairness
==============================================================================
