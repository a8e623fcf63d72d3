------------------------ MODULE ConsensusAggregator ------------------------
(***************************************************************************)
(* How ConsensusAggregator makes one price of the updates of a feed:       *)
(* validation, weights, removal of outliers, weighted median, and the      *)
(* cache of results that aggregate consults first.                         *)
(*                                                                         *)
(* The code computes with floating point numbers; here prices and weights  *)
(* are integers, every comparison is multiplied out and a result is a      *)
(* fraction, so rounding is abstracted from.  Weights are in thousandths.  *)
(* The order of sorted lists is described by what precedes what, not by    *)
(* sorting, and a filtered list keeps the positions of what is left: a     *)
(* list is a function whose domain is a finite set of positions.  Scores   *)
(* (consensus, confidence) and statistics are left out.                    *)
(***************************************************************************)
EXTENDS Integers, Sequences, FiniteSets, FiniteSetsExt, SequencesExt

CONSTANTS
  Inputs,        \* the lists of updates a feed may start with
  NewPrices,     \* the prices an exchange may report next
  Trust,         \* [sources -> 1 .. 10]: trustScore
  Tier,          \* [sources -> 1 .. 3]
  Decay,         \* [ages -> 0 .. 10]: exp(-lambda * staleness), in tenths
  Cent,          \* 0.01 in the unit of prices, if at least 1
  MaxRevisions   \* bound on the updates that follow the first ones

(* A price of 0 stands for every price that is not a positive number;      *)
(* confidence is in tenths; age is how stale an update is, second the      *)
(* second of its timestamp.                                                *)
PriceUpdate == [source : DOMAIN Trust, price : Nat, confidence : Nat,
                age : DOMAIN Decay, second : Nat]

ASSUME WeightAssumption == /\ Trust \in [DOMAIN Trust -> 1 .. 10]
                           /\ Tier \in [DOMAIN Trust -> 1 .. 3]
                           /\ Decay \in [DOMAIN Decay -> 0 .. 10]
ASSUME PriceAssumption == Inputs \subseteq Seq(PriceUpdate) /\ NewPrices \subseteq Nat
ASSUME CentAssumption == Cent \in Nat \ {0}
ASSUME BoundAssumption == MaxRevisions \in Nat

VARIABLES
  updates,           \* the updates of a feed, as aggregate gets them
  aggregationCache,  \* aggregationCache[feedKey], or NoResult
  answer,            \* what the last call of aggregate gave for these updates
  revisions          \* number of updates since the start

consensusVars == <<updates, aggregationCache, answer, revisions>>

NoResult == [kind |-> "none"]
Rejected == [kind |-> "rejected"]    \* "No valid price data available"

-----------------------------------------------------------------------------
(* Helpers.  A fraction is [num, den] with den > 0.                        *)

Whole(n) == [num |-> n, den |-> 1]
LE(x, y) == x.num * y.den <= y.num * x.den
Same(x, y) == x.num * y.den = y.num * x.den
Distance(x, y) == IF x < y THEN y - x ELSE x - y

Length(s) == Cardinality(DOMAIN s)
Prices(s) == {s[i].price : i \in DOMAIN s}

(* The price at position k, from 0, of the sorted prices.                  *)
PricesAt(s, k) ==
  {p \in Prices(s) :
     /\ Cardinality({i \in DOMAIN s : s[i].price < p}) <= k
     /\ Cardinality({i \in DOMAIN s : s[i].price <= p}) > k}

PriceAt(s, k) == CHOOSE p \in PricesAt(s, k) : TRUE

MiddlePrice(s) == PriceAt(s, Length(s) \div 2)

-----------------------------------------------------------------------------
(* validateUpdates.                                                        *)

Valid(us) ==
  RestrictValues(us, LAMBDA u : u.price > 0 /\ u.confidence \in 1 .. 10)

(* At most 25 % from the median.                                           *)
Stable(us) ==
  LET middle == MiddlePrice(us)
  IN  RestrictValues(us, LAMBDA u : 4 * Distance(u.price, middle) <= middle)

(* The stable updates, if they are at least 40 % of the valid ones.        *)
Validated(us) ==
  LET valid == Valid(us)
      enough == Max({1, (2 * Length(valid)) \div 5})
  IN  IF Length(valid) > 2 /\ Length(Stable(valid)) >= enough THEN Stable(valid)
      ELSE valid

(* convertToPricePoints.                                                   *)
Points(us) ==
  [i \in DOMAIN us |->
     [price  |-> us[i].price,
      weight |-> Trust[us[i].source] * Decay[us[i].age] * us[i].confidence,
      tier   |-> Tier[us[i].source]]]

-----------------------------------------------------------------------------
(* fastOutlierRemoval.                                                     *)

(* More than 1.5 interquartile ranges outside the quartiles.               *)
OutsideQuartiles(s, p) ==
  LET q1 == PriceAt(s, Length(s) \div 4)
      q3 == PriceAt(s, (3 * Length(s)) \div 4)
  IN  2 * p < 2 * q1 - 3 * (q3 - q1) \/ 2 * p > 2 * q3 + 3 * (q3 - q1)

(* More than 2 standard deviations from the mean.                          *)
FarFromMean(s, p) ==
  LET n         == Length(s)
      total     == SumFunction([i \in DOMAIN s |-> s[i].price])
      square(x) == (n * x - total) * (n * x - total)
  IN  n * square(p) > 4 * SumFunction([i \in DOMAIN s |-> square(s[i].price)])

(* More than 8 % (outlierThreshold) from the median.                       *)
FarFromMedian(s, p) ==
  100 * Distance(p, MiddlePrice(s)) > 8 * MiddlePrice(s)

(* A first-tier outlier of some weight, less than 5 % off, is kept.        *)
Trusted(s, point) ==
  /\ point.weight > 150
  /\ point.tier = 1
  /\ 20 * Distance(point.price, MiddlePrice(s)) < MiddlePrice(s)

WithoutOutliers(s) ==
  LET kept == RestrictValues(s, LAMBDA point :
                \/ Trusted(s, point)
                \/ ~ \/ OutsideQuartiles(s, point.price)
                     \/ FarFromMean(s, point.price)
                     \/ FarFromMedian(s, point.price))
  IN  IF Length(s) <= 3 \/ Length(kept) < Max({2, (3 * Length(s)) \div 5}) THEN s
      ELSE kept

-----------------------------------------------------------------------------
(* calculateOptimizedWeightedMedian.                                       *)

(* Mutant: points of the same price stay in the order they came in.        *)
MutantPrecedes(s, i, j) ==
  s[i].price < s[j].price \/ (s[i].price = s[j].price /\ i < j)

(* The order of the points: by price, then the heavier first.              *)
Precedes(s, i, j) ==
  \/ s[i].price < s[j].price
  \/ /\ s[i].price = s[j].price
     /\ \/ s[i].weight > s[j].weight
        \/ s[i].weight = s[j].weight /\ i < j

Weight(s, S) == SumFunctionOnSet([i \in DOMAIN s |-> s[i].weight], S)
Before(s, i) == {j \in DOMAIN s : Precedes(s, j, i)}

(* The first point at which half of the weight is reached.                 *)
Crossing(s) ==
  CHOOSE i \in DOMAIN s :
    /\ 2 * Weight(s, Before(s, i)) < Weight(s, DOMAIN s)
    /\ 2 * Weight(s, Before(s, i) \cup {i}) >= Weight(s, DOMAIN s)

Previous(s, i) ==
  CHOOSE j \in Before(s, i) : \A k \in Before(s, i) : k = j \/ Precedes(s, k, j)

(* Mutant: the offset is taken from the wrong side of the crossing point.  *)
MutantInterpolated(s, i) ==
  LET lower  == s[Previous(s, i)].price
      offset == Weight(s, DOMAIN s) + 2 * Weight(s, Before(s, i))
      span   == 2 * s[i].weight
  IN  [num |-> lower * span + (s[i].price - lower) * offset, den |-> span]

(* Between the price of the point before the crossing and the one at it.   *)
Interpolated(s, i) ==
  LET lower  == s[Previous(s, i)].price
      offset == Weight(s, DOMAIN s) - 2 * Weight(s, Before(s, i))
      span   == 2 * s[i].weight
  IN  [num |-> lower * span + (s[i].price - lower) * offset, den |-> span]

(* All weights are 0 when all updates are hours old: a mean instead.       *)
TierMean(s) ==
  LET tierWeight(i) == IF s[i].tier = 1 THEN 2 ELSE 1
  IN  [num |-> SumFunction([i \in DOMAIN s |-> s[i].price * tierWeight(i)]),
       den |-> SumFunction([i \in DOMAIN s |-> tierWeight(i)])]

WeightedMedian(points) ==
  LET s == WithoutOutliers(points)
      i == Crossing(s)
  IN  IF Length(points) = 1
      THEN Whole(points[CHOOSE k \in DOMAIN points : TRUE].price)
      ELSE IF Weight(s, DOMAIN s) = 0 THEN TierMean(s)
      ELSE IF Before(s, i) = {} THEN Whole(s[i].price)
      ELSE Interpolated(s, i)

(* What aggregate computes.                                                *)
Computed(us) ==
  IF DOMAIN Validated(us) = {} THEN Rejected
  ELSE [kind |-> "price", price |-> WeightedMedian(Points(Validated(us)))]

-----------------------------------------------------------------------------
(* calculateInputHash: prices to the cent, times to the second.  (That two *)
(* different inputs have one 32-bit hash is left out.)                     *)
Rounded(p) == (2 * p + Cent) \div (2 * Cent)

Key(us) ==
  ToBag([i \in DOMAIN us |->
           <<us[i].source, Rounded(us[i].price), us[i].second>>])

ConsensusInit ==
  /\ updates \in Inputs
  /\ aggregationCache = NoResult
  /\ answer = NoResult
  /\ revisions = 0

Hit == aggregationCache # NoResult /\ aggregationCache.key = Key(updates)

(* aggregate, with the cache it checks first: a rejection is not stored.   *)
(* (The entry's "of" serves the properties only.)                          *)
Aggregate ==
  /\ answer' = IF Hit THEN aggregationCache.result ELSE Computed(updates)
  /\ aggregationCache' =
       IF Hit \/ Computed(updates) = Rejected THEN aggregationCache
       ELSE [key |-> Key(updates), result |-> Computed(updates), of |-> updates]
  /\ UNCHANGED <<updates, revisions>>

(* An exchange reports a new price, in the same second or a later one.     *)
Revise(i) ==
  /\ revisions < MaxRevisions
  /\ \E p \in NewPrices, later \in {0, 1} :
       updates' = [updates EXCEPT ![i].price = p, ![i].second = @ + later]
  /\ answer' = NoResult
  /\ revisions' = revisions + 1
  /\ UNCHANGED aggregationCache

(* cacheTTL, 300 ms.                                                       *)
Expire ==
  /\ aggregationCache # NoResult
  /\ aggregationCache' = NoResult
  /\ answer' = NoResult
  /\ UNCHANGED <<updates, revisions>>

ConsensusNext == Aggregate \/ Expire \/ \E i \in DOMAIN updates : Revise(i)

ConsensusSpec == ConsensusInit /\ [][ConsensusNext]_consensusVars

-----------------------------------------------------------------------------
(* Results are rejections or fractions with a positive denominator, and a  *)
(* rejection is never cached.                                              *)
Result == [kind : {"rejected"}] \cup
          [kind : {"price"}, price : [num : Nat, den : Nat \ {0}]]

ConsensusTypeOK ==
  /\ updates \in Seq(PriceUpdate)
  /\ answer \in Result \cup {NoResult}
  /\ aggregationCache # NoResult =>
       aggregationCache.result \in Result \ {Rejected}
  /\ revisions \in 0 .. MaxRevisions

(* Between the lowest and the highest of these prices, give or take.       *)
Within(price, prices, tolerance) ==
  \E low, high \in prices : /\ LE(Whole(low - tolerance), price)
                            /\ LE(price, Whole(high + tolerance))

(* The answer was computed from the present updates.                       *)
Fresh ==
  /\ answer # NoResult
  /\ aggregationCache # NoResult /\ aggregationCache.of = updates

(* The price lies between the lowest and the highest valid price, however  *)
(* points are weighted, removed, interpolated or averaged                  *)
(* (performAggregation); and a cached one, reused for updates that look    *)
(* the same to calculateInputHash, is at most a cent outside the prices of *)
(* the present ones.                                                       *)
PriceWithinSources ==
  /\ Fresh => Within(answer.price, Prices(Valid(updates)), 0)
  /\ answer # NoResult /\ answer # Rejected =>
       Within(answer.price, Prices(updates), Cent)

(* The order in which updates came in does not change the price: no two    *)
(* can be swapped with an effect ("stable sorting for consistent results", *)
(* while filters and sums go through the updates as they came).            *)
OrderDoesNotMatter ==
  Fresh =>
    \A i, j \in DOMAIN updates :
      i < j =>
        Same(Computed([updates EXCEPT ![i] = updates[j],
                                      ![j] = updates[i]]).price,
             answer.price)
=============================================================================
