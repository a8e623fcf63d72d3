----------------------------- MODULE Validation -----------------------------
(***************************************************************************)
(* ValidationService and DataValidator: an update of a feed is compared    *)
(* with the history of the feed, with the recent prices of the other       *)
(* sources and with the median of the last ten prices.  Every update       *)
(* enters the history, the rejected ones too.                              *)
(*                                                                         *)
(* One feed.  Sources report in rounds as long as a verdict is cached      *)
(* (validationCacheTTL), the honest ones the market price, the faulty one  *)
(* anything.  Honest sources differ in nothing but their names, so they    *)
(* report in one order, and the faulty one anywhere between them.          *)
(* Validations run one after another.  Prices are integers, ratios are     *)
(* multiplied out; a price that is not a number, the statistics and the    *)
(* eviction of cached verdicts are left out.  The prices of the sources    *)
(* are a set, since nothing depends on their order, and a sorted list is   *)
(* described by how many prices are below the one at a position.           *)
(***************************************************************************)
EXTENDS Integers, Sequences, FiniteSets, FiniteSetsExt, SequencesExt

CONSTANTS
  HonestCount,       \* number of sources that report the market price
  Markets,           \* prices of the market, in the accepted range or not
  Mistakes,          \* [Markets -> sets of prices the faulty source reports]
  MinPrice, MaxPrice,    \* PRICE_RANGE_MIN and PRICE_RANGE_MAX
  HistoricalWindow,      \* HISTORICAL_DATA_WINDOW
  CrossSourceWindow,     \* CROSS_SOURCE_WINDOW_MS, in rounds
  MaxDisturbances        \* bound on what keeps reports from being regular

(* At least four honest sources: of three, the first to report after the   *)
(* faulty one is compared with the two others of the last round and with   *)
(* two mistakes, of the last round and of this one.                        *)
ASSUME SourceAssumption == HonestCount \in Nat /\ HonestCount >= 4

(* Configured feeds trade below MinPrice (config/feeds.json: BONK/USD and  *)
(* NOT/USD), so a market price is any positive one.                        *)
ASSUME MarketAssumption ==
  /\ MinPrice \in Nat /\ MaxPrice \in Nat
  /\ Markets \subseteq Nat \ {0}
  /\ Mistakes \in [Markets -> SUBSET Int]

(* HISTORICAL_DATA_WINDOW has a minimum of 10.  CROSS_SOURCE_WINDOW_MS is  *)
(* twice the CACHE_TTL_MS of verdicts by default.                          *)
ASSUME WindowAssumption ==
  /\ HistoricalWindow \in Nat /\ HistoricalWindow >= 10
  /\ CrossSourceWindow \in Nat /\ CrossSourceWindow >= 2

ASSUME DisturbanceAssumption == MaxDisturbances \in Nat

VARIABLES
  market,        \* the price of the market
  history,       \* historicalPrices of the feed, the latest last
  crossSource,   \* crossSourcePrices of the feed, a set
  cached,        \* validationCache: [source -> verdict on its last update]
  reported,      \* the sources that have reported in this round
  verdict,       \* [source -> verdict on its report of this round]
  steady,        \* regular rounds since the last disturbance, to Regular
  disturbances   \* number of disturbances so far

validationVars == <<market, history, crossSource, cached, reported, verdict, steady,
                    disturbances>>

Honest == 1 .. HonestCount
Faulty == 0
Sources == Honest \cup {Faulty}
NoVerdict == [valid |-> FALSE, confidence |-> -1]

-----------------------------------------------------------------------------
(* Helpers.  A reference is a fraction [num, den].                         *)

Difference(x, y) == IF x < y THEN y - x ELSE x - y

Mean(prices) == [num |-> SumFunction(prices), den |-> Len(prices)]

(* The price at position k, from 0, of the sorted prices.                  *)
Sorted(prices, k) ==
  CHOOSE p \in Range(prices) :
    /\ Cardinality({i \in DOMAIN prices : prices[i] < p}) <= k
    /\ Cardinality({i \in DOMAIN prices : prices[i] <= p}) > k

(* The mean of the two prices in the middle, which may be the same one.    *)
Median(prices) ==
  LET n == Cardinality(DOMAIN prices)
  IN  [num |-> Sorted(prices, (n - 1) \div 2) + Sorted(prices, n \div 2),
       den |-> 2]

(* A deviation of more than so many thousandths of the reference.          *)
Deviates(price, reference, thousandths) ==
  1000 * Difference(price * reference.den, reference.num)
    > thousandths * reference.num

(* More than the threshold counts, more than twice the threshold is grave. *)
Graded(price, reference, threshold) ==
  IF Deviates(price, reference, 2 * threshold) THEN "high"
  ELSE IF Deviates(price, reference, threshold) THEN "medium" ELSE "none"

LastOf(n, s) == IF Len(s) <= n THEN s ELSE SubSeq(s, Len(s) - n + 1, Len(s))

-----------------------------------------------------------------------------
(* DataValidator.  Each check gives the severity of the error it finds.    *)

Format(u) == IF u.formed THEN "none" ELSE "critical"
Positive(u) == IF u.price <= 0 THEN "critical" ELSE "none"
InRange(u) == IF u.price < MinPrice \/ u.price > MaxPrice THEN "high" ELSE "none"

(* More than 2.5 standard deviations from the mean.                        *)
ZScore(u, past) ==
  LET n         == Len(past)
      total     == SumFunction(past)
      square(x) == (n * x - total) * (n * x - total)
  IN  IF n >= 3 /\ 4 * n * square(u.price)
                     > 25 * SumFunction([i \in 1 .. n |-> square(past[i])])
      THEN "medium" ELSE "none"

(* More than 5 % from the mean of the last five prices.                    *)
FromRecent(u, past) ==
  IF Len(past) < 3 THEN "none"
  ELSE Graded(u.price, Mean(LastOf(5, past)), 50)

(* More than 2 % from the median of the other sources.                     *)
FromOthers(u, known) ==
  LET others == {v \in known : v.source # u.source}
  IN  IF Cardinality(known) < 3 \/ others = {} THEN "none"
      ELSE Graded(u.price, Median([v \in others |-> v.price]), 20)

(* getConsensusMedian of the positive ones of the last ten prices, and     *)
(* validateConsensusAlignment: more than 0.5 % from it.                    *)
FromConsensus(u, past) ==
  LET recent == RestrictValues(LastOf(10, past), LAMBDA p : p > 0)
  IN  IF DOMAIN recent = {} THEN "none"
      ELSE Graded(u.price, Median(recent), 5)

Severities(u, past, known) ==
  << Format(u), Positive(u), InRange(u), ZScore(u, past), FromRecent(u, past),
     FromOthers(u, known), FromConsensus(u, past) >>

Errors(found, severity) ==
  Cardinality({i \in DOMAIN found : found[i] = severity})

(* adjustConfidence, of a full confidence of 10^7: the penalties are 0.1,  *)
(* 0.3 and 0.6.                                                            *)
Confidence(found) ==
  LET critical == Errors(found, "critical")
      high     == Errors(found, "high")
      medium   == Errors(found, "medium")
  IN  3 ^ high * 6 ^ medium * 10 ^ (Len(found) - critical - high - medium)

(* Mutant: no grave error is forgiven.                                     *)
MutantValidateUpdate(u, past, known) ==
  LET found == Severities(u, past, known)
  IN  [valid      |-> Errors(found, "critical") + Errors(found, "high") = 0,
       confidence |-> Confidence(found)]

(* validateUpdate.  One grave error is forgiven (MAX_HIGH_ERRORS).         *)
ValidateUpdate(u, past, known) ==
  LET found == Severities(u, past, known)
  IN  [valid      |-> Errors(found, "critical") = 0 /\ Errors(found, "high") <= 1,
       confidence |-> Confidence(found)]

-----------------------------------------------------------------------------
(* ValidationService.                                                      *)

Recent(known) == {u \in known : u.age < CrossSourceWindow}

(* getCrossSourcePrices: of other sources and the same symbol, which a     *)
(* malformed update lacks.                                                 *)
CrossSourcePrices(u) ==
  {v \in Recent(crossSource) : v.source # u.source /\ v.formed = u.formed}

PricesOf(us) == [i \in DOMAIN us |-> us[i].price]

(* Mutant: rejected updates are not recorded.                              *)
MutantUpdateHistoricalData(us) ==
  LET kept == SelectSeq(us, LAMBDA u : ValidateUpdate(u, history, CrossSourcePrices(u)).valid)
  IN  /\ history' = LastOf(HistoricalWindow, history \o PricesOf(kept))
      /\ crossSource' = Recent(crossSource \cup Range(kept))

(* updateHistoricalData, for each update.                                  *)
UpdateHistoricalData(us) ==
  /\ history' = LastOf(HistoricalWindow, history \o PricesOf(us))
  /\ crossSource' = Recent(crossSource \cup Range(us))

ValidationInit ==
  /\ market \in Markets
  /\ history = << >>
  /\ crossSource = {}
  /\ cached = [s \in Sources |-> NoVerdict]
  /\ reported = {}
  /\ verdict = [s \in Sources |-> NoVerdict]
  /\ steady = 0
  /\ disturbances = 0

(* What is not regular is bounded, and rounds are counted anew after it.   *)
Disturb ==
  /\ disturbances < MaxDisturbances
  /\ disturbances' = disturbances + 1
  /\ steady' = 0

(* copy counts how often an update was delivered before.                   *)
Update(s, price) ==
  [source |-> s, price |-> price, formed |-> TRUE, age |-> 0, copy |-> 0]

(* What a source may report now.                                           *)
ReportsOf(s) ==
  IF s # Faulty THEN {Update(s, market)}
  ELSE {Update(s, p) : p \in Mistakes[market]}
         \cup {[Update(s, market) EXCEPT !.formed = FALSE]}

(* The key is the source and the time of the update, whatever its price.   *)
Known(s) == cached[s] # NoVerdict

(* validateRealTime.                                                       *)
ValidateRealTime(u) ==
  LET result == ValidateUpdate(u, history, CrossSourcePrices(u))
  IN  /\ reported' = reported \cup {u.source}
      /\ IF Known(u.source)
         THEN /\ verdict' = [verdict EXCEPT ![u.source] = cached[u.source]]
              /\ UNCHANGED <<history, crossSource, cached>>
         ELSE /\ verdict' = [verdict EXCEPT ![u.source] = result]
              /\ cached' = [cached EXCEPT ![u.source] = result]
              /\ UpdateHistoricalData(<<u>>)
      /\ UNCHANGED market

(* The source is the faulty one or the next honest one.                    *)
Turn(s) == s \notin reported /\ 1 .. s - 1 \subseteq reported

Report(s) ==
  /\ Turn(s)
  /\ \E u \in ReportsOf(s) : ValidateRealTime(u)
  /\ UNCHANGED <<steady, disturbances>>

(* What is stored of the updates of a source in this round.                *)
UpdatesOf(s) == {u \in crossSource : u.source = s /\ u.age = 0}

(* An update is delivered again.  If its verdict is not cached, it counts  *)
(* again.                                                                  *)
Repeat(s) ==
  /\ s \in reported
  /\ \E u \in UpdatesOf(s) :
       /\ \A v \in UpdatesOf(s) : v.copy <= u.copy
       /\ ValidateRealTime([u EXCEPT !.copy = @ + 1])
  /\ IF Known(s) THEN UNCHANGED <<steady, disturbances>> ELSE Disturb

(* validateBatch, of a whole round: one context for all, with all that is  *)
(* stored and the batch, and verdicts are neither looked up nor stored.    *)
ValidateBatch(us) ==
  /\ verdict' = [s \in Sources |->
                   ValidateUpdate(CHOOSE u \in Range(us) : u.source = s,
                                  history, crossSource \cup Range(us))]
  /\ UpdateHistoricalData(us)
  /\ reported' = Sources
  /\ UNCHANGED <<market, cached>>

Batch ==
  /\ reported = {}
  /\ \E k \in 1 .. HonestCount + 1, mistake \in Mistakes[market] :
       ValidateBatch([i \in 1 .. HonestCount + 1 |->
                        IF i = k THEN Update(Faulty, mistake)
                        ELSE Update(IF i < k THEN i ELSE i - 1, market)])
  /\ UNCHANGED <<steady, disturbances>>

(* The rounds after which no update of an irregular one is compared with:  *)
(* those in the window, and the one of which updates may still be stored.  *)
Regular == CrossSourceWindow + 1

(* A round ends; if a source was silent, that is a disturbance.            *)
Round ==
  /\ reported' = {}
  /\ verdict' = [s \in Sources |-> NoVerdict]
  /\ cached' = [s \in Sources |-> NoVerdict]
  /\ crossSource' = {[u EXCEPT !.age = @ + 1] : u \in crossSource}
  /\ UNCHANGED <<market, history>>

EndRound ==
  /\ reported = Sources
  /\ Round
  /\ steady' = Min({Regular, steady + 1})
  /\ UNCHANGED disturbances

Pause == reported # Sources /\ Round /\ Disturb

Move ==
  /\ market' \in Markets \ {market}
  /\ Disturb
  /\ UNCHANGED <<history, crossSource, cached, reported, verdict>>

(* cleanupHistoricalData; cleanupCache finds nothing that Known would use. *)
Cleanup ==
  /\ crossSource # Recent(crossSource)
  /\ crossSource' = Recent(crossSource)
  /\ UNCHANGED <<market, history, cached, reported, verdict, steady, disturbances>>

ClearHistoricalData ==
  /\ history' = << >>
  /\ crossSource' = {}
  /\ Disturb
  /\ UNCHANGED <<market, cached, reported, verdict>>

ClearCache ==
  /\ cached' = [s \in Sources |-> NoVerdict]
  /\ Disturb
  /\ UNCHANGED <<market, history, crossSource, reported, verdict>>

ValidationNext ==
  \/ \E s \in Sources : Report(s) \/ Repeat(s)
  \/ Batch \/ EndRound \/ Pause \/ Move
  \/ Cleanup \/ ClearHistoricalData \/ ClearCache

ValidationSpec == ValidationInit /\ [][ValidationNext]_validationVars

(* Sources go on reporting, and rounds end.                                *)
Fairness ==
  /\ WF_reported(\E s \in Sources : Turn(s) /\ reported' = reported \cup {s})
  /\ WF_reported(reported = Sources /\ reported' = {})

-----------------------------------------------------------------------------
(* No report of an honest source has a grave error for its price alone.    *)
MarketInRange == market \in MinPrice .. MaxPrice

(* One faulty source of five that take turns does no harm, whatever it     *)
(* reports: in a steady market whose price is in the accepted range honest *)
(* updates are valid, although its prices are in the history they are      *)
(* compared with; and in any steady market its own are rejected when they  *)
(* are more than 4 % off.  Outside of the range every honest update has a  *)
(* grave error already, so that a second one, caused by the faulty source, *)
(* makes it invalid (validateUpdate, validateRange).                       *)
OneBadSourceIsIsolated ==
  steady = Regular =>
    /\ MarketInRange => \A s \in reported \cap Honest : verdict[s].valid
    /\ \A u \in UpdatesOf(Faulty) :
         25 * Difference(u.price, market) > market => ~verdict[Faulty].valid

(* However far the market moves within the accepted range, or into it,     *)
(* honest updates are accepted again in the end, since the rejected ones   *)
(* enter the history (updateHistoricalData).                               *)
MovesAreAccepted ==
  <>[](MarketInRange => \A s \in reported \cap Honest : verdict[s].valid)
=============================================================================
