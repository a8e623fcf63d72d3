---------------------------- MODULE CcxtAdapter ----------------------------
(***************************************************************************)
(* CcxtMultiExchangeAdapter: one adapter for all exchanges that have none  *)
(* of their own.  It batches subscriptions per exchange, loads the markets *)
(* of the exchange, and then watches trades in endless loops or polls them *)
(* by REST.                                                                *)
(*                                                                         *)
(* Everything that waits for an exchange is a job: load, watch, poll and   *)
(* ticker jobs.  Jobs go on over disconnects; two may be alike.            *)
(***************************************************************************)
EXTENDS Naturals, FiniteSets, Bags

CONSTANTS
  Exchanges, Pairs,
  Lists,          \* [Exchanges -> SUBSET Pairs], by feeds.json
  Batching,       \* exchanges with watchTradesForSymbols
  Single,         \* exchanges that only have watchTrades
  SymbolLimit,    \* [Exchanges -> symbols in one batch]
  Threshold,      \* FAILURE_THRESHOLD
  MaxCalls,       \* bound of the calls of the adapter
  MaxErrors       \* bound of the errors of exchanges

ASSUME CcxtAssumption ==
  /\ IsFiniteSet(Exchanges) /\ IsFiniteSet(Pairs)
  /\ Lists \in [Exchanges -> SUBSET Pairs]
  /\ Batching \subseteq Exchanges /\ Single \subseteq Exchanges \ Batching
  /\ SymbolLimit \in [Exchanges -> Nat \ {0}]
  /\ Threshold \in Nat \ {0} /\ MaxCalls \in Nat /\ MaxErrors \in Nat

VARIABLES
  state,      \* isConnected_, or that the module is destroyed
  subs,       \* subscriptions
  ex,         \* [Exchanges -> Exchange]
  jobs,       \* a bag of Jobs
  calls, errors

ccxtvars == <<state, subs, ex, jobs, calls, errors>>

(* present: in exchanges; tracks, tracked: in exchangeSubscriptions;       *)
(* watching: watchTradesActive and ccxtConnectionStatus, which are set     *)
(* together; circuit: due when the reset time-out is over; cooling: the    *)
(* last attempt is less than SUBSCRIPTION_COOLDOWN_MS ago; priced: in      *)
(* latestPrices; lost: a history of requests that were dropped and jobs    *)
(* that ended, until the symbol has a new job.                             *)
Exchange ==
  [present : BOOLEAN, tracks : BOOLEAN, tracked : SUBSET Pairs,
   watching : BOOLEAN, pending : SUBSET Pairs, cooling : BOOLEAN,
   failures : Nat, circuit : {"closed", "open", "due"},
   priced : SUBSET Pairs, lost : SUBSET Pairs]

(* symbols: what the job is about; asked: what a load job was asked for.   *)
Job == [exchange : Exchanges, kind : {"load", "watch", "poll", "ticker"},
        symbols : SUBSET Pairs, asked : SUBSET Pairs]

AJob(e, kind, K) == [exchange |-> e, kind |-> kind, symbols |-> K, asked |-> K]

Running(e, kinds) == {j \in BagToSet(jobs) : j.exchange = e /\ j.kind \in kinds}

CcxtInit ==
  /\ state = "off" /\ subs = {} /\ jobs = EmptyBag /\ calls = 0 /\ errors = 0
  /\ ex = [e \in Exchanges |->
             [present |-> FALSE, tracks |-> FALSE, tracked |-> {},
              watching |-> FALSE, pending |-> {}, cooling |-> FALSE,
              failures |-> 0, circuit |-> "closed", priced |-> {}, lost |-> {}]]

(* isCcxtWebSocketConnected.                                               *)
AnyWatched == \E e \in Exchanges : ex[e].watching

Called == calls < MaxCalls /\ calls' = calls + 1

Failing == errors < MaxErrors /\ errors' = errors + 1

-----------------------------------------------------------------------------
(* Calls of the adapter: no call waits.                                    *)

(* initializeSingleExchange: a new instance with nothing subscribed.       *)
Initialised(x) == [x EXCEPT !.present = TRUE, !.tracks = TRUE, !.tracked = {}]

(* connect, doConnect: what is pending and the circuits stay.              *)
DoConnect ==
  /\ state = "off" /\ Called
  /\ state' = "on"
  /\ ex' = [e \in Exchanges |->
              [Initialised(ex[e]) EXCEPT !.watching = FALSE]]
  /\ UNCHANGED <<subs, jobs, errors>>

Disconnected(x) ==
  [x EXCEPT !.tracks = FALSE, !.tracked = {}, !.watching = FALSE, !.priced = {}]

(* disconnect, doDisconnect.                                               *)
DoDisconnect ==
  /\ state = "on" /\ Called
  /\ state' = "off" /\ subs' = {}
  /\ ex' = [e \in Exchanges |-> Disconnected(ex[e])]
  /\ UNCHANGED <<jobs, errors>>

(* cleanup, when the module is destroyed.                                  *)
CcxtCleanup ==
  /\ state # "down" /\ Called
  /\ state' = "down" /\ subs' = {}
  /\ ex' = [e \in Exchanges |->
              LET x == IF state = "on" THEN Disconnected(ex[e]) ELSE ex[e]
              IN  [x EXCEPT !.pending = {}, !.cooling = FALSE]]
  /\ UNCHANGED <<jobs, errors>>

(* batchSubscriptionRequest.                                               *)
Batched(e, K) == ex[e].pending \cup K

(* groupSymbolsByExchange.                                                 *)
Grouped(e, K) == K \cap Lists[e]

(* subscribe, doSubscribe.                                                 *)
DoSubscribe(K) ==
  LET new == K \ subs
  IN  /\ state = "on" /\ new # {} /\ Called
      /\ subs' = subs \cup new
      /\ ex' = [e \in Exchanges |->
                  [ex[e] EXCEPT !.pending = Batched(e, Grouped(e, new))]]
      /\ UNCHANGED <<state, jobs, errors>>

(* unsubscribe, doUnsubscribe: jobs that watch the symbols go on.          *)
DoUnsubscribe(K) ==
  /\ state = "on" /\ K \cap subs # {} /\ Called
  /\ subs' = subs \ K
  /\ ex' = [e \in Exchanges |->
              [ex[e] EXCEPT !.tracked = @ \ (K \cap subs)]]
  /\ UNCHANGED <<state, jobs, errors>>

(* getPriceFromExchange, without a price of the symbol: the exchange is    *)
(* asked, after it has been initialised again if need be.                  *)
AskPrice(e, s) ==
  /\ state # "down" /\ s \in Lists[e] \ ex[e].priced /\ Called
  /\ ex' = [ex EXCEPT ![e] =
              IF ex[e].present THEN ex[e] ELSE Initialised(ex[e])]
  /\ jobs' = jobs (+) SetToBag({AJob(e, "ticker", {s})})
  /\ UNCHANGED <<state, subs, errors>>

-----------------------------------------------------------------------------
(* The circuit of an exchange.                                             *)

(* recordExchangeFailure.                                                  *)
Failed(x) ==
  [x EXCEPT !.failures = @ + 1,
            !.circuit = IF x.failures + 1 >= Threshold \/ @ # "closed"
                        THEN "open" ELSE "closed"]

(* resetCircuitBreaker, and shouldSkipExchange when the time is over.      *)
Restored(x) == [x EXCEPT !.failures = 0, !.circuit = "closed"]

CircuitDue(e) ==
  /\ ex[e].circuit = "open"
  /\ ex' = [ex EXCEPT ![e].circuit = "due"]
  /\ UNCHANGED <<state, subs, jobs, calls, errors>>

CooledDown(e) ==
  /\ ex[e].cooling
  /\ ex' = [ex EXCEPT ![e].cooling = FALSE]
  /\ UNCHANGED <<state, subs, jobs, calls, errors>>

-----------------------------------------------------------------------------
(* Subscribing at an exchange.                                             *)

Drops(e, x, K) ==
  /\ ex' = [ex EXCEPT ![e] = [x EXCEPT !.pending = {}, !.lost = @ \cup K]]
  /\ UNCHANGED jobs

(* The timer of batchSubscriptionRequest, subscribeToExchange up to the    *)
(* loading of the markets.                                                 *)
BatchFires(e) ==
  LET K == ex[e].pending
      x == IF ex[e].circuit = "due" THEN Restored(ex[e]) ELSE ex[e]
      new == K \ x.tracked
  IN  /\ K # {}
      /\ \/ (x.circuit = "open" \/ x.cooling \/ ~x.present) /\ Drops(e, x, K)
         \/ /\ x.circuit # "open" /\ ~x.cooling /\ x.present
            /\ IF new = {} THEN Drops(e, x, {})
               ELSE /\ ex' = [ex EXCEPT ![e] = [x EXCEPT !.pending = {},
                                                         !.cooling = TRUE]]
                    /\ jobs' = jobs (+) SetToBag({[exchange |-> e, kind |-> "load",
                                                   symbols |-> new, asked |-> K]})
      /\ UNCHANGED <<state, subs, calls, errors>>

Limit(e) == IF e \in Batching THEN SymbolLimit[e] ELSE 1

(* chunkArray.                                                             *)
Chunks(e, K) ==
  {P \in SUBSET (SUBSET K \ {{}}) :
     /\ UNION P = K
     /\ \A a, b \in P : a # b => a \cap b = {}
     /\ \A a \in P : Cardinality(a) <= Limit(e)
     /\ Cardinality(P) * Limit(e) < Cardinality(K) + Limit(e)}

(* startRestPolling: the first round looks whether any exchange is watched *)
(* and ends the polling if not.                                            *)
PollingStarts(e, x, K, others) ==
  IF AnyWatched
  THEN /\ ex' = [ex EXCEPT ![e] = [x EXCEPT !.lost = @ \ K]]
       /\ jobs' = others (+) SetToBag({AJob(e, "poll", K)})
  ELSE /\ ex' = [ex EXCEPT ![e] = [x EXCEPT !.lost = @ \cup K]]
       /\ jobs' = others

WatchingStarts(e, x, K, others) ==
  \E P \in Chunks(e, K) :
    /\ ex' = [ex EXCEPT ![e] = [x EXCEPT !.watching = TRUE, !.lost = @ \ K]]
    /\ jobs' = others (+) SetToBag({AJob(e, "watch", chunk) : chunk \in P})

(* subscribeToExchange with markets loaded, watchTrades: some of the       *)
(* symbols have a market.                                                  *)
LoadSucceeds(j) ==
  LET e == j.exchange
      others == jobs (-) SetToBag({j})
  IN  /\ j.kind = "load"
      /\ \E M \in SUBSET j.symbols :
           LET x == Restored([ex[e] EXCEPT
                      !.tracked = IF ex[e].tracks THEN @ \cup M ELSE @,
                      !.lost = @ \cup (j.symbols \ M)])
           IN  IF M = {}
               THEN /\ ex' = [ex EXCEPT ![e].lost = @ \cup j.symbols]
                    /\ jobs' = others
               ELSE IF e \in Batching \cup Single
                    THEN WatchingStarts(e, x, M, others)
                    ELSE PollingStarts(e, x, M, others)
      /\ UNCHANGED <<state, subs, calls, errors>>

(* subscribeToExchange, an error: in maintenance the exchange is removed.  *)
LoadFails(j) ==
  LET e == j.exchange
      x == Failed(ex[e])
      others == jobs (-) SetToBag({j})
  IN  /\ j.kind = "load" /\ Failing
      /\ \/ /\ ex' = [ex EXCEPT ![e] = [x EXCEPT !.present = FALSE,
                                                 !.lost = @ \cup j.asked]]
            /\ jobs' = others
         \/ PollingStarts(e, x, j.asked, others)
      /\ UNCHANGED <<state, subs, calls>>

-----------------------------------------------------------------------------
(* The endless jobs.                                                       *)

(* A job with the prices of some of its symbols (setPrice) goes on or ends.*)
Prices(j, goesOn) ==
  \E K \in SUBSET j.symbols :
    /\ ex' = [ex EXCEPT ![j.exchange].priced = @ \cup K,
                        ![j.exchange].lost = IF goesOn THEN @
                                             ELSE @ \cup j.symbols]
    /\ jobs' = IF goesOn THEN jobs ELSE jobs (-) SetToBag({j})

(* watchTradesForSymbols: trades of any of the symbols, or an error that   *)
(* is waited out, and then the condition of the loop.                      *)
WatchReturns(j) ==
  /\ j.kind = "watch" /\ j.exchange \in Batching
  /\ Prices(j, ex[j.exchange].watching)
  /\ UNCHANGED <<state, subs, calls, errors>>

(* watchTradesForSymbol: the last trade, or any error, waited out.         *)
SymbolReturns(j) ==
  /\ j.kind = "watch" /\ j.exchange \in Single
  /\ Prices(j, ex[j.exchange].watching)
  /\ UNCHANGED <<state, subs, calls, errors>>

(* Mutant: the exchange still counts as watched.                           *)
MutantWatchBreaks(j) ==
  /\ j.kind = "watch" /\ j.exchange \in Batching /\ Failing
  /\ ex' = [ex EXCEPT ![j.exchange] =
              [Failed(ex[j.exchange]) EXCEPT !.lost = @ \cup j.symbols]]
  /\ jobs' = jobs (-) SetToBag({j})
  /\ UNCHANGED <<state, subs, calls>>

(* watchTradesForSymbols when the connection is closed.                    *)
WatchBreaks(j) ==
  /\ j.kind = "watch" /\ j.exchange \in Batching /\ Failing
  /\ ex' = [ex EXCEPT ![j.exchange] =
              [Failed(ex[j.exchange]) EXCEPT !.watching = FALSE, !.lost = @ \cup j.symbols]]
  /\ jobs' = jobs (-) SetToBag({j})
  /\ UNCHANGED <<state, subs, calls>>

(* Mutant: polling looks whether its own exchange is there.                *)
MutantPolls(j) ==
  /\ j.kind = "poll"
  /\ Prices(j, ex[j.exchange].present)
  /\ UNCHANGED <<state, subs, calls, errors>>

(* adaptivePolling: a round under way ends with its prices also when       *)
(* nothing is watched any more; the next one looks, and may end it all.    *)
Polls(j) ==
  /\ j.kind = "poll"
  /\ \E goesOn \in {TRUE, AnyWatched} : Prices(j, goesOn)
  /\ UNCHANGED <<state, subs, calls, errors>>

(* fetchPriceFromExchange: a price, or null.                               *)
TickerReturns(j) ==
  /\ j.kind = "ticker"
  /\ \E K \in SUBSET j.symbols :
       ex' = [ex EXCEPT ![j.exchange].priced = @ \cup K]
  /\ jobs' = jobs (-) SetToBag({j})
  /\ UNCHANGED <<state, subs, calls, errors>>

Returns(j) ==
  /\ BagIn(j, jobs)
  /\ \/ LoadSucceeds(j) \/ WatchReturns(j) \/ SymbolReturns(j)
     \/ Polls(j) \/ TickerReturns(j)

Breaks(j) == BagIn(j, jobs) /\ (LoadFails(j) \/ WatchBreaks(j))

CcxtNext ==
  \/ DoConnect \/ DoDisconnect \/ CcxtCleanup
  \/ \E K \in SUBSET Pairs \ {{}} : DoSubscribe(K) \/ DoUnsubscribe(K)
  \/ \E e \in Exchanges :
       \/ CircuitDue(e) \/ CooledDown(e) \/ BatchFires(e)
       \/ \E s \in Pairs : AskPrice(e, s)
  \/ \E j \in BagToSet(jobs) : Returns(j) \/ Breaks(j)

CcxtSpec == CcxtInit /\ [][CcxtNext]_ccxtvars

(* Time-outs of CCXT and delays end every wait, batch timers fire.  That a *)
(* watch of a quiet market returns is assumed of CCXT.  Rounds of polling  *)
(* that nobody watches follow each other only while they bring new prices. *)
CcxtFairSpec ==
  /\ CcxtSpec
  /\ \A e \in Exchanges : WF_ccxtvars(BatchFires(e))
  /\ \A j \in Job : WF_ccxtvars(Returns(j))

-----------------------------------------------------------------------------
(* Exchanges and jobs are of their types, and a symbol is only asked of an *)
(* exchange that lists it (groupSymbolsByExchange).                        *)
CcxtTypeOK ==
  /\ state \in {"off", "on", "down"} /\ subs \in SUBSET Pairs
  /\ ex \in [Exchanges -> Exchange]
  /\ IsABag(jobs) /\ BagToSet(jobs) \subseteq Job
  /\ \A e \in Exchanges : ex[e].pending \subseteq Lists[e]
  /\ \A j \in BagToSet(jobs) : j.asked \subseteq Lists[j.exchange]

(* An exchange that counts as connected is really being watched, however   *)
(* its loops are started, stopped by each other's errors, and kept waiting *)
(* over disconnects: polling of all exchanges depends on it                *)
(* (isCcxtWebSocketConnected, watchTradesForSymbols).                      *)
WatchedIsWatched ==
  \A e \in Exchanges : ex[e].watching => Running(e, {"watch"}) # {}

(* The loops of an exchange that is not watched end, and so does polling   *)
(* when nothing is watched (watchTradesForSymbols, startRestPolling).      *)
LoopsEnd ==
  /\ \A e \in Exchanges :
       []<>(ex[e].watching \/ Running(e, {"watch"}) = {})
  /\ []<>(AnyWatched \/ \A e \in Exchanges : Running(e, {"poll"}) = {})
=============================================================================
