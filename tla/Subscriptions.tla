---------------------------- MODULE Subscriptions ----------------------------
(***************************************************************************)
(* How the five WebSocket adapters tell an exchange what they want to      *)
(* hear: subscribe and unsubscribe of the base adapter, the messages of    *)
(* each exchange, and the socket they go to, which may be lost and         *)
(* replaced while a subscription waits between two of its messages.        *)
(*                                                                         *)
(* Who reconnects and when is in ExchangeConnection: here a socket opens   *)
(* and closes at any time.  The names of pairs are in MarketData: here all *)
(* are valid, and in which order a call takes its pairs is free.           *)
(***************************************************************************)
EXTENDS Naturals, FiniteSets

CONSTANTS
  Pairs,
  Calls,        \* calls of subscribe that may be in progress at once
  BatchSize     \* pairs of one message of Kraken's

ASSUME PairAssumption == IsFiniteSet(Pairs)
ASSUME BatchSizeAssumption == BatchSize \in Nat \ {0}

VARIABLES
  adapter,   \* [exchange, connected]
  socket,    \* [open, asked: what it was asked for, whole: see Opens]
  tracked,   \* subscriptions
  job        \* [Calls -> the subscription in progress]

svars == <<adapter, socket, tracked, job>>

-----------------------------------------------------------------------------
Adapters == {"kraken", "okx", "coinbase", "cryptocom", "binance"}

(* new: what the call will track; rest: what it has yet to ask for, after  *)
(* a pause.                                                                *)
NoJob == [paused |-> FALSE, new |-> {}, rest |-> {}]

Resting == \A c \in Calls : job[c] = NoJob

SubscriptionsInit ==
  /\ adapter \in [exchange : Adapters, connected : {FALSE}]
  /\ socket = [open |-> FALSE, asked |-> {}, whole |-> FALSE]
  /\ tracked = {}
  /\ job = [c \in Calls |-> NoJob]

(* sendWebSocketMessage: nobody looks at whether it was sent.              *)
Ask(pairs) ==
  socket' = IF socket.open THEN [socket EXCEPT !.asked = @ \cup pairs]
                           ELSE socket

(* trackSubscriptions, at the end of a subscription.                       *)
Track(c, new) ==
  /\ tracked' = tracked \cup new
  /\ job' = [job EXCEPT ![c] = NoJob]

Pause(c, new, rest) ==
  /\ job' = [job EXCEPT ![c] = [paused |-> TRUE, new |-> new, rest |-> rest]]
  /\ UNCHANGED tracked

-----------------------------------------------------------------------------
(* doSubscribe.                                                            *)

Lesser(a, b) == IF a < b THEN a ELSE b

(* Mutant: the last batch must be a full one.                              *)
MutantKrakenSubscribes(c, new, rest) ==
  \E batch \in SUBSET rest :
    /\ Cardinality(batch) = Lesser(BatchSize, Cardinality(rest))
    /\ Ask(batch)
    /\ IF Cardinality(rest \ batch) < BatchSize
         THEN Track(c, new)
         ELSE Pause(c, new, rest \ batch)

(* A batch, and two seconds before the next; a message that could not be   *)
(* sent throws nothing, so that the pause after an error is never made.    *)
KrakenSubscribes(c, new, rest) ==
  \E batch \in SUBSET rest :
    /\ Cardinality(batch) = Lesser(BatchSize, Cardinality(rest))
    /\ Ask(batch)
    /\ IF rest = batch
         THEN Track(c, new)
         ELSE Pause(c, new, rest \ batch)

OkxSubscribes(c, new) == Ask(new) /\ Track(c, new)

(* Without an open socket nothing is asked for and no error is raised;     *)
(* with one, 100 ms go by before the message, which is not tried again.    *)
CoinbaseSubscribes(c, new, rest) ==
  IF socket.open /\ ~job[c].paused
    THEN Pause(c, new, rest) /\ UNCHANGED socket
    ELSE /\ IF job[c].paused THEN Ask(rest) ELSE UNCHANGED socket
         /\ Track(c, new)

CryptocomSubscribes(c, new) == Ask(new) /\ Track(c, new)

(* Binance sends every ticker: there is nothing to ask for.                *)
BinanceSubscribes(c, new) == Track(c, new) /\ UNCHANGED socket

DoSubscribe(c, new, rest) ==
  CASE adapter.exchange = "kraken" -> KrakenSubscribes(c, new, rest)
    [] adapter.exchange = "okx" -> OkxSubscribes(c, new)
    [] adapter.exchange = "coinbase" -> CoinbaseSubscribes(c, new, rest)
    [] adapter.exchange = "cryptocom" -> CryptocomSubscribes(c, new)
    [] adapter.exchange = "binance" -> BinanceSubscribes(c, new)

(* subscribe: what is tracked already is left out.                         *)
Subscribe(c, pairs) ==
  /\ job[c] = NoJob
  /\ adapter.connected
  /\ pairs \ tracked # {}
  /\ DoSubscribe(c, pairs \ tracked, pairs \ tracked)
  /\ UNCHANGED adapter

(* It goes on with whatever socket there is by then.                       *)
PauseEnds(c) ==
  /\ job[c].paused
  /\ DoSubscribe(c, job[c].new, job[c].rest)
  /\ UNCHANGED adapter

(* doUnsubscribe: one message, of every exchange but Binance, and nobody   *)
(* looks at whether it was sent.                                           *)
Withdraw(pairs) ==
  IF socket.open THEN [socket EXCEPT !.asked = @ \ pairs] ELSE socket

KrakenUnsubscribes(pairs) == Withdraw(pairs)
OkxUnsubscribes(pairs) == Withdraw(pairs)
CoinbaseUnsubscribes(pairs) == Withdraw(pairs)
CryptocomUnsubscribes(pairs) == Withdraw(pairs)
BinanceUnsubscribes(pairs) == socket

DoUnsubscribe(pairs) ==
  CASE adapter.exchange = "kraken" -> KrakenUnsubscribes(pairs)
    [] adapter.exchange = "okx" -> OkxUnsubscribes(pairs)
    [] adapter.exchange = "coinbase" -> CoinbaseUnsubscribes(pairs)
    [] adapter.exchange = "cryptocom" -> CryptocomUnsubscribes(pairs)
    [] adapter.exchange = "binance" -> BinanceUnsubscribes(pairs)

(* untrackSubscriptions.                                                   *)
PairsStillTracked(pairs) == tracked \ pairs

(* unsubscribe: of pairs that a call in progress has yet to track nothing  *)
(* is known.                                                               *)
Unsubscribe(pairs) ==
  /\ adapter.connected
  /\ pairs \cap tracked # {}
  /\ socket' = [DoUnsubscribe(pairs \cap tracked) EXCEPT
                  !.whole = @ /\ Resting]
  /\ tracked' = PairsStillTracked(pairs)
  /\ UNCHANGED <<adapter, job>>

-----------------------------------------------------------------------------
(* The socket.  whole: it has heard of all there is to track, as it was    *)
(* opened when nothing was tracked and no call in progress, and as no pair *)
(* was given back while a call was.                                        *)

Opens ==
  /\ ~socket.open
  /\ socket' = [open |-> TRUE, asked |-> {}, whole |-> tracked = {} /\ Resting]
  /\ adapter' \in {adapter, [adapter EXCEPT !.connected = TRUE]}
  /\ UNCHANGED <<tracked, job>>

Gone == [open |-> FALSE, asked |-> {}, whole |-> FALSE]

(* handleWebSocketClose: Kraken, OKX and Crypto.com answer that they have  *)
(* seen to it, which leaves the adapter's flag as it is, until it is told  *)
(* to disconnect.                                                          *)
KrakenCloses == adapter
OkxCloses == adapter
CryptocomCloses == adapter
AnyCloses == [adapter EXCEPT !.connected = FALSE]

(* The subscriptions stay tracked.                                         *)
Closes ==
  /\ socket.open
  /\ socket' = Gone
  /\ adapter' = CASE adapter.exchange = "kraken" -> KrakenCloses
                  [] adapter.exchange = "okx" -> OkxCloses
                  [] adapter.exchange = "cryptocom" -> CryptocomCloses
                  [] OTHER -> AnyCloses
  /\ UNCHANGED <<tracked, job>>

(* disconnect clears the subscriptions; the calls in progress go on.       *)
Disconnect ==
  /\ adapter.connected
  /\ adapter' = [adapter EXCEPT !.connected = FALSE]
  /\ socket' = Gone
  /\ tracked' = {}
  /\ UNCHANGED job

-----------------------------------------------------------------------------
SubscriptionsNext ==
  \/ \E c \in Calls, pairs \in SUBSET Pairs : Subscribe(c, pairs)
  \/ \E c \in Calls : PauseEnds(c)
  \/ \E pairs \in SUBSET Pairs : Unsubscribe(pairs)
  \/ Opens
  \/ Closes
  \/ Disconnect

SubscriptionsSpec == SubscriptionsInit /\ [][SubscriptionsNext]_svars

-----------------------------------------------------------------------------
(* What an adapter tracks its socket streams, and nothing besides once the *)
(* calls are over: however many calls overlap, whatever they have in       *)
(* common and however Kraken's batches interleave, on a socket that was    *)
(* there from the start.  It is as far as it goes: a subscription that     *)
(* loses its socket in a pause leaves pairs tracked that were never asked  *)
(* for (subscribe, doSubscribe, unsubscribe).                              *)
TrackedIsStreamed ==
  socket.whole /\ adapter.exchange # "binance"
    => /\ tracked \subseteq socket.asked
       /\ Resting => tracked = socket.asked
=============================================================================
