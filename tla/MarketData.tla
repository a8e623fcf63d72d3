----------------------------- MODULE MarketData -----------------------------
(***************************************************************************)
(* What an exchange sends and what becomes of it: the messages each of the *)
(* five WebSocket adapters reads, the tickers it takes from them, the      *)
(* price updates it makes of those, and the two inspections that follow,   *)
(* of AdapterDataSource and of ProductionDataManagerService.  Prices asked *)
(* for by REST take the same conversions and none of the inspections.      *)
(* Beside it, the keep-alive of the socket: pings, pongs, the two timers   *)
(* that are to find out that a peer has fallen silent.                     *)
(*                                                                         *)
(* Time: a tick is as long as suits the exchange's intervals; the ages of  *)
(* tickers are in milliseconds.  Prices are in units, confidence and its   *)
(* penalties in thousandths, spreads in hundredths of a percent (of which  *)
(* a confidence loses a thousandth each), volumes as powers of ten.        *)
(*                                                                         *)
(* Reconnection is in ExchangeConnection: here a socket that was closed    *)
(* opens again after one of the delays.                                    *)
(***************************************************************************)
EXTENDS Integers, Sequences, FiniteSetsExt, SequencesExt

CONSTANTS
  Seconds,        \* exchange -> the seconds of a tick
  Delays,         \* ticks after which a closed socket is opened again
  Tickers,        \* the tickers an exchange may send
  Required,       \* the pairs of the feeds
  MaxBatch        \* bound: tickers of one message

Exchanges == {"kraken", "okx", "coinbase", "cryptocom", "binance"}

ASSUME TimeAssumption ==
  /\ Seconds \in [Exchanges -> Nat \ {0}]
  /\ Delays \subseteq Nat \ {0} /\ Delays # {}
ASSUME BatchAssumption == MaxBatch \in Nat

VARIABLES
  exchange,        \* whose adapter this is
  socket,          \* "closed", "open", "closing"
  peer,            \* "talks", or "silent": half-open, nothing arrives
  heard,           \* ticks since the last pong and the last message
  timer,           \* ticks left of the ping, pong and reconnect timers
  subscriptions,   \* the exchange's names of the pairs subscribed to
  out              \* what this event ended in: prices passed on, errors,
                   \* answers to REST

mvars == <<exchange, socket, peer, heard, timer, subscriptions, out>>

-----------------------------------------------------------------------------
(* Names of pairs: sequences of currencies and separators.                 *)

Replaced(name, from, to) ==
  IF Contains(name, from)
    THEN LET i == SelectInSeq(name, LAMBDA c : c = from)
         IN SubSeq(name, 1, i - 1) \o to \o SubSeq(name, i + 1, Len(name))
    ELSE name

OkxName(pair) == Replaced(pair, "/", <<"-">>)
CoinbaseName(pair) == Replaced(pair, "/", <<"-">>)
CryptocomName(pair) == Replaced(pair, "/", <<"_">>)
BinanceName(pair) == Replaced(pair, "/", <<>>)

(* getSymbolMapping: Kraken takes the pair as it is.                       *)
SymbolMapping(pair) ==
  CASE exchange = "kraken" -> pair
    [] exchange = "okx" -> OkxName(pair)
    [] exchange = "coinbase" -> CoinbaseName(pair)
    [] exchange = "cryptocom" -> CryptocomName(pair)
    [] exchange = "binance" -> BinanceName(pair)

Quotes == {"USDT", "USDC", "USD", "EUR", "BTC", "ETH"}

(* config/feeds.json.                                                      *)
ASSUME PairAssumption ==
  \A pair \in Required :
    /\ pair = <<pair[1], "/", pair[3]>>
    /\ pair[1] \notin {"/", "-", "_"} /\ pair[3] \in Quotes

(* A slash before the quote currency the name ends with, if it is known.   *)
AddSlashToSymbol(name) ==
  IF Contains(name, "/") \/ Len(name) < 2 \/ Last(name) \notin Quotes
    THEN name
    ELSE Front(name) \o <<"/", Last(name)>>

Separators == CASE exchange \in {"okx", "coinbase"} -> {"-"}
                [] exchange = "cryptocom" -> {"_"}
                [] OTHER -> {}

StandardizeSymbol(name) ==
  IF \E s \in Separators : Contains(name, s)
    THEN Replaced(name, CHOOSE s \in Separators : TRUE, <<"/">>)
    ELSE AddSlashToSymbol(name)

(* validateSymbol: a pair has exactly one slash.                           *)
ValidSymbol(pair) ==
  /\ SymbolMapping(pair) # <<>>
  /\ Cardinality({i \in DOMAIN pair : pair[i] = "/"}) = 1

-----------------------------------------------------------------------------
(* Tickers.  A field may be missing, or hold text that is no number (or,   *)
(* of the time, no date): at most one field of a ticker is defective.      *)

Fields == {"last", "volume", "book", "time"}

IsTicker(t) ==
  /\ t.missing \subseteq Fields /\ t.garbled \subseteq Fields
  /\ Cardinality(t.missing \cup t.garbled) <= 1
  /\ t.price \in Nat /\ t.volume \in Int /\ t.spread \in Int /\ t.age \in Int
  /\ "book" \in t.missing => t.spread = 0

ASSUME TickerAssumption == \A t \in Tickers : IsTicker(t)

Defective(t) == t.missing \cup t.garbled

(* parseNumber throws.                                                     *)
Unparsable(t, fields) == Defective(t) \cap fields # {}
AllNumbers == {"last", "volume", "book"}

(* calculateConfidence.  A latency below zero, a crossed book, a volume    *)
(* below one: each has the sign its formula gives it.                      *)
MaxLatencyPenalty == 500
MaxSpreadPenalty == 300
MaxVolumeBonus == 200

Lesser(a, b) == IF a < b THEN a ELSE b
Greater(a, b) == IF a > b THEN a ELSE b

(* Mutant: the bonus for the volume has no limit.                          *)
MutantConfidence(latency, volume, spread) ==
  Greater(0, Lesser(1000, 1000 - Lesser(latency, MaxLatencyPenalty)
                               + 100 * volume
                               - Lesser(spread, MaxSpreadPenalty)))

Confidence(latency, volume, spread) ==
  Greater(0, Lesser(1000, 1000 - Lesser(latency, MaxLatencyPenalty)
                               + Lesser(100 * volume, MaxVolumeBonus)
                               - Lesser(spread, MaxSpreadPenalty)))

(* standardizeTimestamp of a number, or of a missing or garbled time.      *)
StandardAge(t) == IF "time" \in Defective(t) THEN 0 ELSE t.age

(* The update made of ticker t with this age, volume and spread.           *)
Update(t, age, latency, volume, spread) ==
  [symbol |-> StandardizeSymbol(SymbolMapping(t.pair)), price |-> t.price,
   age |-> age, spread |-> t.spread,
   confidence |-> Confidence(latency, volume, spread)]

-----------------------------------------------------------------------------
(* validateResponse, normalizePriceData.                                   *)

(* Kraken's tickers have no time: the update is of now, with no latency.   *)
KrakenValid(t) == "last" \notin Defective(t)
KrakenUpdate(t) == Update(t, 0, 0, t.volume, t.spread)

(* OKX sends the milliseconds as a string, which is taken for a date and   *)
(* is none: the time is now.                                               *)
OkxValid(t) == "last" \notin Defective(t) /\ "time" \notin t.missing
OkxUpdate(t) == Update(t, 0, 0, t.volume, t.spread)

(* Coinbase: past ten minutes a ticker is stamped anew; volume and book    *)
(* may be missing.                                                         *)
MaxCoinbaseAge == 600000
CoinbaseUpdate(t) ==
  LET age == IF StandardAge(t) > MaxCoinbaseAge THEN 0 ELSE StandardAge(t)
  IN Update(t, age, age, IF "volume" \in t.missing THEN 0 ELSE t.volume,
            IF "book" \in t.missing THEN 0 ELSE t.spread)

CryptocomValid(t) == "last" \notin Defective(t) /\ "time" \notin t.missing
CryptocomUpdate(t) ==
  Update(t, StandardAge(t), StandardAge(t), t.volume, t.spread)

BinanceValid(t) == "last" \notin Defective(t) /\ "time" \notin t.missing
BinanceUpdate(t) ==
  Update(t, StandardAge(t), StandardAge(t), t.volume, t.spread)

(* isSubscribed: Binance sends every ticker and the adapter picks its own. *)
Wanted(t) == SymbolMapping(t.pair) \in subscriptions

(* Mutant: the all-ticker stream is not filtered.                          *)
MutantBinanceReads(t) == BinanceValid(t)

BinanceReads(t) == BinanceValid(t) /\ Wanted(t)

(* Coinbase's handler does not call validateResponse.                      *)
Reads(t) == CASE exchange = "kraken" -> KrakenValid(t)
              [] exchange = "okx" -> OkxValid(t)
              [] exchange = "coinbase" -> TRUE
              [] exchange = "cryptocom" -> CryptocomValid(t)
              [] exchange = "binance" -> BinanceReads(t)

Throws(t) ==
  IF exchange = "coinbase"
    THEN Unparsable(t, {"last"}) \/ t.garbled \cap AllNumbers # {}
    ELSE Unparsable(t, AllNumbers)

NormalizePriceData(t) ==
  CASE exchange = "kraken" -> KrakenUpdate(t)
    [] exchange = "okx" -> OkxUpdate(t)
    [] exchange = "coinbase" -> CoinbaseUpdate(t)
    [] exchange = "cryptocom" -> CryptocomUpdate(t)
    [] exchange = "binance" -> BinanceUpdate(t)

-----------------------------------------------------------------------------
(* The inspections.                                                        *)

MaxAge == 1800000
MaxAhead == 120000
MinConfidence == 500

(* validatePriceUpdate of AdapterDataSource.                               *)
Plausible(u) == u.price > 0 /\ u.age <= MaxAge /\ u.age >= -MaxAhead

(* validatePriceUpdateQuality of the data manager.                         *)
GoodEnough(u) == u.confidence >= MinConfidence

(* An update that is not plausible is an error of the source, one of low   *)
(* confidence just vanishes.                                               *)
Inspected(updates) ==
  [prices |-> {u \in updates : Plausible(u) /\ GoodEnough(u)},
   errors |-> IF \A u \in updates : Plausible(u) THEN {} ELSE {"validation"},
   fetched |-> {}]

(* The tickers of a message in turn: the first whose conversion throws     *)
(* ends the work on the message.                                           *)
Bad(tickers) == {i \in DOMAIN tickers : Reads(tickers[i]) /\ Throws(tickers[i])}

Reached(tickers) ==
  {tickers[i] : i \in {j \in DOMAIN tickers : /\ Reads(tickers[j])
                                              /\ \A b \in Bad(tickers) : j < b}}

(* Kraken's handler keeps an error to itself if it is about parsing, which *)
(* the error of a field that is missing is and that of garbled text not.   *)
Reported(tickers) ==
  /\ Bad(tickers) # {}
  /\ exchange = "kraken" => tickers[Min(Bad(tickers))].garbled # {}

(* classifyAdapterError, isConnectionError: by the words of the message.   *)
Classified(text) == IF text = "WebSocket error" THEN "connection" ELSE "parsing"

Processed(tickers) ==
  LET seen == Inspected({NormalizePriceData(t) : t \in Reached(tickers)})
  IN [seen EXCEPT !.errors = @ \cup (IF Reported(tickers)
                                       THEN {Classified("Invalid numeric value")}
                                       ELSE {})]

Nothing == [prices |-> {}, errors |-> {}, fetched |-> {}]

-----------------------------------------------------------------------------
(* handleWebSocketMessage.  "other": status, confirmation, anything the    *)
(* adapter has no case for; "error": the exchange reports one, "harmless"  *)
(* where Coinbase found no channels in a subscription.                     *)

Message == [kind : {"pong", "other", "error", "harmless"}, tickers : {<<>>}]
           \cup [kind : {"tickers"}, tickers : BoundedSeq(Tickers, MaxBatch)]

(* A message of Kraken or Coinbase is about one pair; only Binance sends   *)
(* what it was not asked for.                                              *)
Sent(m) ==
  /\ m.kind = "tickers" /\ exchange \in {"kraken", "coinbase"}
       => Len(m.tickers) = 1
  /\ exchange # "binance" => \A t \in Range(m.tickers) : t.pair \in Required

KrakenHandles(m) == Processed(m.tickers)

OkxHandles(m) == Processed(m.tickers)

(* The text of the error that is made of Coinbase's.                       *)
CoinbaseHandles(m) ==
  IF m.kind = "error" THEN [Nothing EXCEPT !.errors = {Classified("WebSocket error")}]
                      ELSE Processed(m.tickers)

(* Only the first ticker of the data is read.                              *)
CryptocomHandles(m) ==
  Processed([i \in {1} \cap DOMAIN m.tickers |-> m.tickers[i]])

BinanceHandles(m) == Processed(m.tickers)

Handled(m) == CASE exchange = "kraken" -> KrakenHandles(m)
                [] exchange = "okx" -> OkxHandles(m)
                [] exchange = "coinbase" -> CoinbaseHandles(m)
                [] exchange = "cryptocom" -> CryptocomHandles(m)
                [] exchange = "binance" -> BinanceHandles(m)

(* Binance's adapter has no case for a pong.                               *)
IsPong(m) == m.kind = "pong" /\ exchange # "binance"

-----------------------------------------------------------------------------
(* The keep-alive.  Timers: Off, or the ticks left, due at 0.  Ages stop   *)
(* at Long, which is longer than any limit; Never is of a pong only.       *)

(* pingInterval and pongTimeout of doConnect, in seconds; 0: none.         *)
KrakenPings == [interval |-> 20, timeout |-> 30]
OkxPings == [interval |-> 20, timeout |-> 40]
CoinbasePings == [interval |-> 25, timeout |-> 20]
StandardPings == [interval |-> 45, timeout |-> 60]
BinancePings == [interval |-> 0, timeout |-> 0]

Pings == CASE exchange = "kraken" -> KrakenPings
           [] exchange = "okx" -> OkxPings
           [] exchange = "coinbase" -> CoinbasePings
           [] exchange = "cryptocom" -> StandardPings
           [] exchange = "binance" -> BinancePings

Interval == Pings.interval \div Seconds[exchange]
Timeout == Pings.timeout \div Seconds[exchange]

Off == -1
Never == -1
Long == 2 * (Timeout + 1)

(* One and a half times the timeout, rounded up.                           *)
PongTimer == IF Timeout = 0 THEN Off
                            ELSE (3 * Timeout + 1) \div 2

MarketInit ==
  /\ exchange \in Exchanges
  /\ socket = "closed" /\ peer = "talks"
  /\ heard = [pong |-> Never, message |-> Long]
  /\ timer = [ping |-> Off, pong |-> Off, reopen |-> 0]
  /\ subscriptions = {}
  /\ out = Nothing

(* Mutant: silence counts as a sign of life.                               *)
MutantOverdue ==
  /\ Timeout > 0 /\ heard.pong # Never
  /\ 2 * heard.pong > 3 * Timeout
  /\ heard.message < Timeout

(* No pong for half as long again as the timeout, and no message.  The     *)
(* times are those of the adapter, not of the socket: a socket that opens  *)
(* after a long silence is measured by what the last one heard.            *)
Overdue ==
  /\ Timeout > 0 /\ heard.pong # Never
  /\ 2 * heard.pong > 3 * Timeout
  /\ heard.message > Timeout

(* schedulePing on an open socket: it is closed, and no ping scheduled any *)
(* more, or a ping is sent and the pong timer set anew.                    *)
SchedulePing ==
  /\ socket' = IF Overdue THEN "closing" ELSE "open"
  /\ timer' = IF Overdue
                THEN [timer EXCEPT !.ping = Off, !.reopen = Off]
                ELSE [ping |-> Interval, pong |-> PongTimer,
                      reopen |-> Off]

(* The "open" event of a new socket.                                       *)
Opens ==
  /\ socket = "closed" /\ timer.reopen = 0
  /\ peer' \in {"talks", "silent"}
  /\ IF Interval > 0
       THEN SchedulePing
       ELSE socket' = "open" /\ timer' = [timer EXCEPT !.reopen = Off]
  /\ out' = Nothing
  /\ UNCHANGED <<exchange, heard, subscriptions>>

PingTimerFires ==
  /\ timer.ping = 0
  /\ IF socket = "open"
       THEN SchedulePing
       ELSE timer' = [timer EXCEPT !.ping = Interval]
            /\ UNCHANGED socket
  /\ out' = Nothing
  /\ UNCHANGED <<exchange, peer, heard, subscriptions>>

(* setupPongTimeout: a message within 1.2 times the timeout keeps the      *)
(* socket.  Each ping sets the timer back, and the pings of all exchanges  *)
(* come faster than it: it is due on sockets only that are not open.       *)
PongTimerFires ==
  /\ timer.pong = 0
  /\ timer' = [timer EXCEPT !.pong = Off]
  /\ socket' = IF socket = "open"
                  /\ 10 * heard.message >= 12 * Timeout
                 THEN "closing" ELSE socket
  /\ out' = Nothing
  /\ UNCHANGED <<exchange, peer, heard, subscriptions>>

(* onPongReceived.                                                         *)
PongReceived == /\ heard' = [pong |-> 0, message |-> 0]
                /\ timer' = [timer EXCEPT !.pong = Off]

(* The "message" event; it is raised until the socket has closed.          *)
MessageArrives ==
  /\ socket \in {"open", "closing"} /\ peer = "talks"
  /\ \E m \in Message :
       /\ Sent(m)
       /\ IF IsPong(m) THEN PongReceived
          ELSE heard' = [heard EXCEPT !.message = 0] /\ UNCHANGED timer
       /\ out' = Handled(m)
  /\ UNCHANGED <<exchange, socket, peer, subscriptions>>

(* The "close" event: of the peer, or of a socket that was being closed,   *)
(* which waits no longer than half a minute for the peer.                  *)
Closes ==
  /\ socket = "closing" \/ (socket = "open" /\ peer = "talks")
  /\ socket' = "closed"
  /\ \E d \in Delays : timer' = [timer EXCEPT !.reopen = d]
  /\ out' = Nothing
  /\ UNCHANGED <<exchange, peer, heard, subscriptions>>

FallsSilent ==
  /\ socket = "open" /\ peer = "talks"
  /\ peer' = "silent"
  /\ out' = Nothing
  /\ UNCHANGED <<exchange, socket, heard, timer, subscriptions>>

Tick ==
  /\ 0 \notin {timer.ping, timer.pong, timer.reopen}
  /\ timer' = [t \in DOMAIN timer |-> IF timer[t] = Off THEN Off
                                                        ELSE timer[t] - 1]
  /\ heard' = [h \in DOMAIN heard |-> IF heard[h] = Never THEN Never
                                      ELSE Lesser(heard[h] + 1, Long)]
  /\ out' = Nothing
  /\ UNCHANGED <<exchange, socket, peer, subscriptions>>

-----------------------------------------------------------------------------
(* trackSubscriptions, untrackSubscriptions.                               *)
Subscribes(pair) ==
  /\ ValidSymbol(pair) /\ SymbolMapping(pair) \notin subscriptions
  /\ subscriptions' = subscriptions \cup {SymbolMapping(pair)}
  /\ out' = Nothing
  /\ UNCHANGED <<exchange, socket, peer, heard, timer>>

Unsubscribes(pair) ==
  /\ SymbolMapping(pair) \in subscriptions
  /\ subscriptions' = subscriptions \ {SymbolMapping(pair)}
  /\ out' = Nothing
  /\ UNCHANGED <<exchange, socket, peer, heard, timer>>

-----------------------------------------------------------------------------
(* REST: fetchRestApi, fetchTickerREST, and getPriceUpdatesForFeed for one *)
(* exchange.  What is answered to the attempts: "limited" (429), "failed"  *)
(* (any other status, no connection), "refused" (the body tells of an      *)
(* error), "empty" (no data in it), "ticker".                              *)

MaxLimited == 2
Bodies == {"failed", "refused", "empty", "ticker"}

(* limited attempts were answered with 429; after the third the request is *)
(* given up.                                                               *)
FetchRestApi(limited, body) == IF limited > MaxLimited THEN "failed" ELSE body

(* The time is now; with Kraken's error list, or no result, it throws.     *)
KrakenRest(t) == Update(t, 0, 0, t.volume, t.spread)

(* Here the milliseconds are parsed as what they are.                      *)
OkxRest(t) == Update(t, t.age, 0, t.volume, t.spread)

(* No ten minutes' rule, and no book.                                      *)
CoinbaseRest(t) ==
  Update(t, StandardAge(t), 0, IF "volume" \in t.missing THEN 0 ELSE t.volume, 0)

CryptocomRest(t) == CryptocomUpdate(t)

(* The close of the day's window; it is taken as it comes.                 *)
BinanceRest(t) == Update(t, t.age, 0, t.volume, t.spread)

(* Coinbase and Binance do not look for an error in the body: it lacks the *)
(* fields and does not parse.  Bound: a time the body lacks (a timestamp   *)
(* that is no number) is left out.                                         *)
FetchTickerREST(answer, t) ==
  IF answer # "ticker" \/ Throws(t)
    THEN {}
    ELSE {CASE exchange = "kraken" -> KrakenRest(t)
            [] exchange = "okx" -> OkxRest(t)
            [] exchange = "coinbase" -> CoinbaseRest(t)
            [] exchange = "cryptocom" -> CryptocomRest(t)
            [] exchange = "binance" -> BinanceRest(t)}

(* The exchange's part in a REST round for a feed: what it throws is       *)
(* caught, what it answers is taken as it is.                              *)
FetchesTicker ==
  \E t \in Tickers,
     answer \in {FetchRestApi(limited, body) :
                   limited \in 0 .. MaxLimited + 1, body \in Bodies} :
    /\ t.pair \in Required /\ "time" \notin Defective(t)
    /\ out' = [Nothing EXCEPT !.fetched = FetchTickerREST(answer, t)]
  /\ UNCHANGED <<exchange, socket, peer, heard, timer, subscriptions>>

-----------------------------------------------------------------------------
MarketNext ==
  \/ Opens
  \/ PingTimerFires
  \/ PongTimerFires
  \/ MessageArrives
  \/ Closes
  \/ FallsSilent
  \/ Tick
  \/ \E pair \in Required : Subscribes(pair)
  \/ \E pair \in Required : Unsubscribes(pair)
  \/ FetchesTicker

(* Time goes on, and timers that are due fire.                             *)
MarketFairness == WF_mvars(Tick) /\ WF_mvars(PingTimerFires) /\ WF_mvars(PongTimerFires)

MarketSpec == MarketInit /\ [][MarketNext]_mvars /\ MarketFairness

-----------------------------------------------------------------------------
(* Properties.                                                             *)

Priced == [symbol : Required, price : Nat, age : Int, spread : Int,
           confidence : 0 .. 1000]

(* Everything stays within its type.                                       *)
MarketTypeOK ==
  /\ exchange \in Exchanges
  /\ socket \in {"closed", "open", "closing"} /\ peer \in {"talks", "silent"}
  /\ heard \in [pong : {Never} \cup 0 .. Long, message : 0 .. Long]
  /\ subscriptions \subseteq {SymbolMapping(pair) : pair \in Required}
  /\ out.prices \cup out.fetched \subseteq Priced
  /\ out.errors \subseteq {"validation", "parsing", "connection"}

(* A streamed price that is half a second late or more, and not stamped    *)
(* anew, gets to the consumers only with a book whose spread is at most    *)
(* 2 % of the price: what the volume may add to the confidence never makes *)
(* up for a wider one (calculateConfidence against the data manager's      *)
(* threshold).                                                             *)
LatePricesAreTight ==
  \A u \in out.prices : u.age >= 500 => u.spread <= 200

(* Every price carries the pair of a feed, as the feeds spell it, and of   *)
(* Binance's stream of everything none gets through that is not subscribed *)
(* to: the exchange's names, the tracked subscriptions, the filter and the *)
(* way back agree.                                                         *)
PricesAreAskedFor ==
  /\ \A u \in out.prices \cup out.fetched : u.symbol \in Required
  /\ exchange = "binance" =>
       \A u \in out.prices : SymbolMapping(u.symbol) \in subscriptions

(* A socket whose peer falls silent is closed, so that another is opened,  *)
(* if the exchange was ever heard to answer a ping.  Without that (Binance *)
(* is not pinged at all) nothing closes it: see Overdue, PongTimerFires.   *)
SilentSocketsClose ==
  (socket = "open" /\ peer = "silent" /\ heard.pong # Never)
    ~> (socket # "open")
=============================================================================
