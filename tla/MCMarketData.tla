---------------------------- MODULE MCMarketData ----------------------------
EXTENDS MarketData

(* Every interval and timeout is a whole number of ticks.                 *)
MCSeconds == [e \in Exchanges |->
  CASE e = "kraken" -> 10 [] e = "okx" -> 20 [] e = "coinbase" -> 5
    [] e = "cryptocom" -> 15 [] e = "binance" -> 5]
MCDelays == {2}

BTC == <<"BTC", "/", "USDT">>
(* Binance's name of it ends with a quote currency that is none of its own. *)
BUSD == <<"ADA", "/", "B", "USD">>
MCRequired == {BTC}

Good == [pair |-> BTC, price |-> 1, volume |-> 1, spread |-> 10, age |-> 0,
         missing |-> {}, garbled |-> {}]

MCTickers ==
  {Good, [Good EXCEPT !.pair = BUSD], [Good EXCEPT !.price = 0],
   [Good EXCEPT !.volume = -3, !.spread = -40],
   [Good EXCEPT !.age = -200000], [Good EXCEPT !.age = 2000000],
   [Good EXCEPT !.age = 600, !.spread = 200, !.volume = 6],
   [Good EXCEPT !.age = 600, !.spread = 250, !.volume = 6],
   [Good EXCEPT !.age = 700000, !.spread = 250]}
  \cup {[Good EXCEPT !.missing = {f}, !.spread = IF f = "book" THEN 0 ELSE 10] :
          f \in Fields}
  \cup {[Good EXCEPT !.garbled = {"volume"}]}
=============================================================================
