------------------------- MODULE ExchangeConnection -------------------------
(***************************************************************************)
(* The connection of one exchange: the adapter (BaseExchangeAdapter) with  *)
(* its WebSockets, reconnect timer and tracked subscriptions, the          *)
(* orchestrator that connects it and subscribes symbols, and the others    *)
(* that call its connect: data manager, connection recovery, REST fetches. *)
(*                                                                         *)
(* Socket events and timers are tasks of the event loop.  What follows the *)
(* end of a connect within the same task (promises, callbacks) is made of  *)
(* actions that go before every other task (Settled); only further calls   *)
(* of connect, made by the callbacks, come between.  A socket that another *)
(* has replaced in the adapter's ws field lives on, and its handlers act   *)
(* on the adapter.                                                         *)
(*                                                                         *)
(* Message contents, ping timers, delays and health scores are left out.   *)
(***************************************************************************)
EXTENDS Naturals

CONSTANTS
  Sockets,          \* as many sockets as may be alive at once
  Symbols,          \* the symbols required of the exchange
  Orchestrator,     \* the caller that subscribes once it has connected
  Connectors,       \* callers of connect that leave it at that
  Subscriber,       \* the caller of subscribe for a single feed
  NoSocket,         \* ws is undefined
  MaxRetries,       \* maxRetries of connect
  MaxAttempts       \* maxReconnectAttempts

ASSUME SocketAssumption == NoSocket \notin Sockets
ASSUME CallerAssumption == /\ Orchestrator \notin Connectors
                           /\ Subscriber \notin Connectors \cup {Orchestrator}
ASSUME LimitAssumption == MaxRetries \in Nat /\ MaxAttempts \in Nat \ {0}

Callers == Connectors \cup {Orchestrator, Subscriber}

VARIABLES
  socket,        \* [Sockets -> [state, carries: the symbols it was asked for]]
  ws,            \* the socket the adapter knows of
  adapter,       \* the fields of the adapter
  call,          \* [Callers -> the call of connect or subscribe in progress]
  orchestrator   \* its belief in the connection; started, gone

vars == <<socket, ws, adapter, call, orchestrator>>

-----------------------------------------------------------------------------
(* "aborting": terminated before it was open; it fails with the next event *)
(* of its own.  "closing": the close event is still to come.               *)
Socket == [state : {"closed", "connecting", "aborting", "open", "closing"},
           carries : SUBSET Symbols]

(* quiet: of the adapters whose close handler returns before the base      *)
(* handler (kraken, okx, cryptocom); they also send a subscription at      *)
(* once, where coinbase waits 100 ms.                                      *)
Adapter == [connected : BOOLEAN, subscriptions : SUBSET Symbols,
            timer : BOOLEAN, attempts : 0 .. MaxAttempts,
            shuttingDown : BOOLEAN, quiet : BOOLEAN]

(* waiting for socket; resolved or rejected, to be continued; settling     *)
(* before the first subscription; subscribe, about to; sending, after it   *)
(* has looked at the socket.                                               *)
Call == [pc : {"idle", "waiting", "resolved", "rejected", "settling",
               "subscribe", "sending"},
         socket : Sockets \cup {NoSocket}, tries : 0 .. MaxRetries,
         symbols : SUBSET Symbols]

Idle == [pc |-> "idle", socket |-> NoSocket, tries |-> 0, symbols |-> {}]

Alive(s) == socket[s].state # "closed"
IsOpen == ws # NoSocket /\ socket[ws].state = "open"

(* Every promise that was settled has been acted upon.                     *)
Settled ==
  \A c \in Callers : call[c].pc \notin {"resolved", "rejected", "subscribe"}

(* initializeExchangeStates: nothing connected yet, all symbols required.  *)
NewExchange == [connected |-> FALSE, started |-> FALSE, gone |-> FALSE]

Init ==
  /\ socket = [s \in Sockets |-> [state |-> "closed", carries |-> {}]]
  /\ ws = NoSocket
  /\ \E quiet \in BOOLEAN :
       adapter = [connected |-> FALSE, subscriptions |-> {}, timer |-> FALSE,
                  attempts |-> 0, shuttingDown |-> FALSE, quiet |-> quiet]
  /\ call = [c \in Callers |-> Idle]
  /\ orchestrator = NewExchange

-----------------------------------------------------------------------------
(* connect, connectWebSocket.                                              *)

(* new WebSocket: a slot that is free.                                     *)
Opening(s) ==
  /\ ~Alive(s)
  /\ socket' = [socket EXCEPT ![s] = [state |-> "connecting", carries |-> {}]]
  /\ ws' = s

(* An open socket is used as it is; one that is still connecting is not    *)
(* waited for but replaced.                                                *)
ConnectWebSocket(c, tries) ==
  \/ /\ IsOpen
     /\ call' = [call EXCEPT ![c] = [Idle EXCEPT !.pc = "resolved"]]
     /\ UNCHANGED <<socket, ws>>
  \/ /\ ~IsOpen
     /\ \E s \in Sockets :
          /\ Opening(s)
          /\ call' = [call EXCEPT
                        ![c] = [Idle EXCEPT !.pc = "waiting",
                                            !.socket = s, !.tries = tries]]

(* Bound: a slot is left for the retry of a call that was rejected.        *)
SlotLeft ==
  (\E c \in Callers : call[c].pc = "rejected")
    => \E s, t \in Sockets : s # t /\ ~Alive(s) /\ ~Alive(t)

(* connect returns at once if the adapter is connected: only the           *)
(* orchestrator's start goes on from there.                                *)
Connect(c) ==
  /\ c # Subscriber
  /\ call[c] = Idle
  /\ SlotLeft
  /\ c = Orchestrator => ~orchestrator.gone
  /\ \/ /\ ~adapter.connected
        /\ ConnectWebSocket(c, 0)
        /\ UNCHANGED orchestrator
     \/ /\ adapter.connected
        /\ c = Orchestrator /\ ~orchestrator.started
        /\ call' = [call EXCEPT ![c].pc = "settling"]
        /\ orchestrator' = [orchestrator EXCEPT !.connected = TRUE]
        /\ UNCHANGED <<socket, ws>>
  /\ UNCHANGED adapter

(* resubscribeExchange: to all required symbols.                           *)
Subscribing == [Idle EXCEPT !.pc = "subscribe", !.symbols = Symbols]

(* initializeConnectionsAsync: the first time all exchanges are given time *)
(* to connect, and a second more, before the symbols are subscribed.       *)
AfterConnecting ==
  IF orchestrator.started THEN Subscribing ELSE [Idle EXCEPT !.pc = "settling"]

(* The promise was resolved: the socket is open, or the adapter does       *)
(* without ("REST-only mode").                                             *)
ConnectSucceeds(c) ==
  /\ call[c].pc = "resolved"
  /\ adapter' = [adapter EXCEPT !.connected = TRUE]
  /\ \/ /\ c # Orchestrator \/ orchestrator.gone
        /\ call' = [call EXCEPT ![c] = Idle]
        /\ UNCHANGED orchestrator
     \/ /\ c = Orchestrator /\ ~orchestrator.gone
        /\ call' = [call EXCEPT
                      ![c] = AfterConnecting]
        /\ orchestrator' = [orchestrator EXCEPT !.connected = TRUE]
  /\ UNCHANGED <<socket, ws>>

(* The promise was rejected: the next try follows at once, since           *)
(* waitForCondition finds its condition met; after the last connect gives  *)
(* up without an error.                                                    *)
ConnectFails(c) ==
  /\ call[c].pc = "rejected"
  /\ \/ /\ call[c].tries < MaxRetries
        /\ ConnectWebSocket(c, call[c].tries + 1)
        /\ UNCHANGED <<adapter, orchestrator>>
     \/ /\ call[c].tries = MaxRetries
        /\ call' = [call EXCEPT ![c] = Idle]
        /\ adapter' = [adapter EXCEPT !.connected = FALSE]
        /\ orchestrator' = IF c = Orchestrator
                           THEN [orchestrator EXCEPT !.connected = FALSE,
                                                     !.started = TRUE]
                           ELSE orchestrator
        /\ UNCHANGED <<socket, ws>>

-----------------------------------------------------------------------------
(* subscribe.                                                              *)

(* subscribeToRequiredSymbols, a second after the start.                   *)
StartSubscribing ==
  /\ Settled
  /\ call[Orchestrator].pc = "settling"
  /\ call' = [call EXCEPT ![Orchestrator] = Subscribing]
  /\ UNCHANGED <<socket, ws, adapter, orchestrator>>

(* subscribeToFeed, or a failover that makes the exchange a source.        *)
SubscribeToFeed(symbol) ==
  /\ Settled
  /\ adapter.connected
  /\ call[Subscriber] = Idle
  /\ call' = [call EXCEPT ![Subscriber] = [Idle EXCEPT !.pc = "subscribe",
                                                       !.symbols = {symbol}]]
  /\ UNCHANGED <<socket, ws, adapter, orchestrator>>

(* The message is sent if there is an open socket, and the symbols are     *)
(* tracked in any case.                                                    *)
Sent(symbols) ==
  /\ socket' = IF IsOpen
               THEN [socket EXCEPT ![ws].carries = @ \cup symbols]
               ELSE socket
  /\ adapter' = [adapter EXCEPT !.subscriptions = @ \cup symbols]

(* Symbols that are tracked are left out; an adapter that is not connected *)
(* throws, which the callers log.                                          *)
Subscribe(c) ==
  LET new == call[c].symbols \ adapter.subscriptions
  IN  /\ call[c].pc = "subscribe"
      /\ \/ /\ adapter.connected /\ ~(c = Orchestrator /\ orchestrator.gone)
            /\ \/ /\ new # {} /\ IsOpen /\ ~adapter.quiet
                  /\ call' = [call EXCEPT ![c].pc = "sending",
                                          ![c].symbols = new]
                  /\ UNCHANGED <<socket, adapter>>
               \/ /\ new = {} \/ ~IsOpen \/ adapter.quiet
                  /\ call' = [call EXCEPT ![c] = Idle]
                  /\ Sent(new)
         \/ /\ ~adapter.connected \/ (c = Orchestrator /\ orchestrator.gone)
            /\ call' = [call EXCEPT ![c] = Idle]
            /\ UNCHANGED <<socket, adapter>>
      /\ orchestrator' = [orchestrator EXCEPT !.started = @ \/ c = Orchestrator]
      /\ UNCHANGED ws

(* The 100 ms of coinbase are over.                                        *)
SendingEnds(c) ==
  /\ Settled
  /\ call[c].pc = "sending"
  /\ call' = [call EXCEPT ![c] = Idle]
  /\ Sent(call[c].symbols)
  /\ UNCHANGED <<ws, orchestrator>>

(* A failover gives the exchange back.                                     *)
Unsubscribe(symbol) ==
  /\ Settled
  /\ adapter.connected /\ symbol \in adapter.subscriptions
  /\ socket' = IF IsOpen
               THEN [socket EXCEPT ![ws].carries = @ \ {symbol}]
               ELSE socket
  /\ adapter' = [adapter EXCEPT !.subscriptions = @ \ {symbol}]
  /\ UNCHANGED <<ws, call, orchestrator>>

-----------------------------------------------------------------------------
(* Events of the sockets.                                                  *)

(* Mutant: reconnects only if the adapter was still connected.             *)
MutantAfterClose(a) ==
  LET b == IF a.quiet /\ ~a.shuttingDown THEN a
           ELSE [a EXCEPT !.connected = FALSE]
  IN  IF a.attempts < MaxAttempts /\ ~a.shuttingDown /\ a.connected
      THEN [b EXCEPT !.timer = TRUE, !.attempts = @ + 1]
      ELSE b

(* Mutant: the flag of the shutdown is forgotten.                          *)
MutantAfterCloseAlways(a) ==
  LET b == IF a.quiet /\ ~a.shuttingDown THEN a
           ELSE [a EXCEPT !.connected = FALSE]
  IN  IF a.attempts < MaxAttempts
      THEN [b EXCEPT !.timer = TRUE, !.attempts = @ + 1]
      ELSE b

(* The adapter a after the close event of a socket, whichever it is.       *)
AfterClose(a) ==
  LET b == IF a.quiet /\ ~a.shuttingDown THEN a
           ELSE [a EXCEPT !.connected = FALSE]
  IN  IF a.attempts < MaxAttempts /\ ~a.shuttingDown
      THEN [b EXCEPT !.timer = TRUE, !.attempts = @ + 1]
      ELSE b

(* The promise of the call that waits for s, if there is one, is settled.  *)
Settle(s, outcome) ==
  call' = [c \in Callers |->
             IF call[c].pc = "waiting" /\ call[c].socket = s
             THEN [call[c] EXCEPT !.pc = outcome, !.socket = NoSocket]
             ELSE call[c]]

Opened(s) ==
  /\ Settled
  /\ socket[s].state = "connecting"
  /\ socket' = [socket EXCEPT ![s].state = "open"]
  /\ adapter' = [adapter EXCEPT !.attempts = 0]
  /\ Settle(s, "resolved")
  /\ UNCHANGED <<ws, orchestrator>>

(* An error event and at once the close event.  Errors that count as       *)
(* recoverable, and all during shutdown, resolve the promise.  Kraken      *)
(* takes some of the others for the loss of the connection.                *)
HandshakeFails(s) ==
  /\ Settled
  /\ socket[s].state \in {"connecting", "aborting"}
  /\ socket' = [socket EXCEPT ![s].state = "closed"]
  /\ \E outcome \in {"resolved", "rejected"}, lost \in BOOLEAN :
       /\ socket[s].state = "aborting" \/ adapter.shuttingDown
            => outcome = "resolved"
       /\ lost => adapter.quiet /\ outcome = "rejected"
       /\ Settle(s, outcome)
       /\ adapter' = AfterClose([adapter EXCEPT !.connected = @ /\ ~lost])
  /\ UNCHANGED <<ws, orchestrator>>

(* The close event of s.                                                   *)
Closed(s) ==
  /\ socket' = [socket EXCEPT ![s] = [state |-> "closed", carries |-> {}]]
  /\ adapter' = AfterClose(adapter)
  /\ UNCHANGED <<ws, call, orchestrator>>

(* The exchange or the network closes an open socket.                      *)
ClosedRemotely(s) == Settled /\ socket[s].state = "open" /\ Closed(s)

ClosingEnds(s) == Settled /\ socket[s].state = "closing" /\ Closed(s)

(* No pong and no message for a while.                                     *)
PongTimeout ==
  /\ Settled
  /\ IsOpen
  /\ socket' = [socket EXCEPT ![ws].state = "closing"]
  /\ UNCHANGED <<ws, adapter, call, orchestrator>>

(* The wait of a connectWebSocket, be it of a call or of the reconnect     *)
(* timer, is over: it terminates the socket that ws is now, and resolves   *)
(* its own promise.                                                        *)
ConnectionTimesOut ==
  /\ Settled
  /\ ws # NoSocket /\ socket[ws].state = "connecting"
  /\ socket' = [socket EXCEPT ![ws].state = "aborting"]
  /\ \/ UNCHANGED call
     \/ \E c \in Callers :
          /\ call[c].pc = "waiting"
          /\ call' = [call EXCEPT ![c] = [Idle EXCEPT !.pc = "resolved"]]
  /\ UNCHANGED <<ws, adapter, orchestrator>>

(* Mutant: any socket that is in the ws field is taken for an open one.    *)
MutantReconnect ==
  /\ Settled
  /\ adapter.timer
  /\ adapter' = [adapter EXCEPT !.timer = FALSE]
  /\ IF ws # NoSocket THEN UNCHANGED <<socket, ws>>
     ELSE \E s \in Sockets : Opening(s)
  /\ UNCHANGED <<call, orchestrator>>

(* The reconnect timer fires.  It neither marks the adapter connected nor  *)
(* subscribes.                                                             *)
Reconnect ==
  /\ Settled
  /\ adapter.timer
  /\ adapter' = [adapter EXCEPT !.timer = FALSE]
  /\ IF IsOpen THEN UNCHANGED <<socket, ws>>
     ELSE \E s \in Sockets : Opening(s)
  /\ UNCHANGED <<call, orchestrator>>

-----------------------------------------------------------------------------
(* Shutdown.                                                               *)

(* disconnect: closes the socket only if it is open.                       *)
Disconnect ==
  /\ socket' = IF IsOpen THEN [socket EXCEPT ![ws].state = "closing"]
               ELSE socket
  /\ ws' = IF IsOpen THEN NoSocket ELSE ws
  /\ adapter' = [adapter EXCEPT !.connected = FALSE, !.timer = FALSE,
                                !.subscriptions = {}]

(* The orchestrator's cleanup; the calls it made go on.                    *)
OrchestratorCleanup ==
  /\ Settled
  /\ ~orchestrator.gone
  /\ orchestrator' = [orchestrator EXCEPT !.gone = TRUE]
  /\ IF orchestrator.connected /\ adapter.connected THEN Disconnect
     ELSE UNCHANGED <<socket, ws, adapter>>
  /\ UNCHANGED call

(* The adapter's cleanup.                                                  *)
Cleanup ==
  /\ Settled
  /\ ~adapter.shuttingDown
  /\ socket' = IF IsOpen THEN [socket EXCEPT ![ws].state = "closing"]
               ELSE IF ws # NoSocket /\ socket[ws].state = "connecting"
               THEN [socket EXCEPT ![ws].state = "aborting"]
               ELSE socket
  /\ ws' = NoSocket
  /\ adapter' = [adapter EXCEPT !.connected = FALSE, !.timer = FALSE,
                                !.subscriptions = {}, !.shuttingDown = TRUE]
  /\ UNCHANGED <<call, orchestrator>>

-----------------------------------------------------------------------------
Next ==
  \/ \E c \in Callers :
       Connect(c) \/ ConnectSucceeds(c) \/ ConnectFails(c)
         \/ Subscribe(c) \/ SendingEnds(c)
  \/ \E symbol \in Symbols : SubscribeToFeed(symbol) \/ Unsubscribe(symbol)
  \/ \E s \in Sockets :
       Opened(s) \/ HandshakeFails(s) \/ ClosedRemotely(s) \/ ClosingEnds(s)
  \/ StartSubscribing
  \/ PongTimeout
  \/ ConnectionTimesOut
  \/ Reconnect
  \/ OrchestratorCleanup
  \/ Cleanup

Spec == Init /\ [][Next]_vars

(* Promises are acted upon (WF).  A handshake ends, at the latest when the *)
(* network gives up; a socket that is being closed closes, a timer fires:  *)
(* tasks that are enabled again and again while others run (SF).  Nothing  *)
(* is assumed of the exchange, of callers and of shutdown.                 *)
Fairness ==
  /\ WF_vars(\E c \in Callers :
               ConnectSucceeds(c) \/ ConnectFails(c) \/ Subscribe(c))
  /\ \A s \in Sockets :
       SF_vars(Opened(s) \/ HandshakeFails(s) \/ ClosingEnds(s))
  /\ SF_vars(Reconnect)

FairSpec == Spec /\ Fairness

-----------------------------------------------------------------------------
(* All fields are of their types; reconnect attempts stay within the bound.*)
TypeOK ==
  /\ socket \in [Sockets -> Socket]
  /\ ws \in Sockets \cup {NoSocket}
  /\ adapter \in Adapter
  /\ call \in [Callers -> Call]
  /\ orchestrator \in [connected : BOOLEAN, started : BOOLEAN, gone : BOOLEAN]

(* An adapter that says it is connected has a socket, or is going to open  *)
(* one, or has used up its attempts and lives on REST: it never waits for  *)
(* nothing, though close events, retries, calls of connect and time-outs   *)
(* of several sockets meet in one flag and one timer (connect,             *)
(* connectWebSocket, scheduleReconnect, disconnect).                       *)
NeverStranded ==
  adapter.connected /\ ~adapter.shuttingDown =>
    \/ \E s \in Sockets : Alive(s)
    \/ adapter.timer
    \/ adapter.attempts = MaxAttempts

(* Only the socket the adapter knows of delivers prices, and only for      *)
(* symbols the adapter tracks: sockets that were replaced while connecting *)
(* may stay open, but none of them doubles the stream or outlives an       *)
(* unsubscription (connectWebSocket, subscribe, disconnect).               *)
StreamsAreTracked ==
  \A s \in Sockets :
    socket[s].state = "open" /\ socket[s].carries # {} =>
      s = ws /\ socket[s].carries \subseteq adapter.subscriptions

(* After cleanup no reconnection is pending any more, whichever sockets    *)
(* close later (cleanup, the close handler).                               *)
ShutdownIsFinal == adapter.shuttingDown => ~adapter.timer

(* A scheduled reconnection ends with an open socket, with no attempts     *)
(* left, or with a shutdown (scheduleReconnect).                           *)
Reopens ==
  adapter.timer ~> \/ \E s \in Sockets : socket[s].state = "open"
                   \/ adapter.attempts = MaxAttempts /\ ~adapter.timer
                   \/ adapter.shuttingDown \/ orchestrator.gone
=============================================================================
