---------------------- MODULE ExchangeConnectionProofs ----------------------
(***************************************************************************)
(* The safety properties of ExchangeConnection, for every number of        *)
(* sockets, symbols and callers and every bound on retries and attempts.   *)
(*                                                                         *)
(* Two facts strengthen them to an invariant that every step preserves: a  *)
(* promise that was resolved leaves the adapter with a connection to come  *)
(* (Promises), so that marking it connected later strands nothing; and a   *)
(* socket carries nothing before it is open (Fresh).                       *)
(*                                                                         *)
(* Then CcxtAdapter, where an exchange marked as watched has its loop: the *)
(* invariant keeps every job within the symbols its exchange lists.        *)
(***************************************************************************)
EXTENDS ExchangeConnection, CcxtAdapter, TLAPS

NotStranded ==
  \/ \E s \in Sockets : Alive(s)
  \/ adapter.timer
  \/ adapter.attempts = MaxAttempts

Promises ==
  \A c \in Callers :
    call[c].pc = "resolved" /\ ~adapter.shuttingDown => NotStranded

Fresh == \A s \in Sockets :
           socket[s].state = "connecting" => socket[s].carries = {}

IInv ==
  /\ TypeOK
  /\ Promises
  /\ Fresh
  /\ NeverStranded
  /\ StreamsAreTracked
  /\ ShutdownIsFinal

-----------------------------------------------------------------------------
LEMMA AfterCloseFacts ==
  ASSUME NEW a \in Adapter
  PROVE  /\ AfterClose(a) \in Adapter
         /\ AfterClose(a).subscriptions = a.subscriptions
         /\ AfterClose(a).shuttingDown = a.shuttingDown
         /\ a.shuttingDown => AfterClose(a).timer = a.timer
         /\ ~a.shuttingDown => \/ AfterClose(a).timer
                               \/ AfterClose(a).attempts = MaxAttempts
<1> DEFINE b == IF a.quiet /\ ~a.shuttingDown THEN a
                ELSE [a EXCEPT !.connected = FALSE]
           d == [b EXCEPT !.timer = TRUE, !.attempts = @ + 1]
<1>1. /\ b \in Adapter
      /\ b.subscriptions = a.subscriptions
      /\ b.shuttingDown = a.shuttingDown
      /\ b.timer = a.timer /\ b.attempts = a.attempts
  BY DEF Adapter
<1> HIDE DEF b
<1>2. CASE a.attempts < MaxAttempts /\ ~a.shuttingDown
  <2>1. b.attempts + 1 \in 0 .. MaxAttempts
    BY <1>1, <1>2, LimitAssumption DEF Adapter
  <2>2. /\ d \in Adapter
        /\ d.subscriptions = a.subscriptions
        /\ d.shuttingDown = a.shuttingDown
        /\ d.timer
    BY <1>1, <2>1 DEF Adapter
  <2>3. AfterClose(a) = d
    BY <1>2 DEF AfterClose, b
  <2> QED BY <1>2, <2>2, <2>3
<1>3. CASE ~(a.attempts < MaxAttempts /\ ~a.shuttingDown)
  <2>1. AfterClose(a) = b
    BY <1>3 DEF AfterClose, b
  <2>2. a.attempts \in 0 .. MaxAttempts
    BY DEF Adapter
  <2> QED BY <1>1, <1>3, <2>1, <2>2, LimitAssumption
<1> QED BY <1>2, <1>3

LEMMA CallFacts ==
  /\ Idle \in Call /\ Idle.pc = "idle"
  /\ \A pc \in {"resolved", "settling"} :
       /\ [Idle EXCEPT !.pc = pc] \in Call
       /\ [Idle EXCEPT !.pc = pc].pc = pc
  /\ \A symbols \in SUBSET Symbols :
       /\ [Idle EXCEPT !.pc = "subscribe", !.symbols = symbols] \in Call
       /\ [Idle EXCEPT !.pc = "subscribe", !.symbols = symbols].pc
            = "subscribe"
  /\ \A s \in Sockets, tries \in 0 .. MaxRetries :
       LET waiting == [Idle EXCEPT !.pc = "waiting", !.socket = s,
                                   !.tries = tries]
       IN  waiting \in Call /\ waiting.pc = "waiting"
<1>1. 0 \in 0 .. MaxRetries
  BY LimitAssumption
<1>2. Idle \in Call /\ Idle.pc = "idle"
  BY <1>1 DEF Idle, Call
<1> QED BY <1>1, <1>2 DEF Idle, Call

LEMMA OpenFacts ==
  ASSUME TypeOK, IsOpen
  PROVE  /\ ws \in Sockets /\ Alive(ws) /\ socket[ws].state = "open"
         /\ NotStranded
BY DEF TypeOK, IsOpen, Alive, NotStranded

(* A new socket is something to wait for; none was delivering prices.      *)
LEMMA OpeningOK ==
  ASSUME IInv, ~IsOpen, NEW s \in Sockets, Opening(s)
  PROVE  /\ socket' \in [Sockets -> Socket]
         /\ ws' \in Sockets \cup {NoSocket}
         /\ Fresh'
         /\ StreamsAreTracked'
         /\ NotStranded'
<1>1. /\ socket' = [socket EXCEPT ![s] = [state |-> "connecting",
                                          carries |-> {}]]
      /\ ws' = s
  BY DEF Opening
<1>2. socket' \in [Sockets -> Socket]
  BY <1>1 DEF IInv, TypeOK, Socket
<1>3. /\ socket'[s].state = "connecting" /\ socket'[s].carries = {}
      /\ \A t \in Sockets \ {s} : socket'[t] = socket[t]
  BY <1>1 DEF IInv, TypeOK
<1>4. Fresh'
  BY <1>3 DEF IInv, Fresh
<1>5. StreamsAreTracked'
  BY <1>3, SocketAssumption DEF IInv, StreamsAreTracked, IsOpen
<1>6. NotStranded'
  BY <1>3 DEF NotStranded, Alive
<1> QED BY <1>1, <1>2, <1>4, <1>5, <1>6

(* A try to connect, whatever becomes of the other fields.                 *)
LEMMA ConnectWebSocketOK ==
  ASSUME IInv, NEW c \in Callers, NEW tries \in 0 .. MaxRetries,
         ConnectWebSocket(c, tries), UNCHANGED adapter
  PROVE  /\ socket' \in [Sockets -> Socket]
         /\ ws' \in Sockets \cup {NoSocket}
         /\ call' \in [Callers -> Call]
         /\ Fresh'
         /\ StreamsAreTracked'
         /\ NotStranded'
<1>1. CASE IsOpen /\ UNCHANGED <<socket, ws>>
           /\ call' = [call EXCEPT ![c] = [Idle EXCEPT !.pc = "resolved"]]
  <2>1. call' \in [Callers -> Call]
    BY <1>1, CallFacts DEF IInv, TypeOK
  <2>2. NotStranded
    BY <1>1, OpenFacts DEF IInv
  <2> QED
    BY <1>1, <2>1, <2>2
       DEF IInv, TypeOK, Fresh, StreamsAreTracked, NotStranded, Alive
<1>2. ASSUME ~IsOpen, NEW s \in Sockets, Opening(s),
             call' = [call EXCEPT
                        ![c] = [Idle EXCEPT !.pc = "waiting",
                                            !.socket = s, !.tries = tries]]
      PROVE  call' \in [Callers -> Call] /\ NotStranded'
             /\ socket' \in [Sockets -> Socket]
             /\ ws' \in Sockets \cup {NoSocket}
             /\ Fresh' /\ StreamsAreTracked'
  <2>1. call' \in [Callers -> Call]
    BY <1>2, CallFacts DEF IInv, TypeOK
  <2> QED BY <1>2, <2>1, OpeningOK
<1> QED BY <1>1, <1>2 DEF ConnectWebSocket

(* A state in which something is to come, or which is a shutdown, strands  *)
(* nobody.                                                                 *)
LEMMA NobodyStranded ==
  ASSUME ~adapter'.shuttingDown => NotStranded'
  PROVE  Promises' /\ NeverStranded'
BY DEF Promises, NeverStranded, NotStranded

(* A step that wakes no promise, does not mark the adapter connected and   *)
(* changes no state of a socket, timer or counter strands nobody either.   *)
LEMMA NobodyStrandedBy ==
  ASSUME IInv,
         \A s \in Sockets : socket'[s].state = socket[s].state,
         adapter'.timer = adapter.timer,
         adapter'.attempts = adapter.attempts,
         adapter'.shuttingDown = adapter.shuttingDown,
         adapter'.connected => adapter.connected,
         \A c \in Callers : call'[c].pc = "resolved" => call[c].pc = "resolved"
  PROVE  Promises' /\ NeverStranded'
<1>1. NotStranded => NotStranded'
  BY DEF NotStranded, Alive
<1> QED
  BY <1>1 DEF IInv, Promises, NeverStranded, NotStranded

(* Sending adds to what is carried and to what is tracked alike.           *)
LEMMA SentOK ==
  ASSUME IInv, NEW symbols \in SUBSET Symbols, Sent(symbols), UNCHANGED ws
  PROVE  /\ socket' \in [Sockets -> Socket]
         /\ adapter' \in Adapter
         /\ \A s \in Sockets : socket'[s].state = socket[s].state
         /\ adapter'.timer = adapter.timer
         /\ adapter'.attempts = adapter.attempts
         /\ adapter'.shuttingDown = adapter.shuttingDown
         /\ adapter'.connected = adapter.connected
         /\ Fresh'
         /\ StreamsAreTracked'
<1>1. /\ adapter' \in Adapter
      /\ adapter'.timer = adapter.timer
      /\ adapter'.attempts = adapter.attempts
      /\ adapter'.shuttingDown = adapter.shuttingDown
      /\ adapter'.connected = adapter.connected
      /\ adapter'.subscriptions = adapter.subscriptions \cup symbols
  BY DEF Sent, IInv, TypeOK, Adapter
<1>2. CASE IsOpen
  <2>1. /\ ws \in Sockets /\ socket[ws].state = "open"
        /\ socket' = [socket EXCEPT ![ws].carries = @ \cup symbols]
    BY <1>2, OpenFacts DEF Sent, IInv
  <2>2. socket' \in [Sockets -> Socket]
    BY <2>1 DEF IInv, TypeOK, Socket
  <2>3. /\ socket'[ws].state = "open"
        /\ socket'[ws].carries = socket[ws].carries \cup symbols
        /\ \A s \in Sockets \ {ws} : socket'[s] = socket[s]
    BY <2>1 DEF IInv, TypeOK, Socket
  <2>4. Fresh'
    BY <2>3 DEF IInv, Fresh
  <2>5. StreamsAreTracked'
    BY <1>1, <2>1, <2>3 DEF IInv, StreamsAreTracked
  <2> QED BY <1>1, <2>1, <2>2, <2>3, <2>4, <2>5
<1>3. CASE ~IsOpen
  <2>1. socket' = socket
    BY <1>3 DEF Sent
  <2> QED BY <1>1, <2>1 DEF IInv, TypeOK, Fresh, StreamsAreTracked
<1> QED BY <1>2, <1>3

-----------------------------------------------------------------------------
(* One lemma for each action.                                              *)

LEMMA ConnectOK ==
  ASSUME IInv, NEW c \in Callers, Connect(c)
  PROVE  IInv'
<1>1. adapter' = adapter
  BY DEF Connect
<1>2. orchestrator' \in [connected : BOOLEAN, started : BOOLEAN, gone : BOOLEAN]
  BY DEF Connect, IInv, TypeOK
<1>3. CASE ~adapter.connected /\ ConnectWebSocket(c, 0)
  <2>1. 0 \in 0 .. MaxRetries
    BY LimitAssumption
  <2>2. /\ socket' \in [Sockets -> Socket] /\ ws' \in Sockets \cup {NoSocket}
        /\ call' \in [Callers -> Call]
        /\ Fresh' /\ StreamsAreTracked' /\ NotStranded'
    BY <1>1, <1>3, <2>1, ConnectWebSocketOK
  <2>3. Promises' /\ NeverStranded'
    BY <2>2, NobodyStranded
  <2> QED BY <1>1, <1>2, <2>2, <2>3 DEF IInv, TypeOK, ShutdownIsFinal
<1>4. CASE /\ call' = [call EXCEPT ![c].pc = "settling"]
           /\ UNCHANGED <<socket, ws>>
  <2>1. call' \in [Callers -> Call]
    BY <1>4 DEF IInv, TypeOK, Call
  <2>2. \A d \in Callers :
          call'[d].pc = "resolved" => call[d].pc = "resolved"
    BY <1>4 DEF IInv, TypeOK, Call
  <2>3. Promises' /\ NeverStranded'
    BY <1>1, <1>4, <2>2, NobodyStrandedBy
  <2> QED
    BY <1>1, <1>2, <1>4, <2>1, <2>3
       DEF IInv, TypeOK, Fresh, StreamsAreTracked, ShutdownIsFinal
<1> QED BY <1>3, <1>4 DEF Connect

LEMMA ConnectSucceedsOK ==
  ASSUME IInv, NEW c \in Callers, ConnectSucceeds(c)
  PROVE  IInv'
<1>1. UNCHANGED <<socket, ws>>
  BY DEF ConnectSucceeds, AfterConnecting, Subscribing
<1>2. /\ adapter' = [adapter EXCEPT !.connected = TRUE]
      /\ adapter' \in Adapter
      /\ adapter'.timer = adapter.timer
      /\ adapter'.attempts = adapter.attempts
      /\ adapter'.shuttingDown = adapter.shuttingDown
      /\ adapter'.subscriptions = adapter.subscriptions
  BY DEF ConnectSucceeds, AfterConnecting, Subscribing, IInv, TypeOK, Adapter
<1>3. orchestrator' \in [connected : BOOLEAN, started : BOOLEAN, gone : BOOLEAN]
  BY DEF ConnectSucceeds, AfterConnecting, Subscribing, IInv, TypeOK
<1>4. call' \in [Callers -> Call]
  <2>1. PICK d \in Call : call' = [call EXCEPT ![c] = d]
    BY CallFacts DEF ConnectSucceeds, AfterConnecting, Subscribing
  <2> QED BY <2>1 DEF IInv, TypeOK
<1>5. ~adapter.shuttingDown => NotStranded
  BY DEF ConnectSucceeds, AfterConnecting, Subscribing, IInv, Promises
<1>6. Promises' /\ NeverStranded'
  <2>1. ~adapter'.shuttingDown => NotStranded'
    BY <1>1, <1>2, <1>5 DEF NotStranded, Alive
  <2> QED BY <2>1, NobodyStranded
<1> QED
  BY <1>1, <1>2, <1>3, <1>4, <1>6
     DEF IInv, TypeOK, Fresh, StreamsAreTracked, ShutdownIsFinal

LEMMA ConnectFailsOK ==
  ASSUME IInv, NEW c \in Callers, ConnectFails(c)
  PROVE  IInv'
<1>1. orchestrator' \in [connected : BOOLEAN, started : BOOLEAN, gone : BOOLEAN]
  BY DEF ConnectFails, IInv, TypeOK
<1>2. CASE /\ call[c].tries < MaxRetries
           /\ ConnectWebSocket(c, call[c].tries + 1)
           /\ UNCHANGED adapter
  <2>1. call[c].tries + 1 \in 0 .. MaxRetries
    BY <1>2, LimitAssumption DEF IInv, TypeOK, Call
  <2>2. /\ socket' \in [Sockets -> Socket] /\ ws' \in Sockets \cup {NoSocket}
        /\ call' \in [Callers -> Call]
        /\ Fresh' /\ StreamsAreTracked' /\ NotStranded'
    BY <1>2, <2>1, ConnectWebSocketOK
  <2>3. Promises' /\ NeverStranded'
    BY <2>2, NobodyStranded
  <2> QED BY <1>1, <1>2, <2>2, <2>3 DEF IInv, TypeOK, ShutdownIsFinal
<1>3. CASE /\ call' = [call EXCEPT ![c] = Idle]
           /\ adapter' = [adapter EXCEPT !.connected = FALSE]
           /\ UNCHANGED <<socket, ws>>
  <2>1. /\ adapter' \in Adapter
        /\ adapter'.timer = adapter.timer
        /\ adapter'.attempts = adapter.attempts
        /\ adapter'.shuttingDown = adapter.shuttingDown
        /\ adapter'.subscriptions = adapter.subscriptions
        /\ ~adapter'.connected
    BY <1>3 DEF IInv, TypeOK, Adapter
  <2>2. call' \in [Callers -> Call]
    BY <1>3, CallFacts DEF IInv, TypeOK
  <2>3. \A d \in Callers :
          call'[d].pc = "resolved" => call[d].pc = "resolved"
    BY <1>3, CallFacts DEF IInv, TypeOK
  <2>4. Promises' /\ NeverStranded'
    BY <1>3, <2>1, <2>3, NobodyStrandedBy
  <2> QED
    BY <1>1, <1>3, <2>1, <2>2, <2>4
       DEF IInv, TypeOK, Fresh, StreamsAreTracked, ShutdownIsFinal
<1> QED BY <1>2, <1>3 DEF ConnectFails

LEMMA BeforeSubscribeOK ==
  ASSUME IInv,
         StartSubscribing \/ \E symbol \in Symbols : SubscribeToFeed(symbol)
  PROVE  IInv'
<1>1. UNCHANGED <<socket, ws, adapter, orchestrator>>
  BY DEF StartSubscribing, Subscribing, SubscribeToFeed
<1>2. PICK c \in Callers, symbols \in SUBSET Symbols :
        call' = [call EXCEPT ![c] = [Idle EXCEPT !.pc = "subscribe",
                                                 !.symbols = symbols]]
  BY DEF StartSubscribing, Subscribing, SubscribeToFeed, Callers
<1>3. /\ call' \in [Callers -> Call]
      /\ \A d \in Callers :
           call'[d].pc = "resolved" => call[d].pc = "resolved"
  BY <1>2, CallFacts DEF IInv, TypeOK
<1>4. Promises' /\ NeverStranded'
  BY <1>1, <1>3, NobodyStrandedBy
<1> QED
  BY <1>1, <1>3, <1>4
     DEF IInv, TypeOK, Fresh, StreamsAreTracked, ShutdownIsFinal

LEMMA SubscribeOK ==
  ASSUME IInv, NEW c \in Callers, Subscribe(c)
  PROVE  IInv'
<1> DEFINE new == call[c].symbols \ adapter.subscriptions
<1>1. new \in SUBSET Symbols
  BY DEF IInv, TypeOK, Call
<1>2. /\ ws' = ws
      /\ orchestrator' \in [connected : BOOLEAN, started : BOOLEAN,
                            gone : BOOLEAN]
  BY DEF Subscribe, IInv, TypeOK
<1>3. /\ call' \in [Callers -> Call]
      /\ \A d \in Callers :
           call'[d].pc = "resolved" => call[d].pc = "resolved"
  <2>1. CASE call' = [call EXCEPT ![c].pc = "sending", ![c].symbols = new]
    <3> DEFINE d == [call[c] EXCEPT !.pc = "sending", !.symbols = new]
    <3>1. d \in Call /\ d.pc = "sending"
      BY <1>1 DEF IInv, TypeOK, Call
    <3>2. call' = [call EXCEPT ![c] = d]
      BY <2>1 DEF IInv, TypeOK, Call
    <3> QED BY <3>1, <3>2 DEF IInv, TypeOK
  <2>2. CASE call' = [call EXCEPT ![c] = Idle]
    BY <2>2, CallFacts DEF IInv, TypeOK
  <2> QED BY <2>1, <2>2 DEF Subscribe
<1> HIDE DEF new
<1>4. CASE UNCHANGED <<socket, adapter>>
  <2>1. Promises' /\ NeverStranded'
    BY <1>3, <1>4, NobodyStrandedBy
  <2> QED
    BY <1>2, <1>3, <1>4, <2>1
       DEF IInv, TypeOK, Fresh, StreamsAreTracked, ShutdownIsFinal
<1>5. CASE Sent(new)
  <2>1. /\ socket' \in [Sockets -> Socket]
        /\ adapter' \in Adapter
        /\ \A s \in Sockets : socket'[s].state = socket[s].state
        /\ adapter'.timer = adapter.timer
        /\ adapter'.attempts = adapter.attempts
        /\ adapter'.shuttingDown = adapter.shuttingDown
        /\ adapter'.connected = adapter.connected
        /\ Fresh'
        /\ StreamsAreTracked'
    BY <1>1, <1>2, <1>5, SentOK
  <2>2. Promises' /\ NeverStranded'
    BY <1>3, <2>1, NobodyStrandedBy
  <2> QED BY <1>2, <1>3, <2>1, <2>2 DEF IInv, TypeOK, ShutdownIsFinal
<1> QED BY <1>4, <1>5 DEF Subscribe, new

LEMMA SendingEndsOK ==
  ASSUME IInv, NEW c \in Callers, SendingEnds(c)
  PROVE  IInv'
<1>1. /\ call[c].symbols \in SUBSET Symbols
      /\ Sent(call[c].symbols)
      /\ UNCHANGED <<ws, orchestrator>>
  BY DEF SendingEnds, IInv, TypeOK, Call
<1>2. /\ call' \in [Callers -> Call]
      /\ \A d \in Callers :
           call'[d].pc = "resolved" => call[d].pc = "resolved"
  BY CallFacts DEF SendingEnds, IInv, TypeOK
<1>3. /\ socket' \in [Sockets -> Socket]
      /\ adapter' \in Adapter
      /\ \A s \in Sockets : socket'[s].state = socket[s].state
      /\ adapter'.timer = adapter.timer
      /\ adapter'.attempts = adapter.attempts
      /\ adapter'.shuttingDown = adapter.shuttingDown
      /\ adapter'.connected = adapter.connected
      /\ Fresh'
      /\ StreamsAreTracked'
  BY <1>1, SentOK
<1>4. Promises' /\ NeverStranded'
  BY <1>2, <1>3, NobodyStrandedBy
<1> QED BY <1>1, <1>2, <1>3, <1>4 DEF IInv, TypeOK, ShutdownIsFinal

LEMMA UnsubscribeOK ==
  ASSUME IInv, NEW symbol \in Symbols, Unsubscribe(symbol)
  PROVE  IInv'
<1>1. UNCHANGED <<ws, call, orchestrator>>
  BY DEF Unsubscribe
<1>2. /\ adapter' \in Adapter
      /\ adapter'.timer = adapter.timer
      /\ adapter'.attempts = adapter.attempts
      /\ adapter'.shuttingDown = adapter.shuttingDown
      /\ adapter'.connected = adapter.connected
      /\ adapter'.subscriptions = adapter.subscriptions \ {symbol}
  BY DEF Unsubscribe, IInv, TypeOK, Adapter
<1>3. /\ socket' \in [Sockets -> Socket]
      /\ \A s \in Sockets : /\ socket'[s].state = socket[s].state
                            /\ socket'[s].carries \subseteq socket[s].carries
                            /\ s = ws /\ IsOpen =>
                                 symbol \notin socket'[s].carries
  BY DEF Unsubscribe, IInv, TypeOK, Socket
<1>4. Fresh'
  BY <1>3 DEF IInv, Fresh
<1>5. StreamsAreTracked'
  BY <1>1, <1>2, <1>3, SocketAssumption DEF IInv, StreamsAreTracked, IsOpen
<1>6. Promises' /\ NeverStranded'
  BY <1>1, <1>2, <1>3, NobodyStrandedBy
<1> QED
  BY <1>1, <1>2, <1>3, <1>4, <1>5, <1>6 DEF IInv, TypeOK, ShutdownIsFinal

LEMMA SettleOK ==
  ASSUME IInv, NEW s \in Sockets, NEW outcome \in {"resolved", "rejected"},
         Settle(s, outcome)
  PROVE  call' \in [Callers -> Call]
<1>1. ASSUME NEW c \in Callers
      PROVE  [call[c] EXCEPT !.pc = outcome, !.socket = NoSocket] \in Call
  BY <1>1 DEF IInv, TypeOK, Call
<1> QED BY <1>1 DEF Settle, IInv, TypeOK

LEMMA OpenedOK ==
  ASSUME IInv, NEW s \in Sockets, Opened(s)
  PROVE  IInv'
<1>1. UNCHANGED <<ws, orchestrator>>
  BY DEF Opened
<1>2. /\ socket' \in [Sockets -> Socket]
      /\ socket'[s].state = "open" /\ socket'[s].carries = {}
      /\ \A t \in Sockets \ {s} : socket'[t] = socket[t]
  BY DEF Opened, IInv, TypeOK, Socket, Fresh
<1>3. /\ adapter' \in Adapter
      /\ adapter'.timer = adapter.timer
      /\ adapter'.shuttingDown = adapter.shuttingDown
      /\ adapter'.subscriptions = adapter.subscriptions
  BY LimitAssumption DEF Opened, IInv, TypeOK, Adapter
<1>4. call' \in [Callers -> Call]
  BY SettleOK DEF Opened
<1>5. Fresh'
  BY <1>2 DEF IInv, Fresh
<1>6. StreamsAreTracked'
  BY <1>1, <1>2, <1>3 DEF IInv, StreamsAreTracked
<1>7. NotStranded'
  BY <1>2 DEF NotStranded, Alive
<1>8. Promises' /\ NeverStranded'
  BY <1>7, NobodyStranded
<1> QED
  BY <1>1, <1>2, <1>3, <1>4, <1>5, <1>6, <1>8
     DEF IInv, TypeOK, ShutdownIsFinal

(* A socket that closes leaves a timer, or no attempts.                    *)
LEMMA ClosingOK ==
  ASSUME IInv, NEW s \in Sockets,
         UNCHANGED <<ws, orchestrator>>,
         call' \in [Callers -> Call],
         socket' \in [Sockets -> Socket],
         socket'[s].state = "closed",
         \A t \in Sockets \ {s} : socket'[t] = socket[t],
         NEW a \in Adapter,
         a.shuttingDown = adapter.shuttingDown,
         a.subscriptions = adapter.subscriptions,
         a.timer = adapter.timer,
         adapter' = AfterClose(a)
  PROVE  IInv'
<1>1. /\ adapter' \in Adapter
      /\ adapter'.subscriptions = adapter.subscriptions
      /\ adapter'.shuttingDown = adapter.shuttingDown
      /\ adapter.shuttingDown => adapter'.timer = adapter.timer
      /\ ~adapter.shuttingDown => \/ adapter'.timer
                                  \/ adapter'.attempts = MaxAttempts
  BY AfterCloseFacts
<1>2. Fresh' /\ StreamsAreTracked'
  BY <1>1 DEF IInv, Fresh, StreamsAreTracked
<1>3. ~adapter'.shuttingDown => NotStranded'
  BY <1>1 DEF NotStranded
<1>4. Promises' /\ NeverStranded'
  BY <1>3, NobodyStranded
<1>5. ShutdownIsFinal'
  BY <1>1 DEF IInv, ShutdownIsFinal
<1> QED BY <1>1, <1>2, <1>4, <1>5 DEF IInv, TypeOK

LEMMA HandshakeFailsOK ==
  ASSUME IInv, NEW s \in Sockets, HandshakeFails(s)
  PROVE  IInv'
<1>1. UNCHANGED <<ws, orchestrator>>
  BY DEF HandshakeFails
<1>2. PICK outcome \in {"resolved", "rejected"}, lost \in BOOLEAN :
        /\ Settle(s, outcome)
        /\ adapter' = AfterClose([adapter EXCEPT !.connected = @ /\ ~lost])
  BY DEF HandshakeFails
<1> DEFINE a == [adapter EXCEPT !.connected = @ /\ ~lost]
<1>3. /\ a \in Adapter
      /\ a.shuttingDown = adapter.shuttingDown
      /\ a.subscriptions = adapter.subscriptions
      /\ a.timer = adapter.timer
  BY DEF IInv, TypeOK, Adapter
<1>4. call' \in [Callers -> Call]
  BY <1>2, SettleOK
<1>5. /\ socket' \in [Sockets -> Socket]
      /\ socket'[s].state = "closed"
      /\ \A t \in Sockets \ {s} : socket'[t] = socket[t]
  <2>1. socket' = [socket EXCEPT ![s].state = "closed"]
    BY DEF HandshakeFails
  <2> QED BY <2>1 DEF IInv, TypeOK, Socket
<1> HIDE DEF a
<1>6. adapter' = AfterClose(a)
  BY <1>2 DEF a
<1> QED BY <1>1, <1>3, <1>4, <1>5, <1>6, ClosingOK

LEMMA ClosedOK ==
  ASSUME IInv, NEW s \in Sockets, Closed(s)
  PROVE  IInv'
<1>1. /\ UNCHANGED <<ws, orchestrator>>
      /\ call' \in [Callers -> Call]
      /\ socket' = [socket EXCEPT ![s] = [state |-> "closed", carries |-> {}]]
      /\ adapter \in Adapter /\ adapter' = AfterClose(adapter)
  BY DEF Closed, IInv, TypeOK
<1>2. /\ socket' \in [Sockets -> Socket]
      /\ socket'[s].state = "closed"
      /\ \A t \in Sockets \ {s} : socket'[t] = socket[t]
  BY <1>1 DEF IInv, TypeOK, Socket
<1> QED BY <1>1, <1>2, ClosingOK

(* Closing, or giving up, the socket that is known: those that are open    *)
(* and carry something are no other.                                       *)
LEMMA DroppingOK ==
  ASSUME IInv, ws \in Sockets,
         NEW how \in {"closing", "aborting"},
         socket' = [socket EXCEPT ![ws].state = how]
  PROVE  /\ socket' \in [Sockets -> Socket]
         /\ Fresh'
         /\ StreamsAreTracked'
         /\ NotStranded'
<1>1. /\ socket' \in [Sockets -> Socket]
      /\ socket'[ws].state = how
      /\ \A t \in Sockets \ {ws} : socket'[t] = socket[t]
  BY DEF IInv, TypeOK, Socket
<1>2. Fresh' /\ StreamsAreTracked'
  BY <1>1 DEF IInv, Fresh, StreamsAreTracked
<1>3. NotStranded'
  BY <1>1 DEF NotStranded, Alive
<1> QED BY <1>1, <1>2, <1>3

LEMMA PongTimeoutOK ==
  ASSUME IInv, PongTimeout
  PROVE  IInv'
<1>1. UNCHANGED <<ws, adapter, call, orchestrator>>
  BY DEF PongTimeout
<1>2. ws \in Sockets
  BY OpenFacts DEF PongTimeout, IInv
<1>3. /\ socket' \in [Sockets -> Socket]
      /\ Fresh' /\ StreamsAreTracked' /\ NotStranded'
  BY <1>2, DroppingOK DEF PongTimeout
<1>4. Promises' /\ NeverStranded'
  BY <1>3, NobodyStranded
<1> QED BY <1>1, <1>3, <1>4 DEF IInv, TypeOK, ShutdownIsFinal

LEMMA ConnectionTimesOutOK ==
  ASSUME IInv, ConnectionTimesOut
  PROVE  IInv'
<1>1. UNCHANGED <<ws, adapter, orchestrator>>
  BY DEF ConnectionTimesOut
<1>2. ws \in Sockets
  BY DEF ConnectionTimesOut, IInv, TypeOK
<1>3. /\ socket' \in [Sockets -> Socket]
      /\ Fresh' /\ StreamsAreTracked' /\ NotStranded'
  BY <1>2, DroppingOK DEF ConnectionTimesOut
<1>4. call' \in [Callers -> Call]
  <2>1. CASE UNCHANGED call
    BY <2>1 DEF IInv, TypeOK
  <2>2. ASSUME NEW c \in Callers,
               call' = [call EXCEPT ![c] = [Idle EXCEPT !.pc = "resolved"]]
        PROVE  call' \in [Callers -> Call]
    BY <2>2, CallFacts DEF IInv, TypeOK
  <2> QED BY <2>1, <2>2 DEF ConnectionTimesOut
<1>5. Promises' /\ NeverStranded'
  BY <1>3, NobodyStranded
<1> QED BY <1>1, <1>3, <1>4, <1>5 DEF IInv, TypeOK, ShutdownIsFinal

LEMMA ReconnectOK ==
  ASSUME IInv, Reconnect
  PROVE  IInv'
<1>1. UNCHANGED <<call, orchestrator>>
  BY DEF Reconnect
<1>2. /\ adapter' \in Adapter
      /\ adapter'.shuttingDown = adapter.shuttingDown
      /\ adapter'.subscriptions = adapter.subscriptions
      /\ ~adapter'.timer
  BY DEF Reconnect, IInv, TypeOK, Adapter
<1>3. /\ socket' \in [Sockets -> Socket] /\ ws' \in Sockets \cup {NoSocket}
      /\ Fresh' /\ StreamsAreTracked' /\ NotStranded'
  <2>1. CASE IsOpen
    <3>1. UNCHANGED <<socket, ws>>
      BY <2>1 DEF Reconnect
    <3>2. NotStranded'
      BY <2>1, <3>1, OpenFacts DEF IInv, NotStranded, Alive
    <3> QED
      BY <1>2, <3>1, <3>2 DEF IInv, TypeOK, Fresh, StreamsAreTracked
  <2>2. CASE ~IsOpen
    <3>1. PICK s \in Sockets : Opening(s)
      BY <2>2 DEF Reconnect
    <3> QED BY <2>2, <3>1, OpeningOK
  <2> QED BY <2>1, <2>2
<1>4. Promises' /\ NeverStranded'
  BY <1>3, NobodyStranded
<1> QED BY <1>1, <1>2, <1>3, <1>4 DEF IInv, TypeOK, ShutdownIsFinal

(* Promises that were resolved have been acted upon before any shutdown.   *)
LEMMA OrchestratorCleanupOK ==
  ASSUME IInv, OrchestratorCleanup
  PROVE  IInv'
<1>1. /\ UNCHANGED call
      /\ \A c \in Callers : call[c].pc # "resolved"
      /\ orchestrator' \in [connected : BOOLEAN, started : BOOLEAN,
                            gone : BOOLEAN]
  BY DEF OrchestratorCleanup, Settled, IInv, TypeOK
<1>2. Promises'
  BY <1>1 DEF Promises
<1>3. CASE Disconnect
  <2>1. /\ adapter' \in Adapter
        /\ ~adapter'.connected /\ ~adapter'.timer
    BY <1>3 DEF Disconnect, IInv, TypeOK, Adapter
  <2>2. /\ socket' \in [Sockets -> Socket] /\ ws' \in Sockets \cup {NoSocket}
        /\ Fresh'
        /\ \A s \in Sockets : socket'[s].state = "open" =>
                                socket'[s].carries = {}
    <3>1. CASE IsOpen
      <4>1. /\ ws \in Sockets
            /\ socket' = [socket EXCEPT ![ws].state = "closing"]
            /\ ws' = NoSocket
        BY <1>3, <3>1, OpenFacts DEF Disconnect, IInv
      <4>2. socket' \in [Sockets -> Socket] /\ Fresh'
        BY <4>1, DroppingOK
      <4>3. /\ socket'[ws].state = "closing"
            /\ \A t \in Sockets \ {ws} : socket'[t] = socket[t]
        BY <4>1 DEF IInv, TypeOK, Socket
      <4> QED BY <4>1, <4>2, <4>3 DEF IInv, StreamsAreTracked
    <3>2. CASE ~IsOpen
      <4>1. UNCHANGED <<socket, ws>>
        BY <1>3, <3>2 DEF Disconnect
      <4> QED
        BY <3>2, <4>1, SocketAssumption
           DEF IInv, TypeOK, Fresh, StreamsAreTracked, IsOpen
    <3> QED BY <3>1, <3>2
  <2>3. StreamsAreTracked' /\ NeverStranded' /\ ShutdownIsFinal'
    BY <2>1, <2>2 DEF StreamsAreTracked, NeverStranded, ShutdownIsFinal
  <2> QED BY <1>1, <1>2, <2>1, <2>2, <2>3 DEF IInv, TypeOK
<1>4. CASE UNCHANGED <<socket, ws, adapter>>
  BY <1>1, <1>2, <1>4
     DEF IInv, TypeOK, Fresh, NeverStranded, StreamsAreTracked,
         ShutdownIsFinal, Alive
<1> QED BY <1>3, <1>4 DEF OrchestratorCleanup

LEMMA CleanupOK ==
  ASSUME IInv, Cleanup
  PROVE  IInv'
<1>1. /\ UNCHANGED <<call, orchestrator>>
      /\ ws' = NoSocket
  BY DEF Cleanup
<1>2. /\ adapter' \in Adapter
      /\ adapter'.shuttingDown /\ ~adapter'.timer
  BY DEF Cleanup, IInv, TypeOK, Adapter
<1>3. /\ socket' \in [Sockets -> Socket]
      /\ Fresh'
      /\ \A s \in Sockets : socket'[s].state = "open" =>
                              socket'[s].carries = {}
  <2>1. ASSUME NEW how \in {"closing", "aborting"}, ws \in Sockets,
               socket' = [socket EXCEPT ![ws].state = how]
        PROVE  /\ socket' \in [Sockets -> Socket]
               /\ Fresh'
               /\ \A s \in Sockets : socket'[s].state = "open" =>
                                       socket'[s].carries = {}
    <3>1. socket' \in [Sockets -> Socket] /\ Fresh'
      BY <2>1, DroppingOK
    <3>2. /\ socket'[ws].state = how
          /\ \A t \in Sockets \ {ws} : socket'[t] = socket[t]
      BY <2>1 DEF IInv, TypeOK, Socket
    <3> QED BY <2>1, <3>1, <3>2 DEF IInv, StreamsAreTracked
  <2>2. CASE UNCHANGED socket /\ ~IsOpen
    BY <2>2, SocketAssumption
       DEF IInv, TypeOK, Fresh, StreamsAreTracked, IsOpen
  <2>3. IsOpen => ws \in Sockets
    BY OpenFacts DEF IInv
  <2>4. ws # NoSocket => ws \in Sockets
    BY DEF IInv, TypeOK
  <2> QED BY <2>1, <2>2, <2>3, <2>4 DEF Cleanup
<1>4. /\ Promises' /\ NeverStranded'
      /\ StreamsAreTracked' /\ ShutdownIsFinal'
  BY <1>2, <1>3
     DEF Promises, NeverStranded, StreamsAreTracked, ShutdownIsFinal
<1> QED BY <1>1, <1>2, <1>3, <1>4 DEF IInv, TypeOK

-----------------------------------------------------------------------------
LEMMA InitInv == Init => IInv
<1> SUFFICES ASSUME Init PROVE IInv
  OBVIOUS
<1>1. PICK quiet \in BOOLEAN :
        adapter = [connected |-> FALSE, subscriptions |-> {}, timer |-> FALSE,
                   attempts |-> 0, shuttingDown |-> FALSE, quiet |-> quiet]
  BY DEF Init
<1>2. 0 \in 0 .. MaxAttempts
  BY LimitAssumption
<1>3. TypeOK
  BY <1>1, <1>2, CallFacts DEF Init, NewExchange, TypeOK, Socket, Adapter
<1>4. Promises
  BY CallFacts DEF Init, Promises
<1>5. Fresh /\ NeverStranded /\ StreamsAreTracked /\ ShutdownIsFinal
  BY <1>1 DEF Init, Fresh, NeverStranded, StreamsAreTracked, ShutdownIsFinal
<1> QED BY <1>3, <1>4, <1>5 DEF IInv

LEMMA StepInv == IInv /\ [Next]_vars => IInv'
<1> SUFFICES ASSUME IInv, [Next]_vars PROVE IInv'
  OBVIOUS
<1>1. ASSUME NEW c \in Callers, Connect(c) PROVE IInv'
  BY <1>1, ConnectOK
<1>2. ASSUME NEW c \in Callers, ConnectSucceeds(c) PROVE IInv'
  BY <1>2, ConnectSucceedsOK
<1>3. ASSUME NEW c \in Callers, ConnectFails(c) PROVE IInv'
  BY <1>3, ConnectFailsOK
<1>4. ASSUME NEW c \in Callers, Subscribe(c) PROVE IInv'
  BY <1>4, SubscribeOK
<1>5. ASSUME NEW c \in Callers, SendingEnds(c) PROVE IInv'
  BY <1>5, SendingEndsOK
<1>6. CASE StartSubscribing \/ \E symbol \in Symbols : SubscribeToFeed(symbol)
  BY <1>6, BeforeSubscribeOK
<1>7. ASSUME NEW symbol \in Symbols, Unsubscribe(symbol) PROVE IInv'
  BY <1>7, UnsubscribeOK
<1>8. ASSUME NEW s \in Sockets, Opened(s) PROVE IInv'
  BY <1>8, OpenedOK
<1>9. ASSUME NEW s \in Sockets, HandshakeFails(s) PROVE IInv'
  BY <1>9, HandshakeFailsOK
<1>10. ASSUME NEW s \in Sockets, ClosedRemotely(s) \/ ClosingEnds(s)
       PROVE  IInv'
  BY <1>10, ClosedOK DEF ClosedRemotely, ClosingEnds
<1>11. CASE PongTimeout
  BY <1>11, PongTimeoutOK
<1>12. CASE ConnectionTimesOut
  BY <1>12, ConnectionTimesOutOK
<1>13. CASE Reconnect
  BY <1>13, ReconnectOK
<1>14. CASE OrchestratorCleanup
  BY <1>14, OrchestratorCleanupOK
<1>15. CASE Cleanup
  BY <1>15, CleanupOK
<1>16. CASE UNCHANGED vars
  BY <1>16 DEF vars, IInv, TypeOK, Promises, NotStranded, Fresh,
               NeverStranded, StreamsAreTracked, ShutdownIsFinal, Alive
<1> QED
  BY <1>1, <1>2, <1>3, <1>4, <1>5, <1>6, <1>7, <1>8, <1>9, <1>10, <1>11,
     <1>12, <1>13, <1>14, <1>15, <1>16 DEF Next

LEMMA InvHolds == Spec => []IInv
BY InitInv, StepInv, PTL DEF Spec

-----------------------------------------------------------------------------
(* Sockets, calls and fields keep their types; reconnect attempts never    *)
(* exceed their bound, however many sockets close.                         *)
THEOREM TypeCorrect == Spec => []TypeOK
<1>1. IInv => TypeOK
  BY DEF IInv
<1> QED BY <1>1, InvHolds, PTL

(* An adapter that says it is connected has a socket, has a reconnection   *)
(* coming, or has used up its attempts.                                    *)
THEOREM NobodyIsStranded == Spec => []NeverStranded
<1>1. IInv => NeverStranded
  BY DEF IInv
<1> QED BY <1>1, InvHolds, PTL

(* However sockets replace each other, prices come through the one the     *)
(* adapter knows of, and only for symbols it tracks.                       *)
THEOREM OnlyTrackedStreams == Spec => []StreamsAreTracked
<1>1. IInv => StreamsAreTracked
  BY DEF IInv
<1> QED BY <1>1, InvHolds, PTL

(* No reconnection is pending after cleanup.                               *)
THEOREM NothingAfterShutdown == Spec => []ShutdownIsFinal
<1>1. IInv => ShutdownIsFinal
  BY DEF IInv
<1> QED BY <1>1, InvHolds, PTL
-----------------------------------------------------------------------------
(* CcxtAdapter, for any exchanges, pairs, lists and bounds.                *)

(* What bags of jobs gain and lose.                                        *)
LEMMA BagGains ==
  ASSUME NEW B, IsABag(B), NEW S
  PROVE  /\ IsABag(B (+) SetToBag(S))
         /\ BagToSet(B (+) SetToBag(S)) = BagToSet(B) \cup S
<1> DEFINE T == SetToBag(S)
<1>1. DOMAIN T = S /\ \A e \in S : T[e] = 1
  BY DEF SetToBag
<1>2. BagToSet(B (+) T) = BagToSet(B) \cup S
  BY <1>1 DEF BagToSet, (+)
<1>3. ASSUME NEW e \in DOMAIN B \cup S
      PROVE  (IF e \in DOMAIN B THEN B[e] ELSE 0) + (IF e \in DOMAIN T THEN T[e] ELSE 0)
               \in {n \in Nat : n > 0}
  <2> HIDE DEF T
  <2> QED
    BY <1>1 DEF IsABag
<1>4. IsABag(B (+) T)
  <2> HIDE DEF T
  <2> QED
    BY <1>1, <1>3 DEF IsABag, (+)
<1> QED
  BY <1>2, <1>4

(* One job that ends leaves all others, and maybe others like it.          *)
LEMMA BagLoses ==
  ASSUME NEW B, IsABag(B), NEW j
  PROVE  /\ IsABag(B (-) SetToBag({j}))
         /\ BagToSet(B) \ {j} \subseteq BagToSet(B (-) SetToBag({j}))
         /\ BagToSet(B (-) SetToBag({j})) \subseteq BagToSet(B)
<1> DEFINE T == SetToBag({j})
           D == [e \in DOMAIN B |-> IF e \in DOMAIN T THEN B[e] - T[e] ELSE B[e]]
           E == {d \in DOMAIN B : D[d] > 0}
<1>1. DOMAIN T = {j} /\ T[j] = 1
  BY DEF SetToBag
<1>2. B (-) T = [e \in E |-> D[e]]
  BY DEF (-)
<1>3. \A e \in DOMAIN B : D[e] = IF e = j THEN B[e] - 1 ELSE B[e]
  BY <1>1
<1>4. \A e \in DOMAIN B : B[e] \in Nat /\ B[e] > 0
  BY DEF IsABag
<1>5. DOMAIN B \ {j} \subseteq E /\ E \subseteq DOMAIN B
  <2> HIDE DEF D, T
  <2> QED
    BY <1>3, <1>4
<1>6. \A e \in E : D[e] \in {n \in Nat : n > 0}
  <2> HIDE DEF D, T
  <2> QED
    BY <1>3, <1>4
<1> HIDE DEF D, E, T
<1>7. IsABag(B (-) T) /\ BagToSet(B (-) T) = E
  BY <1>2, <1>6 DEF IsABag, BagToSet
<1> QED
  BY <1>5, <1>7 DEF BagToSet, T

(* An exchange that counts as watched has a job that watches it.           *)
Holds(e, x, J) ==
  /\ x \in Exchange
  /\ x.pending \subseteq Lists[e]
  /\ x.watching => \E j \in J : j.exchange = e /\ j.kind = "watch"

(* A load asks for what its exchange lists, but for what is tracked there. *)
ListedJob == {j \in Job : /\ j.symbols \subseteq j.asked
                          /\ j.asked \subseteq Lists[j.exchange]}

CcxtInv ==
  /\ state \in {"off", "on", "down"} /\ subs \in SUBSET Pairs
  /\ IsABag(jobs) /\ BagToSet(jobs) \subseteq ListedJob
  /\ ex \in [Exchanges -> Exchange]
  /\ \A e \in Exchanges : Holds(e, ex[e], BagToSet(jobs))

LEMMA CcxtInvMeans == CcxtInv => CcxtTypeOK /\ WatchedIsWatched
BY DEF CcxtInv, CcxtTypeOK, WatchedIsWatched, Holds, ListedJob, Running

(* What happens to one exchange and its jobs: no loop of another exchange  *)
(* ends.                                                                   *)
LEMMA OneExchange ==
  ASSUME CcxtInv, NEW e \in Exchanges, NEW x, NEW B,
         IsABag(B), BagToSet(B) \subseteq ListedJob, Holds(e, x, BagToSet(B)),
         \A j \in BagToSet(jobs) :
           j.exchange # e /\ j.kind = "watch" => j \in BagToSet(B),
         ex' = [ex EXCEPT ![e] = x], jobs' = B, UNCHANGED <<state, subs>>
  PROVE  CcxtInv'
<1>1. x \in Exchange /\ ex' \in [Exchanges -> Exchange]
  BY DEF CcxtInv, Holds
<1>2. ASSUME NEW f \in Exchanges PROVE Holds(f, ex'[f], BagToSet(B))
  <2>1. CASE f = e
    BY <2>1 DEF CcxtInv
  <2>2. CASE f # e
    <3>1. ex'[f] = ex[f] /\ Holds(f, ex[f], BagToSet(jobs))
      BY <2>2 DEF CcxtInv
    <3> QED
      BY <2>2, <3>1 DEF Holds
  <2> QED
    BY <2>1, <2>2
<1> QED
  BY <1>1, <1>2 DEF CcxtInv, Holds

(* Jobs that are added, with an exchange that they may start to watch.     *)
LEMMA JobsStart ==
  ASSUME CcxtInv, NEW e \in Exchanges, NEW x \in Exchange, x.pending \subseteq Lists[e],
         NEW B, IsABag(B), BagToSet(B) \subseteq BagToSet(jobs),
         \A j \in BagToSet(jobs) : j.kind = "watch" => j \in BagToSet(B),
         NEW S \in SUBSET ListedJob,
         x.watching => \/ ex[e].watching
                       \/ \E j \in S : j.exchange = e /\ j.kind = "watch",
         ex' = [ex EXCEPT ![e] = x], jobs' = B (+) SetToBag(S),
         UNCHANGED <<state, subs>>
  PROVE  CcxtInv'
<1>1. /\ IsABag(jobs') /\ BagToSet(jobs') = BagToSet(B) \cup S
  BY BagGains
<1>2. BagToSet(jobs') \subseteq ListedJob
  BY <1>1 DEF CcxtInv
<1>3. Holds(e, ex[e], BagToSet(jobs))
  BY DEF CcxtInv
<1>4. Holds(e, x, BagToSet(jobs'))
  BY <1>1, <1>3 DEF Holds
<1>5. \A j \in BagToSet(jobs) : j.exchange # e /\ j.kind = "watch" => j \in BagToSet(jobs')
  BY <1>1
<1> QED
  BY <1>1, <1>2, <1>4, <1>5, OneExchange

(* Jobs go on or end, and with the last loop the exchange is not watched.  *)
LEMMA JobsEnd ==
  ASSUME CcxtInv, NEW e \in Exchanges, NEW x \in Exchange, x.pending \subseteq Lists[e],
         NEW B, IsABag(B), BagToSet(B) \subseteq BagToSet(jobs),
         \A j \in BagToSet(jobs) :
           j.kind = "watch" /\ j.exchange # e => j \in BagToSet(B),
         x.watching => /\ ex[e].watching
                       /\ \A j \in BagToSet(jobs) : j.kind = "watch" => j \in BagToSet(B),
         ex' = [ex EXCEPT ![e] = x], jobs' = B, UNCHANGED <<state, subs>>
  PROVE  CcxtInv'
<1>1. Holds(e, ex[e], BagToSet(jobs)) /\ BagToSet(B) \subseteq ListedJob
  BY DEF CcxtInv
<1>2. Holds(e, x, BagToSet(B))
  BY <1>1 DEF Holds
<1> QED
  BY <1>1, <1>2, OneExchange

(* The fields that a step may set keep an exchange what it is.             *)
LEMMA ExchangeFields ==
  ASSUME NEW x \in Exchange
  PROVE  /\ \A K \in SUBSET Pairs :
              /\ [x EXCEPT !.pending = K] \in Exchange
              /\ [x EXCEPT !.lost = K] \in Exchange
              /\ [x EXCEPT !.tracked = K] \in Exchange
              /\ [x EXCEPT !.priced = K] \in Exchange
         /\ \A b \in BOOLEAN : /\ [x EXCEPT !.cooling = b] \in Exchange
                               /\ [x EXCEPT !.watching = b] \in Exchange
                               /\ [x EXCEPT !.present = b] \in Exchange
         /\ \A c \in {"closed", "open", "due"} : [x EXCEPT !.circuit = c] \in Exchange
         /\ x.pending \subseteq Pairs /\ x.lost \subseteq Pairs
         /\ x.tracked \subseteq Pairs /\ x.priced \subseteq Pairs
BY DEF Exchange

(* Circuits, instances and disconnects.                                    *)
LEMMA ExchangeSteps ==
  ASSUME NEW x \in Exchange
  PROVE  /\ Failed(x) \in Exchange /\ Restored(x) \in Exchange
         /\ Initialised(x) \in Exchange /\ Disconnected(x) \in Exchange
         /\ \A y \in {Failed(x), Restored(x), Initialised(x)} :
              y.watching = x.watching /\ y.pending = x.pending
         /\ Disconnected(x).watching = FALSE /\ Disconnected(x).pending = x.pending
         /\ Failed(x).lost = x.lost /\ Restored(x).lost = x.lost
<1>1. Restored(x) \in Exchange /\ Initialised(x) \in Exchange /\ Disconnected(x) \in Exchange
  BY DEF Restored, Initialised, Disconnected, Exchange
<1>2. Failed(x) \in Exchange
  <2>1. x.failures + 1 \in Nat
    BY DEF Exchange
  <2> QED
    BY <2>1 DEF Failed, Exchange
<1> QED
  BY <1>1, <1>2 DEF Restored, Initialised, Disconnected, Failed, Exchange

LEMMA CcxtInitInv == CcxtInit => CcxtInv
<1> SUFFICES ASSUME CcxtInit PROVE CcxtInv
  OBVIOUS
<1>1. IsABag(jobs) /\ BagToSet(jobs) = {}
  BY DEF CcxtInit, IsABag, EmptyBag, SetToBag, BagToSet
<1>2. \A e \in Exchanges :
        ex[e] \in Exchange /\ ex[e].pending = {} /\ ex[e].watching = FALSE
  BY DEF CcxtInit, Exchange
<1>3. ex \in [Exchanges -> Exchange]
  BY <1>2 DEF CcxtInit
<1> QED
  BY <1>1, <1>2, <1>3 DEF CcxtInit, CcxtInv, Holds

(* The calls of the adapter change no job: whoever connects or disconnects *)
(* ends the watching of all exchanges, and no other call ends or begins it.*)
LEMMA CallsKeepJobs ==
  ASSUME CcxtInv, jobs' = jobs, state' \in {"off", "on", "down"}, subs' \subseteq Pairs,
         NEW F, ex' = [e \in Exchanges |-> F[e]],
         \A e \in Exchanges : /\ F[e] \in Exchange /\ F[e].pending \subseteq Lists[e]
                              /\ F[e].watching => ex[e].watching
  PROVE  CcxtInv'
<1>1. \A e \in Exchanges : Holds(e, F[e], BagToSet(jobs))
  BY DEF CcxtInv, Holds
<1>2. ex' \in [Exchanges -> Exchange] /\ \A e \in Exchanges : ex'[e] = F[e]
  OBVIOUS
<1> QED
  BY <1>1, <1>2 DEF CcxtInv, Holds

LEMMA CallsInv ==
  ASSUME CcxtInv,
         \/ DoConnect \/ DoDisconnect \/ CcxtCleanup
         \/ \E K \in SUBSET Pairs \ {{}} : DoSubscribe(K) \/ DoUnsubscribe(K)
  PROVE  CcxtInv'
<1>1. \A e \in Exchanges : ex[e] \in Exchange /\ ex[e].pending \subseteq Lists[e]
  BY DEF CcxtInv, Holds
<1>2. subs \subseteq Pairs /\ state \in {"off", "on", "down"}
  BY DEF CcxtInv
<1>3. CASE DoConnect
  <2> DEFINE F == [e \in Exchanges |-> [Initialised(ex[e]) EXCEPT !.watching = FALSE]]
  <2>1. ASSUME NEW e \in Exchanges
        PROVE  /\ F[e] \in Exchange /\ F[e].pending \subseteq Lists[e]
               /\ F[e].watching = FALSE
    <3> DEFINE x == Initialised(ex[e])
    <3>1. x \in Exchange /\ x.pending \subseteq Lists[e]
      BY <1>1, ExchangeSteps
    <3>2. F[e] = [x EXCEPT !.watching = FALSE]
      OBVIOUS
    <3> HIDE DEF F, x
    <3> QED
      BY <3>1, <3>2 DEF Exchange
  <2>2. ex' = F
    BY <1>3 DEF DoConnect
  <2> HIDE DEF F
  <2>3. ex' = [e \in Exchanges |-> F[e]]
    BY <2>2 DEF F
  <2> QED
    BY <1>2, <1>3, <2>1, <2>3, CallsKeepJobs DEF DoConnect
<1>4. CASE DoDisconnect
  <2> DEFINE F == [e \in Exchanges |-> Disconnected(ex[e])]
  <2>1. \A e \in Exchanges :
          F[e] \in Exchange /\ F[e].pending \subseteq Lists[e] /\ F[e].watching = FALSE
    BY <1>1, ExchangeSteps
  <2>2. ex' = F
    BY <1>4 DEF DoDisconnect
  <2> HIDE DEF F
  <2>3. ex' = [e \in Exchanges |-> F[e]]
    BY <2>2 DEF F
  <2> QED
    BY <1>2, <1>4, <2>1, <2>3, CallsKeepJobs DEF DoDisconnect
<1>5. CASE CcxtCleanup
  <2> DEFINE G(e) == IF state = "on" THEN Disconnected(ex[e]) ELSE ex[e]
             F == [e \in Exchanges |-> [G(e) EXCEPT !.pending = {}, !.cooling = FALSE]]
  <2>1. ASSUME NEW e \in Exchanges
        PROVE  /\ F[e] \in Exchange /\ F[e].pending \subseteq Lists[e]
               /\ F[e].watching => ex[e].watching
    <3>1. G(e) \in Exchange /\ (G(e).watching => ex[e].watching)
      BY <1>1, ExchangeSteps
    <3>2. F[e] = [G(e) EXCEPT !.pending = {}, !.cooling = FALSE]
      OBVIOUS
    <3> HIDE DEF F, G
    <3> QED
      BY <3>1, <3>2 DEF Exchange
  <2>2. ex' = F
    BY <1>5 DEF CcxtCleanup
  <2> HIDE DEF F
  <2>3. ex' = [e \in Exchanges |-> F[e]]
    BY <2>2 DEF F
  <2> QED
    BY <1>2, <1>5, <2>1, <2>3, CallsKeepJobs DEF CcxtCleanup
<1>6. ASSUME NEW K \in SUBSET Pairs, DoSubscribe(K) PROVE CcxtInv'
  <2> DEFINE new == K \ subs
             F == [e \in Exchanges |-> [ex[e] EXCEPT !.pending = Batched(e, Grouped(e, new))]]
  <2>1. ASSUME NEW e \in Exchanges
        PROVE  /\ F[e] \in Exchange /\ F[e].pending \subseteq Lists[e]
               /\ F[e].watching => ex[e].watching
    <3>1. Batched(e, Grouped(e, new)) \in SUBSET Pairs
      BY <1>1, ExchangeFields DEF Batched, Grouped
    <3>2. Batched(e, Grouped(e, new)) \subseteq Lists[e]
      BY <1>1 DEF Batched, Grouped
    <3> HIDE DEF new
    <3> QED
      BY <1>1, <3>1, <3>2 DEF Exchange
  <2>2. ex' = F
    BY <1>6 DEF DoSubscribe
  <2> HIDE DEF F
  <2>3. ex' = [e \in Exchanges |-> F[e]]
    BY <2>2 DEF F
  <2> QED
    BY <1>2, <1>6, <2>1, <2>3, CallsKeepJobs DEF DoSubscribe
<1>7. ASSUME NEW K \in SUBSET Pairs, DoUnsubscribe(K) PROVE CcxtInv'
  <2> DEFINE F == [e \in Exchanges |-> [ex[e] EXCEPT !.tracked = @ \ (K \cap subs)]]
  <2>1. ASSUME NEW e \in Exchanges
        PROVE  /\ F[e] \in Exchange /\ F[e].pending \subseteq Lists[e]
               /\ F[e].watching => ex[e].watching
    BY <1>1 DEF Exchange
  <2>2. ex' = F
    BY <1>7 DEF DoUnsubscribe
  <2> HIDE DEF F
  <2>3. ex' = [e \in Exchanges |-> F[e]]
    BY <2>2 DEF F
  <2> QED
    BY <1>2, <1>7, <2>1, <2>3, CallsKeepJobs DEF DoUnsubscribe
<1> QED
  BY <1>3, <1>4, <1>5, <1>6, <1>7

(* Timers: a batch is dropped, or its pairs are asked for.                 *)
LEMMA TimersInv ==
  ASSUME CcxtInv, NEW e \in Exchanges,
         CircuitDue(e) \/ CooledDown(e) \/ BatchFires(e)
         \/ \E s \in Pairs : AskPrice(e, s)
  PROVE  CcxtInv'
<1>1. /\ ex \in [Exchanges -> Exchange] /\ ex[e] \in Exchange
      /\ ex[e].pending \subseteq Lists[e] /\ Lists[e] \subseteq Pairs
      /\ IsABag(jobs) /\ BagToSet(jobs) \subseteq ListedJob
  BY CcxtAssumption DEF CcxtInv, Holds
<1>2. ASSUME NEW x \in Exchange, x.pending \subseteq Lists[e],
             x.watching => ex[e].watching,
             ex' = [ex EXCEPT ![e] = x], UNCHANGED <<state, subs, jobs>>
      PROVE  CcxtInv'
  BY <1>1, <1>2, JobsEnd
<1>3. ASSUME NEW x \in Exchange, x.pending \subseteq Lists[e],
             x.watching => ex[e].watching, NEW j \in ListedJob,
             ex' = [ex EXCEPT ![e] = x], jobs' = jobs (+) SetToBag({j}),
             UNCHANGED <<state, subs>>
      PROVE  CcxtInv'
  <2>1. {j} \in SUBSET ListedJob
    OBVIOUS
  <2> QED
    BY <1>1, <1>3, <2>1, JobsStart
<1>4. CASE CircuitDue(e)
  <2> DEFINE x == [ex[e] EXCEPT !.circuit = "due"]
  <2>1. x \in Exchange /\ x.pending = ex[e].pending /\ x.watching = ex[e].watching
    BY <1>1 DEF Exchange
  <2>2. ex' = [ex EXCEPT ![e] = x]
    BY <1>1, <1>4 DEF CircuitDue
  <2> HIDE DEF x
  <2> QED
    BY <1>1, <1>2, <1>4, <2>1, <2>2 DEF CircuitDue
<1>5. CASE CooledDown(e)
  <2> DEFINE x == [ex[e] EXCEPT !.cooling = FALSE]
  <2>1. x \in Exchange /\ x.pending = ex[e].pending /\ x.watching = ex[e].watching
    BY <1>1 DEF Exchange
  <2>2. ex' = [ex EXCEPT ![e] = x]
    BY <1>1, <1>5 DEF CooledDown
  <2> HIDE DEF x
  <2> QED
    BY <1>1, <1>2, <1>5, <2>1, <2>2 DEF CooledDown
<1>6. CASE BatchFires(e)
  <2> DEFINE K == ex[e].pending
             x == IF ex[e].circuit = "due" THEN Restored(ex[e]) ELSE ex[e]
             new == K \ x.tracked
             y == [x EXCEPT !.pending = {}, !.cooling = TRUE]
             j == [exchange |-> e, kind |-> "load", symbols |-> new, asked |-> K]
  <2>1. x \in Exchange /\ x.watching = ex[e].watching
    BY <1>1, ExchangeSteps
  <2>2. \/ \E L \in SUBSET Pairs : Drops(e, x, L)
        \/ ex' = [ex EXCEPT ![e] = y] /\ jobs' = jobs (+) SetToBag({j})
    <3>1. K \in SUBSET Pairs /\ {} \in SUBSET Pairs
      BY <1>1
    <3>2. \/ Drops(e, x, K) \/ Drops(e, x, {})
          \/ ex' = [ex EXCEPT ![e] = y] /\ jobs' = jobs (+) SetToBag({j})
      BY <1>6 DEF BatchFires
    <3> QED
      BY <3>1, <3>2
  <2>3. UNCHANGED <<state, subs>>
    BY <1>6 DEF BatchFires
  <2>4. j \in ListedJob
    BY <1>1 DEF ListedJob, Job
  <2> HIDE DEF x, j, K
  <2>5. y \in Exchange /\ y.pending = {} /\ y.watching = ex[e].watching
    BY <2>1 DEF Exchange
  <2>6. ASSUME NEW L \in SUBSET Pairs, Drops(e, x, L) PROVE CcxtInv'
    <3> DEFINE z == [x EXCEPT !.pending = {}, !.lost = @ \cup L]
    <3>1. z \in Exchange /\ z.pending = {} /\ z.watching = ex[e].watching
      BY <2>1 DEF Exchange
    <3>2. ex' = [ex EXCEPT ![e] = z] /\ UNCHANGED jobs
      BY <2>6 DEF Drops
    <3> HIDE DEF z
    <3> QED
      BY <1>2, <2>3, <3>1, <3>2
  <2> HIDE DEF y
  <2> QED
    BY <1>3, <2>2, <2>3, <2>4, <2>5, <2>6
<1>7. ASSUME NEW s \in Pairs, AskPrice(e, s) PROVE CcxtInv'
  <2> DEFINE x == IF ex[e].present THEN ex[e] ELSE Initialised(ex[e])
  <2>1. /\ x \in Exchange /\ x.pending = ex[e].pending
        /\ x.watching = ex[e].watching
    BY <1>1, ExchangeSteps
  <2>2. AJob(e, "ticker", {s}) \in ListedJob
    BY <1>1, <1>7 DEF AskPrice, AJob, ListedJob, Job
  <2>3. /\ ex' = [ex EXCEPT ![e] = x] /\ UNCHANGED <<state, subs>>
        /\ jobs' = jobs (+) SetToBag({AJob(e, "ticker", {s})})
    BY <1>7 DEF AskPrice
  <2> HIDE DEF x
  <2> QED
    BY <1>1, <1>3, <2>1, <2>2, <2>3
<1> QED
  BY <1>4, <1>5, <1>6, <1>7

(* The loops and polls that a load starts: there is a chunk for every pair *)
(* it has found a market for, so that what is watched has a loop.          *)
LEMMA LoadsInv ==
  ASSUME CcxtInv, NEW j \in BagToSet(jobs), LoadSucceeds(j) \/ LoadFails(j)
  PROVE  CcxtInv'
<1> DEFINE e == j.exchange
           others == jobs (-) SetToBag({j})
<1>1. /\ j \in Job /\ e \in Exchanges /\ j.symbols \in SUBSET Pairs
      /\ j.asked \in SUBSET Pairs /\ j.symbols \subseteq Lists[e] /\ j.asked \subseteq Lists[e]
      /\ ex \in [Exchanges -> Exchange] /\ ex[e] \in Exchange
      /\ ex[e].pending \subseteq Lists[e] /\ Lists[e] \subseteq Pairs
      /\ IsABag(jobs) /\ BagToSet(jobs) \subseteq ListedJob
  BY CcxtAssumption DEF CcxtInv, Holds, ListedJob, Job
<1>2. j.kind = "load" /\ UNCHANGED <<state, subs>>
  BY DEF LoadSucceeds, LoadFails
<1>3. /\ IsABag(others) /\ BagToSet(others) \subseteq BagToSet(jobs)
      /\ \A i \in BagToSet(jobs) : i.kind = "watch" => i \in BagToSet(others)
  BY <1>1, <1>2, BagLoses
<1> HIDE DEF others
<1>4. ASSUME NEW x \in Exchange, x.pending \subseteq Lists[e],
             x.watching => ex[e].watching,
             ex' = [ex EXCEPT ![e] = x], jobs' = others
      PROVE  CcxtInv'
  BY <1>1, <1>2, <1>3, <1>4, JobsEnd
<1>5. ASSUME NEW x \in Exchange, x.pending \subseteq Lists[e],
             x.watching = ex[e].watching,
             NEW K \in SUBSET Pairs, K \subseteq Lists[e], PollingStarts(e, x, K, others)
      PROVE  CcxtInv'
  <2> DEFINE y == [x EXCEPT !.lost = @ \ K]
             z == [x EXCEPT !.lost = @ \cup K]
  <2>1. /\ y \in Exchange /\ y.pending = x.pending /\ y.watching = x.watching
        /\ z \in Exchange /\ z.pending = x.pending /\ z.watching = x.watching
    BY DEF Exchange
  <2>2. AJob(e, "poll", K) \in ListedJob
    BY <1>1, <1>5 DEF AJob, ListedJob, Job
  <2>3. \/ /\ ex' = [ex EXCEPT ![e] = y]
           /\ jobs' = others (+) SetToBag({AJob(e, "poll", K)})
        \/ ex' = [ex EXCEPT ![e] = z] /\ jobs' = others
    BY <1>5 DEF PollingStarts
  <2> HIDE DEF y, z
  <2>4. CASE ex' = [ex EXCEPT ![e] = z] /\ jobs' = others
    BY <1>4, <1>5, <2>1, <2>4
  <2>5. CASE /\ ex' = [ex EXCEPT ![e] = y]
             /\ jobs' = others (+) SetToBag({AJob(e, "poll", K)})
    <3>1. {AJob(e, "poll", K)} \in SUBSET ListedJob
      BY <2>2
    <3> QED
      BY <1>1, <1>2, <1>3, <1>5, <2>1, <2>5, <3>1, JobsStart
  <2> QED
    BY <2>3, <2>4, <2>5
<1>6. ASSUME NEW x \in Exchange, x.pending \subseteq Lists[e],
             NEW K \in SUBSET Pairs, K # {}, K \subseteq Lists[e],
             WatchingStarts(e, x, K, others)
      PROVE  CcxtInv'
  <2> DEFINE y == [x EXCEPT !.watching = TRUE, !.lost = @ \ K]
  <2>1. y \in Exchange /\ y.pending = x.pending
    BY DEF Exchange
  <2>2. PICK P \in Chunks(e, K) :
          /\ ex' = [ex EXCEPT ![e] = y]
          /\ jobs' = others (+) SetToBag({AJob(e, "watch", chunk) : chunk \in P})
    BY <1>6 DEF WatchingStarts
  <2> DEFINE S == {AJob(e, "watch", chunk) : chunk \in P}
  <2>3. UNION P = K /\ P # {}
    BY <1>6, <2>2 DEF Chunks
  <2>4. S \in SUBSET ListedJob
    <3>1. ASSUME NEW chunk \in P PROVE AJob(e, "watch", chunk) \in ListedJob
      <4>1. chunk \subseteq K
        BY <2>3
      <4> QED
        BY <1>1, <1>6, <4>1 DEF AJob, ListedJob, Job
    <3> QED
      BY <3>1
  <2>5. \E i \in S : i.exchange = e /\ i.kind = "watch"
    <3>1. PICK chunk \in P : TRUE
      BY <2>3
    <3>2. AJob(e, "watch", chunk) \in S
      BY <3>1
    <3> QED
      BY <3>2 DEF AJob
  <2> HIDE DEF y, S
  <2> QED
    BY <1>1, <1>2, <1>3, <1>6, <2>1, <2>2, <2>4, <2>5, JobsStart DEF S
<1>7. CASE LoadSucceeds(j)
  <2>1. PICK M \in SUBSET j.symbols :
          LET x == Restored([ex[e] EXCEPT
                     !.tracked = IF ex[e].tracks THEN @ \cup M ELSE @,
                     !.lost = @ \cup (j.symbols \ M)])
          IN  IF M = {}
              THEN /\ ex' = [ex EXCEPT ![e].lost = @ \cup j.symbols]
                   /\ jobs' = others
              ELSE IF e \in Batching \cup Single
                   THEN WatchingStarts(e, x, M, others)
                   ELSE PollingStarts(e, x, M, others)
    BY <1>7 DEF LoadSucceeds, others
  <2> DEFINE x == [ex[e] EXCEPT !.tracked = IF ex[e].tracks THEN @ \cup M ELSE @,
                                !.lost = @ \cup (j.symbols \ M)]
             y == [ex[e] EXCEPT !.lost = @ \cup j.symbols]
  <2>2. M \in SUBSET Pairs
    BY <1>1
  <2>3. /\ x \in Exchange /\ x.pending = ex[e].pending /\ x.watching = ex[e].watching
        /\ y \in Exchange /\ y.pending = ex[e].pending /\ y.watching = ex[e].watching
    BY <1>1, <2>2 DEF Exchange
  <2>4. CASE M = {}
    <3>1. ex' = [ex EXCEPT ![e] = y] /\ jobs' = others
      BY <1>1, <2>1, <2>4
    <3> HIDE DEF x, y
    <3> QED
      BY <1>1, <1>4, <2>3, <3>1
  <2>5. CASE M # {}
    <3>1. WatchingStarts(e, Restored(x), M, others) \/ PollingStarts(e, Restored(x), M, others)
      BY <2>1, <2>5
    <3> HIDE DEF x, y
    <3>2. /\ Restored(x) \in Exchange /\ Restored(x).pending = ex[e].pending
          /\ Restored(x).watching = ex[e].watching
      BY <2>3, ExchangeSteps
    <3>3. M \subseteq Lists[e]
      BY <1>1
    <3> QED
      BY <1>1, <1>5, <1>6, <2>2, <2>5, <3>1, <3>2, <3>3
  <2> QED
    BY <2>4, <2>5
<1>8. CASE LoadFails(j)
  <2> DEFINE x == Failed(ex[e])
             y == [x EXCEPT !.present = FALSE, !.lost = @ \cup j.asked]
  <2>1. x \in Exchange /\ x.pending = ex[e].pending /\ x.watching = ex[e].watching
    BY <1>1, ExchangeSteps
  <2>2. \/ ex' = [ex EXCEPT ![e] = y] /\ jobs' = others
        \/ PollingStarts(e, x, j.asked, others)
    BY <1>8 DEF LoadFails, others
  <2> HIDE DEF x
  <2>3. y \in Exchange /\ y.pending = x.pending /\ y.watching = x.watching
    BY <1>1, <2>1 DEF Exchange
  <2> HIDE DEF y
  <2> QED
    BY <1>1, <1>4, <1>5, <2>1, <2>2, <2>3
<1> QED
  BY <1>7, <1>8

(* A loop or a poll that goes on or ends; only one that finds its exchange *)
(* not watched, or marks it so, ends a loop.                               *)
LEMMA JobsInv ==
  ASSUME CcxtInv, NEW j \in BagToSet(jobs),
         WatchReturns(j) \/ SymbolReturns(j) \/ Polls(j) \/ TickerReturns(j)
         \/ WatchBreaks(j)
  PROVE  CcxtInv'
<1> DEFINE e == j.exchange
           others == jobs (-) SetToBag({j})
<1>1. /\ j \in Job /\ e \in Exchanges /\ j.symbols \in SUBSET Pairs
      /\ ex \in [Exchanges -> Exchange] /\ ex[e] \in Exchange
      /\ ex[e].pending \subseteq Lists[e] /\ Lists[e] \subseteq Pairs
      /\ IsABag(jobs) /\ BagToSet(jobs) \subseteq ListedJob
  BY CcxtAssumption DEF CcxtInv, Holds, ListedJob, Job
<1>2. UNCHANGED <<state, subs>>
  BY DEF WatchReturns, SymbolReturns, Polls, TickerReturns, WatchBreaks
<1>3. /\ IsABag(others) /\ BagToSet(others) \subseteq BagToSet(jobs)
      /\ BagToSet(jobs) \ {j} \subseteq BagToSet(others)
  BY <1>1, BagLoses
<1> HIDE DEF others
\* The job goes on.
<1>4. ASSUME NEW x \in Exchange, x.pending \subseteq Lists[e],
             x.watching = ex[e].watching, ex' = [ex EXCEPT ![e] = x], jobs' = jobs
      PROVE  CcxtInv'
  BY <1>1, <1>2, <1>4, JobsEnd
\* The job ends.
<1>5. ASSUME NEW x \in Exchange, x.pending \subseteq Lists[e],
             x.watching => ex[e].watching /\ j.kind # "watch",
             ex' = [ex EXCEPT ![e] = x], jobs' = others
      PROVE  CcxtInv'
  <2>1. \A i \in BagToSet(jobs) :
          i.kind = "watch" /\ i.exchange # e => i \in BagToSet(others)
    BY <1>3
  <2>2. j.kind # "watch" =>
          \A i \in BagToSet(jobs) : i.kind = "watch" => i \in BagToSet(others)
    BY <1>3
  <2> QED
    BY <1>1, <1>2, <1>3, <1>5, <2>1, <2>2, JobsEnd
<1>6. ASSUME NEW goesOn \in BOOLEAN, Prices(j, goesOn),
             j.kind = "watch" /\ ex[e].watching => goesOn
      PROVE  CcxtInv'
  <2>1. PICK K \in SUBSET j.symbols :
          /\ ex' = [ex EXCEPT ![e].priced = @ \cup K,
                              ![e].lost = IF goesOn THEN @ ELSE @ \cup j.symbols]
          /\ jobs' = IF goesOn THEN jobs ELSE others
    BY <1>6 DEF Prices, others
  <2> DEFINE x == [ex[e] EXCEPT !.priced = @ \cup K,
                                !.lost = IF goesOn THEN @ ELSE @ \cup j.symbols]
  <2>2. ex' = [ex EXCEPT ![e] = x]
    BY <1>1, <2>1
  <2>3. x \in Exchange /\ x.pending = ex[e].pending /\ x.watching = ex[e].watching
    <3>1. ex[e].priced \cup K \subseteq Pairs /\ ex[e].lost \cup j.symbols \subseteq Pairs
      BY <1>1, ExchangeFields
    <3> QED
      BY <1>1, <3>1 DEF Exchange
  <2> HIDE DEF x
  <2>4. CASE goesOn
    BY <1>1, <1>4, <2>1, <2>2, <2>3, <2>4
  <2>5. CASE ~goesOn
    <3>1. x.watching => ex[e].watching /\ j.kind # "watch"
      BY <1>6, <2>3, <2>5
    <3> QED
      BY <1>1, <1>5, <2>1, <2>2, <2>3, <2>5, <3>1
  <2> QED
    BY <2>4, <2>5
<1>7. CASE WatchReturns(j) \/ SymbolReturns(j)
  <2>1. Prices(j, ex[e].watching) /\ ex[e].watching \in BOOLEAN
    BY <1>1, <1>7 DEF WatchReturns, SymbolReturns, Exchange
  <2> QED
    BY <1>6, <2>1
<1>8. CASE Polls(j)
  <2>1. j.kind = "poll" /\ AnyWatched \in BOOLEAN
    BY <1>1, <1>8 DEF Polls, AnyWatched
  <2>2. PICK goesOn \in {TRUE, AnyWatched} : Prices(j, goesOn)
    BY <1>8 DEF Polls
  <2> QED
    BY <1>6, <2>1, <2>2
<1>9. CASE TickerReturns(j)
  <2>1. j.kind = "ticker"
    BY <1>9 DEF TickerReturns
  <2>2. PICK K \in SUBSET j.symbols :
          ex' = [ex EXCEPT ![e].priced = @ \cup K]
    BY <1>9 DEF TickerReturns
  <2> DEFINE x == [ex[e] EXCEPT !.priced = @ \cup K]
  <2>3. ex' = [ex EXCEPT ![e] = x] /\ jobs' = others
    BY <1>1, <1>9, <2>2 DEF TickerReturns, others
  <2>4. x \in Exchange /\ x.pending = ex[e].pending /\ x.watching = ex[e].watching
    BY <1>1 DEF Exchange
  <2> HIDE DEF x
  <2> QED
    BY <1>1, <1>5, <2>1, <2>3, <2>4
<1>10. CASE WatchBreaks(j)
  <2> DEFINE y == Failed(ex[e])
             x == [y EXCEPT !.watching = FALSE, !.lost = @ \cup j.symbols]
  <2>1. y \in Exchange /\ y.pending = ex[e].pending
    BY <1>1, ExchangeSteps
  <2>2. ex' = [ex EXCEPT ![e] = x] /\ jobs' = others
    BY <1>1, <1>10 DEF WatchBreaks, others
  <2> HIDE DEF y
  <2>3. x \in Exchange /\ x.pending = ex[e].pending /\ x.watching = FALSE
    BY <1>1, <2>1 DEF Exchange
  <2> HIDE DEF x
  <2> QED
    BY <1>1, <1>5, <2>2, <2>3
<1> QED
  BY <1>7, <1>8, <1>9, <1>10

LEMMA CcxtStepInv == CcxtInv /\ [CcxtNext]_ccxtvars => CcxtInv'
<1> SUFFICES ASSUME CcxtInv, [CcxtNext]_ccxtvars PROVE CcxtInv'
  OBVIOUS
<1>1. CASE UNCHANGED ccxtvars
  BY <1>1 DEF ccxtvars, CcxtInv, Holds
<1>2. ASSUME NEW j \in BagToSet(jobs), Returns(j) \/ Breaks(j) PROVE CcxtInv'
  BY <1>2, LoadsInv, JobsInv DEF Returns, Breaks
<1>3. ASSUME NEW e \in Exchanges,
             CircuitDue(e) \/ CooledDown(e) \/ BatchFires(e)
             \/ \E s \in Pairs : AskPrice(e, s)
      PROVE  CcxtInv'
  BY <1>3, TimersInv
<1> QED
  BY <1>1, <1>2, <1>3, CallsInv DEF CcxtNext

LEMMA CcxtInvHolds == CcxtSpec => []CcxtInv
BY CcxtInitInv, CcxtStepInv, PTL DEF CcxtSpec

(* Exchanges and jobs are of their types, and a symbol is only asked of an *)
(* exchange that lists it, also by loads that are under way over           *)
(* disconnects (groupSymbolsByExchange, subscribeToExchange).              *)
THEOREM CcxtTypeCorrect == CcxtSpec => []CcxtTypeOK
BY CcxtInvMeans, CcxtInvHolds, PTL

(* An exchange that counts as connected has a loop that watches it, for    *)
(* any exchanges, lists and batches: a flag that loops share is taken back *)
(* by the first that breaks, and a loop ends by itself only when it finds  *)
(* the flag taken back (isCcxtWebSocketConnected, watchTradesForSymbols,   *)
(* watchTradesForSymbol, startRestPolling).                                *)
THEOREM ConnectedIsWatched == CcxtSpec => []WatchedIsWatched
BY CcxtInvMeans, CcxtInvHolds, PTL
=============================================================================
