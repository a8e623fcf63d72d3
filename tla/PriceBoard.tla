----------------------------- MODULE PriceBoard -----------------------------
(***************************************************************************)
(* What the price cache promises its callers: a board with the current     *)
(* price of each feed and its price in voting rounds.  Anything may be     *)
(* missing at any time, but what has just been put is there; the current   *)
(* price never goes back to an older one, and a new one takes the prices   *)
(* of the voting rounds of its feed off the board at the same time.        *)
(***************************************************************************)
EXTENDS Naturals

CONSTANTS
  Feeds, Rounds,
  Current,       \* in the place of a round
  Versions       \* of a price: numbers, higher is newer

VARIABLE board   \* from some of Keys to Versions

Keys == Feeds \X (Rounds \cup {Current})

(* A board that has lost what it shows for the keys but K.                 *)
OnlyFor(K) == [k \in K |-> board[k]]

With(K, key, version) ==
  [k \in K |-> IF k = key THEN version ELSE board[k]]

Init == board = [k \in {} |-> 0]

PutPrice(feed, version) ==
  /\ <<feed, Current>> \in DOMAIN board => board[<<feed, Current>>] <= version
  /\ \E K \in SUBSET {k \in DOMAIN board : k[1] # feed} :
       board' = With(K \cup {<<feed, Current>>}, <<feed, Current>>, version)

PutRound(feed, round, version) ==
  \E K \in SUBSET DOMAIN board :
    board' = With(K \cup {<<feed, round>>}, <<feed, round>>, version)

Lose == \E K \in SUBSET DOMAIN board : board' = OnlyFor(K)

Next ==
  \/ \E feed \in Feeds, version \in Versions :
       \/ PutPrice(feed, version)
       \/ \E round \in Rounds : PutRound(feed, round, version)
  \/ Lose

Spec == Init /\ [][Next]_board
=============================================================================
