----------------------------- MODULE RateLimiter -----------------------------
(***************************************************************************)
(* The two rate limiters of the API: the one of the global guard, which    *)
(* main.ts makes, and the one of the guard of FeedController and           *)
(* MetricsController.  A guard checks and records in one go, and the       *)
(* limiters share nothing, so the guards of a request are one step.        *)
(*                                                                         *)
(* Requests to /health, and all requests in development (NODE_ENV), pass   *)
(* the guards unseen and are left out: the limits are not theirs.          *)
(*                                                                         *)
(* Time is relative: a request that was recorded is known by its age.      *)
(***************************************************************************)
EXTENDS Naturals, FiniteSets

CONSTANTS
  Clients,
  GlobalLimit,       \* maxRequests of the global limiter
  ControllerLimit,   \* maxRequests of the controllers' limiter
  Window             \* windowMs, in ticks

ASSUME LimitAssumption == {GlobalLimit, ControllerLimit, Window} \subseteq Nat \ {0}

VARIABLE hits        \* [Limiters -> [Clients -> Client]]

Limiters == {"global", "controller"}
Limit == [global |-> GlobalLimit, controller |-> ControllerLimit]

\* Older requests are not told from none: cleanup forgets both.
Ages == 0 .. 2 * Window

\* Bound: refused requests beyond the limit do not add to those of their age.
Client == [known : BOOLEAN,
           admitted : [Ages -> Nat],      \* recorded as successful, by age
           refused : [Ages -> Nat]]       \* recorded as not successful

Nobody == [known |-> FALSE, admitted |-> [a \in Ages |-> 0],
           refused |-> [a \in Ages |-> 0]]

(* How many requests of these ages there are, of some counts by age.       *)
Number(counts, ages) == Cardinality(UNION {{a} \X (1 .. counts[a]) : a \in ages})

RateLimiterInit == hits = [l \in Limiters |-> [c \in Clients |-> Nobody]]

-----------------------------------------------------------------------------
Kept(counts, age) == [a \in Ages |-> IF a < age THEN counts[a] ELSE 0]
Younger(client, age) == [client EXCEPT !.admitted = Kept(@, age),
                                       !.refused = Kept(@, age)]

(* checkRateLimit makes the record and forgets what the window has left.   *)
Pruned(client) == [Younger(client, Window) EXCEPT !.known = TRUE]

HitsInWindow(client) ==
  LET pruned == Pruned(client)
  IN  Number(pruned.admitted, Ages) + Number(pruned.refused, Ages)

(* Mutant: off by one.                                                     *)
MutantBlocked(l, client) == HitsInWindow(client) > Limit[l]

Blocked(l, client) == HitsInWindow(client) >= Limit[l]

(* canActivate: recordRequest of a refused request counts like any other.  *)
Recorded(l, client) ==
  LET pruned == Pruned(client)
  IN  IF Blocked(l, client)
      THEN [pruned EXCEPT !.refused[0] = IF @ < Limit[l] THEN @ + 1 ELSE @]
      ELSE [pruned EXCEPT !.admitted[0] = @ + 1]

(* The guards a request of client c meets: ConfigController has the global *)
(* one, FeedController and MetricsController have both.                    *)
Guarded(c, kind) ==
  CASE kind = "config" -> [hits EXCEPT !["global"][c] = Recorded("global", @)]
    [] OTHER ->
         IF Blocked("global", hits["global"][c])
         THEN [hits EXCEPT !["global"][c] = Recorded("global", @)]
         ELSE [hits EXCEPT !["global"][c] = Recorded("global", @),
                           !["controller"][c] = Recorded("controller", @)]

Passes(c, kind) ==
  /\ ~Blocked("global", hits["global"][c])
  /\ kind = "config" \/ ~Blocked("controller", hits["controller"][c])

-----------------------------------------------------------------------------

(* cleanup, of one client: gone when its youngest request is older than    *)
(* two windows, or when it has none.                                       *)
Tidied(client) ==
  IF \A a \in Ages : client.admitted[a] + client.refused[a] = 0
  THEN Nobody ELSE Younger(client, 2 * Window)

RateLimiterCleanup(l) ==
  hits' = [hits EXCEPT ![l] = [c \in Clients |-> Tidied(@[c])]]

Older(counts) == [a \in Ages |-> IF a = 0 THEN 0 ELSE counts[a - 1]]

Aged == [l \in Limiters |-> [c \in Clients |->
          [hits[l][c] EXCEPT !.admitted = Older(@), !.refused = Older(@)]]]
=============================================================================
