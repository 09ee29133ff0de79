---------------------------- MODULE RateLimiter ----------------------------
(***************************************************************************)
(* The rate limiter in front of every handler.  A counter in Redis per       *)
(* client address and path starts with the first request and expires a       *)
(* window later, whatever comes in between; requests beyond the limit are     *)
(* answered 429.  Without Redis every request passes.                       *)
(***************************************************************************)
EXTENDS EventDesk, Functions

CONSTANTS
  Clients,   \* pairs of a client address and a path
  Limit,     \* RATE_LIMIT_REQUESTS, 120 in the code
  Window,    \* RATE_LIMIT_WINDOW_SECONDS, 60 in the code
  MaxBurst   \* bound of the requests of a client at one instant

ASSUME LimiterAssumption == {Limit, Window, MaxBurst} \subseteq Nat \ {0}

VARIABLES
  counter,  \* counter[k]: the value and the expiry of the key, the value 0 without a key
  turned,   \* clients whose last request is being answered 429
  counted,  \* counted[k][t]: runs of the script for k at t (history)
  passed,   \* passed[k][t]: requests of k that were let through at t (history)
  unchecked,\* unchecked[k][t]: those of them for which Redis gave no answer (history)
  restarts  \* restarts[t]: restarts of Redis at t (history)

rvars == <<counter, turned, counted, passed, unchecked, restarts>>

NoCounter == [value |-> 0, until |-> 0]

NoHits == [t \in 0 .. MaxNow |-> 0]

RInit ==
  /\ DeskInit
  /\ counter = [k \in Clients |-> NoCounter]
  /\ turned = {}
  /\ counted = [k \in Clients |-> NoHits]
  /\ passed = [k \in Clients |-> NoHits]
  /\ unchecked = [k \in Clients |-> NoHits]
  /\ restarts = NoHits

-----------------------------------------------------------------------------
\* Mutant: EXPIRE at every request.
ScriptSliding(k) ==
  counter' = [counter EXCEPT ![k] = [value |-> @.value + 1, until |-> now + Window]]

\* INCR, and EXPIRE when it made the key: a script, which Redis runs in one piece.
Script(k) ==
  counter' =
    IF counter[k].value = 0
    THEN [counter EXCEPT ![k] = [value |-> 1, until |-> now + Window]]
    ELSE [counter EXCEPT ![k].value = @ + 1]

\* Mutant: one request too many.
ExceedsLater(n) == n > Limit + 1

Exceeds(n) == n > Limit

\* A request comes and is counted, and passes or is turned away, ...
Hit(k) ==
  /\ k \notin turned
  /\ counted[k][now] < MaxBurst
  /\ Script(k)
  /\ counted' = [counted EXCEPT ![k][now] = @ + 1]
  /\ IF Exceeds(counter'[k].value)
     THEN turned' = turned \cup {k} /\ UNCHANGED passed
     ELSE passed' = [passed EXCEPT ![k][now] = @ + 1] /\ UNCHANGED turned
  /\ UNCHANGED <<unchecked, restarts, desk>>

\* ... or Redis gives no answer, whether the script ran or not.  Then the client
\* library sends the script again, which is another Hit or another failure, or it
\* gives up, and the request passes.
HitUnanswered(k) ==
  /\ counted[k][now] < MaxBurst
  /\ Fault
  /\ \/ Script(k) /\ counted' = [counted EXCEPT ![k][now] = @ + 1]
     \/ UNCHANGED <<counter, counted>>
  /\ \/ UNCHANGED <<passed, unchecked>>
     \/ /\ passed' = [passed EXCEPT ![k][now] = @ + 1]
        /\ unchecked' = [unchecked EXCEPT ![k][now] = @ + 1]
  /\ UNCHANGED <<turned, restarts, now, lvars>>

\* TTL of the key, which may have expired or be a new one, and 429.
TurnAway(k) ==
  /\ k \in turned
  /\ turned' = turned \ {k}
  /\ UNCHANGED <<counter, counted, passed, unchecked, restarts, desk>>

\* Redis restarts without its keys.
RedisRestart ==
  /\ Fault
  /\ counter' = [k \in Clients |-> NoCounter]
  /\ restarts' = [restarts EXCEPT ![now] = @ + 1]
  /\ UNCHANGED <<turned, counted, passed, unchecked, now, lvars>>

\* Time passes, and keys expire.
Expiry ==
  /\ Tick
  /\ counter' = [k \in Clients |-> IF counter[k].until > now' THEN counter[k] ELSE NoCounter]
  /\ UNCHANGED <<turned, counted, passed, unchecked, restarts, faults, lvars>>

RNext ==
  \/ \E k \in Clients : Hit(k) \/ HitUnanswered(k) \/ TurnAway(k)
  \/ RedisRestart
  \/ Expiry

RSpec == RInit /\ [][RNext]_<<desk, rvars>>

-----------------------------------------------------------------------------
LimiterTypeOK ==
  /\ counter \in [Clients -> [value : Nat, until : Nat]]
  /\ turned \subseteq Clients
  /\ counted \in [Clients -> [0 .. MaxNow -> Nat]]
  /\ passed \in [Clients -> [0 .. MaxNow -> Nat]]
  /\ unchecked \in [Clients -> [0 .. MaxNow -> Nat]]
  /\ restarts \in [0 .. MaxNow -> Nat]

\* The instants of the window that ends with t.
Span(t) == {u \in 0 .. MaxNow : u <= t /\ t < u + Window}

Within(hits, t) == FoldFunctionOnSet(LAMBDA a, b : a + b, 0, hits, Span(t))

\* No window of time, wherever it begins, lets through twice the limit: the counter
\* may start anew in the midst of it, but with one request before.  Each restart of
\* Redis in the window adds the limit once, and each request that Redis did not
\* answer for passes beyond it.  And a client is turned away only after more runs of
\* the script than the limit, its own and for the same path, in the window that ends
\* now: one that keeps to the limit never is, unless its requests were sent twice.
LimitKept ==
  [][\A k \in Clients :
       /\ passed'[k] # passed[k] =>
            Within(passed'[k], now)
              < (2 + Within(restarts, now)) * Limit + Within(unchecked'[k], now)
       /\ k \in turned' \ turned => Within(counted'[k], now) > Limit]_<<desk, rvars>>

\* "Max requests per window (Redis sliding use)." (README.md, RATE_LIMIT_REQUESTS):
\* no window of time, wherever it begins, lets through more than the limit.
SlidingLimit == \A k \in Clients : Within(passed[k], now) <= Limit
=============================================================================
