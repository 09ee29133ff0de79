------------------------------ MODULE SeatLedger ------------------------------
(***************************************************************************)
(* What the ticket office promises, without locks, transactions or time:   *)
(* every operation on the seats of an event happens at one instant.        *)
(* A pass is sold only while the counter shows a free seat and to a        *)
(* student without a pass for the event; a pass given back or used makes   *)
(* the counter agree with the passes again.                                *)
(***************************************************************************)
EXTENDS Integers, FiniteSets

CONSTANTS Students, Events, Passes, None,
          Sizes   \* the numbers of seats an event may have

VARIABLES
  phase,     \* phase[e]: "none" before the event is announced, "open", then "closed"
  total,     \* total[e]: seats of the event
  avail,     \* avail[e]: the counter of free seats the system shows
  held,      \* held[e]: the passes that hold a seat
  owner,     \* owner[p]: who holds pass p, None when nobody does
  admitted   \* the passes that were used at the door and still count

lvars == <<phase, total, avail, held, owner, admitted>>

Left(n, k) == IF n >= k THEN n - k ELSE 0

LInit ==
  /\ phase = [e \in Events |-> "none"]
  /\ total = [e \in Events |-> 0]
  /\ avail = [e \in Events |-> 0]
  /\ held = [e \in Events |-> {}]
  /\ owner = [p \in Passes |-> None]
  /\ admitted = {}

Announce(e, n) ==
  /\ phase[e] = "none"
  /\ phase' = [phase EXCEPT ![e] = "open"]
  /\ total' = [total EXCEPT ![e] = n]
  /\ avail' = [avail EXCEPT ![e] = n]
  /\ UNCHANGED <<held, owner, admitted>>

Sell(e, s, p) ==
  /\ phase[e] = "open"
  /\ avail[e] > 0
  /\ owner[p] = None
  /\ \A q \in held[e] : owner[q] # s
  /\ held' = [held EXCEPT ![e] = @ \cup {p}]
  /\ owner' = [owner EXCEPT ![p] = s]
  /\ avail' = [avail EXCEPT ![e] = @ - 1]
  /\ UNCHANGED <<phase, total, admitted>>

\* A pass that was used cannot be given back.
Return(e, p) ==
  /\ p \in held[e] \ admitted
  /\ held' = [held EXCEPT ![e] = @ \ {p}]
  /\ owner' = [owner EXCEPT ![p] = None]
  /\ avail' = [avail EXCEPT ![e] = Left(total[e], Cardinality(held[e] \ {p}))]
  /\ UNCHANGED <<phase, total, admitted>>

\* A pass is admitted once.
Admit(e, p) ==
  /\ p \in held[e] \ admitted
  /\ admitted' = admitted \cup {p}
  /\ avail' = [avail EXCEPT ![e] = Left(total[e], Cardinality(held[e]))]
  /\ UNCHANGED <<phase, total, held, owner>>

\* The one operation whose counter the code does not get exact when it overlaps
\* another: all that is promised is a number of seats the event has.
Resize(e, n) ==
  /\ phase[e] = "open"
  /\ total' = [total EXCEPT ![e] = n]
  /\ \E k \in 0 .. n : avail' = [avail EXCEPT ![e] = k]
  /\ UNCHANGED <<phase, held, owner, admitted>>

\* The event goes, and all its passes with it.
Close(e) ==
  /\ phase[e] = "open"
  /\ phase' = [phase EXCEPT ![e] = "closed"]
  /\ held' = [held EXCEPT ![e] = {}]
  /\ owner' = [p \in Passes |-> IF p \in held[e] THEN None ELSE owner[p]]
  /\ admitted' = admitted \ held[e]
  /\ UNCHANGED <<total, avail>>

LNext ==
  \E e \in Events :
    \/ \E n \in Sizes : Announce(e, n) \/ Resize(e, n)
    \/ Close(e)
    \/ \E p \in Passes : Return(e, p) \/ Admit(e, p)
    \/ \E s \in Students, p \in Passes : Sell(e, s, p)

LSpec == LInit /\ [][LNext]_lvars
=============================================================================
