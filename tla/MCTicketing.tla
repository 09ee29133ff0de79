----------------------------- MODULE MCTicketing -----------------------------
(* Instances of Ticketing for TLC. *)
EXTENDS Ticketing, TLC

CONSTANTS s1, s2, e1, t1, t2, t3, r1, r2, r3

Symmetry == Permutations(Users) \cup Permutations(Tickets) \cup Permutations(Reqs)

\* One seat, sold before instant 1, check-in at 1..2.
OneSeat  == {[total |-> 1, starts |-> 1, ends |-> 2]}
\* One seat; without end_at the check-in window is the
\* instant of the start.
WithOrWithoutEnd == OneSeat \cup {[total |-> 1, starts |-> 1, ends |-> None]}

Keep == [total |-> None, status |-> None, starts |-> None, ends |-> None]

CancelEvent  == [Keep EXCEPT !.status = "cancelled"]
BringForward == [Keep EXCEPT !.starts = 0]
Grow         == [Keep EXCEPT !.total = 2]
Shrink       == [Keep EXCEPT !.total = 1]

CancelOnly        == {CancelEvent}
NoCapacityPatches == {CancelEvent, BringForward}
CapacityPatches   == {Grow, Shrink}
MorePatches       == CapacityPatches \cup {BringForward}

\* Two edits of an event from 1 to 3, each valid on its own.
LongEvent     == {[total |-> 1, starts |-> 1, ends |-> 3]}
WindowPatches == {[Keep EXCEPT !.starts = 2], [Keep EXCEPT !.ends = 2]}
=============================================================================
