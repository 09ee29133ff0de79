----------------------------- MODULE EventDesk -----------------------------
(***************************************************************************)
(* What the components around the ticket office share: the events, whose    *)
(* rows other tables point at, the people who edit them, the clock and the  *)
(* faults of the environment.                                               *)
(***************************************************************************)
EXTENDS SeatLedger

CONSTANTS
  Staff,      \* users who create, edit and moderate events
  Owner,      \* Owner[e]: organizer_id of event e, which no statement changes; None
              \* for the events of the seed data
  MaxFaults,  \* bound of the faults of a behaviour
  MaxNow,     \* bound of the clock
  RequestTime \* the deadline of a request, 25 seconds in the code

ASSUME DeskAssumption ==
  /\ MaxFaults \in Nat /\ MaxNow \in Nat /\ RequestTime \in Nat
  /\ None \notin Events \cup Staff \cup Students \cup Passes
  /\ Owner \in [Events -> Staff \cup {None}]

VARIABLES
  faults,  \* handlers cut off, statements failed, answers lost, restarts so far
  now      \* the clock

desk == <<lvars, faults, now>>

DeskInit == LInit /\ faults = 0 /\ now = 0

Exists(e) == phase[e] = "open"

Fault == faults < MaxFaults /\ faults' = faults + 1

\* A PUT of the capacity that overlaps nothing: the components that do not look at
\* the counter need no other one.
Recount(e, n) == Resize(e, n) /\ avail'[e] = Left(n, Cardinality(held[e]))

Tick == now < MaxNow /\ now' = now + 1
=============================================================================
