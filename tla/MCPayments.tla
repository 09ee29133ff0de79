----------------------------- MODULE MCPayments -----------------------------
(* Instances of Payments for TLC. *)
EXTENDS Payments, TLC

CONSTANTS e1, s1, p1, p2, f1, f2, h1, h2

NoStaff == [e \in Events |-> None]

FairSpec == PSpec /\ PFair
=============================================================================
