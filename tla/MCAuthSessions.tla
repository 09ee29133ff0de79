--------------------------- MODULE MCAuthSessions ---------------------------
(* Instances of AuthSessions for TLC. *)
EXTENDS AuthSessions, TLC

CONSTANTS u1, t1, t2, t3, r1, r2, r3

Symmetry == Permutations(Tokens) \cup Permutations(Reqs)
=============================================================================
