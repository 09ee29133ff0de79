SPECIFICATION Spec
CONSTANTS
  s1 = s1  s2 = s2  e1 = e1  t1 = t1  t2 = t2  t3 = t3  r1 = r1  r2 = r2  r3 = r3
  None = None
  Users = {s1, s2}
  Events = {e1}
  Tickets = {t1, t2}
  Reqs = {r1, r2}
  NewEvents <- OneSeat
  Patches <- MorePatches
  MaxClock = 2
SYMMETRY Symmetry
INVARIANTS IInv OnePassPerStudent
PROPERTIES ImplementsLedger OnlyStalePutBreaksSeats RecountHeals
