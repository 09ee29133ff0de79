SPECIFICATION Spec
CONSTANTS
  u1 = u1  t1 = t1  t2 = t2  t3 = t3  r1 = r1  r2 = r2  r3 = r3
  None = None
  Users = {u1}
  Tokens = {t1, t2, t3}
  Reqs = {r1, r2}
  MaxChanges = 2
SYMMETRY Symmetry
INVARIANTS IInv SingleUse SessionRolesConstant RoleRowsMatch OneSession OldSessionsOverlapped
CHECK_DEADLOCK FALSE
