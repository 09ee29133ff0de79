SPECIFICATION FairSpec
CONSTANTS
  e1 = e1  s1 = s1  p1 = p1  p2 = p2  f1 = f1  f2 = f2  h1 = h1  h2 = h2
  None = None
  Students = {s1}
  Events = {e1}
  Passes = {p1, p2}
  Sizes = {1}
  Staff = {}
  Owner <- NoStaff
  MaxFaults = 1
  MaxNow = 0
  RequestTime = 0
  Refs = {f1}
  Hooks = {h1, h2}
  Reports = {"succeeded", "failed", "other"}
INVARIANTS AnsweredReleases OutcomeRecorded
PROPERTIES GoodReportsKeepSeats FailureReleases
CHECK_DEADLOCK FALSE
