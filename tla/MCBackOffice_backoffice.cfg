SPECIFICATION BackOfficeSpec
CONSTANTS
  s1 = s1  s2 = s2  e1 = e1  p1 = p1  p2 = p2  m1 = m1  m2 = m2
  o1 = o1  o2 = o2  o3 = o3  u1 = u1  u2 = u2  d1 = d1  d2 = d2  d3 = d3
  x1 = x1  x2 = x2  x3 = x3  k1 = k1  c1 = c1  q1 = q1  a1 = a1  h1 = h1  h2 = h2
  None = None
  Workloads = {"covers", "moderation", "lists", "rights", "statistics", "limiter", "process"}
  Students = {s1, s2}
  Events = {e1}
  Passes = {p1, p2}
  Sizes = {1, 2}
  Staff = {m1, m2}
  Owner <- Organizers
  MaxFaults = 1
  MaxNow = 3
  RequestTime = 1
  Objects = {o1, o2, o3}
  Posters = {o1}
  Uploads = {u1, u2}
  Decisions = {d1, d2, d3}
  Rows = {x1, x2, x3}
  Keys = {1, 2}
  Limits = {0}
  DefaultLimit = 1
  AccessTokens = {k1}
  Calls = {c1}
  AccessTTL = 1
  Asks <- Questions
  Queries = {q1}
  CacheTTL = 1
  LastAsk = 2
  Clients = {a1}
  Limit = 2
  Window = 2
  MaxBurst = 4
  Requests = {h1, h2}
  DrainTime = 2
INVARIANTS BackOfficeTypeOK UploadedCoversAreThere GarbageExplained TrailComplete NewestRowRules AnswersAreFresh AnswersAreOwn FiguresAgree ClientsOutliveRequests
PROPERTIES PassExplained OnlyEntitledChange LimitKept
CHECK_DEADLOCK FALSE
