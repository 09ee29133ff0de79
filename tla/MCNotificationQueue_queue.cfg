SPECIFICATION QueueSpec
CONSTANTS
  n1 = n1  n2 = n2  w1 = w1  w2 = w2
  None = None
  Notes = {n1, n2}
  Workers = {w1, w2}
  BatchSize = 2
  Faults = {"stop", "claim", "mark"}
  Modes = {"reliable", "failing"}
INVARIANTS IInv OneWorkerPerRow TriesCounted
PROPERTIES ConfirmedIsLast SettlesWhenReliable
CHECK_DEADLOCK FALSE
