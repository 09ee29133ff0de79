SPECIFICATION QueueSpec
CONSTANTS
  n1 = n1  n2 = n2  w1 = w1  w2 = w2
  None = None
  Notes = {n1}
  Workers = {w1}
  BatchSize = 1
  Faults = {"stop"}
  Modes = {"failing"}
PROPERTIES EveryMailed
CHECK_DEADLOCK FALSE
