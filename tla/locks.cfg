SPECIFICATION Spec
CONSTANTS
  Threads = {t1, t2, t3}
  Locks = {l1, l2, l3}
  MaxHeldPerThread = 2
  MaxEdges = 3
  MaxDepth = 1
  MaxNesting = 3
  MaxViolations = 1
  MaxDropped = 1
  MaxUnlisted = 1
SYMMETRY Interchangeable
CHECK_DEADLOCK FALSE
INVARIANTS DeadlockIsReported NoFalseAlarm
