SPECIFICATION Spec
CONSTANTS
  Modulus32 = 4
  Modulus64 = 8
  CeilingQuarters = 3
  FloorQuarters = 1
  WrapInference = FALSE
  MaxGap = 2
  TimeLimit = 9
  Links <- OneLink
  Streams <- TwoStreams
  Values <- TwoValues
  MaxSeq = 4
  MaxDedupWindow = 2
  MaxStreamHistory = 2
  MaxGlobalHistory = 3
  MaxStreamsPerLink = 1
CHECK_DEADLOCK FALSE
INVARIANTS ReplaysFencedButAtEdge NewestFed SnapshotKeepsDecisions
