SPECIFICATION Spec
CONSTANTS
  Modulus32 = 4
  Modulus64 = 8
  CeilingQuarters = 3
  FloorQuarters = 1
  WrapInference = FALSE
  MaxGap = 2
  TimeLimit = 9
  LinkIds <- Ids
  Links <- OneGeneration
  Observations <- OneObservation
  Registrations <- Nothing
  Advances <- Nothing
  Documents <- OpenOnly
  Declarations <- Nothing
  InitialDocument = "open"
  MaxPolicyGenerations = 2
  CompactAfter = 0
  MaxRecords = 6
  MaxPublished = 4
  MaxGenerationsPerLink = 1
  MaxLinks = 1
  MaxDeclarations = 2
  MaxDedupWindow = 1
  MaxStreamHistory = 2
  MaxGlobalHistory = 3
  MaxStreamsPerLink = 1
CHECK_DEADLOCK FALSE
INVARIANT NothingSilentlyDropped
