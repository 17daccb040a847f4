SPECIFICATION Spec
CONSTANTS
  Modulus32 = 4
  Modulus64 = 8
  CeilingQuarters = 3
  FloorQuarters = 1
  WrapInference = FALSE
  MaxGap = 2
  TimeLimit = 9
  LinkIds <- Ids
  Links <- ThreeGenerations
  Observations <- LateGenerations
  Registrations <- SecondGeneration
  Advances <- ThreeGenerations
  Documents <- StrictOnly
  Declarations <- ThreeKeys
  InitialDocument = "open"
  MaxPolicyGenerations = 2
  CompactAfter = 4
  MaxRecords = 4
  MaxPublished = 2
  MaxGenerationsPerLink = 2
  MaxLinks = 1
  MaxDeclarations = 2
  MaxDedupWindow = 1
  MaxStreamHistory = 2
  MaxGlobalHistory = 3
  MaxStreamsPerLink = 1
CONSTRAINT WithinHeld
CHECK_DEADLOCK FALSE
INVARIANTS RecoveryRestoresRegistries SupersededExactly AcceptedIsRecovered
PROPERTIES OperationsLeaveNoOrphans
