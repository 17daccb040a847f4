SPECIFICATION FairSpec
CONSTANTS
  Processes <- TwoProcesses
  Commands <- MixedCommands
  MaxRevisionAttempts = 2
  Count = 2
  RequestSizes <- PolicySizes
  ReplySizes <- ReportSizes
  ClientLimit <- UnequalLimits
  ServerLimit = 2
  MaxConnections = 2
  MaxPolicyGenerations = 1
CHECK_DEADLOCK FALSE
INVARIANTS ExitZeroMeansDone EmitFailsForCause
PROPERTIES EveryCommandEnds
