CONSTANTS
  f1 = f1
  f2 = f2
  Flushers <- OneFlusher
  MaxQueueDepth = 2
  MaxRecoveryRecords = 3
  MaxOrdinal = 3
  Faults <- AllFaults
SPECIFICATION FairSpec
PROPERTIES RecoveryIsPrefix WaitsEnd
