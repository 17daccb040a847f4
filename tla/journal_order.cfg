CONSTANTS
  f1 = f1
  f2 = f2
  Flushers <- TwoFlushers
  MaxQueueDepth = 2
  MaxRecoveryRecords = 9
  MaxOrdinal = 4
  Faults <- WriteAndSyncFaults
SPECIFICATION Spec
SYMMETRY FlusherSymmetry
INVARIANTS TypeOK FileOrder FlushedIsDurable CompactionOwnsFile NeverRefused
PROPERTY ImplementsDurableLog
