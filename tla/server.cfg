SPECIFICATION FairSpec
CONSTANTS
  Peers <- TwoPeers
  Frames <- EveryFrame
  MaxConnections = 1
  MaxRequests = 1
  MaxStarts = 1
  MaxFaults = 1
CHECK_DEADLOCK FALSE
INVARIANTS ConnectionsAccounted ClosedWithReason
PROPERTIES StopReturns EveryFrameAnswered AcknowledgedShutdownStops
