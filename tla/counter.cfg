SPECIFICATION Spec
CONSTANTS
  Modulus32 = 4
  Modulus64 = 6
  CeilingQuarters = 3
  FloorQuarters = 1
  WrapInference = TRUE
  MaxGap = 2
  TimeLimit = 3
  DeviceWidths <- AnyWidth
  Malformed = TRUE
  Times <- Clock
  Steps <- ShortAndLong
  MaxTotal = 6
  MaxSeq = 2
  MaxLives = 1
  MaxInFlight = 2
CHECK_DEADLOCK FALSE
PROPERTIES DeltaExact RateHonest LateNeverRewinds
