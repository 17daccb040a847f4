SPECIFICATION Spec
CONSTANTS
  Modulus32 = 4
  Modulus64 = 8
  CeilingQuarters = 3
  FloorQuarters = 1
  WrapInference = FALSE
  MaxGap = 2
  TimeLimit = 9
  Links <- TheLinks
  MaxDedupWindow = 4
  MaxStreamHistory = 4
  MaxGlobalHistory = 9
  MaxStreamsPerLink = 9
  Link <- TheLink
  Metrics <- TwoMetrics
  Counters <- TheCounter
  Sources <- TwoSources
  Rules <- TheRules
  DefaultValidity = 1
  MinRateInterval = 1
  Severity <- DefaultSeverity
  ConflictingDominates = TRUE
  Observations <- TheObservations
  Declarations <- ThreeDeclarations
  FirstDeclared <- AllDeclared
  MaxNow = 3
  MaxEpoch = 2
  MaxArrivals = 3
  MaxRevisions = 1
  MaxEntries = 2
  MaxEvidencePerMetric = 2
  MaxClaimants = 2
CHECK_DEADLOCK FALSE
INVARIANTS
  ClaimsRestOnFreshEvidence
  DisagreementSurfaces
  HealthyLinkHidesNoLane
  LowerAuthorityChangesNothing
  AsOfAnswersHistory
  InspectionHidesNothing
