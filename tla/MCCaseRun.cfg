SPECIFICATION Spec
CONSTANTS
  Node = {1, 2, 3}
  SampleEvery = 2
  RetainedLimit = 2
  WindowBound = 8
  Modes <- MCModes
  Histories <- MCHistories
  Measurements <- MCMeasurements
  Coverage <- MCCoverage
  Busy = {1, 2}
  MaxCommit = 2
  MaxInline <- MCMaxInline
  MaxExits <- MCMaxExits
INVARIANTS
  QualificationExact
  SealedIsQuiet
  EveryExitSeals
  FaultReal
  TimelineExact
  ReclamationWithinTruth
  RecoveryReal
  CompletedCaseVerifies
PROPERTIES
  Terminates
