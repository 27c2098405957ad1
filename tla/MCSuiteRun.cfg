SPECIFICATION Spec
CONSTANTS
  Shas = {"a", "b"}
  ExactRefs = {"a", "b"}
  BranchRef = "main"
  HardStates = {"journal", "wal"}
  Committed = "a"
  MaxEdits = 1
  MaxMoves = 1
  Voters = {1, 2, 3}
  Suites <- MCSuites
  Measures <- MCMeasures
  Deviations <- MCDeviations
  Activity <- MCActivity
  Requests <- MCRequests
  MaxCommands = 2
  MaxKills = 1
  MaxFaults = 1
INVARIANTS
  ReceiptTruthful
  SelectionWhole
  PreparationRestores
  ArmsAsRequested
  DelayAsPlanned
  SuiteQualificationExact
  PositionsBalanced
  AssessmentExact
CHECK_DEADLOCK FALSE
