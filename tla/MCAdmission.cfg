SPECIFICATION FairSpec
CONSTANTS
  r1 = r1
  r2 = r2
  r3 = r3
  r4 = r4
  Requests = {r1, r2, r3}
  Workloads <- Conflicts
  Capacity = 2
  BatchSize = 2
  MaxSpeculative = 1
  Backlog = 2
  MaxLog = 3
INVARIANTS AppliedTruthful RefusedNeverProposed PendingExact
PROPERTY PendingReleased
