SPECIFICATION Spec
CONSTANTS
  r1 = r1
  r2 = r2
  r3 = r3
  r4 = r4
  Requests = {r1, r2, r3, r4}
  Workloads <- Mixed
  Capacity = 4
  BatchSize = 2
  MaxSpeculative = 1
  Backlog = 2
  MaxLog = 2
INVARIANTS PeerReserve
