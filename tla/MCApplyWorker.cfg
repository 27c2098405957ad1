SPECIFICATION EndlessSpec
CONSTANTS
  Queries = {q1, q2}
  q1 = q1
  q2 = q2
  QueueEntries = 3
  BatchEntries = 2
  QueryLimit = 1
  SnapshotInterval = 2
  NodeId = 2
  CompletionPriority = TRUE
  MaxIndex = 4
INVARIANTS CursorOrder ChecksNeverFire QueryFresh
PROPERTIES OutcomesInOrder EverythingAnswered
