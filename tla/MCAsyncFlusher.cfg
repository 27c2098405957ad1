SPECIFICATION FairSpec
CONSTANTS
  Works = {w1, w2, w3, w4}
  QueueCapacity = 2
INVARIANTS NoWorkStranded PendingExact
PROPERTIES EveryCompletionRuns
CHECK_DEADLOCK FALSE
