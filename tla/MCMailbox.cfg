SPECIFICATION FairSpec
CONSTANTS
  MaxInputs = 6
  BatchSize = 2
  PeerBatchSize = 2
  MaxSpeculative = 1
  Modes = {"combine", "priority"}
INVARIANTS NothingLost ArrivalOrder OvertakesBounded
PROPERTY EveryInputTaken
