SPECIFICATION StoreSpec
CONSTANTS
  Works = {w1, w2, w3, w4}
  QueueCapacity = 2
  MaxIndex = 2
  MaxVote = 1
  MaxCrashes = 2
SYMMETRY MCSymmetry
INVARIANTS AckedRecovered RecoveredWhole
CHECK_DEADLOCK FALSE
