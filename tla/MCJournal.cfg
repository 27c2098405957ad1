SPECIFICATION Spec
CONSTANTS
  Inodes = {a, b, c}
  None = None
  MaxLog = 3
  PowerLossInGap = FALSE
SYMMETRY MCSymmetry
INVARIANTS
  AckedSurvives
PROPERTY
  ImplementsDurableLog
