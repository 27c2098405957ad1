SPECIFICATION Spec
CONSTANTS
  Inodes = {a, b, c}
  None = None
  MaxLog = 2
  PowerLossInGap = TRUE
SYMMETRY MCSymmetry
INVARIANT
  AckedSurvives
