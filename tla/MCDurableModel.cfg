SPECIFICATION Spec
CONSTANTS
  a = a
  b = b
  c1 = c1
  c2 = c2
  k = k
  v1 = v1
  v2 = v2
  NoValue = NoValue
  Noop = Noop
  Clients = {c1, c2}
  Keys = {k}
  Replicas = {a, b}
  Commands <- MCCommands
  FirstIndex = 0
  MaxLog = 3
SYMMETRY MCSymmetry
INVARIANTS
  ReplicaMatchesLog
  AnswersMatchLog
  JournalRebuildsState
