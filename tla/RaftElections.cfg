SPECIFICATION Spec
CONSTANTS
  Node = {n1, n2, n3}
  None = None
  Command = {cmd}
  Noop = Noop
  MaxTerm = 2
  MaxIndex = 0
  MaxLate = 1
  MaxCrash = 1
  MaxPreVote = 2
  MaxAppend = 1
SYMMETRY NodeSymmetry
CHECK_DEADLOCK FALSE
INVARIANTS
  ElectionSafety
  LeaderIdIsElected
PROPERTIES
  LeaderAppendOnly
