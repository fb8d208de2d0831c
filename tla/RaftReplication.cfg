SPECIFICATION Spec
CONSTANTS
  Node = {n1, n2, n3}
  None = None
  Command = {cmd}
  Noop = Noop
  MaxTerm = 2
  MaxIndex = 2
  MaxLate = 0
  MaxCrash = 0
  MaxPreVote = 2
  MaxAppend = 2
SYMMETRY NodeSymmetry
CHECK_DEADLOCK FALSE
INVARIANTS
  TypeOK
  LogMatching
  LeaderCompleteness
