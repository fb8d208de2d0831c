SPECIFICATION Spec
CONSTANTS
  Node = {n1, n2, n3}
  None = None
  Command = {cmd}
  Noop = Noop
  MaxTerm = 1
  MaxIndex = 2
  MaxLate = 2
  MaxCrash = 1
  MaxPreVote = 1
  MaxAppend = 4
SYMMETRY NodeSymmetry
CHECK_DEADLOCK FALSE
INVARIANTS
  MatchIndexSound
PROPERTIES
  CommittedStays
