SPECIFICATION Spec
CONSTANTS
  Node = {n1, n2, n3}
  None = None
  Command = {cmd}
  Noop = Noop
  MaxTerm = 3
  MaxIndex = 0
  MaxLate = 0
  MaxCrash = 0
  MaxPreVote = 3
  MaxAppend = 3
SYMMETRY NodeSymmetry
CONSTRAINT OneRound
CHECK_DEADLOCK FALSE
INVARIANTS
  StateMachineSafety
