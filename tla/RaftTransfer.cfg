SPECIFICATION TransferSpec
CONSTANTS
  Node = {n1, n2, n3}
  None = None
  Command = {cmd, joint, final}
  Joint = joint
  Final = final
  Noop = Noop
  MaxTerm = 2
  MaxIndex = 3
  MaxLate = 1
  MaxCrash = 1
  MaxPreVote = 1
  MaxAppend = 2
  MaxTransfer = 1
CONSTRAINT ShortLogs
SYMMETRY NodeSymmetry
CHECK_DEADLOCK FALSE
INVARIANTS
  TargetHoldsLog
