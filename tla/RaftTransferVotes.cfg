SPECIFICATION TransferSpec
CONSTANTS
  Node = {n1, n2, n3}
  None = None
  Command = {cmd, joint, final}
  Joint = joint
  Final = final
  Noop = Noop
  MaxTerm = 3
  MaxIndex = 0
  MaxLate = 0
  MaxCrash = 0
  MaxPreVote = 2
  MaxAppend = 1
  MaxTransfer = 1
SYMMETRY NodeSymmetry
CHECK_DEADLOCK FALSE
INVARIANT WonRealElection
