SPECIFICATION ClusterSpec
CONSTANTS
  Node = {n1, n2, n3}
  Extra = {n4}
  None = None
  Command = {cmd}
  Noop = Noop
  MaxTerm = 2
  MaxIndex = 2
  MaxLate = 0
  MaxCrash = 0
  MaxPreVote = 1
  MaxAppend = 2
  Reader = {r1}
SYMMETRY NodeSymmetry
CONSTRAINT Open
ACTION_CONSTRAINT Steps
INVARIANTS
  ClusterTypeOK
  CurrentWhenConfirmedAfterwards
  OneLeaderPerTerm
  CompleteUnlessThin
CHECK_DEADLOCK FALSE
