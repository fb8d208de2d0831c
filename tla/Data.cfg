SPECIFICATION DataSpec
CONSTANTS
  Key <- SomeKeys
  Value <- OneValue
  Absent = Absent
  Ttl = {0, 1}
  Limits = {2, 3}
  MaxWrites = 3
  MaxPasses = 2
  MaxRestarts = 1
  MaxDropped = 0
  t1 = t1
  t2 = t2
  n1 = n1
  n2 = n2
  n3 = n3
  None = None
CONSTRAINT Unraced
INVARIANTS
  DataTypeOK
  StoreReadsLatest
  RetainedReads
  SerializableUnlessRaced
  CommitAppliesInOrder
  RepeatedOnlyIfLost
  CalmIsServedUnlessRefused
CHECK_DEADLOCK FALSE
