SPECIFICATION ProgressFairSpec
CONSTANTS
  k1 = k1
  k2 = k2
  c1 = c1
  c2 = c2
  Absent = Absent
  n1 = n1
  n2 = n2
  n3 = n3
  n4 = n4
INVARIANTS
  ProgressTypeOK
  LeasedKeysTracked
  WatchSound
PROPERTIES
  LeasedKeysDeletedUnlessOrphaned
  EventuallySent
  ChangeFinishes
CHECK_DEADLOCK FALSE
