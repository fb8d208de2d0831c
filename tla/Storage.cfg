SPECIFICATION StorageSpec
CONSTANTS
  MaxKey = 2
  Value = {a}
  Tombstone = Tombstone
  Absent = Absent
  Corruption = Corruption
  MemLimit = 2
  NumLevels = 3
  Trigger = 2
  Ratio = 0
  Budgets <- MCBudgets
INVARIANTS
  StorageTypeOK
  ManifestSound
  ReadsCurrentUnlessRaced
  FileReadsAsWritten
  CoveredUnlessRewritten
  BackupFromLatest
  ReplaySound
PROPERTY
  ImplementsMap
CHECK_DEADLOCK FALSE
