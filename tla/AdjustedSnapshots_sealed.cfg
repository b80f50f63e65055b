SPECIFICATION MCSpec
CONSTANTS
  MaxClients = 3
  MaxFaults = 1
  ReadOrder <- Reads
  LockOrder <- Locks
  Collections <- Late
  Founded <- Beginning
  Requests <- Calls
  NoDoc = nodoc
INVARIANTS
  FactorSetExact
  SnapshotPointInTime
  AnswersHold
PROPERTIES
  CallsAnswered
CHECK_DEADLOCK FALSE
