SPECIFICATION Spec
CONSTANTS
  w1 = w1
  w2 = w2
  Workers = {w1, w2}
  Jobs = {1}
  Entries = {1, 2, 3, 4, 5}
  MaxAttempts = 2
  MaxWorkerRetries = 1
  BatchSize = 1
  Mismatch <- RollingUpgrade
  MaxFaults = 3
INVARIANTS TypeOK NoStrandedJob LocksMatchOwners
PROPERTIES OnlyTheOwnerWrites SettledRowsStay ImplementsLifecycle
