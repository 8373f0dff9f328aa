SPECIFICATION Spec
CONSTANTS
  x1 = x1
  x2 = x2
  x3 = x3
  old = old
  new = new
  Hash <- Hashes
  None = none
  Purge = purge
  MaxTries = 2
  Jobs = {x1}
INVARIANTS PurgeRemovesEvidence
CHECK_DEADLOCK FALSE
