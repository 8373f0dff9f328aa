SPECIFICATION FairSpec
CONSTANTS
  w1 = w1
  w2 = w2
  Workers = {w1, w2}
  Jobs = {1, 2}
  Entries = {1, 2, 3, 4}
  MaxAttempts = 2
  MaxWorkerRetries = 0
  BatchSize = 1
  Mismatch <- RollingUpgrade
  MaxFaults = 1
PROPERTIES EventuallySettled
