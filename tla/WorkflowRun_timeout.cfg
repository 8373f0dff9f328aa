SPECIFICATION Spec
CONSTANTS
  Workers = {w1}
  Reviewers = {d1}
  Faults = {"timeout"}
  MaxFaults = 1
INVARIANTS AckedRunIsRecorded
CHECK_DEADLOCK FALSE
