SPECIFICATION FairSpec
CONSTANTS
  Workers = {w1, w2}
  Reviewers = {d1, d2}
  Faults = {"api_crash", "enqueue_error", "slow", "worker_crash", "timeout", "database"}
  MaxFaults = 3
INVARIANTS TypeOK OnePendingApproval OneDraft AwaitingHasApproval
PROPERTIES NotReopened RunEnds
CHECK_DEADLOCK FALSE
