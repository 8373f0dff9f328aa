\* Runs, their messages and the checks before them: the plans of MCOperations
SPECIFICATION Spec
CONSTANTS
  r1 = r1  r2 = r2  r3 = r3  p1 = p1  p2 = p2  ops = ops  member = member
  Requests = {r1, r2, r3}
  Processes = {p1, p2}
  Users = {ops, member}
  Workers = {w1, w2}
  Limit = 1
  Window = 3
  Lifetime = 3
  MaxRetries = 1
  Plans <- MCPlans
INVARIANTS TypeOK RunCreation AdmittedBounded
PROPERTY RunSettles
CHECK_DEADLOCK FALSE
