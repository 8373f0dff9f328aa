SPECIFICATION Spec
CONSTANTS
  s1 = s1
  Syncs = {s1}
  Jobs = {j1, j2}
  SyncOf <- FirstSync
  Requests = {r1, r2}
  MaxErrors = 2
INVARIANTS TypeOK ReportIsCurrent IndexingSettles ErrorsAreKept
SYMMETRY Symmetry
CONSTRAINT FewErrors
CHECK_DEADLOCK FALSE
