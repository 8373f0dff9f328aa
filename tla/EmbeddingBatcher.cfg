SPECIFICATION FairSpec
CONSTANTS
  c1 = c1
  c2 = c2
  c3 = c3
  c4 = c4
  c5 = c5
  Window = window
  Calls = {c1, c2, c3, c4, c5}
  Size <- Sizes
  Kind <- Kinds
  MaxTexts = 3
  MaxCancels = 1
INVARIANTS TypeOK OwnVectors BatchesBounded OneBatchPerRequest
PROPERTIES ResolvedOnce BatchesResolve
CHECK_DEADLOCK FALSE
