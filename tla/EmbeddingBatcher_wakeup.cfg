SPECIFICATION FairSpec
CONSTANTS
  c1 = c1
  c2 = c2
  c3 = c3
  c4 = c4
  c5 = c5
  Window = window
  Calls = {c1, c2}
  Size <- Singles
  Kind <- Passages
  MaxTexts = 3
  MaxCancels = 0
PROPERTIES EveryCallAnswered
CHECK_DEADLOCK FALSE
