SPECIFICATION Spec
CONSTANTS
  Corpus <- AllChunks
  Weight <- Weights
  RrfK = 60
  Multiplier = 1
  MinFetch = 2
  Nothing = Nothing
  Requests <- AllRequests
  Changing = {"logs", "code"}
  Limits <- Bounds
  MaxChanges = 2
INVARIANTS TypeOK EvidenceIsCurrent EvidencePacked AnswerSupported OneBranchSuffices
CHECK_DEADLOCK FALSE
