SPECIFICATION Spec
CONSTANTS
  WindowSize = 2
  ErrorClusterMin = 2
  ErrorClusterMax = 2
  KeyLimit = 2
  PathLimit = 2
  MaxChunkTokens = 200
  OverlapTokens = 50
  MaxChunks = 3
  MaxBatch = 2
  None = none
  Earlier <- Stored
  Documents <- AllDocuments
INVARIANTS TypeOK EveryDocumentCounted PiecesWithinLimits TextIsSearchable
CHECK_DEADLOCK FALSE
