CONSTANTS
  a1 = a1
  a2 = a2
  NULL = NULL
  Addr <- MCAddr
  Prio <- MCPrio
  MallocMayFail = FALSE
  ForeignInText = FALSE
  Repeats = TRUE
  FinalChunk = TRUE
  Assertions = TRUE
  MaxDepth = 5
  MaxSkip = 2
  Backends <- Expat
  BufferMayFail = FALSE
  MaxPieces = 2
  MaxBuffers = 5
SPECIFICATION SessionSpec
INVARIANTS
  CollectsAfterSkip
