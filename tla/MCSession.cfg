CONSTANTS
  a1 = a1
  a2 = a2
  NULL = NULL
  Addr <- MCAddr
  Prio <- MCPrio
  MallocMayFail = FALSE
  ForeignInText = FALSE
  Repeats = FALSE
  FinalChunk = TRUE
  Assertions = TRUE
  MaxDepth = 5
  MaxSkip = 1
  Backends <- BothBackends
  BufferMayFail = TRUE
  MaxPieces = 2
  MaxBuffers = 4
SPECIFICATION SessionSpec
INVARIANTS
  TextIsOwn
  BuffersBalanced
  OneBufferPerElement
