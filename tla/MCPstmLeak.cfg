CONSTANTS
  a1 = a1
  a2 = a2
  a3 = a3
  a4 = a4
  NULL = NULL
  Addr <- TwoAddr
  Prio <- MCPrio
  MallocMayFail = FALSE
  ForeignInText = FALSE
  Repeats = FALSE
  FinalChunk = TRUE
  Assertions = TRUE
  MaxDepth = 6
  MaxSkip = 2
SPECIFICATION Spec
INVARIANTS
  NothingLeaks
