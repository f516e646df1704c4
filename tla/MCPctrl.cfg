CONSTANTS
  a1 = a1
  a2 = a2
  a3 = a3
  a4 = a4
  NULL = NULL
  Addr <- MCAddr
  Prio <- MCPrio
  MallocMayFail = TRUE
  ForeignInText = TRUE
  Repeats = TRUE
  FinalChunk = FALSE
  Assertions = TRUE
  MaxDepth = 8
  MaxSkip = 2
SPECIFICATION MCSpec
INVARIANTS
  PctrlTypeOK
  SingleOwner
  NoDanglingNoConfusion
  CommittedFilesSorted
  DocumentsKeepTheirOwn
