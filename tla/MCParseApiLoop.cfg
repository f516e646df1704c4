CONSTANTS
  Calls <- AllCalls
  MaxChunks = 3
  MemoryMayFail = FALSE
  ReadsMayFail = TRUE
SPECIFICATION ApiFairSpec
PROPERTIES
  EveryCallReturns
CHECK_DEADLOCK FALSE
