CONSTANTS
  Calls <- AllCalls
  MaxChunks = 3
  MemoryMayFail = TRUE
  ReadsMayFail = TRUE
  Roots <- MCRoots
  HasParser = TRUE
  c1 = c1
  c2 = c2
  c3 = c3
  d1 = d1
  d2 = d2
  Null = Null
  Cells <- MCCells
  Data <- MCData
  MaxIndex = 3
  x1 = x1
  x2 = x2
  NUL = NUL
  Junk = Junk
  Chars <- MCChars
  InitialCapacity = 1
  MaxPiece = 3
  MaxText = 6
SPECIFICATION Spec
INVARIANTS
  CallsTypeOK
  ResultIffSuccess
  OnlyFdKeepsItsContext
  SuccessIsWhole
  ErrorsStick
  FreesAllOnce
  ListIsSound
  TextInBlock
PROPERTIES
  ContextKeepsSession
  ImplementsContract
  CallsReturn
  ImplementsList
  WalksEnd
CHECK_DEADLOCK FALSE
