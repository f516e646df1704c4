CONSTANTS
  NULL = NULL
  NUL = NUL
  Keys <- MCKeys
  MaxAttrs = 3
  MaxValue = 2
  INT_MAX = 3
  LLONG_MAX = 31
  MaxNumber = 40
  IntMax = 15
  Pivot = 10
  NoPriority = 9
  Numbers <- MCNumbers
  MaxAddresses = 3
  Years <- MCYears
  ZoneStep = 345
  MaxZone = 690
  TimeMin <- MCTimeMin
  TimeMax <- MCTimeMax
  MaxPath <- MCMaxPath
  o1 = o1
  o2 = o2
  b1 = b1
  b2 = b2
  b3 = b3
  v1 = v1
  v2 = v2
  Null = Null
  Structs <- MCStructs
  Blocks <- MCBlocks
  Values <- MCValues
SPECIFICATION Spec
SYMMETRY Symmetry
INVARIANTS
  ValuesTypeOK
  InsideBlock
  AttributesArrive
  NumbersArrive
  RankedAsAsked
  DatesRead
  JudgedByComponents
  StringsOwned
CHECK_DEADLOCK FALSE
