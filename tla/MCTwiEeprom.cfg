SPECIFICATION FairSpec
CONSTANTS
  PageSize = 4
  Radix = 4
  MaxIter = 3
  MemoryEnd = 10
  Chunk = 4
  TextAt = 3
  Text <- MCText
  Before <- MCBefore
  MaxBusy = 2
  MaxTrouble = 2
INVARIANTS
  TypeOK
  WritesOnlyText
  ShowsMemory
  ReleasesBus
  FailsForAReason
PROPERTY Ends
CHECK_DEADLOCK FALSE
