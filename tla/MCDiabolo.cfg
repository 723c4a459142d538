SPECIFICATION Spec
CONSTANTS
  x = x
  y = y
  blank = blank
  Pages <- MCPages
  Data <- MCData
  Blank = blank
  Torn = Torn
  None = None
  OldApp <- MCOld
  NewApp <- MCNew
  EECRC = EECRC
  EEPCNT = EEPCNT
  Repeats = 3
  Resumes = 6
  MaxTrouble <- MCTrouble
INVARIANTS TypeOK Programmed WholeRuns
PROPERTIES ImplementsUpdate Recovers
CHECK_DEADLOCK FALSE
