SPECIFICATION Spec
CONSTANTS
  Files <- MCFiles
  Length <- MCLength
  Close <- MCClose
  PageSize = 3
  ConfigPages = 3
  NoCard = NoCard
  Nothing = "nothing"
  Blank = Blank
  Torn = Torn
  Unset = Unset
  Mixed = Mixed
  MaxSwaps = 3
  MaxFaults = 1
  MaxResets = 2
INVARIANTS
  TypeOK
  BackupServes
  NeverMixed
