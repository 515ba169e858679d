SPECIFICATION FairSpec
CONSTANTS
  PageCells = 2
  SectorPages = 1
  Sectors = 2
  MaxLen = 3
  Blank = Blank
  Torn = Torn
  MaxWrites = 2
  MaxFaults = 1
  MaxResets = 1
INVARIANTS
  TypeOK
  WriteVerified
  ProgramsOwnBlankCells
  ErasesObeyed
PROPERTIES
  CallsReturn
  ImplementsStore
