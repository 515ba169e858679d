SPECIFICATION Spec
CONSTANTS
  Polls = 2
  UpdateInterval = 3
  RtcInterval = 3
  Interval = 4
  Mailbox = 1
  Start = 22
  Valid = 15
  BootTime = 3
  Offsets <- ClockOffsets
  MaxPass = 1
  MaxTime = 32
  MaxResets = 1
CHECK_DEADLOCK FALSE
INVARIANTS
  TypeOK
  NeverAhead
  ReadingNotDelayed
  SyncedWithin
PROPERTIES
  ReadingsSpaced
