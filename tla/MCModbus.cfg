SPECIFICATION Spec
CONSTANTS
  Meters <- MCMeters
  Slave <- MCSlave
  Function <- MCFunction
  Words <- MCWords
  MaxPasses = 3
INVARIANTS
  TypeOK
  RightReply
  ReplyUsedOnce
  ReadingConsistent
