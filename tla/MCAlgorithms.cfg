SPECIFICATION AlgorithmSpec
CONSTANTS
  Num = 8
  Top = 3
  LastYear = 2099
CHECK_DEADLOCK FALSE
INVARIANTS
  IsTrimmedMean
  Robust
  CalendarAgrees
  StampRight
  TrustsSetClock
