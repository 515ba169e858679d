SPECIFICATION StatusFairSpec
CONSTANTS
  TaskTimeout = 10
  DogTimeout = 4
  Longest <- MCLongest
  Meters = 2
  Batch = 0
  MAXPOST = 3
  MaxBacklog = 4
  MaxHangs = 1
INVARIANTS
  TypeOK
  HealthyNotBitten
  GuardedOutsideCalls
  ServerNeverAccused
  MissedMeterReported
  RestartHeard
PROPERTIES
  HangEnds
