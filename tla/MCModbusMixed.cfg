SPECIFICATION Spec
CONSTANTS
  Meters <- MCMeters
  Slave <- MCSlave
  Function <- MCFunction
  Words <- MCTwoBlocks
  MaxPasses = 2
INVARIANTS
  RightMeter
