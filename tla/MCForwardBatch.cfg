SPECIFICATION Spec
CONSTANTS
  SectorRecs = 3
  Sectors = 3
  Erased = Erased
  Torn = Torn
  NumRec = 2
  Kind = "meter"
  MaxPost = 3
  Batch = 3
  ErrorMax = 3
  ByteWeights <- MCByteWeights
  Garbage <- MCGarbage
  MaxSamples = 5
  MaxFaults = 1
  MaxResets = 1
PROPERTIES
  ForwardsInOrder
