SPECIFICATION Spec
CONSTANTS
  SectorRecs = 3
  Sectors = 2
  Erased = Erased
  Torn = Torn
  NumRec = 2
  Kind = "meter"
  MaxPost = 2
  Batch = 0
  ErrorMax = 2
  ByteWeights <- MCByteWeights
  Garbage <- MCGarbage
  MaxSamples = 4
  MaxFaults = 1
  MaxResets = 1
INVARIANTS
  TypeOK
  IndexOrder
  IndexInv
  Durable
  PostedGenuine
  CleanWrites
PROPERTIES
  OverrunOnlyWhenFull
  ForwardsInOrder
