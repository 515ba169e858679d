SPECIFICATION FairSpec
CONSTANTS
  SectorRecs = 2
  Sectors = 2
  Erased = Erased
  Torn = Torn
  NumRec = 1
  Kind = "meter"
  MaxPost = 2
  Batch = 0
  ErrorMax = 2
  ByteWeights <- MCByteWeights
  Garbage = {0}
  MaxSamples = 3
  MaxFaults = 1
  MaxResets = 1
PROPERTIES
  EventuallyPosted
