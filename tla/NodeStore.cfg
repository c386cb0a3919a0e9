SPECIFICATION FairSpec
CONSTANTS
  Words = {w1, w2}
  URLs = {1, 2}
  Ranks = {0, 1}
  Handlers = {h1, h2}
  EscrowCapacity = 2
  HoldFor = 1
  ExpiryBatch = 1
  MaxNow = 3
  URLsPerBatch = 1
  Quota = 6
  HighWater = 5
  BatchesPerSweep = 2
  MaxEntries = 2
  MaxRows = 1
  MaxCalls = 2
INVARIANTS
  
  UsageBounded
PROPERTIES
  
  HoldsEnd
