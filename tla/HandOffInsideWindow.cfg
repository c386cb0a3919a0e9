SPECIFICATION Spec
CONSTANTS
  Words = {1}
  URLs = {0}
  Peers = {2, 3, 6}
  Self = 4
  RingSize = 8
  Partitions = 2
  Redundancy = 2
  ShortestInterval = 1
  LongestInterval = 2
  PostingsPerBatch = 1
  MaxNow = 2
  Cooldown = 1
  MinReachablePeers = 2
  DrainBudget = 0
  Pauses = {0}
  MaxDisruptions = 3
PROPERTY HandOffOutsideWindow
