SPECIFICATION FairSpec
CONSTANTS
  Words = {1}
  URLs = {0, 4}
  Peers = {2, 6}
  Self = 4
  RingSize = 8
  Partitions = 2
  Redundancy = 1
  ShortestInterval = 1
  LongestInterval = 2
  PostingsPerBatch = 1
  MaxNow = 2
  Cooldown = 1
  MinReachablePeers = 1
  DrainBudget = 1
  Pauses = {0, 3}
  MaxDisruptions = 2
INVARIANTS
  RecordsFollowIndex
  HoldersReceivedBoth
PROPERTIES
  HandOffKeepsRedundancy
  RedundancyMetIsRecorded
  DuePostingsAreOffered
