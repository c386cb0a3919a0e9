SPECIFICATION CasesSpec
CONSTANTS
  Words <- MCWords
  URLs <- MCURLs
  Peers <- MCPeers
  Self = 3
  RingSize = 8
  Partitions = 2
  Redundancy = 2
  Terms = {1, 2, 3}
  Documents = {1, 2}
  SiteOf <- MCSites
  Unspecified = Unspecified
  Postings <- MCPostings
  Queries <- MCQueries
  Filters <- MCFilters
  Limits <- MCLimits
  Caps = {1}
  w1 = w1
  w2 = w2
  w3 = w3
  Writers <- MCWriters
  Readers = {r}
  Total = Total
  None = None
  MaxCalls = 3
  MaxCrashes = 1
  ByteRange = 256
  WordRange = 65536
  DayRange = 262144
  MostColumns <- MCMostColumns
  MostTurns = 3
  PostingLimit = 2
  Samples <- MCSamples
  MaxItems = 4
  SizeRange = 4096
  Tries <- MCTries
  Starting <- MCStarting
INVARIANTS
  WindowIsResponsibility
  RoundRestoresRedundancy
  FindsTheMostRelevant
  CapKeepsTheBest
  
  TalliesAgree
  AcceptedRuns
PROPERTIES
  ImplementsAtomicVault
  
  
