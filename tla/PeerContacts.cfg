CONSTANTS
  Peers = {a, b, c}
  KnownCapacity = 2
  ReachableCapacity = 1
  Callers = {b}
  StaleAfter = 2
  MaxAge = 2
  Contacts = {contact1}
  Handlers = {handler1}
  SeedsTold = {{a}}
  MaxFailures = 1
SPECIFICATION FairSpec
INVARIANTS
  UncontestedDenialStands
PROPERTY StalestUnreachableGo
PROPERTY EveryPeerIsProbed
