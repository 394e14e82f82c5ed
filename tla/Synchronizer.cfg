SPECIFICATION FairSpec
CONSTANTS
  p1 = p1  p2 = p2
  a1 = a1  c1 = c1  b2 = b2
  Peer <- MCPeer
  Honest = {p2}
  Block <- MCBlock
  Round <- MCRound
  Ancestors <- MCAncestors
  Excluded <- MCExcluded
  Author <- MCAuthor
  Position <- MCPosition
  MaxBlocksPerSync = 1
  MaxAuthoritiesToFetch = 1
  FetchBlocksConcurrency = 1
  MaxRetries = 2
  MaxPeriodicSyncPeers = 2
  MaxLags = 1
INVARIANTS
  TypeOK
  LocksMatchGuards
  FetchedByFew
PROPERTIES
  EveryMissingBlockArrives
  LocksReturned
CHECK_DEADLOCK FALSE
