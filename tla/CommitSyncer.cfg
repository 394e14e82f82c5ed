SPECIFICATION FairSpec
CONSTANTS
  a = a
  b = b
  c = c
  Authority <- MCAuthority
  Quorum <- MCQuorum
  Faulty <- MCFaulty
  Commit <- MCCommit
  Main <- MCMain
  BadAnswers <- MCBadAnswers
  PeerVotes <- MCPeerVotes
  BatchSize = 2
  ParallelFetches = 2
  BatchesAhead = 2
  MaxIndex = 6
  VotedIndex = {0, 6}
  MaxLocal = 3
  MaxRestarts = 1
INVARIANTS
  NothingLost
  FetchedOnce
  NoGapAtCore
  ChainAgrees
  FetchAheadBounded
PROPERTIES
  CaughtUp
CHECK_DEADLOCK FALSE
