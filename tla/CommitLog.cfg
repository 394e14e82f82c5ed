SPECIFICATION FairSpec
CONSTANTS
  Block <- MCBlock
  Round <- MCRound
  Author <- MCAuthor
  Ancestors <- MCAncestors
  Leaders <- MCLeaders
  Median <- MCMedian
  GcDepth = 2
  CachedRounds = 1
  BatchSize = 2
  Fastpath = TRUE
  PriorCommits = 1
  MaxRestarts = 2
INVARIANTS
  LogIsLinearization
  WalkNeverMisses
  DeliveredIsPersisted
  DeliveredInOrder
PROPERTIES
  EveryLeaderExecuted
CHECK_DEADLOCK FALSE
