SPECIFICATION FairSpec
CONSTANTS
  v = v
  a = a
  b = b
  c = c
  Own = v
  Authority <- MCAuthority
  Quorum <- MCQuorum
  Faulty = {}
  Validity <- MCValidity
  Index <- MCIndex
  Leader <- MCLeader
  WaveLength = 1
  GcDepth = 2
  CachedRounds = 1
  SyncOwnBlock = TRUE
  CrashAfterLoss = TRUE
  MaxLosses = 0
  MaxRound = 2
  MaxRestarts = 1
PROPERTIES
  EveryRoundProposed
CHECK_DEADLOCK FALSE
