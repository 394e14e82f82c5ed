SPECIFICATION Spec
CONSTANTS
  v = v
  a = a
  b = b
  c = c
  Own = v
  Authority <- MCAuthority
  Quorum <- MCQuorum
  Faulty = {}
  Validity <- MCValidity
  Index <- MCIndex
  Leader <- MCLeader
  WaveLength = 1
  GcDepth = 2
  CachedRounds = 1
  SyncOwnBlock = FALSE
  CrashAfterLoss = TRUE
  MaxLosses = 0
  MaxRound = 3
  MaxRestarts = 2
INVARIANTS
  ClockExact
  ParentsInMemory
  NoEquivocation
CHECK_DEADLOCK FALSE
