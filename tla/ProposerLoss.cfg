SPECIFICATION Spec
CONSTANTS
  v = v
  a = a
  b = b
  c = c
  Own = v
  Authority <- MCAuthority4
  Quorum <- MCQuorum4
  Faulty = {c}
  Validity <- MCValidity4
  Index <- MCIndex4
  Leader <- MCLeader
  WaveLength = 1
  GcDepth = 2
  CachedRounds = 1
  SyncOwnBlock = TRUE
  CrashAfterLoss = FALSE
  MaxLosses = 1
  MaxRound = 1
  MaxRestarts = 1
INVARIANTS
  HeldNotProposedAnew
CHECK_DEADLOCK FALSE
