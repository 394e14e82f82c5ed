SPECIFICATION FairSpec
CONSTANTS
  a = a
  b = b
  Authority = {a, b}
  Outcomes <- MCOutcomes
  BaseLeader <- MCBaseLeader
  Swap <- MCSwap
  Agreed <- MCAgreed
  CommitsPerSchedule = 2
  MaxRound = 6
  MaxRestarts = 2
INVARIANTS
  CommitsAgree
  UnscoredExact
PROPERTIES
  DiscardedLeadersCommitted
