SPECIFICATION Spec
CHECK_DEADLOCK FALSE
CONSTANTS
  a = a b = b c = c d = d
  a1 = a1 b1 = b1 c1 = c1 d1 = d1 a2 = a2 b2 = b2 c2 = c2 d2 = d2 e2 = e2
  a3 = a3 b3 = b3 c3 = c3 d3 = d3 a4 = a4
  Block <- MCBlock
  Author <- MCAuthor
  Round <- MCRound
  Stake <- MCStake
  QuorumThreshold = 3
  Faulty = {d}
  Dags <- MCDags
  GcDepth = 2
  MaxRestarts = 1
INVARIANTS
  TypeOK
  VerdictsAgree
  FastpathHonoured
  VotesKept
  NoneOverdue
