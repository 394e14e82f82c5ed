SPECIFICATION Spec
CONSTANTS
  Authority <- MCAuthority
  Honest <- MCHonest
  Quorum <- MCQuorum
  Block <- MCBlock
  Author <- MCAuthor
  Round <- MCRound
  Leader <- MCLeader
  Dags <- MCDags
  Ancestors <- MCAncestors
  Past <- MCPast
  Tips <- MCTips
  Skip = Skip
  Undecided = Undecided
INVARIANTS
  BlameForbidsCertificate
  SupportReachesAnchors
  DecisionsAgree
  SequencesAgree
