SPECIFICATION Spec
CONSTANTS
  a1 = a1  b1 = b1  a2 = a2  a3 = a3  a4 = a4
  Block <- MCBlock
  Round <- MCRound
  Ancestors <- MCAncestors
  GcDepth = 1
INVARIANTS
  StoredDagComplete
