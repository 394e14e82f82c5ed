--------------------------- MODULE MCBlockManager ---------------------------
(* Instances of BlockManager: five blocks of four rounds, one of them       *)
(* reaching back two rounds so that GC cuts its history.                    *)
EXTENDS BlockManager

CONSTANTS a1, b1, a2, a3, a4

MCBlock == {a1, b1, a2, a3, a4}

MCRound ==
  [b \in MCBlock |-> CASE b \in {a1, b1} -> 1
                       [] b = a2         -> 2
                       [] b = a3         -> 3
                       [] b = a4         -> 4]

MCAncestors ==
  [b \in MCBlock |-> CASE b \in {a1, b1} -> {}
                       [] b = a2         -> {a1}
                       [] b = a3         -> {a2, b1}
                       [] b = a4         -> {a3}]
=============================================================================
