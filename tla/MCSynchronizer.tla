--------------------------- MODULE MCSynchronizer ---------------------------
(* An instance of Synchronizer: two peers, one of them honest; one block    *)
(* waits for an ancestor and announces another block.                       *)
EXTENDS Synchronizer

CONSTANTS p1, p2, a1, c1, b2

MCPeer == {p1, p2}
MCBlock == {a1, c1, b2}
MCRound == [b \in MCBlock |-> IF b = b2 THEN 2 ELSE 1]
MCAncestors == [b \in MCBlock |-> IF b = b2 THEN {a1} ELSE {}]
MCExcluded == [b \in MCBlock |-> IF b = b2 THEN {c1} ELSE {}]
MCAuthor == [b \in MCBlock |-> IF b = c1 THEN p2 ELSE p1]
MCPosition == [b \in MCBlock |-> CASE b = a1 -> 1 [] b = c1 -> 2 [] b = b2 -> 3]
=============================================================================
