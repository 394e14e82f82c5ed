---------------------------- MODULE MCCommitter ----------------------------
(***************************************************************************)
(* Committer on four authorities of equal stake, the last one faulty, and  *)
(* six rounds of blocks: enough for an anchor in round 4 to be committed   *)
(* directly and to decide the leader of round 1.  The faulty authority     *)
(* leads round 1 and signs two blocks there.  The DAGs vary where the      *)
(* decision on round 1 is made: which of the two blocks, if any, the       *)
(* blocks of round 2 reference, which votes the blocks of round 3 see, and *)
(* whose block of round 3 stays unknown to the later rounds.               *)
(***************************************************************************)
EXTENDS Committer, TLC

MCAuthority == 1 .. 4
MCHonest == 1 .. 3
MCQuorum == {Q \in SUBSET MCAuthority : Cardinality(Q) >= 3}
Rounds == 1 .. 6
MCBlock == {<<r, a, 1>> : r \in Rounds, a \in MCAuthority} \cup {<<1, 4, 2>>}
MCRound == [b \in MCBlock |-> b[1]]
MCAuthor == [b \in MCBlock |-> b[2]]
MCLeader == <<4, 1, 2, 3, 1, 2>>

(* The block each author of round 2 references in the slot of round 1      *)
(* (0: none); the block of round 2 that each author of round 3 leaves out; *)
(* the author that all others leave out from round 4 on.                   *)
Votes ==
  {<<v12[1], v12[2], v3, v4>> :
     v12 \in {<<0, 0>>, <<1, 1>>, <<2, 2>>, <<1, 0>>}, v3 \in 0 .. 2, v4 \in 1 .. 2}
Omissions3 == {<<o1, o2, 0, 1>> : o1 \in {3, 4}, o2 \in {0, 3, 4}}
Isolated == 1 .. 2

RoundBelow(r, left_out) == {<<r - 1, a, 1>> : a \in MCAuthority \ {left_out}}

MCDags == Votes \X Omissions3 \X Isolated

AncestorsFor(votes, o3, isolated) ==
  [b \in MCBlock |->
     CASE b[1] = 1 -> {}
       [] b[1] = 2 -> RoundBelow(2, 4) \cup
                      IF votes[b[2]] = 0 THEN {} ELSE {<<1, 4, votes[b[2]]>>}
       [] b[1] = 3 -> RoundBelow(3, o3[b[2]])
       [] OTHER -> RoundBelow(b[1], IF b[2] = isolated THEN 0 ELSE isolated)]

PastOf(ancestors, b) ==
  LET Below(S) == UNION {ancestors[x] : x \in S}
      s1 == ancestors[b]
      s2 == Below(s1)
      s3 == Below(s2)
      s4 == Below(s3)
      s5 == Below(s4)
  IN  UNION {s1, s2, s3, s4, s5}

MCAncestors == [d \in MCDags |-> AncestorsFor(d[1], d[2], d[3])]
MCPast == [d \in MCDags |-> [b \in MCBlock |-> PastOf(MCAncestors[d], b)]]

(* Views: a quorum of round 2 with an equivocation and one later block, a  *)
(* quorum of round 3 or 6, the leader block of round 4.                    *)
Trios == {{1, 2, 3}, {1, 2, 4}, {1, 3, 4}, {2, 3, 4}}

MCTips ==
  {{<<r, a, 1>> : a \in Q} : r \in {3, 6}, Q \in Trios}
    \cup {{<<2, a, 1>> : a \in MCAuthority} \cup {<<1, 4, 2>>, <<3, 1, 1>>}, {<<4, 3, 1>>}}
=============================================================================
