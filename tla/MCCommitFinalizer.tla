------------------------- MODULE MCCommitFinalizer -------------------------
(***************************************************************************)
(* Four rounds of a committee a, b, c, d, where d may equivocate (d2, e2). *)
(* The transaction in question is in a1, the leader of the first commit;   *)
(* a4 is the first leader a wave above.                                    *)
(***************************************************************************)
EXTENDS CommitFinalizer, TLC

CONSTANTS a, b, c, d, a1, b1, c1, d1, a2, b2, c2, d2, e2, a3, b3, c3, d3, a4

MCBlock == {a1, b1, c1, d1, a2, b2, c2, d2, e2, a3, b3, c3, d3, a4}
MCAuthor ==
  (a1 :> a) @@ (b1 :> b) @@ (c1 :> c) @@ (d1 :> d)
    @@ (a2 :> a) @@ (b2 :> b) @@ (c2 :> c) @@ (d2 :> d) @@ (e2 :> d)
    @@ (a3 :> a) @@ (b3 :> b) @@ (c3 :> c) @@ (d3 :> d) @@ (a4 :> a)
MCRound ==
  [x \in MCBlock |-> IF x \in {a1, b1, c1, d1} THEN 1 ELSE IF x = a4 THEN 4
                     ELSE IF x \in {a3, b3, c3, d3} THEN 3 ELSE 2]
MCStake == [x \in {a, b, c, d} |-> 1]

(* One block of round 2 may miss a1.  In round 3, a, b and c may link to   *)
(* either block of d or none, and d to a bare quorum; so may a4.           *)
Links ==
  {[x \in MCBlock |->
      CASE MCRound[x] = 1 -> {}
        [] MCRound[x] = 2 -> {a1, b1, c1, d1} \ late[x]
        [] x \in {a3, b3, c3} -> {a2, b2, c2} \cup faulty[x]
        [] x = d3 -> last
        [] x = a4 -> {a3} \cup above] :
     late \in {[x \in MCBlock |-> IF x = y THEN {a1} ELSE {}] : y \in {c2, a4}},
     faulty \in {(a3 :> s[1]) @@ (b3 :> s[2]) @@ (c3 :> s[3]) :
                   s \in {<<{}, {}, {}>>, <<{d2}, {d2}, {d2}>>, <<{}, {d2}, {e2}>>}},
     last \in {{a2, b2, d2}, {a2, c2, e2}},
     above \in {{b3, c3}, {c3, d3}}}

HistoryIn(anc) ==
  LET h[x \in MCBlock] == {x} \cup UNION {h[y] : y \in anc[x]} IN h

(* The block of an authority that votes on a1 is the first one that has it *)
(* in its history (link_causal_history and get_own_votes).                 *)
FirstVotes(hist, anc) ==
  {x \in MCBlock \ {a1, a2} :
     /\ a1 \in hist[x]
     /\ \A y \in anc[x] : MCAuthor[y] = MCAuthor[x] => a1 \notin hist[y]}

MCCommits(hist, leaders) ==
  [i \in DOMAIN leaders |->
     [leader |-> leaders[i],
      blocks |-> {x \in hist[leaders[i]] :
                    \A j \in 1 .. i - 1 :
                      x \notin hist[leaders[j]] /\ MCRound[x] + GcDepth > MCRound[leaders[j]]}]]

LeaderSeqs == {<<a1, a4>>, <<a1, b2, c3, a4>>}

(* Only DAGs in which a4 does commit a1 by the indirect rule. *)
CertsIn(anc) ==
  {x \in {a3, b3, c3, d3} :
     Cardinality({MCAuthor[y] : y \in {z \in anc[x] : a1 \in anc[z]}}) >= 3}

MCDags ==
  UNION { LET hist == HistoryIn(anc) IN
    { [ancestors |-> anc, history |-> hist,
       rejects |-> [x \in MCBlock |-> IF x \in rej THEN {a1} ELSE {}],
       commits |-> MCCommits(hist, ls)] :
      rej \in SUBSET FirstVotes(hist, anc), ls \in LeaderSeqs } :
    anc \in {l \in Links : CertsIn(l) \cap HistoryIn(l)[a4] # {}} }
=============================================================================
