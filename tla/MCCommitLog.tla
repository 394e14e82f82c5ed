----------------------------- MODULE MCCommitLog -----------------------------
(***************************************************************************)
(* CommitLog on a DAG of two authors and five rounds.  The second block of *)
(* round 2 is linked only by the second of round 3, which the leaders see  *)
(* late: it is committed by the leader of round 4 if the GC depth allows.  *)
(***************************************************************************)
EXTENDS CommitLog

MCBlock == ({"a", "b"} \X (1 .. 5)) \ {<<"b", 5>>}

MCRound == [x \in MCBlock |-> x[2]]

MCAuthor == [x \in MCBlock |-> x[1]]

MCAncestors == [x \in MCBlock |->
  CASE x = <<"a", 2>> -> {<<"a", 1>>}
    [] x = <<"a", 3>> -> {<<"a", 2>>, <<"b", 1>>}
    [] x = <<"a", 4>> -> {<<"a", 3>>}
    [] OTHER -> {y \in MCBlock : y[2] = x[2] - 1}]

MCLeaders == <<<<"a", 2>>, <<"a", 3>>, <<"a", 4>>, <<"a", 5>>>>

MCMedian == [x \in MCBlock |-> IF x[2] = 3 THEN 1 ELSE x[2]]
=============================================================================
