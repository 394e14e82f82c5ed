------------------------------ MODULE MCProposer ------------------------------
(***************************************************************************)
(* Proposer in a committee of three with stake 4: 1 for the validator      *)
(* itself, 2 and 1 for its peers, so that a quorum (3) needs the second    *)
(* authority and one more, and f+1 is 2; or in a committee of four with    *)
(* equal stake.                                                            *)
(***************************************************************************)
EXTENDS Proposer, TLC

CONSTANTS v, a, b, c

MCAuthority == {v, a, b}

MCQuorum == {{v, a}, {a, b}}

MCValidity == {{a}, {v, b}}

MCIndex == (b :> 1) @@ (v :> 2) @@ (a :> 3)

MCAuthority4 == {v, a, b, c}

MCQuorum4 == {{v, a, b}, {v, a, c}, {v, b, c}, {a, b, c}}

MCValidity4 == {{v, a}, {v, b}, {v, c}, {a, b}, {a, c}, {b, c}}

MCIndex4 == (b :> 1) @@ (v :> 2) @@ (a :> 3) @@ (c :> 4)

MCLeader == [r \in 1 .. MaxRound |-> IF r = 2 THEN b ELSE a]
=============================================================================
