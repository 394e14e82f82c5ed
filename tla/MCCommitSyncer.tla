---------------------------- MODULE MCCommitSyncer ----------------------------
(***************************************************************************)
(* CommitSyncer in a committee of three with stake 4: 2 for a, 1 for b and *)
(* 1 for c, whose votes need not be truthful.  A quorum (3) needs a and    *)
(* one more.                                                               *)
(***************************************************************************)
EXTENDS CommitSyncer, TLC

CONSTANTS a, b, c

MCAuthority == {a, b, c}

MCQuorum == {{a, b}, {a, c}}

MCFaulty == {c}

(* The agreed commit at index i has digest i.  One commit off the chain    *)
(* at each index, linked to the chain or to the one before it.             *)
MCMain == [i \in 1 .. MaxIndex |-> [index |-> i, digest |-> i, previous |-> i - 1]]

Forked == {[index |-> i, digest |-> 100 + i, previous |-> i - 1] : i \in 1 .. MaxIndex}
            \cup {[index |-> i, digest |-> 200 + i, previous |-> 99 + i] : i \in 2 .. MaxIndex}

MCCommit == {MCMain[i] : i \in 1 .. MaxIndex} \cup Forked

(* Answers of one to three commits with indices that increase, on the      *)
(* chain or not, and the votes that can be had for the last but one or the *)
(* last commit.                                                            *)
BadSequences ==
  {s \in UNION {[1 .. n -> MCCommit] : n \in 1 .. 3} :
     \A k \in 2 .. Len(s) : s[k].index = s[k - 1].index + 1}

VotesFor(commit) ==
  {<<x, commit>> : x \in IF commit \in Forked THEN {c} ELSE {a, b, c}}

MCBadAnswers ==
  UNION {{[commits |-> s, votes |-> VotesFor(s[k])] : k \in 1 .. Len(s)} : s \in BadSequences}

(* Truthful authorities vote for every commit up to some index, c for that *)
(* index only, and for a commit off the chain.                             *)
MCPeerVotes ==
  {{<<x, MCMain[i]>> : x \in {a}, i \in 1 .. n} \cup {<<x, MCMain[i]>> : x \in {b}, i \in 1 .. m}
     \cup {<<c, d>> : d \in {e \in MCCommit : e.index = k}} :
     n \in 1 .. MaxIndex, m \in 0 .. MaxIndex, k \in 0 .. MaxIndex}
=============================================================================
