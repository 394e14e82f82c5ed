--------------------------- MODULE StakeAggregator ---------------------------
(***************************************************************************)
(* When a set of authorities counts as a quorum                            *)
(* (consensus/core/src/stake_aggregator.rs).  Stake is abstracted to the   *)
(* sets of authorities that reach the threshold.                           *)
(***************************************************************************)
EXTENDS Integers, FiniteSets

CONSTANTS
  Authority,  \* the members of the committee
  Quorum      \* the sets of authorities whose stake reaches 2f+1

ASSUME CommitteeAssumption ==
  /\ Quorum \subseteq SUBSET Authority
  /\ {} \notin Quorum

ReachedQuorum(authorities) == \E Q \in Quorum : Q \subseteq authorities
=============================================================================
