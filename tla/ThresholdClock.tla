---------------------------- MODULE ThresholdClock ----------------------------
(***************************************************************************)
(* The round a validator builds in, as a function of the blocks accepted   *)
(* so far (consensus/core/src/threshold_clock.rs).                         *)
(* A clock is a record: the current round, and the authorities the         *)
(* aggregator has counted in it.                                           *)
(***************************************************************************)
EXTENDS StakeAggregator

Clocks == [round : Nat \ {0}, votes : SUBSET Authority]

NewClock == [round |-> 1, votes |-> {}]

(* Mutant: a later round starts with the votes of the round left behind. *)
AddBlockKeepingVotes(clock, author, round) ==
  CASE round < clock.round -> clock
    [] round = clock.round ->
         IF ReachedQuorum(clock.votes \cup {author})
           THEN [round |-> round + 1, votes |-> {}]
           ELSE [clock EXCEPT !.votes = @ \cup {author}]
    [] OTHER ->
         [round |-> IF ReachedQuorum({author}) THEN round + 1 ELSE round,
          votes |-> clock.votes \cup {author}]

(* ThresholdClock::add_block.  The clock moves on when the blocks of its   *)
(* round reach a quorum, and follows a block of a later round.             *)
AddBlock(clock, author, round) ==
  CASE round < clock.round -> clock
    [] round = clock.round ->
         IF ReachedQuorum(clock.votes \cup {author})
           THEN [round |-> round + 1, votes |-> {}]
           ELSE [clock EXCEPT !.votes = @ \cup {author}]
    [] OTHER ->
         [round |-> IF ReachedQuorum({author}) THEN round + 1 ELSE round,
          votes |-> {author}]
=============================================================================
