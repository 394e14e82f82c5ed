---------------------------- MODULE LeaderSchedule ----------------------------
(***************************************************************************)
(* The change of the leader schedule every CommitsPerSchedule commits      *)
(* (consensus/core/src/leader_schedule.rs), inside the loop of             *)
(* Core::try_commit, and its recovery from what DagState has written.      *)
(*                                                                         *)
(* What the commit rule makes of a leader slot is the agreed outcome that  *)
(* Committer is about; how far a validator can decide is up to the blocks  *)
(* it has.  Reputation scores are abstracted to the commits that they are  *)
(* computed from.                                                          *)
(***************************************************************************)
EXTENDS Integers, Sequences, FiniteSets

CONSTANTS
  Authority,
  Outcomes,           \* the possible sets of slots whose leader is committed
  BaseLeader,         \* elect_leader_stake_based, by round
  Swap(_, _, _),      \* LeaderSwapTable::swap: table, leader and round
  Agreed,             \* the commits of the committee, by the slots committed
  CommitsPerSchedule, \* num_commits_per_schedule
  MaxRound,           \* bound: the last round with a leader
  MaxRestarts         \* bound: the number of crashes

-----------------------------------------------------------------------------
(* LeaderSwapTable::default, and no commit info *)
NoTable == [seed |-> 0, scores |-> << >>]
NoInfo == [index |-> 0, scores |-> << >>]

ElectLeader(table, round) ==
  IF table = NoTable THEN BaseLeader[round] ELSE Swap(table, BaseLeader[round], round)

LeaderSlot(table, round) == [round |-> round, author |-> ElectLeader(table, round)]

(* The schedule that follows from the commits alone, and the next leader   *)
(* after them, if there is one: what a validator does that never crashes   *)
(* and commits one leader at a time.                                       *)
ScheduleAfter(cs) ==
  LET last == Len(cs) - (Len(cs) % CommitsPerSchedule) IN
  IF last = 0 THEN NoTable
  ELSE [seed |-> last, scores |-> SubSeq(cs, last - CommitsPerSchedule + 1, last)]

RoundOf(cs) == IF cs = << >> THEN 0 ELSE cs[Len(cs)].leader.round

NextLeaders(committed, cs) ==
  LET slots == {LeaderSlot(ScheduleAfter(cs), r) : r \in RoundOf(cs) + 1 .. MaxRound}
                 \cap committed
  IN {s \in slots : \A t \in slots : s.round <= t.round}

Slot == [round : 1 .. MaxRound, author : Authority]
Commit == [index : Nat, leader : Slot]

(* Agreed is what the committee makes of the outcomes: its commits follow  *)
(* one from the other, up to the last one.                                 *)
ASSUME ScheduleAssumption ==
  /\ CommitsPerSchedule \in Nat \ {0}
  /\ MaxRound \in Nat /\ MaxRestarts \in Nat
  /\ BaseLeader \in [1 .. MaxRound -> Authority]
  /\ \A committed \in Outcomes :
       LET cs == Agreed[committed] IN
       /\ cs \in Seq(Commit)
       /\ \A i \in 1 .. Len(cs) :
            cs[i].index = i /\ cs[i].leader \in NextLeaders(committed, SubSeq(cs, 1, i - 1))
       /\ NextLeaders(committed, cs) = {}

-----------------------------------------------------------------------------
VARIABLES
  outcomes,             \* the slots whose leader the committee commits
  commits,              \* the committed leader slots, as in DagState
  last_decided_leader,  \* its round
  scoring_subdag,       \* the commits that are not scored yet
  leader_swap_table,    \* the commits its scores are of, and its random seed
  commit_info,          \* commit_info_to_write, the last one
  store,                \* number of commits, and last commit info, on disk
  restarts

vars == <<outcomes, commits, last_decided_leader, scoring_subdag, leader_swap_table,
          commit_info, store, restarts>>

(* UniversalCommitter::try_decide: the decisions for the given rounds. *)
Decided(table, from, to) ==
  [k \in 1 .. to - from + 1 |->
     LET slot == LeaderSlot(table, from + k - 1) IN
     [slot |-> slot, commit |-> slot \in outcomes]]

(* Those of them that are commits, in order: the j-th one has j commits up *)
(* to it.                                                                  *)
Sequenced(decided) ==
  LET K == {k \in DOMAIN decided : decided[k].commit} IN
  [j \in 1 .. Cardinality(K) |->
     decided[CHOOSE k \in K : Cardinality({i \in K : i <= k}) = j].slot]

CommitsUntilUpdate == CommitsPerSchedule - Len(scoring_subdag)

-----------------------------------------------------------------------------
(* update_leader_schedule_v2, the first step of an iteration in which the  *)
(* schedule is exhausted                                                   *)
UpdateLeaderSchedule ==
  /\ CommitsUntilUpdate = 0
  /\ leader_swap_table' = [seed |-> scoring_subdag[Len(scoring_subdag)].index,
                           scores |-> scoring_subdag]
  /\ commit_info' = [index |-> Len(commits), scores |-> scoring_subdag]
  /\ scoring_subdag' = << >>
  /\ UNCHANGED <<outcomes, commits, last_decided_leader, store, restarts>>

(* CommitObserver::handle_commit *)
HandleCommit(slots) ==
  LET sequenced == [k \in DOMAIN slots |->
                      [index |-> Len(commits) + k, leader |-> slots[k]]] IN
  /\ commits' = commits \o sequenced
  /\ scoring_subdag' = scoring_subdag \o sequenced

(* Mutant: the decided leaders are not cut. *)
WithoutTruncating(decided) == decided

(* The decided leaders are cut to what the schedule allows, skips counted. *)
Truncate(decided) ==
  IF Len(decided) >= CommitsUntilUpdate THEN SubSeq(decided, 1, CommitsUntilUpdate)
  ELSE decided

(* Mutant: the loop ends before it notes a decision that is only skips. *)
SkipsNotRemembered(round) ==
  /\ CommitsUntilUpdate > 0
  /\ round > last_decided_leader
  /\ \E decided \in {Truncate(Decided(leader_swap_table, last_decided_leader + 1, round))} :
       /\ last_decided_leader' = IF Sequenced(decided) = << >> THEN last_decided_leader
                                 ELSE decided[Len(decided)].slot.round
       /\ HandleCommit(Sequenced(decided))
  /\ UNCHANGED <<outcomes, leader_swap_table, commit_info, store, restarts>>

(* The rest of the iteration, without certified commits: the leaders up to *)
(* some round are decided and cut.  If all are skipped, nothing is         *)
(* committed and the loop ends.                                            *)
TryCommit(round) ==
  /\ CommitsUntilUpdate > 0
  /\ round > last_decided_leader
  /\ \E decided \in {Truncate(Decided(leader_swap_table, last_decided_leader + 1, round))} :
       /\ last_decided_leader' = decided[Len(decided)].slot.round
       /\ HandleCommit(Sequenced(decided))
  /\ UNCHANGED <<outcomes, leader_swap_table, commit_info, store, restarts>>

(* The same with n certified commits from the commit syncer, of which the  *)
(* schedule allows the first ones (try_select_certified_leaders); the rest *)
(* follow in later steps.                                                  *)
SelectCertified(n) == IF n >= CommitsUntilUpdate THEN CommitsUntilUpdate ELSE n

TryCommitCertified(n) ==
  LET certified == SubSeq(Agreed[outcomes], Len(commits) + 1,
                          Len(commits) + SelectCertified(n))
  IN
  /\ CommitsUntilUpdate > 0
  /\ Len(commits) + n <= Len(Agreed[outcomes])
  /\ last_decided_leader' = certified[Len(certified)].leader.round
  /\ HandleCommit([k \in DOMAIN certified |-> certified[k].leader])
  /\ UNCHANGED <<outcomes, leader_swap_table, commit_info, store, restarts>>

-----------------------------------------------------------------------------
(* DagState::flush, by whichever thread calls it *)
Flush ==
  /\ store' = [commits |-> Len(commits),
               info |-> IF commit_info = NoInfo THEN store.info ELSE commit_info]
  /\ commit_info' = NoInfo
  /\ UNCHANGED <<outcomes, commits, last_decided_leader, scoring_subdag,
                 leader_swap_table, restarts>>

(* A crash and restart: DagState::new scans the commits after the last     *)
(* commit info, LeaderSchedule::from_store builds the table from the info  *)
(* and Core::new takes the last committed leader for the last decided one. *)
UnscoredCommits(info) == SubSeq(commits, info.index + 1, store.commits)

(* Mutant: the schedule is not recovered. *)
RecoverDefault(info) == NoTable

FromStore(info) ==
  IF info = NoInfo THEN NoTable ELSE [seed |-> info.index, scores |-> info.scores]

Restart ==
  /\ restarts < MaxRestarts
  /\ restarts' = restarts + 1
  /\ commits' = SubSeq(commits, 1, store.commits)
  /\ scoring_subdag' = UnscoredCommits(store.info)
  /\ leader_swap_table' = FromStore(store.info)
  /\ last_decided_leader' = RoundOf(commits')
  /\ commit_info' = NoInfo
  /\ UNCHANGED <<outcomes, store>>

Init ==
  /\ outcomes \in Outcomes
  /\ commits = << >> /\ last_decided_leader = 0
  /\ scoring_subdag = << >> /\ leader_swap_table = NoTable
  /\ commit_info = NoInfo /\ store = [commits |-> 0, info |-> NoInfo]
  /\ restarts = 0

Next ==
  \/ UpdateLeaderSchedule
  \/ \E round \in 1 .. MaxRound : TryCommit(round)
  \/ \E n \in 1 .. MaxRound : TryCommitCertified(n)
  \/ Flush
  \/ Restart

Spec == Init /\ [][Next]_vars

(* Blocks keep arriving, and with them calls of try_commit, until all      *)
(* leaders can be decided.                                                 *)
FairSpec ==
  /\ Spec
  /\ WF_vars(UpdateLeaderSchedule) /\ WF_vars(TryCommit(MaxRound))

-----------------------------------------------------------------------------
(* Validators commit the same leaders, one after the other, however their  *)
(* decisions are batched, decided here or received, lost in a crash and    *)
(* made again: a leader is always elected by the schedule that follows     *)
(* from the commits before it.                                             *)
CommitsAgree ==
  \A i \in 1 .. Len(commits) :
    commits[i].leader \in NextLeaders(outcomes, SubSeq(commits, 1, i - 1))

(* The commits to be scored are exactly those since the commits that the   *)
(* table was computed from, and never more than a schedule: the assertions *)
(* "Committed subdags count exceeds the number of commits per schedule"    *)
(* and "The new LeaderSwapTable has an invalid CommitRange", which a       *)
(* restart with a commit info behind the commits could run into.           *)
UnscoredExact ==
  /\ Len(scoring_subdag) <= CommitsPerSchedule
  /\ commits = SubSeq(commits, 1, leader_swap_table.seed) \o scoring_subdag
  /\ leader_swap_table.seed % CommitsPerSchedule = 0

(* "We will loop back and recalculate any discarded leaders with the new   *)
(* schedule": leaders that the cut at a change of schedule discards, or    *)
(* that come after skipped ones, are committed in the end.                 *)
DiscardedLeadersCommitted == <>[](NextLeaders(outcomes, commits) = {})
=============================================================================
