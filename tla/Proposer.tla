------------------------------- MODULE Proposer -------------------------------
(***************************************************************************)
(* How one validator decides to propose, and what survives its crashes:    *)
(* Core::{recover, new_block, try_propose, try_new_block} and the core     *)
(* thread's loop (consensus/core/src/{core,core_thread}.rs), the leader    *)
(* timeout task, the threshold clock rebuilt by DagState::new, and the     *)
(* search for its own last block after a loss of its store                 *)
(* (synchronizer.rs).                                                      *)
(*                                                                         *)
(* A block is <<author, round>>: the validator's own blocks of one round   *)
(* need no further identity, as creating a second one for a round that was *)
(* broadcast already is what must not happen.  Blocks of peers arrive in   *)
(* any order in which their causal history is complete (BlockManager), one *)
(* at a time; a larger batch only proposes less often, which an unforced   *)
(* proposal may do anyway: the minimum round delay and the quality of the  *)
(* ancestors are left open.                                                *)
(*                                                                         *)
(* The handlers of the core thread run to completion, but the process may  *)
(* stop, and the commit finalizer may flush, between their writes; stage   *)
(* says how far the current handler is.                                    *)
(***************************************************************************)
EXTENDS ThresholdClock, FiniteSetsExt

CONSTANTS
  Own,          \* this validator
  Index,        \* Index[a]: the position of a in the committee
  Validity,     \* the sets of authorities whose stake reaches f+1
  Faulty,       \* the peers that may answer what they like; a peer that has
                \* lost its store, too, is one
  Leader,       \* Leader[r]: the authority whose block of round r is waited for
  WaveLength,   \* rounds it takes to commit a leader, its own included
  GcDepth,      \* consensus_gc_depth
  CachedRounds, \* dag_state_cached_rounds
  SyncOwnBlock, \* sync_last_known_own_block_timeout is not zero
  CrashAfterLoss, \* may the process stop again after the store was lost?
  MaxLosses,    \* bound: how often the store is lost
  MaxRound,     \* bound: rounds
  MaxRestarts   \* bound: process crashes

Rounds == 1 .. MaxRound

Peer == Authority \ {Own}

Truthful == Peer \ Faulty

None == -1

ASSUME ProposerAssumption ==
  /\ Own \in Authority
  /\ Index \in [Authority -> Nat]
  /\ \A a, b \in Authority : Index[a] = Index[b] => a = b
  /\ Leader \in [Rounds -> Authority]
  /\ Validity \subseteq SUBSET Authority
  /\ Faulty \subseteq Peer
  /\ WaveLength \in Nat \ {0} /\ GcDepth \in Nat /\ WaveLength + GcDepth >= 3
  /\ CachedRounds \in Nat \ {0}
  /\ SyncOwnBlock \in BOOLEAN /\ CrashAfterLoss \in BOOLEAN
  /\ MaxLosses \in Nat /\ MaxRound \in Nat \ {0} /\ MaxRestarts \in Nat

VARIABLES
  dag,      \* DagState: the blocks in memory
  stored,   \*   the blocks in the store
  clock,    \*   the threshold clock
  replay,   \*   stored blocks that DagState::new has still to load
  stage,    \* CoreThread: how far the current handler is
  force,    \*   is the proposal it tries forced?
  subscriber_exists,
  delayed,  \*   is the propagation delay above its threshold?
  known,    \*   last_known_proposed_round
  signaled, \*   last_signaled_round, which is also what the watch channel holds
  leader_round,   \* LeaderTimeoutTask
  min_timed_out,
  max_timed_out,
  commands, \*   its NewBlock command, if one waits for the core thread
  sent,     \* the rounds for which an own block was broadcast
  hold,     \* hold[p]: the round of the last own block that truthful peer p stored
  answers,  \* answers[p]: the round that peer p named in the search for the own
            \* last block, or None
  held,     \* the last round whose own block a quorum of truthful validators
            \* had stored when this one lost its store
  losses,
  restarts

core == <<subscriber_exists, delayed, known>>
timeouts == <<leader_round, min_timed_out, max_timed_out, commands>>
network == <<sent, hold, answers>>
faults == <<held, losses, restarts>>
vars == <<dag, stored, clock, replay, stage, force, core, signaled, timeouts, network, faults>>

-----------------------------------------------------------------------------
AuthorsAt(blocks, r) == {b[1] : b \in {c \in blocks : c[2] = r}}

QuorumAt(blocks, r) == ReachedQuorum(AuthorsAt(blocks, r))

LastRoundOf(a, blocks) == Max({0} \cup {b[2] : b \in {c \in blocks : c[1] = a}})

(* DagState::get_last_proposed_block *)
LastProposed == LastRoundOf(Own, dag)

(* Core::should_propose *)
ShouldProposeWith(exists, slow, last_known) ==
  /\ exists
  /\ ~slow
  /\ last_known # None
  /\ clock.round > last_known

ShouldPropose == ShouldProposeWith(subscriber_exists, delayed, known)

(* Core::leaders_exist, with one leader a round; the genesis blocks of     *)
(* round 0 are always there.                                               *)
LeaderExists(r) == r > 0 => <<Leader[r], r>> \in dag

(* Core::try_signal_new_round *)
SignalNewRound(c) == signaled' = Max({signaled, c.round})

NoAnswers == [p \in Peer |-> None]

Answered == {p \in Peer : answers[p] # None}

TypeOK ==
  /\ dag \subseteq Authority \X Rounds
  /\ stored \subseteq Authority \X Rounds
  /\ replay \subseteq stored \ dag
  /\ clock \in Clocks
  /\ stage \in {"load", "recover", "idle", "propose", "created", "flushed"}
  /\ stage # "load" => replay = {}
  /\ force \in BOOLEAN /\ subscriber_exists \in BOOLEAN /\ delayed \in BOOLEAN
  /\ known \in Nat \cup {None}
  /\ signaled \in Nat
  /\ leader_round \in Nat
  /\ min_timed_out \in BOOLEAN /\ max_timed_out \in BOOLEAN
  /\ commands \subseteq Nat \X BOOLEAN
  /\ sent \subseteq Rounds
  /\ hold \in [Truthful -> 0 .. MaxRound]
  /\ answers \in [Peer -> 0 .. MaxRound \cup {None}]
  /\ held \in Nat /\ losses \in Nat /\ restarts \in Nat

-----------------------------------------------------------------------------
(* Mutant: only the last CachedRounds rounds are loaded. *)
UnevictedByAge(blocks, gc) ==
  {b \in blocks : b[2] > LastRoundOf(b[1], blocks) - CachedRounds}

(* DagState::eviction_round: an authority's last CachedRounds rounds are   *)
(* loaded, older ones only above the GC round.                             *)
Unevicted(blocks, gc) ==
  {b \in blocks : b[2] > Min({gc, LastRoundOf(b[1], blocks) - CachedRounds})}

(* The GC rounds that the last commit may have left: it is GcDepth below   *)
(* a leader that blocks WaveLength - 1 rounds above have committed.        *)
GcRounds(blocks) ==
  {0} \cup {g \in Rounds : \E b \in blocks : g + GcDepth + WaveLength - 1 <= b[2]}

(* AuthorityNode::start with a fresh process: an empty store means that    *)
(* the validator may have lost its blocks.                                 *)
InitialLastKnown(blocks) == IF SyncOwnBlock /\ blocks = {} THEN None ELSE 0

Init ==
  /\ dag = {} /\ stored = {} /\ replay = {}
  /\ clock = NewClock
  /\ stage = "load"
  /\ force = FALSE
  /\ subscriber_exists \in BOOLEAN
  /\ delayed = FALSE
  /\ known = InitialLastKnown({})
  /\ signaled = 0
  /\ leader_round = 0 /\ min_timed_out = FALSE /\ max_timed_out = FALSE
  /\ commands = {}
  /\ sent = {}
  /\ hold = [p \in Truthful |-> 0]
  /\ answers = NoAnswers
  /\ held = 0 /\ losses = 0 /\ restarts = 0

(* DagState::new loads the blocks authority by authority, in the order of  *)
(* their rounds.                                                           *)
LoadBlock ==
  /\ stage = "load"
  /\ \E b \in replay :
       /\ \A c \in replay : Index[b[1]] < Index[c[1]] \/ (b[1] = c[1] /\ b[2] <= c[2])
       /\ replay' = replay \ {b}
       /\ dag' = dag \cup {b}
       /\ clock' = AddBlock(clock, b[1], b[2])
  /\ UNCHANGED <<stored, stage, force, core, signaled, timeouts, network, faults>>

(* Core::new; Core::recover goes on with a forced proposal. *)
StartCore ==
  /\ stage = "load" /\ replay = {}
  /\ stage' = "recover"
  /\ force' = TRUE
  /\ signaled' = LastProposed
  /\ UNCHANGED <<dag, stored, clock, replay, core, timeouts, network, faults>>

(* Core::recover without a new block: the last one is broadcast again,     *)
(* unless it is the genesis block.                                         *)
Rebroadcast ==
  /\ stage = "recover"
  /\ ~ShouldPropose \/ clock.round <= LastProposed \/ clock.round > MaxRound
  /\ sent' = sent \cup ({LastProposed} \ {0})
  /\ SignalNewRound(clock)
  /\ stage' = "idle" /\ force' = FALSE
  /\ UNCHANGED <<dag, stored, clock, replay, core, timeouts, hold, answers, faults>>

(* Core::add_blocks with a block that BlockManager accepts: a peer's, or   *)
(* an own block of before the loss of the store that somebody has.         *)
AddBlocks(a, r) ==
  /\ stage = "idle"
  /\ <<a, r>> \notin dag \cup stored
  /\ r = 1 \/ QuorumAt(dag \cup stored, r - 1)
  /\ a = Own => r \in sent
  /\ dag' = dag \cup {<<a, r>>}
  /\ clock' = AddBlock(clock, a, r)
  /\ stage' = "propose"
  /\ force' = FALSE
  /\ UNCHANGED <<stored, replay, core, signaled, timeouts, network, faults>>

(* Mutant: the last proposed round is not looked at. *)
CreateBlockAgain ==
  /\ stage \in {"propose", "recover"}
  /\ ShouldPropose
  /\ force \/ LeaderExists(clock.round - 1)
  /\ clock.round <= MaxRound
  /\ dag' = dag \cup {<<Own, clock.round>>}
  /\ clock' = AddBlock(clock, Own, clock.round)
  /\ stage' = "created" /\ force' = FALSE
  /\ UNCHANGED <<stored, replay, core, signaled, timeouts, network, faults>>

(* Core::try_new_block up to the acceptance of the block by the DAG. *)
CreateBlock ==
  /\ stage \in {"propose", "recover"}
  /\ ShouldPropose
  /\ clock.round > LastProposed
  /\ force \/ LeaderExists(clock.round - 1)
  /\ clock.round <= MaxRound
  /\ dag' = dag \cup {<<Own, clock.round>>}
  /\ clock' = AddBlock(clock, Own, clock.round)
  /\ stage' = "created" /\ force' = FALSE
  /\ UNCHANGED <<stored, replay, core, signaled, timeouts, network, faults>>

(* Core::try_propose without a new block.  Unforced, it may wait for the   *)
(* minimum round delay or for better ancestors.                            *)
SkipProposal ==
  /\ stage = "propose"
  /\ ~force \/ ~ShouldPropose \/ clock.round <= LastProposed \/ clock.round > MaxRound
  /\ SignalNewRound(clock)
  /\ stage' = "idle" /\ force' = FALSE
  /\ UNCHANGED <<dag, stored, clock, replay, core, timeouts, network, faults>>

(* The flush of try_new_block, which comes before the broadcast. *)
FlushProposal ==
  /\ stage = "created"
  /\ stored' = stored \cup dag
  /\ stage' = "flushed"
  /\ UNCHANGED <<dag, clock, replay, force, core, signaled, timeouts, network, faults>>

(* CoreSignals::new_block, and the signal of the round that ends the       *)
(* handler.                                                                *)
Broadcast ==
  /\ stage = "flushed"
  /\ sent' = sent \cup {LastProposed}
  /\ SignalNewRound(clock)
  /\ stage' = "idle" /\ force' = FALSE
  /\ UNCHANGED <<dag, stored, clock, replay, core, timeouts, hold, answers, faults>>

(* The commit finalizer's task flushes with every commit. *)
FinalizerFlush ==
  /\ stage # "load"
  /\ {b \in dag : b[2] >= WaveLength} # {}
  /\ stored' = stored \cup dag
  /\ stored' # stored
  /\ UNCHANGED <<dag, clock, replay, stage, force, core, signaled, timeouts, network, faults>>

-----------------------------------------------------------------------------
(* Core::new_block(round, forced), as the rest of a handler. *)
NewBlock(round, forced) ==
  IF LastProposed < round
    THEN stage' = "propose" /\ force' = forced
    ELSE UNCHANGED <<stage, force>>

(* CoreThreadCommand::NewBlock *)
RunCommand ==
  /\ stage = "idle"
  /\ \E cmd \in commands :
       /\ commands' = commands \ {cmd}
       /\ NewBlock(cmd[1], cmd[2])
  /\ UNCHANGED <<dag, stored, clock, replay, core, signaled,
                 leader_round, min_timed_out, max_timed_out, network, faults>>

(* Mutant: nothing is proposed when proposals become possible. *)
ProposeLater(exists, slow) == UNCHANGED <<stage, force>>

(* The core thread after a change of what should_propose depends on: if    *)
(* the change enables proposals, one is forced.                            *)
ProposeIfEnabled(exists, slow) ==
  IF ~ShouldPropose /\ ShouldProposeWith(exists, slow, known)
    THEN stage' = "propose" /\ force' = TRUE
    ELSE UNCHANGED <<stage, force>>

(* CoreThread::run on rx_subscriber_exists: the first peer subscribed, or  *)
(* the last one left.                                                      *)
SetSubscriberExists ==
  /\ stage = "idle"
  /\ subscriber_exists' = ~subscriber_exists
  /\ ProposeIfEnabled(subscriber_exists', delayed)
  /\ UNCHANGED <<dag, stored, clock, replay, delayed, known, signaled, timeouts, network, faults>>

(* CoreThread::run on rx_propagation_delay. *)
SetPropagationDelay ==
  /\ stage = "idle"
  /\ delayed' = ~delayed
  /\ ProposeIfEnabled(subscriber_exists, delayed')
  /\ UNCHANGED <<dag, stored, clock, replay, subscriber_exists, known, signaled, timeouts, network, faults>>

(* What handle_fetch_latest_blocks of a peer may return: no block, or one  *)
(* that this validator signed and sent.  A truthful peer returns the last  *)
(* one that it has, in its store or accepted since; another one may return *)
(* an older block, or none.                                                *)
AnswersOf(p) == {r \in {0} \cup sent : p \in Truthful => r >= hold[p]}

(* Synchronizer's fetch_own_last_block task, once the core thread runs:    *)
(* the answer of a peer arrives and is acceptable.  Others are asked for   *)
(* again or ignored.                                                       *)
PeerAnswers(p, r) ==
  /\ stage \notin {"load", "recover"}
  /\ known = None
  /\ answers[p] = None
  /\ r \in AnswersOf(p)
  /\ answers' = [answers EXCEPT ![p] = r]
  /\ UNCHANGED <<dag, stored, clock, replay, stage, force, core, signaled, timeouts, sent, hold, faults>>

(* Committee::reached_validity *)
ReachedValidity(peers) == \E V \in Validity : V \subseteq peers

(* The time to gather answers is up before an f+1 stake has answered: all  *)
(* peers are asked anew.                                                   *)
RetrySearch ==
  /\ known = None
  /\ Answered # {}
  /\ ~ReachedValidity(Answered)
  /\ answers' = NoAnswers
  /\ UNCHANGED <<dag, stored, clock, replay, stage, force, core, signaled, timeouts, sent, hold, faults>>

(* Mutant: any answer will do. *)
SetLastKnownFromAny ==
  /\ stage = "idle"
  /\ known = None
  /\ Answered # {}
  /\ known' = Max({0} \cup {answers[p] : p \in Answered})
  /\ answers' = NoAnswers
  /\ NewBlock(known' + 1, TRUE)
  /\ UNCHANGED <<dag, stored, clock, replay, subscriber_exists, delayed, signaled, timeouts, sent, hold, faults>>

(* The time is up, or all have answered, and an f+1 stake has: the task    *)
(* ends, and the core thread takes the highest round among the answers.    *)
SetLastKnownProposedRound ==
  /\ stage = "idle"
  /\ known = None
  /\ ReachedValidity(Answered)
  /\ known' = Max({0} \cup {answers[p] : p \in Answered})
  /\ answers' = NoAnswers
  /\ NewBlock(known' + 1, TRUE)
  /\ UNCHANGED <<dag, stored, clock, replay, subscriber_exists, delayed, signaled, timeouts, sent, hold, faults>>

-----------------------------------------------------------------------------
(* LeaderTimeoutTask: one of its timers expires, and its command is sent;  *)
(* the task then waits for the command to be processed.                    *)
TimerExpires(forced) ==
  /\ stage \notin {"load", "recover"}
  /\ commands = {}
  /\ IF forced
       THEN ~max_timed_out /\ max_timed_out' = TRUE /\ UNCHANGED min_timed_out
       ELSE ~min_timed_out /\ min_timed_out' = TRUE /\ UNCHANGED max_timed_out
  /\ commands' = {<<leader_round, forced>>}
  /\ UNCHANGED <<dag, stored, clock, replay, stage, force, core, signaled, leader_round, network, faults>>

(* LeaderTimeoutTask is told of a new round and restarts its timers. *)
NewRound ==
  /\ stage \notin {"load", "recover"}
  /\ commands = {}
  /\ leader_round # signaled
  /\ leader_round' = signaled
  /\ min_timed_out' = FALSE /\ max_timed_out' = FALSE
  /\ UNCHANGED <<dag, stored, clock, replay, stage, force, core, signaled, commands, network, faults>>

-----------------------------------------------------------------------------
(* A truthful peer stores an own block of this validator.  What peers have *)
(* matters only where the store can be lost and the block asked back.      *)
PeerStores(p, r) ==
  /\ MaxLosses > 0
  /\ r \in sent
  /\ hold[p] < r
  /\ hold' = [hold EXCEPT ![p] = r]
  /\ UNCHANGED <<dag, stored, clock, replay, stage, force, core, signaled, timeouts, sent, answers, faults>>

HeldByQuorum(r) == ReachedQuorum({Own} \cup {p \in Truthful : hold[p] >= r})

(* The process stops and starts again on the blocks that are left. *)
RestartOn(blocks, gc) ==
  /\ restarts < MaxRestarts
  /\ CrashAfterLoss \/ losses = 0
  /\ restarts' = restarts + 1
  /\ stored' = blocks
  /\ dag' = {}
  /\ replay' = Unevicted(blocks, gc)
  /\ clock' = NewClock
  /\ stage' = "load"
  /\ force' = FALSE
  /\ subscriber_exists' \in BOOLEAN
  /\ delayed' = FALSE
  /\ known' = InitialLastKnown(blocks)
  /\ signaled' = 0
  /\ leader_round' = 0 /\ min_timed_out' = FALSE /\ max_timed_out' = FALSE
  /\ commands' = {}
  /\ answers' = NoAnswers
  /\ UNCHANGED <<sent, hold>>

Restart ==
  /\ \E gc \in GcRounds(stored) : RestartOn(stored, gc)
  /\ UNCHANGED <<held, losses>>

(* The store is lost with the process. *)
LoseStore ==
  /\ losses < MaxLosses
  /\ RestartOn({}, 0)
  /\ losses' = losses + 1
  /\ held' = Max({0} \cup {r \in sent : HeldByQuorum(r)})

Next ==
  \/ LoadBlock \/ StartCore \/ Rebroadcast
  \/ \E a \in Authority, r \in Rounds : AddBlocks(a, r)
  \/ CreateBlock \/ SkipProposal \/ FlushProposal \/ Broadcast \/ FinalizerFlush
  \/ RunCommand \/ SetSubscriberExists \/ SetPropagationDelay
  \/ \E p \in Peer, r \in 0 .. MaxRound : PeerAnswers(p, r)
  \/ RetrySearch \/ SetLastKnownProposedRound
  \/ \E forced \in BOOLEAN : TimerExpires(forced)
  \/ NewRound
  \/ \E p \in Truthful, r \in Rounds : PeerStores(p, r)
  \/ Restart \/ LoseStore

Spec == Init /\ [][Next]_vars

(* What the runtime schedules: the core thread's handlers run to their end *)
(* (its queue is fair among its sources), and timers expire.  Nothing is   *)
(* assumed of peers, of subscriptions or of the other flushes.             *)
Fairness ==
  /\ WF_vars(LoadBlock) /\ WF_vars(StartCore) /\ WF_vars(Rebroadcast)
  /\ WF_vars(CreateBlock \/ SkipProposal) /\ WF_vars(FlushProposal) /\ WF_vars(Broadcast)
  /\ SF_vars(RunCommand)
  /\ WF_vars(TimerExpires(TRUE)) /\ WF_vars(NewRound)

FairSpec == Spec /\ Fairness

-----------------------------------------------------------------------------
ExactFor(blocks, c) ==
  /\ c.votes = AuthorsAt(blocks, c.round)
  /\ ~QuorumAt(blocks, c.round)
  /\ \A b \in blocks : b[2] <= c.round
  /\ \/ c.round = 1
     \/ AuthorsAt(blocks, c.round) # {}
     \/ QuorumAt(blocks, c.round - 1)

(* The threshold clock depends on the accepted blocks only, not on their   *)
(* order: it is at their last round, or one above if they are a quorum     *)
(* there, and its aggregator has counted exactly the authors in its round. *)
(* This also holds half way through the reload of DagState::new.           *)
ClockExact == ExactFor(dag, clock)

(* "Fatal error, quorum not reached for parent round when proposing": the  *)
(* blocks in memory have a quorum in the round below the clock, however    *)
(* much of the DAG a restart left out.                                     *)
ParentsInMemory ==
  stage # "load" => clock.round = 1 \/ QuorumAt(dag, clock.round - 1)

(* As long as its store survives, the validator never creates a block for  *)
(* a round in which it already broadcast one, wherever it crashed.         *)
NoEquivocation ==
  stage = "created" /\ losses = 0 => LastProposed \notin sent

(* Whatever peers have seen from this validator is in its store, together  *)
(* with a quorum of parents, so that it can serve and build on it.         *)
SentIsStored ==
  losses = 0 =>
    \A r \in sent : <<Own, r>> \in stored /\ (r = 1 \/ QuorumAt(stored, r - 1))

(* A restarted validator comes back knowing the last block that it has     *)
(* broadcast, and at or above its round, although only part of the store   *)
(* is loaded.                                                              *)
SentRemembered ==
  stage # "load" /\ losses = 0 =>
    \A r \in sent : r <= LastProposed /\ r <= clock.round

(* The search for the own last block makes up for a lost store: a round    *)
(* whose block a quorum of truthful validators, this one included, had     *)
(* stored when the store was lost is not proposed anew, whatever the other *)
(* peers answer, and although the f+1 that answer need not be the ones of  *)
(* that quorum.  A quorum that counts faulty members is not enough: they   *)
(* and a truthful peer without the block may be the f+1 that answer.       *)
HeldNotProposedAnew ==
  stage = "created" => LastProposed > held

(* While the validator may propose and its clock stays at a round, it does *)
(* propose for it: no order of timers, signals, subscriptions, delays and  *)
(* crashes makes it miss the moment.                                       *)
EveryRoundProposed ==
  \A r \in Rounds :
    clock.round = r /\ ShouldPropose ~>
      LastProposed >= r \/ clock.round # r \/ ~ShouldPropose
=============================================================================
