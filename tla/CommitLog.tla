------------------------------ MODULE CommitLog ------------------------------
(***************************************************************************)
(* From decided leaders to executed commits, in one validator: Linearizer, *)
(* the commits of DagState, CommitObserver, the task of CommitFinalizer    *)
(* and the consumer of its output.                                         *)
(*                                                                         *)
(* Three threads share DagState: the core thread accepts blocks and turns  *)
(* decided leaders into commits; the commit finalizer task flushes DagState*)
(* and passes finalized commits on; the consumer, ConsensusHandler of      *)
(* sui-core, executes them and makes their effects durable some time later.*)
(* A crash wipes everything but the store and the durable effects; on      *)
(* restart the commits after those are replayed from the store.            *)
(*                                                                         *)
(* The leader sequence is what the commit rule agrees on (Committer).      *)
(***************************************************************************)
EXTENDS Integers, Sequences

CONSTANTS
  Block,         \* the non-genesis blocks
  Round,         \* Round[b]
  Author,        \* Author[b]
  Ancestors,     \* Ancestors[b]: the non-genesis ancestors of b
  Leaders,       \* the sequence of committed leaders
  Median,        \* Median[b]: stake-weighted median timestamp of b's parents
  GcDepth,       \* protocol_config.gc_depth()
  CachedRounds,  \* parameters.dag_state_cached_rounds
  BatchSize,     \* COMMIT_RECOVERY_BATCH_SIZE
  Fastpath,      \* protocol_config.mysticeti_fastpath()
  PriorCommits,  \* consensus_num_requested_prior_commits_at_startup()
  MaxRestarts    \* bound on the number of crashes

ASSUME DagAssumption ==
  /\ Round \in [Block -> Nat \ {0}]
  /\ Ancestors \in [Block -> SUBSET Block]
  /\ \A b \in Block : \A a \in Ancestors[b] : Round[a] < Round[b]

ASSUME LeadersAssumption ==
  /\ Leaders \in Seq(Block)
  /\ \A i, j \in DOMAIN Leaders : i < j => Round[Leaders[i]] < Round[Leaders[j]]

ASSUME ConstantsAssumption ==
  /\ Median \in [Block -> Nat]
  /\ GcDepth \in Nat /\ CachedRounds \in Nat /\ PriorCommits \in Nat /\ MaxRestarts \in Nat
  /\ BatchSize \in Nat \ {0}
  /\ Fastpath \in BOOLEAN

VARIABLES
  accepted,          \* blocks in DagState, cached or stored
  cached,            \* recent_blocks
  committed,         \* cached blocks whose committed flag is set
  last_commit,       \* DagState::last_commit
  commits_to_write,  \* buffered commits
  stored,            \* blocks and commits in the store
  collected,         \* the commit built by collect_sub_dag_and_commit and not
                     \* yet handed to add_commit
  unsent,            \* commits added and not yet sent to the finalizer
  replayed,          \* last commit index sent or skipped by recovery
  queue,             \* the channel to the finalizer
  pending,           \* pending_commits of the finalizer
  outgoing,          \* finalized and flushed commits not yet sent on
  output,            \* the channel to the consumer
  consumed,          \* commits executed by the consumer
  handled,           \* highest_handled_commit of the consumer
  durable,           \* the first so many of them have durable effects
  startup,           \* last_processed_commit_at_startup
  restarts           \* number of restarts so far

vars == <<accepted, cached, committed, last_commit, commits_to_write, stored, collected,
          unsent, replayed, queue, pending, outgoing, output, consumed, handled, durable, startup, restarts>>

blockVars == <<accepted, cached, committed>>
coreVars == <<collected, unsent, replayed>>
finalizerVars == <<queue, pending, outgoing, output>>
consumerVars == <<consumed, handled, durable, startup>>

NoCommit == [index |-> 0, blocks |-> {}, timestamp |-> 0]

-----------------------------------------------------------------------------
(* DagState.                                                               *)

GcRoundOf(commitRound) == IF commitRound > GcDepth THEN commitRound - GcDepth ELSE 0

CommitRound(c) == IF c.index = 0 THEN 0 ELSE Round[c.leader]

gc_round == GcRoundOf(CommitRound(last_commit))

RangeOf(s) == {s[i] : i \in DOMAIN s}

(* Mutant: the GC round does not hold the eviction back. *)
EvictedByAge(b, blocks, gc) ==
  \E c \in blocks : Author[c] = Author[b] /\ Round[b] + CachedRounds <= Round[c]

(* DagState::eviction_round, for the author of block b, when the cache     *)
(* holds the blocks in `blocks`.                                           *)
Evicted(b, blocks, gc) ==
  /\ Round[b] <= gc
  /\ \E c \in blocks : Author[c] = Author[b] /\ Round[b] + CachedRounds <= Round[c]

Unevicted(blocks, gc) == {b \in blocks : ~ Evicted(b, blocks, gc)}

(* Mutant: the buffered commits are left for a later write. *)
FlushBlocksOnly ==
  /\ stored' = [stored EXCEPT !.blocks = accepted]
  /\ cached' = Unevicted(cached, gc_round)
  /\ committed' = committed \cap cached'
  /\ UNCHANGED <<accepted, last_commit, commits_to_write>>

(* DagState::flush: one write batch, then the cache is trimmed. *)
FlushDag ==
  /\ stored' = [blocks |-> accepted, commits |-> stored.commits \cup RangeOf(commits_to_write)]
  /\ commits_to_write' = <<>>
  /\ cached' = Unevicted(cached, gc_round)
  /\ committed' = committed \cap cached'
  /\ UNCHANGED <<accepted, last_commit>>

-----------------------------------------------------------------------------
(* The core thread.                                                        *)

Recovered == replayed = last_commit.index

CoreIdle == Recovered /\ collected = NoCommit /\ unsent = <<>>

(* BlockManager accepts a block whose causal history above the GC round is *)
(* there; DagState::accept_block caches it and buffers it for the store.   *)
(* (Certified blocks, which may come without, are in module BlockManager.) *)
AcceptBlock(b) ==
  /\ CoreIdle
  /\ b \notin accepted
  /\ Round[b] > gc_round
  /\ \A a \in Ancestors[b] : Round[a] > gc_round => a \in accepted
  /\ accepted' = accepted \cup {b}
  /\ cached' = cached \cup {b}
  /\ UNCHANGED <<committed, last_commit, commits_to_write, stored, consumerVars, restarts>>
  /\ UNCHANGED <<coreVars, finalizerVars>>

(* The test on an ancestor in linearize_sub_dag. *)
Walkable(b, done, gc) == Round[b] > gc /\ b \notin done

(* What Linearizer::linearize_sub_dag commits with a leader: the blocks    *)
(* its walk reaches, i.e. the least set with the leader in it that is      *)
(* closed under walkable ancestors.                                        *)
LinearizeSubDag(leader, done, gc) ==
  LET candidates == {b \in Block : b = leader \/ (Walkable(b, done, gc) /\ Round[b] < Round[leader])}
      Closed(U) == \A b \in U : \A a \in Ancestors[b] : Walkable(a, done, gc) => a \in U
  IN  {b \in candidates : \A U \in SUBSET candidates : leader \in U /\ Closed(U) => b \in U}

(* Mutant: the GC round that this very commit brings about. *)
CommitOfNewGc(leader) ==
  [index |-> last_commit.index + 1,
   leader |-> leader,
   blocks |-> LinearizeSubDag(leader, committed, GcRoundOf(Round[leader])),
   timestamp |-> IF Median[leader] > last_commit.timestamp
                 THEN Median[leader] ELSE last_commit.timestamp]

(* Linearizer::collect_sub_dag_and_commit; the timestamp never decreases.  *)
CommitOf(leader) ==
  [index |-> last_commit.index + 1,
   leader |-> leader,
   blocks |-> LinearizeSubDag(leader, committed, gc_round),
   timestamp |-> IF Median[leader] > last_commit.timestamp
                 THEN Median[leader] ELSE last_commit.timestamp]

(* Mutant: a commit waits for the flush of the one before. *)
CollectSubDagAfterFlush ==
  /\ Recovered
  /\ collected = NoCommit /\ commits_to_write = <<>>
  /\ last_commit.index < Len(Leaders)
  /\ Leaders[last_commit.index + 1] \in accepted
  /\ collected' = CommitOf(Leaders[last_commit.index + 1])
  /\ committed' = committed \cup collected'.blocks
  /\ UNCHANGED <<accepted, cached, last_commit, commits_to_write, stored, unsent, replayed>>
  /\ UNCHANGED <<finalizerVars, consumerVars, restarts>>

(* The next leader of the sequence has been decided and is taken up by     *)
(* Linearizer::handle_commit; several decided leaders are taken up in turn *)
(* before any is sent on.  DagState is unlocked again after this step.     *)
CollectSubDag ==
  /\ Recovered
  /\ collected = NoCommit
  /\ last_commit.index < Len(Leaders)
  /\ Leaders[last_commit.index + 1] \in accepted
  /\ collected' = CommitOf(Leaders[last_commit.index + 1])
  /\ committed' = committed \cup collected'.blocks
  /\ UNCHANGED <<accepted, cached, last_commit, commits_to_write, stored, unsent, replayed>>
  /\ UNCHANGED <<finalizerVars, consumerVars, restarts>>

(* DagState::add_commit. *)
AddCommit ==
  /\ collected # NoCommit
  /\ last_commit' = collected
  /\ replayed' = collected.index
  /\ commits_to_write' = Append(commits_to_write, collected)
  /\ unsent' = Append(unsent, collected)
  /\ collected' = NoCommit
  /\ UNCHANGED <<blockVars, stored, finalizerVars, consumerVars, restarts>>

(* CommitObserver::handle_commit sends the sub-dags to the finalizer. *)
SendToFinalizer ==
  /\ collected = NoCommit
  /\ unsent # <<>>
  /\ queue' = queue \o unsent
  /\ unsent' = <<>>
  /\ UNCHANGED <<blockVars, last_commit, commits_to_write, stored, collected, replayed>>
  /\ UNCHANGED <<pending, outgoing, output, consumerVars, restarts>>

(* Core::try_new_block flushes before it broadcasts a proposal. *)
CoreFlush ==
  /\ CoreIdle
  /\ accepted # stored.blocks \/ commits_to_write # <<>>
  /\ FlushDag
  /\ UNCHANGED <<coreVars, finalizerVars, consumerVars, restarts>>

-----------------------------------------------------------------------------
(* The commit finalizer task.                                              *)

(* The number of buffered commits that one more commit lets the finalizer  *)
(* output: with the fast path any prefix, depending on the votes on their  *)
(* transactions; without it, all.                                          *)
Finalizable == IF Fastpath THEN 0 .. (Len(pending) + 1) ELSE {Len(pending) + 1}

(* One turn of the loop of CommitFinalizer::run up to the flush. *)
ProcessCommit(n) ==
  /\ queue # <<>>
  /\ outgoing = <<>>
  /\ queue' = Tail(queue)
  /\ pending' = SubSeq(Append(pending, Head(queue)), n + 1, Len(pending) + 1)
  /\ outgoing' = SubSeq(Append(pending, Head(queue)), 1, n)
  /\ IF n > 0
     THEN FlushDag
     ELSE UNCHANGED <<blockVars, last_commit, commits_to_write, stored>>
  /\ UNCHANGED <<coreVars, output, consumerVars, restarts>>

(* The rest of the turn: the finalized commits are sent on. *)
SendFinalized ==
  /\ outgoing # <<>>
  /\ output' = output \o outgoing
  /\ outgoing' = <<>>
  /\ UNCHANGED <<blockVars, last_commit, commits_to_write, stored, coreVars>>
  /\ UNCHANGED <<queue, pending, consumerVars, restarts>>

(* The consumer takes the next commit: one whose effects were durable at   *)
(* startup is only observed, any other is executed.                        *)
Consume ==
  /\ output # <<>>
  /\ consumed' = IF Head(output).index <= startup THEN consumed
                 ELSE Append(consumed, Head(output))
  /\ handled' = Head(output).index
  /\ output' = Tail(output)
  /\ UNCHANGED <<blockVars, last_commit, commits_to_write, stored, coreVars>>
  /\ UNCHANGED <<queue, pending, outgoing, durable, startup, restarts>>

(* ConsensusOutputQuarantine writes the effects of the oldest commits when *)
(* their checkpoints have been executed.                                   *)
CommitOutputs(k) ==
  /\ durable' = k
  /\ UNCHANGED <<blockVars, last_commit, commits_to_write, stored, coreVars, finalizerVars>>
  /\ UNCHANGED <<consumed, handled, startup, restarts>>

-----------------------------------------------------------------------------
(* Crash and recovery.                                                     *)

LastOf(L) ==
  IF L = {} THEN NoCommit ELSE CHOOSE c \in L : \A d \in L : d.index <= c.index

(* Store::read_last_commit. *)
LastStored == LastOf(stored.commits)

(* DagState::new goes back from the last commit until a leader is at or    *)
(* below the GC round, and marks the blocks above it.                      *)
RecoveredStatuses ==
  LET gc == GcRoundOf(CommitRound(LastStored)) IN
  {b \in UNION {c.blocks : c \in {c \in stored.commits : Round[c.leader] > gc}} : Round[b] > gc}

(* replay_after_commit_index: some commits are replayed although their     *)
(* effects are durable.                                                    *)
ReplayAfter == IF durable > PriorCommits THEN durable - PriorCommits ELSE 0

(* Mutant: what was sent to the consumer counts as executed. *)
RestartAfterSent ==
  /\ restarts < MaxRestarts
  /\ restarts' = restarts + 1
  /\ accepted' = stored.blocks
  /\ cached' = Unevicted(stored.blocks, GcRoundOf(CommitRound(LastStored)))
  /\ committed' = RecoveredStatuses
  /\ last_commit' = LastStored
  /\ commits_to_write' = <<>>
  /\ collected' = NoCommit
  /\ unsent' = <<>>
  /\ replayed' = ReplayAfter + Len(output)
  /\ queue' = <<>>
  /\ pending' = <<>>
  /\ outgoing' = <<>>
  /\ output' = <<>>
  /\ consumed' = SubSeq(consumed, 1, durable)
  /\ handled' = ReplayAfter
  /\ startup' = durable
  /\ UNCHANGED <<stored, durable>>

(* The process dies; DagState::new rebuilds the state from the store, and  *)
(* the consumer asks for the commits after the last one it executed.       *)
Restart ==
  /\ restarts < MaxRestarts
  /\ restarts' = restarts + 1
  /\ accepted' = stored.blocks
  /\ cached' = Unevicted(stored.blocks, GcRoundOf(CommitRound(LastStored)))
  /\ committed' = RecoveredStatuses
  /\ last_commit' = LastStored
  /\ commits_to_write' = <<>>
  /\ collected' = NoCommit
  /\ unsent' = <<>>
  /\ replayed' = ReplayAfter
  /\ queue' = <<>>
  /\ pending' = <<>>
  /\ outgoing' = <<>>
  /\ output' = <<>>
  /\ consumed' = SubSeq(consumed, 1, durable)
  /\ handled' = ReplayAfter
  /\ startup' = durable
  /\ UNCHANGED <<stored, durable>>

CommitAt(i) == CHOOSE c \in stored.commits : c.index = i

(* How many commits the next batch replays. *)
BatchLen ==
  IF replayed + BatchSize < last_commit.index THEN BatchSize ELSE last_commit.index - replayed

(* CommitObserver::recover_and_send_commits, one batch: the commits are    *)
(* buffered again, because the flush of the finalizer writes them, and     *)
(* sent to the finalizer.                                                  *)
RecoverBatch ==
  /\ ~ Recovered
  /\ LET commits == [i \in 1 .. BatchLen |-> CommitAt(replayed + i)] IN
     /\ commits_to_write' = commits_to_write \o commits
     /\ queue' = queue \o commits
  /\ replayed' = replayed + BatchLen
  /\ UNCHANGED <<blockVars, last_commit, stored, collected, unsent>>
  /\ UNCHANGED <<pending, outgoing, output, consumerVars, restarts>>

-----------------------------------------------------------------------------
Init ==
  /\ accepted = {} /\ cached = {} /\ committed = {}
  /\ last_commit = NoCommit
  /\ commits_to_write = <<>>
  /\ stored = [blocks |-> {}, commits |-> {}]
  /\ collected = NoCommit
  /\ unsent = <<>>
  /\ replayed = 0
  /\ queue = <<>> /\ pending = <<>> /\ outgoing = <<>> /\ output = <<>>
  /\ consumed = <<>> /\ handled = 0 /\ durable = 0 /\ startup = 0
  /\ restarts = 0

Next ==
  \/ \E b \in Block : AcceptBlock(b)
  \/ CollectSubDag
  \/ AddCommit
  \/ SendToFinalizer
  \/ CoreFlush
  \/ \E n \in Finalizable : ProcessCommit(n)
  \/ SendFinalized
  \/ Consume
  \/ \E k \in (durable + 1) .. Len(consumed) : CommitOutputs(k)
  \/ Restart
  \/ RecoverBatch

Spec == Init /\ [][Next]_vars

(* Every thread keeps running, and the blocks keep arriving. *)
FairSpec ==
  /\ Spec
  /\ \A b \in Block : WF_vars(AcceptBlock(b))
  /\ WF_vars(CollectSubDag) /\ WF_vars(AddCommit) /\ WF_vars(SendToFinalizer)
  /\ WF_vars(\E n \in Finalizable : ProcessCommit(n)) /\ WF_vars(SendFinalized)
  /\ WF_vars(Consume) /\ WF_vars(RecoverBatch)

-----------------------------------------------------------------------------
(* Properties.                                                             *)

Commit == [index : Nat \ {0}, leader : Block, blocks : SUBSET Block, timestamp : Nat]

TypeOK ==
  /\ accepted \subseteq Block /\ cached \subseteq accepted /\ committed \subseteq cached
  /\ last_commit \in Commit \cup {NoCommit}
  /\ collected \in Commit \cup {NoCommit}
  /\ stored \in [blocks : SUBSET Block, commits : SUBSET Commit]
  /\ commits_to_write \in Seq(Commit) /\ unsent \in Seq(Commit)
  /\ queue \in Seq(Commit) /\ pending \in Seq(Commit) /\ outgoing \in Seq(Commit)
  /\ output \in Seq(Commit) /\ consumed \in Seq(Commit)
  /\ replayed \in Nat /\ handled \in Nat /\ startup \in Nat
  /\ durable \in 0 .. Len(consumed)
  /\ restarts \in 0 .. MaxRestarts

(* Every commit made and not lost in a crash. *)
Log == stored.commits \cup RangeOf(commits_to_write)

(* The blocks that log L commits before index i. *)
BlocksBefore(L, i) == UNION {c.blocks : c \in {c \in L : c.index < i}}

(* c is the commit that the walk from the leader of its index makes after  *)
(* commit p of log L.                                                      *)
Follows(L, c, p) ==
  /\ c.blocks = LinearizeSubDag(c.leader, BlocksBefore(L, c.index), GcRoundOf(CommitRound(p)))
  /\ c.timestamp = IF Median[c.leader] > p.timestamp THEN Median[c.leader] ELSE p.timestamp

(* The commit log is a function of the leader sequence alone: the i-th     *)
(* commit holds what the walk from the i-th leader reaches above the GC    *)
(* round of the leader before and outside the earlier commits, and its     *)
(* timestamp is the running maximum of the medians.  So validators that    *)
(* agree on the leaders agree on the commits, whenever they crash, flush   *)
(* or evict (Linearizer::collect_sub_dag_and_commit).                      *)
LogIsLinearization ==
  \A c \in Log :
    /\ c.leader = Leaders[c.index]
    /\ \A p \in Log \cup {NoCommit} : p.index = c.index - 1 => Follows(Log, c, p)

(* No block is in two commits (the assertions on set_committed in          *)
(* linearize_sub_dag).                                                     *)
CommittedOnce ==
  \A c, d \in Log \cup {collected} : c.index # d.index => c.blocks \cap d.blocks = {}

(* Above the GC round the committed flags are exactly the blocks of the    *)
(* commits, also right after a restart rebuilt them from the store.        *)
StatusesExact ==
  \A b \in Block : Round[b] > gc_round =>
    (b \in committed <=> \E c \in Log \cup {collected} : b \in c.blocks)

(* Whatever the walk asks DagState for is in the cache: is_committed and   *)
(* set_committed panic on a block that is not, and linearize_sub_dag       *)
(* expects every ancestor above the GC round to be there.                  *)
WalkNeverMisses ==
  \A b \in accepted : Round[b] > gc_round =>
    /\ b \in cached
    /\ \A a \in Ancestors[b] : Round[a] > gc_round => a \in cached

(* The store can always be replayed: its commits are numbered without gap  *)
(* or duplicate and all their blocks are there (the assertion "Gap in      *)
(* scanned commits" and load_committed_subdag_from_store).                 *)
StoreReplayable ==
  /\ \A c, d \in stored.commits : c.index = d.index => c = d
  /\ \A c \in stored.commits : c.blocks \subseteq stored.blocks
  /\ \A c \in stored.commits : \A i \in 1 .. c.index : \E d \in stored.commits : d.index = i

(* A commit is persisted before it is sent to the consumer, so a consumer  *)
(* never remembers a commit that a crash takes back (the assertions on     *)
(* replay_after_commit_index in recover_and_send_commits).                 *)
DeliveredIsPersisted ==
  RangeOf(consumed) \cup RangeOf(output) \cup RangeOf(outgoing) \subseteq stored.commits

(* Sequence s holds the commits of log L from the one after index n on. *)
Continues(L, s, n) == \A i \in DOMAIN s : s[i] \in L /\ s[i].index = n + i

(* The commits on their way to the consumer continue the ones it has       *)
(* handled, none missing and none twice, and the ones it has executed are  *)
(* the log from 1 on, however crashes cut the delivery and recovery        *)
(* repeats it.                                                             *)
DeliveredInOrder ==
  LET toOutgoing == handled + Len(output)
      toPending == toOutgoing + Len(outgoing)
      toQueue == toPending + Len(pending)
      toUnsent == toQueue + Len(queue)
  IN
  /\ Continues(Log, consumed, 0)
  /\ Len(consumed) = IF handled > startup THEN handled ELSE startup
  /\ Continues(Log, output, handled)
  /\ Continues(Log, outgoing, toOutgoing)
  /\ Continues(Log, pending, toPending)
  /\ Continues(Log, queue, toQueue)
  /\ Continues(Log, unsent, toUnsent)
  /\ replayed = toUnsent + Len(unsent)

(* Every decided leader is in the end handled by the consumer, although    *)
(* the process may crash at any point; with the fast path it may also wait *)
(* in the finalizer for the votes of later commits.                        *)
EveryLeaderExecuted == <>[](handled + Len(pending) = Len(Leaders))
=============================================================================
