# Formal models of the Mysticeti consensus core

TLA+ specifications of `consensus/core`, the consensus engine of this blockchain
node, with TLC configurations that check them on small instances and TLAPS
proofs that establish the safety properties for all parameters. Every definition
that models code is listed in `PROJECT.json` under `map`, with the lines it
translates.

## The system and its parts

Each validator proposes one block per round. A block references blocks of
earlier rounds, a quorum (stake 2f+1 of 3f+1) of them in the round just below.
The blocks form a DAG. A deterministic rule picks *leader* blocks from it and
each committed leader sequences the part of its history that is not sequenced
yet: a *commit*. The commits of all validators are the same, and are executed in
their order.

| part of the code | module | what it asks |
|---|---|---|
| `block_manager.rs` | `BlockManager` | Are the maps of suspended and missing blocks consistent, and is nothing lost or stuck? |
| `synchronizer.rs`, `authority_service.rs` | `Synchronizer` | Are locks on blocks always returned, and does every missing block arrive? |
| the contract between the two | `FetchList` | An abstract specification; `BlockManager` implements it, `Synchronizer` uses it |
| `base_committer.rs`, `universal_committer.rs` | `Committer` | Do validators with different views agree? |
| `leader_schedule.rs`, loop of `Core::try_commit` | `LeaderSchedule` | Do they still agree when the schedule changes, in batches and after crashes? |
| `linearizer.rs`, `commit_observer.rs`, task of `commit_finalizer.rs`, `consensus_handler.rs` | `CommitLog` | Is each commit built once and delivered once, over crashes? |
| `commit_finalizer.rs`, `transaction_certifier.rs` | `CommitFinalizer` | Do validators reject the same transactions? |
| `core.rs`, `core_thread.rs`, `leader_timeout.rs`, `threshold_clock.rs` | `Proposer`, `ThresholdClock`, `StakeAggregator` | Does a validator ever propose twice for a round, or stop proposing? |
| `commit_syncer.rs`, `commit_vote_monitor.rs` | `CommitSyncer`, `CommitCertificates` | Does a validator that lags get the commits of the committee, all of them, in order? |

How they interact. Blocks arrive at the authority service and go through the
block manager into `DagState`. The synchronizer fetches what the block manager
reports missing. The core thread accepts blocks, runs the commit rule and
proposes. `CommitObserver` turns leaders into commits and sends them to the
finalizer task, which flushes `DagState` and passes them to the handler of
`sui-core`. The commit syncer feeds *certified* commits from peers into the same
loop of `Core`. The flush of the finalizer task runs at any time between the
writes of the core thread. This is where most of the hazards come from, and all
modules with a store have that flush as an action.

The modules are connected as follows. The leader sequence of `CommitLog` is what
`Committer` agrees on. The outcome of a slot in `LeaderSchedule` is the agreed
decision of `Committer`. The commits and their order in `CommitFinalizer` are
those of `CommitLog`. `Synchronizer` instantiates `FetchList`, and `BlockManager`
is shown to implement it. The other composition is by shared assumption: a module
takes as a constant what another one establishes.

## Modules

Actions carry the names of the functions they model, in TLA+ spelling. A
handler of a single thread is one action, unless another thread or a crash can
come between its writes; then it is split there and a variable says how far it
is (`stage` in `Proposer`, `sequencing` in `BlockManager`, `collected` and
`unsent` in `CommitLog`, `sending` in `CommitSyncer`).

**BlockManager.** State: accepted blocks, `suspended_blocks`,
`missing_ancestors`, `missing_blocks`, the commit round and what is stored.
Actions: acceptance, suspension, lookup of announced references, acceptance and
sequencing of certified commits, a local commit with the release by garbage
collection (GC), flush, restart. A vector of blocks is a run of one-block
actions.

**FetchList.** Three variables: payloads held, blocks to fetch, GC round. A block
leaves the list only when it arrives, is collected, or at a restart.

**Synchronizer.** State: the lock map, the guards that own the locks, the commands
and requests of the live path, the task of the periodic path. Requests fail, are
late or are answered by untruthful peers; queues are full; swapping locks is two
steps. `KickOffScheduler` has no action of its own, since the scheduler may run at
any time. A request that finds a full queue takes and drops its locks in one step.
This is the batched protocol; the variant for older protocol versions is left out.

**Committer.** `try_decide` over one causally closed view after another of one DAG,
one round per step; `decisions` and `sequence` remember what was decided. Faulty
authorities equivocate.

**LeaderSchedule.** The loop of `Core::try_commit` with the change of schedule, the
cut of the decided leaders, certified commits, what `flush` writes of the scores
and what a restart rebuilds. Scores are abstracted to the commits they are computed
from, so that two tables are equal only if they have seen the same commits. The
constant `Agreed` gives, for every outcome of the slots, the commits of a validator
that never crashes and decides one leader at a time; an `ASSUME` says that they follow
one from the other. They are what peers serve as certified commits.

**CommitLog.** Linearization, buffering, flushing and eviction, the channel to the
finalizer and to the consumer, durable effects, crash, replay in batches. A
commit's blocks are a set, as their sort is a function of it. Which pending commits
a new commit finalizes is nondeterministic here.

**CommitFinalizer.** The votes counted by the certifier, the direct, the late and
the indirect verdict on the transactions of a commit, collection of votes, recovery.
A block stands for itself and for its one transaction, and in the certifier only
blocks with a reject vote are followed. `Evidence` says what a validator must have
seen to have decided a commit itself. It matters: a quorum of leader certificates,
or one in the history of the anchor, carries enough votes for a direct verdict; one
certificate alone would not. The loops over the queue are written by what they leave:
the longest prefix that may be tried, or that is finalized. `Reached` goes up the
rounds of the linked blocks, as `append_origin_descendants_from_last_commit` does.

**Proposer.** Clock, stages of a proposal, both leader timers, subscriptions and the
propagation delay, the search for the own last block, crashes, the loss of the store.
Its peers are external. A peer in `Truthful` stores blocks of this validator (`hold` is
the last one) and answers the search with the last one it has accepted, which may be
above what it has stored; a peer in `Faulty`, which a peer without its store is, too,
answers with any block ever sent, or none. The answers come one by one (`answers`), between
other steps of any peer; those of an attempt that does not reach f+1 stake are discarded,
and any set that does may be the one at hand when the timer fires. The special case of a
committee of one, which does not ask, is left out.

**CommitSyncer.** Pending, in-flight and fetched ranges, partial answers, throttling
by the handler, commits made locally, crash. `CommitCertificates` has the answers of
peers and their verification as operators.

`*Proofs` hold the proofs. `MC*` hold the instances.

## What is checked

The runs in `PROJECT.json`, with `tlc -config <cfg> <module>`:

| run | result |
|---|---|
| `block_manager` | The maps mirror each other (each direction is a panic in the code), the fetch list is exact and suffices, no block is lost, gaps in the DAG exist only at certified blocks that are not sequenced yet, `FetchList` is implemented, and every suspension ends. |
| `stored_dag_gap` | **Violation**: see Findings. |
| `committer` | No two views decide a slot differently; a blamed slot has no certificate; a supported one is certified in every anchor's history; sequences are prefixes of one. |
| `leader_schedule` | However decisions are batched, received, lost and repeated, the leaders are those of a validator that decides one at a time; table and unscored commits always meet; discarded leaders are committed in the end. |
| `commit_log` | Commits are a function of the leaders, the walk finds all it needs in the cache, delivery is in order, once, and after persistence; every leader is handled. |
| `commit_finalizer` | One verdict per transaction at all validators and after a crash, compatible with the fast path; votes are kept as long as needed; nothing is overdue. |
| `proposer`, `proposer_live`, `proposer_loss` | The clock depends on the set of blocks only, parents are in memory, no second block for a round; every round is proposed for; after one loss of the store nothing that a quorum of truthful validators had stored is proposed anew, whatever the others answer. |
| `proposer_amnesia` | **Violation**: see Findings. |
| `commit_syncer` | Nothing is lost or fetched twice, no gap reaches Core, only the committee's commits do, the fetch-ahead is bounded, and the validator catches up. |
| `synchronizer` | The lock map equals what the guards own, few authorities fetch a block at once, every missing block arrives, every lock is returned. |

Each property has a mutant in `PROJECT.json`: a plausible mistake in the code it is
about, under which TLC reports that property.

Deadlock is checked in `block_manager`, `committer` and `leader_schedule`. The other systems may
stop: their DAG, chain or number of rounds is finite and then all work is done.

### Bounds

The instances are small, and chosen so that the cases that matter happen.

* `block_manager`: five blocks, four rounds, GC depth 1, one link across two rounds so
  that GC cuts a history.
* `committer`: 288 DAGs of six rounds, four authorities, an equivocating leader in
  round 1; six rounds are what a direct and an indirect decision of it need.
* `leader_schedule`: six rounds, a schedule of two commits, any three slots skipped,
  two crashes: up to three schedules, with cuts in the middle of batches.
* `commit_log`: nine blocks, four leaders, GC depth 2, batches of two, two crashes.
* `commit_finalizer`: fourteen blocks in four rounds, an equivocation in round 2, all
  combinations of reject votes on one transaction, two sequences of leaders, one
  crash. Four rounds are a wave and its anchor, so both the direct and the indirect
  verdict exist. A family of DAGs five times as large was run once, without error.
* `proposer*`: two to three rounds (one after a loss), one or two crashes, committees of
  three or four, the latter with one faulty peer in `proposer_loss`. The wave length is 1
  and the GC depth 2 there, so that eviction starts within these rounds; the proofs cover
  the real values.
* `commit_syncer`: six commits, batches of two, two parallel fetches, untruthful answers
  of up to three commits, one crash.
* `synchronizer`: two peers, one honest, three blocks, one lock per block, two
  retries, one period of lag.

For the safety properties with proofs the instances only guard against a wrong
statement: the proofs are for all constants. For liveness the instances are all there is.

### Fairness

* `BlockManager`: a block on the fetch list is delivered if it stays there (strong
  fairness of `Fetch`, which `Synchronizer` shows for the real fetch paths), and
  sequencing of certified commits, a call on the core thread, returns.
* `CommitLog`: every task keeps running and blocks keep arriving. Nothing is assumed of
  crashes. A commit may wait in the finalizer for later votes, and the
  property says so.
* `Proposer`: the core thread's handlers run to their end, timers expire, and a
  command in the queue is served although others arrive (strong fairness, as the loop
  selects fairly among its sources). Nothing is assumed of peers.
* `CommitSyncer`: its task, Core, the flush and the handler run; while fetches are in
  flight a truthful peer eventually answers one (each fetch tries the peers in turn);
  blocks of truthful authorities keep coming. Nothing is assumed of local commits.
* `Synchronizer`: its tasks and timers run; planning, which shuffles the peers, assigns
  an honest one again and again, and that one answers in time again and again; the
  validator does not lag for ever.
* `LeaderSchedule`: the loop goes on, and in the end there are blocks to decide all
  leaders.

## Findings

Two disagreements of code and comments, each with a run whose property states the
comment.

* `stored_dag_gap`: `DagState::flush` requires that a buffered block has its ancestors
  buffered too (`dag_state.rs:1018`). The finalizer task may flush between the acceptance
  of a run of certified blocks and their commits; the store then has blocks with missing
  ancestors above the stored GC round. `BlockManager` shows that these gaps are exactly
  at the certified blocks and close when they are sequenced.
* `proposer_amnesia`: amnesia recovery is said to depend on the boot counter
  (`authority_node.rs:69`); it also needs an empty store. A second crash after a loss of
  the store, once a block of a peer has been flushed, skips the recovery.

## What is proved

TLAPS checks every proof to the last leaf. All theorems are of the form
`Spec => []Inv`, from an inductive invariant `IInv`, except the refinement.

| module | theorems | argument |
|---|---|---|
| `BlockManagerProofs` | `TypesHold`, `MapsMirror`, `FetchListExact`, `DeliveredBlocksKept`, `DagCausallyComplete`, `FetchingSuffices`, `BlockManagerImplementsFetchList` | The properties need each other: a release is right only if the maps mirror each other and nothing stale is awaited. To them come where the stored DAG has gaps, since a restart makes it the current one, and that the commits being sequenced close theirs. `FetchingSuffices` takes a suspended block of least round outside the released set. |
| `CommitterProofs` | `TypesHold`, `Agreement`, `TotalOrder`, `CandidatesUnique`, `BlameIsFinal`, `SupportIsFinal` | A decision is *justified* by the whole DAG: by blame, by support, or by the first anchor among the other decisions. Two justified decisions of a slot agree, by quorum intersection and by the agreement above it. |
| `LeaderScheduleProofs` | `LeadersAgree`, `UnscoredMeetTable` | The commits are a prefix of the agreed ones, the table and the unscored commits meet at a change of schedule at most one schedule back, the stored commit info is that of such a change, and every slot after the last commit up to `last_decided_leader` is skipped under the schedule in force. Of the leaders decided in a batch, the j-th committed one is then the j-th agreed one to come, because the cut keeps the batch within one schedule. |
| `SynchronizerProofs` | `TypesHold`, `LocksOwned`, `FetchesBounded` | The map is what the guards own, and the limit holds as `lock_blocks` sees it, on the entries of the map. No two guards of a peer share a block, so dropping or swapping one never touches the lock of another, and a block has as many guards as peers in its entry. |
| `CommitFinalizerProofs` | `FinalizedInOrder`, `VotesKeptAlways`, `NoCommitOverdue`, `VerdictInvariance`, `VerdictsAlwaysAgree`, `FastpathAlwaysHonoured` | The pending commits are the last ones processed, in their order; every commit before a finalized one is finalized; the GC round is that of a finalized commit, below all blocks of later ones. A commit a wave below the last one has had its direct attempt, and so had all before it, and the indirect attempt leaves it nothing pending. For the verdicts see below. |
| `CommitLogProofs` | `TypesHold`, `LogDetermined`, `NoDoubleCommit`, `FlagsExact`, `CacheSuffices`, `ReplayPossible`, `PersistedFirst`, `InOrderDelivery` | The invariant describes the log, wherever its commits are (store, buffer, queues), as one sequence; the flags are exact above the GC round, which is what the next walk reads and what a restart rebuilds. |
| `ProposerProofs` | `TypesHold`, `ClockOrderIndependent`, `ParentsAlwaysThere`, `NoSelfEquivocation`, `StoredBeforeSent`, `SentNotForgotten`, `LossMadeUpFor` | Memory and store are causally closed, and what a restart does not load is neither a parent for the current round nor an own last block. After a loss of the store, there is a quorum of validators that are truthful, hold the block and, if they have answered already, have answered with it or a later one (`Witnesses`); peers that store blocks or answer keep it one, and an f+1 stake of answers has a member in it. |
| `CommitSyncerProofs` | `TypesHold`, `NothingEverLost`, `NothingFetchedTwice`, `CoreSeesNoGap`, `SyncedChainAgrees`, `FetchAheadStaysBounded` | The ranges held are disjoint, cover what is scheduled and not synced, and contain commits of the chain. A verified answer is on the chain from its certified last commit backwards, link by link. |

Most proof modules begin with `MinExists` and `MaxExists`, the least and greatest
elements of sets of naturals: the form in which the proofs argue by induction over
rounds. Every `IInv` was checked with TLC on the instance of its run before it was
proved.

**The verdicts of the finalizer.** `VerdictsAgree` compares every verdict with one that
the committed blocks alone determine: those of the commits up to the first one a wave
above, the *anchor*. Validators that agree on the commits then agree on the verdicts. The
invariant `VInv`, on top of that of the queue, has two parts. Of the votes: a commit
gets its direct attempt only when the validator has all reject votes among the
committed blocks below some certificate of the leader (`Informed`), and they are in the
store before the verdict is sent. Evidence of a local decision brings such a
certificate, and so do the commits up to the anchor. Of the verdicts: what is rejected
has a quorum of reject votes or is rejected by the committed blocks, and what those
reject is rejected or still pending (`Justified`). The rest is about votes in a DAG.

* A transaction that has no reject vote below a certificate is accepted by the committed
  blocks: the certificate has a quorum of votes for the leader, each of whose authors has
  a first block above the transaction, committed with the leader or later
  (`UnopposedAccepted`).
* A quorum of reject votes excludes a quorum of accepting ones, as an honest authority
  votes once, in its first block above the transaction (`QuorumRejects`).
* Blocks of one round from a quorum are met by the history of every block above
  (`QuorumMet`), so the anchor's history has a certificate of the leader.
* A transaction certified for the fast path is neither rejected by a quorum nor, for the
  same reason, by the committed blocks (`CertifiedNotRejected`, `CertifiedAccepted`).
* The accepting votes do not change when commits above the anchor are linked, nor when
  the commits before are forgotten (`AcceptanceStays`).

For a transaction linked so late that blocks above it may be collected before the
anchor is committed (`LateLinked`: more than `GcDepth` rounds below the last leader before
the anchor) only one inclusion is stated. A quorum of reject votes may then exist that
is not in the committed blocks, and a validator that has seen it rejects what another
one may accept. On the instance no transaction is late. With the GC depth of 60 rounds a late
one is more than 58 rounds below the first leader that has it in its history.

Assumptions. The `ASSUME`s of the modules: references go to lower rounds; leaders
have increasing rounds; two quorums share an honest authority (`Committer`); every
quorum has a truthful member and digests do not collide (`CommitCertificates`);
`WaveLength + GcDepth >= 3` (`Proposer`); the limits of requests, peers and retries are
positive (`Synchronizer`); `Agreed` follows from the outcomes (`LeaderSchedule`); the
DAGs of `CommitFinalizer` are valid: blocks link to a quorum of the round below
(`Linked`), honest authorities propose once in a round, link to their last block and vote
once on each transaction (`HonestlyVoted`), the commits are what `linearize_sub_dag` makes of
leaders that ascend and that the rule of `Committer` commits (`Committed`), stake adds up,
less than a third of it is faulty, and the GC depth is at least 2. An authority that has
lost its store counts as faulty there. TLC evaluates these assumptions on all DAGs of the
run. The theorems of `ProposerProofs` also
assume `NoDominantAuthority`: no authority is a quorum by itself. With such an
authority the threshold clock leaves its vote counted after a jump. `LossMadeUpFor`, that
`HeldNotProposedAnew` holds, assumes `SearchCompletes` in addition: the search for the own last
block is on, the process does not stop again after the loss, and an f+1 stake meets every
quorum. Without the second it is false, as `proposer_amnesia` shows. Nothing is assumed of
the answers of `Faulty` peers, of which there may be any number, but the quorum that
`HeldNotProposedAnew` speaks of consists of this validator and `Truthful` peers, which
have kept their stores and answer from them. A quorum that counts faulty members is not
enough. TLC refutes that form on the instance of `proposer_loss`: a
block is held by one truthful and the faulty peer, the faulty one answers with nothing, and
so does a truthful one that never had the block, which makes f+1. The code claims no more
than this: the search is "best effort" (`synchronizer.rs:229`) and `parameters.rs:149` puts
liveness before it.

`TypeOK` of the modules other than `Synchronizer` and `CommitFinalizer`, `NothingStaleAwaited`, `AtMostOneCandidate`,
`CommittedOnce`, `StatusesExact`, `StoreReplayable`, `SentIsStored` and
`SentRemembered` are proved for all constants and are not repeated in the runs.

Only model-checked: all liveness (`EverySuspensionEnds`, `EveryLeaderExecuted`,
`EveryRoundProposed`, `CaughtUp`, `EveryMissingBlockArrives`, `LocksReturned`,
`DiscardedLeadersCommitted`), which is out of the prover's reach, as are `ENABLED`
and what a recursive definition computes.

## Not modelled

`PROJECT.json` lists every part with a reason. In short:

* In `consensus/core`: connection handling (subscriber, broadcaster, network), the
  statistics of round prober and tracker, scoring of leaders and ancestors, the queue of
  transactions, block verification. Their effects are inputs of the modules: any
  delivery of blocks, any propagation delay, any table, any valid DAG.
* Durations. Timers may expire at any time after they start.
* The epoch change: every module is about one epoch.
* In `sui-core`: only the consensus handler's side of the commit stream is modelled.
  Execution, transaction management, checkpoints, state sync and the quorum driver are
  protocols with state of their own that no module reaches yet.
* The Move VM and framework, RPC services, indexers, bridge, SDKs, tools, documentation:
  interpreters, conversions of data and user interfaces, where a state machine with a
  handful of values would not be the program any more. They are most of the repository's
  lines, so the share of it that the map covers is small.
