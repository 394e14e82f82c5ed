----------------------------- MODULE CommitSyncer -----------------------------
(***************************************************************************)
(* How a validator that has fallen behind catches up with the commits of   *)
(* the committee (consensus/core/src/commit_syncer.rs, with                *)
(* commit_vote_monitor.rs, commit_consumer.rs and the acceptance of        *)
(* certified commits in core.rs).                                          *)
(*                                                                         *)
(* The scheduler task wakes up on a tick or when a fetch returns.  It cuts *)
(* what is missing into ranges, fetches several of them in parallel and    *)
(* hands the answers to Core in order; while it waits for Core it does     *)
(* nothing else, but Core, the handler of commits and the network go on.   *)
(* A fetch retries for ever and ends with an answer that verifies, so a    *)
(* refused answer or a timeout is no step.                                 *)
(***************************************************************************)
EXTENDS CommitCertificates

CONSTANTS
  BadAnswers,       \* answers of peers that are not truthful
  PeerVotes,        \* the sets of votes a truthful peer's store may hold
  ParallelFetches,  \* commit_sync_parallel_fetches
  BatchesAhead,     \* commit_sync_batches_ahead
  VotedIndex,       \* bound: the indices blocks vote for
  MaxLocal,         \* bound: the last index Core commits without the syncer
  MaxRestarts       \* bound: the number of crashes

ASSUME SyncerAssumption ==
  /\ BadAnswers \subseteq [commits : Seq(Commit), votes : SUBSET Votes]
  /\ PeerVotes \subseteq SUBSET Votes
  /\ ParallelFetches \in Nat \ {0}
  /\ BatchesAhead \in Nat \ {0}
  /\ VotedIndex \subseteq 0 .. MaxIndex
  /\ MaxLocal \in 0 .. MaxIndex
  /\ MaxRestarts \in Nat

VARIABLES
  voted,      \* CommitVoteMonitor: highest_voted_commits
  chain,      \* the commits in DagState
  stored,     \* how many of them the store holds
  handled,    \* CommitConsumerMonitor: highest_handled_commit
  pending,    \* pending_fetches
  inflight,   \* inflight_fetches
  fetched,    \* fetched_ranges, each entry the sequence of its commits
  scheduled,  \* highest_scheduled_index, 0 for None
  synced,     \* synced_commit_index
  sending,    \* the commits the scheduler waits for Core to add, or << >>
  restarts    \* how many crashes there have been

schedulerVars == <<pending, inflight, fetched, scheduled, synced, sending>>
vars == <<voted, chain, stored, handled, schedulerVars, restarts>>

Larger(i, j) == IF i < j THEN j ELSE i

Smaller(i, j) == IF i < j THEN i ELSE j

last_commit_index == Len(chain)

(* quorum_commit_index: the largest index that a quorum has voted for, or  *)
(* for a later one                                                         *)
QuorumCommitIndex ==
  CHOOSE i \in 0 .. MaxIndex :
    /\ i = 0 \/ ReachedQuorum({a \in Authority : voted[a] >= i})
    /\ \A j \in i + 1 .. MaxIndex : ~ ReachedQuorum({a \in Authority : voted[a] >= j})

UnhandledCommitsThreshold == BatchSize * BatchesAhead

RangeOf(commits) == [start |-> commits[1].index, end |-> commits[Len(commits)].index]

(* What the fetch of a range may return: an answer that verifies, of a     *)
(* truthful peer or of another one.                                        *)
TruthfulAnswers(r) ==
  {HandleFetchCommits(r, last, votes) : last \in 0 .. MaxIndex, votes \in PeerVotes}

FetchResults(r, answers) == {<<r, Verified(r, x)>> : x \in {y \in answers : Verifies(r, y)}}

TruthfulResults == UNION {FetchResults(r, TruthfulAnswers(r)) : r \in CommitRange}

Results == TruthfulResults \cup UNION {FetchResults(r, BadAnswers) : r \in CommitRange}

Init ==
  /\ voted = [a \in Authority |-> 0]
  /\ chain = << >>
  /\ stored = 0
  /\ handled = 0
  /\ pending = {} /\ inflight = {} /\ fetched = {}
  /\ scheduled = 0 /\ synced = 0
  /\ sending = << >>
  /\ restarts = 0

-----------------------------------------------------------------------------
(* try_start_fetches: the first pending ranges fill the free slots.  The   *)
(* more ranges wait for one in front of them, the fewer slots there are.   *)
TargetParallelFetches(waiting) ==
  Larger(1, Smaller(ParallelFetches,
            Smaller((Cardinality(Authority) * 2) \div 3,
                    Larger(0, BatchesAhead - waiting))))

TryStartFetches(ranges, running, waiting) ==
  LET slots == TargetParallelFetches(Cardinality(waiting)) - Cardinality(running)
      next  == {r \in ranges : Cardinality({q \in ranges : Before(q, r)}) < slots}
  IN  /\ pending' = ranges \ next
      /\ inflight' = running \cup next

(* The loop at the end of handle_fetch_result, up to the next batch for    *)
(* Core.  Ranges that have been synced meanwhile are dropped; a gap after  *)
(* what is synced ends the loop.                                           *)
FirstUnsynced(entries, index) ==
  {e \in entries : /\ RangeOf(e).end > index
                   /\ \A d \in entries : RangeOf(d).end > index => ~ Before(RangeOf(d), RangeOf(e))}

(* Mutant: a gap before the first fetched range does not stop the loop. *)
ProcessFetchedAnyway(ranges, running, entries, index) ==
  LET first == FirstUnsynced(entries, index)
      left  == {e \in entries : \E f \in first : ~ Before(RangeOf(e), RangeOf(f))}
  IN  /\ synced' = index
      /\ IF first # {}
           THEN /\ sending' \in first
                /\ fetched' = left \ {sending'}
                /\ pending' = ranges /\ inflight' = running
           ELSE /\ sending' = << >>
                /\ fetched' = left
                /\ TryStartFetches(ranges, running, left)

(* Mutant: a range that Core has committed a part of is not processed. *)
ProcessFetchedExact(ranges, running, entries, index) ==
  LET first == FirstUnsynced(entries, index)
      left  == {e \in entries : \E f \in first : ~ Before(RangeOf(e), RangeOf(f))}
  IN  /\ synced' = index
      /\ IF \E f \in first : RangeOf(f).start = index + 1
           THEN /\ sending' \in first
                /\ fetched' = left \ {sending'}
                /\ pending' = ranges /\ inflight' = running
           ELSE /\ sending' = << >>
                /\ fetched' = left
                /\ TryStartFetches(ranges, running, left)

ProcessFetched(ranges, running, entries, index) ==
  LET first == FirstUnsynced(entries, index)
      left  == {e \in entries : \E f \in first : ~ Before(RangeOf(e), RangeOf(f))}
  IN  /\ synced' = index
      /\ IF \E f \in first : RangeOf(f).start <= index + 1
           THEN /\ sending' \in first
                /\ fetched' = left \ {sending'}
                /\ pending' = ranges /\ inflight' = running
           ELSE /\ sending' = << >>
                /\ fetched' = left
                /\ TryStartFetches(ranges, running, left)

-----------------------------------------------------------------------------
(* try_schedule_once: ranges of a full batch, as long as the quorum has    *)
(* committed them and the handler of commits is not too far behind         *)
NewRanges(after, limit) ==
  {[start |-> after + (k - 1) * BatchSize + 1, end |-> after + k * BatchSize] :
     k \in {n \in 1 .. MaxIndex : after + n * BatchSize <= limit}}

Schedule(index, after, limit) ==
  LET ranges == NewRanges(after, limit)
  IN  /\ sending = << >>
      /\ synced' = index
      /\ scheduled' = IF ranges = {}
                        THEN scheduled
                        ELSE CHOOSE i \in {r.end : r \in ranges} : \A r \in ranges : r.end <= i
      /\ TryStartFetches(pending \cup ranges, inflight, fetched)
      /\ UNCHANGED <<voted, chain, stored, handled, fetched, sending, restarts>>

(* Mutant: the ranges follow what is synced, not what is scheduled. *)
TickFromSynced ==
  LET index == Larger(synced, last_commit_index)
  IN  Schedule(index, index, Smaller(QuorumCommitIndex, handled + UnhandledCommitsThreshold))

(* Mutant: the handler's progress is ignored. *)
TickUnthrottled ==
  LET index == Larger(synced, last_commit_index)
  IN  Schedule(index, Larger(index, scheduled), QuorumCommitIndex)

Tick ==
  LET index == Larger(synced, last_commit_index)
  IN  Schedule(index, Larger(index, scheduled),
               Smaller(QuorumCommitIndex, handled + UnhandledCommitsThreshold))

(* Mutant: the rest of a partial answer is not fetched. *)
HandleFetchResultWhole(r, commits) ==
  LET got   == RangeOf(commits)
      index == Larger(synced, last_commit_index)
  IN  /\ sending = << >>
      /\ ProcessFetched(pending, inflight \ {r},
                        IF index < got.end THEN fetched \cup {commits} ELSE fetched, index)
      /\ UNCHANGED <<voted, chain, stored, handled, scheduled, restarts>>

(* handle_fetch_result up to the first batch for Core.  The rest of a      *)
(* partial answer becomes pending again.                                   *)
HandleFetchResult(r, commits) ==
  LET got   == RangeOf(commits)
      rest  == IF got.end < r.end THEN {[start |-> got.end + 1, end |-> r.end]} ELSE {}
      index == Larger(synced, last_commit_index)
  IN  /\ sending = << >>
      /\ ProcessFetched(pending \cup rest, inflight \ {r},
                        IF index < got.end THEN fetched \cup {commits} ELSE fetched, index)
      /\ UNCHANGED <<voted, chain, stored, handled, scheduled, restarts>>

FetchReturns(r) ==
  \E result \in Results : result[1] = r /\ HandleFetchResult(r, result[2])

(* An answer of a truthful peer: the fairness of fetches is about these *)
TruthfulFetch(r) ==
  \E result \in TruthfulResults : result[1] = r /\ HandleFetchResult(r, result[2])

(* Core::add_certified_commits: what is already committed is filtered out, *)
(* which drops a prefix as the commits of an answer are consecutive, and   *)
(* the rest is committed.  The scheduler goes on with the next batch.      *)
NewCommits(commits) ==
  SubSeq(commits, Larger(1, last_commit_index - commits[1].index + 2), Len(commits))

AddCertifiedCommits ==
  /\ sending # << >>
  /\ chain' = chain \o NewCommits(sending)
  /\ ProcessFetched(pending, inflight, fetched, Larger(synced, RangeOf(sending).end))
  /\ UNCHANGED <<voted, stored, handled, scheduled, restarts>>

-----------------------------------------------------------------------------
(* CommitVoteMonitor::observe_block, for the latest vote of a block *)
ObserveBlock(a, i) ==
  /\ i > voted[a]
  /\ voted' = [voted EXCEPT ![a] = i]
  /\ UNCHANGED <<chain, stored, handled, schedulerVars, restarts>>

(* Core commits on its own, from the blocks it has received. *)
LocalCommit ==
  /\ last_commit_index < MaxLocal
  /\ chain' = Append(chain, Main[last_commit_index + 1])
  /\ UNCHANGED <<voted, stored, handled, schedulerVars, restarts>>

Flush ==
  /\ stored < last_commit_index
  /\ stored' = last_commit_index
  /\ UNCHANGED <<voted, chain, handled, schedulerVars, restarts>>

(* The handler processes the next commit, which is in the store. *)
HandleCommit ==
  /\ handled < stored
  /\ handled' = handled + 1
  /\ UNCHANGED <<voted, chain, stored, schedulerVars, restarts>>

(* A crash: the store remains, and the commits are replayed to the handler *)
(* after an index it asks for.                                             *)
Restart ==
  /\ restarts < MaxRestarts
  /\ restarts' = restarts + 1
  /\ voted' = [a \in Authority |-> 0]
  /\ chain' = SubSeq(chain, 1, stored)
  /\ handled' \in 0 .. handled
  /\ pending' = {} /\ inflight' = {} /\ fetched' = {}
  /\ scheduled' = 0
  /\ synced' = stored
  /\ sending' = << >>
  /\ UNCHANGED stored

Next ==
  \/ Tick
  \/ \E r \in inflight : FetchReturns(r)
  \/ AddCertifiedCommits
  \/ \E a \in Authority, i \in VotedIndex : ObserveBlock(a, i)
  \/ LocalCommit
  \/ Flush
  \/ HandleCommit
  \/ Restart

Spec == Init /\ [][Next]_vars

(* The scheduler, Core, the flush and the handler keep running; while some *)
(* fetch is in flight a truthful peer eventually answers one, and blocks   *)
(* of truthful authorities keep coming.  Nothing is assumed about local    *)
(* commits.                                                                *)
FairSpec ==
  /\ Spec
  /\ WF_vars(Tick)
  /\ WF_vars(AddCertifiedCommits)
  /\ WF_vars(Flush)
  /\ WF_vars(HandleCommit)
  /\ WF_vars(\E r \in inflight : TruthfulFetch(r))
  /\ WF_vars(\E a \in Authority \ Faulty, i \in VotedIndex : ObserveBlock(a, i))

-----------------------------------------------------------------------------
Entries == fetched \cup (IF sending = << >> THEN {} ELSE {sending})

Apart(r, q) == r.end < q.start \/ q.end < r.start

Held == pending \cup inflight \cup {RangeOf(e) : e \in Entries}

TypeOK ==
  /\ voted \in [Authority -> 0 .. MaxIndex]
  /\ chain \in Seq(Commit) /\ Len(chain) <= MaxIndex
  /\ stored \in 0 .. Len(chain)
  /\ handled \in 0 .. stored
  /\ pending \subseteq CommitRange /\ inflight \subseteq CommitRange
  /\ \A e \in fetched : e \in Seq(Commit) /\ e # << >> /\ RangeOf(e) \in CommitRange
  /\ scheduled \in 0 .. MaxIndex
  /\ synced \in 0 .. MaxIndex
  /\ sending \in Seq(Commit)
  /\ restarts \in 0 .. MaxRestarts

(* NothingLost: an index that has been scheduled and is not synced yet is  *)
(* being fetched, waits to be fetched or waits for Core, whatever part of  *)
(* their ranges peers have returned.  highest_scheduled_index never goes   *)
(* back, so an index lost here is not asked for again.                     *)
NothingLost ==
  \A i \in synced + 1 .. scheduled : \E r \in Held : i \in r.start .. r.end

(* FetchedOnce: no commit is asked for twice: the ranges that are pending, *)
(* in flight, fetched or on their way to Core do not overlap, in whatever  *)
(* order ticks, partial answers and local commits fall.                    *)
FetchedOnce ==
  /\ pending \cap inflight = {}
  /\ \A r, q \in pending \cup inflight : r # q => Apart(r, q)
  /\ \A r \in pending \cup inflight, e \in Entries : Apart(r, RangeOf(e))
  /\ \A d, e \in Entries : d # e => Apart(RangeOf(d), RangeOf(e))

(* NoGapAtCore: the batch Core is given starts no later than its next      *)
(* commit, so filter_new_commits does not panic, whatever Core has         *)
(* committed by itself since the batch was fetched or chosen.              *)
NoGapAtCore == sending # << >> => sending[1].index <= last_commit_index + 1

(* ChainAgrees: a validator that syncs holds the commits of the committee, *)
(* although verify_commits sees votes for the last commit of an answer     *)
(* only and answers may come from untruthful peers.                        *)
ChainAgrees == \A i \in 1 .. Len(chain) : chain[i] = Main[i]

(* FetchAheadBounded: what is scheduled, in flight or kept in memory stays *)
(* within unhandled_commits_threshold of what the handler has processed.   *)
FetchAheadBounded == \A r \in Held : r.end <= handled + UnhandledCommitsThreshold

(* CaughtUp: a validator comes within a batch of what it has seen a quorum *)
(* of truthful authorities vote for, without the help of local commits:    *)
(* partial answers, full buffers, a handler that lags and crashes delay it *)
(* but do not stop it.                                                     *)
CaughtUp ==
  \A i \in VotedIndex :
    ReachedQuorum({a \in Authority \ Faulty : voted[a] >= i}) ~> last_commit_index > i - BatchSize
=============================================================================
