--------------------------- MODULE CommitFinalizer ---------------------------
(***************************************************************************)
(* Which transactions of a commit are rejected: the votes a validator has  *)
(* counted (consensus/core/src/transaction_certifier.rs) and the direct    *)
(* and indirect finalization of the commits in their order                 *)
(* (commit_finalizer.rs), with the recovery of both after a crash          *)
(* (commit_observer.rs).                                                   *)
(*                                                                         *)
(* The validator is one of a committee that has agreed on the commits; how *)
(* much of the DAG it has seen beyond them is up to the network.  A block  *)
(* stands for itself and for the one transaction in it.  Of the blocks in  *)
(* the certifier only those with a reject vote are followed, since the     *)
(* others do not change what it answers.                                   *)
(***************************************************************************)
EXTENDS Integers, Sequences, FiniteSets, FiniteSetsExt

CONSTANTS
  Block, Author, Round,  \* the blocks of the DAG, with their slots
  Stake,                 \* the stake of every authority
  QuorumThreshold,       \* 2f+1
  Faulty,                \* the authorities that may equivocate or lie
  Dags,                  \* the DAGs and commits to choose from
  GcDepth,
  MaxRestarts

CalculateGcRound(round) == IF round > GcDepth THEN round - GcDepth ELSE 0

DEFAULT_WAVE_LENGTH == 3
INDIRECT_REJECT_DEPTH == 3

TotalStake == [S \in SUBSET DOMAIN Stake |-> MapThenSumSet(LAMBDA a : Stake[a], S)]
StakeOf(authorities) == TotalStake[authorities]
ReachedQuorum(authorities) == StakeOf(authorities) >= QuorumThreshold
Authors(S) == {Author[b] : b \in S}

(* The stake of a set is a sum over its members.  Less than a third is     *)
(* faulty, and a quorum is more than two thirds (committee.rs), so that    *)
(* two quorums have more in common than the faulty authorities.            *)
ASSUME CommitteeAssumption ==
  /\ Author \in [Block -> DOMAIN Stake] /\ Faulty \subseteq DOMAIN Stake
  /\ QuorumThreshold \in Nat
  /\ TotalStake \in [SUBSET DOMAIN Stake -> Nat]
  /\ \A S, T \in SUBSET DOMAIN Stake :
       S \cap T = {} => StakeOf(S \cup T) = StakeOf(S) + StakeOf(T)
  /\ 2 * QuorumThreshold > StakeOf(DOMAIN Stake) + StakeOf(Faulty)

(* A collected block is at least two rounds below the last leader          *)
(* (consensus_gc_depth is 60).                                             *)
ASSUME FinalizerAssumption ==
  /\ Round \in [Block -> Nat \ {0}]
  /\ GcDepth \in Nat /\ GcDepth >= 2 /\ MaxRestarts \in Nat
  /\ \A d \in Dags :
       /\ d.rejects \in [Block -> SUBSET Block] /\ d.history \in [Block -> SUBSET Block]
       /\ d.ancestors \in [Block -> SUBSET Block]
       /\ d.commits \in Seq([leader : Block, blocks : SUBSET Block])

(* What block_verifier.rs checks, with the causal history of a block: the  *)
(* ancestors are of earlier rounds, and a quorum of the previous one.      *)
Linked(d) ==
  \A b \in Block :
    /\ \A p \in d.ancestors[b] : Round[p] < Round[b]
    /\ Round[b] > 1 => ReachedQuorum(Authors({p \in d.ancestors[b] : Round[p] = Round[b] - 1}))
    /\ d.history[b] = {b} \cup UNION {d.history[p] : p \in d.ancestors[b]}

(* An honest authority proposes once in a round and links to its last      *)
(* block, and it votes on what its block is the first to have in its       *)
(* history (try_new_block, link_causal_history and get_own_votes).         *)
HonestlyVoted(d) ==
  \A x, y \in Block : Author[x] = Author[y] /\ Author[x] \notin Faulty =>
    /\ Round[x] = Round[y] => x = y
    /\ Round[x] < Round[y] =>
         \E z \in d.ancestors[y] : Author[z] = Author[x] /\ x \in d.history[z]
    /\ \A t \in d.rejects[y] :
         t \in d.history[y] \ {y} /\ (x \in d.ancestors[y] => t \notin d.history[x])

(* A block two rounds above the leader with a quorum of votes for it among *)
(* its parents.                                                            *)
IsCertificate(d, c, leader) ==
  /\ Round[c] = Round[leader] + 2
  /\ ReachedQuorum(Authors({p \in d.ancestors[c] : leader \in d.ancestors[p]}))

(* The leaders of the commits are of ascending rounds.  A commit is what   *)
(* its leader has in its history, no leader before had, and has not been   *)
(* collected (linearizer.rs), and the first leader a wave above has a      *)
(* certificate of it in its history (base_committer.rs).                   *)
Committed(d) ==
  \A j \in DOMAIN d.commits :
    LET leader == d.commits[j].leader IN
    /\ \A i \in 1 .. j - 1 : Round[d.commits[i].leader] < Round[leader]
    /\ \A b \in Block :
         b \in d.commits[j].blocks <=>
           /\ b \in d.history[leader]
           /\ \A i \in 1 .. j - 1 :
                /\ b \notin d.history[d.commits[i].leader]
                /\ Round[b] > CalculateGcRound(Round[d.commits[i].leader])
    /\ \A i \in 1 .. j - 1 :
         LET below == d.commits[i].leader IN
         /\ Round[leader] >= Round[below] + DEFAULT_WAVE_LENGTH
         /\ \A k \in 1 .. j - 1 :
              Round[d.commits[k].leader] < Round[below] + DEFAULT_WAVE_LENGTH
         => \E c \in d.history[leader] : IsCertificate(d, c, below)

ASSUME DagsAssumption == \A d \in Dags : Linked(d) /\ HonestlyVoted(d) /\ Committed(d)

VARIABLES
  dag,              \* ancestors, causal histories, reject votes and commits
  voted,            \* blocks with reject votes the certifier has counted
  gc,               \* CertifierState.gc_round
  accepted,         \* the voted blocks that were needed to decide a commit
  stored,           \* the voted blocks that are in the store
  pending_commits,
  blocks,           \* CommitFinalizer.blocks, the linked committed blocks
  processed,        \* last_processed_commit
  recovered,        \* the last commit recovered from the store at startup
  output,           \* the commits finalized: index and rejected transactions
  restarts

vars == <<dag, voted, gc, accepted, stored, pending_commits, blocks, processed,
          recovered, output, restarts>>

LeaderRound(i) == Round[dag.commits[i].leader]
LastFinalized == Max({0} \cup {o.index : o \in output})

Rejecting(S) == {b \in S : dag.rejects[b] # {}}

-----------------------------------------------------------------------------
(* TransactionCertifier *)

RejectVoters(known, t) == Authors({b \in known : t \in dag.rejects[b]})

(* Mutant: the votes against are not subtracted. *)
NotSubtracting(b, t) ==
  /\ Round[b] = Round[t] + 2
  /\ ReachedQuorum(Authors({p \in dag.ancestors[b] : t \in dag.ancestors[p]}))
  /\ ~ ReachedQuorum(RejectVoters(dag.history[b], t))

(* Whether the author of b has sent the transaction of t to the fast path  *)
(* once it proposed b: the parents of b are a quorum that accept t, even   *)
(* without the authorities that reject it (add_proposed_block and          *)
(* take_certified_output).                                                 *)
Certifies(b, t) ==
  LET accept == Authors({p \in dag.ancestors[b] : t \in dag.ancestors[p]})
      reject == RejectVoters(dag.history[b], t)
  IN
  /\ Round[b] = Round[t] + 2
  /\ ReachedQuorum(accept) /\ ~ ReachedQuorum(reject)
  /\ StakeOf(accept) - StakeOf(reject) >= QuorumThreshold

(* A received block is added, whether or not its ancestors are there. *)
AddVotedBlock(b) ==
  /\ b \notin voted /\ Round[b] > gc
  /\ voted' = voted \cup {b}
  /\ UNCHANGED <<dag, gc, accepted, stored, pending_commits, blocks, processed,
                 recovered, output, restarts>>

-----------------------------------------------------------------------------
(* How a commit reaches the finalizer *)

Certificates(leader) == {c \in Block : IsCertificate(dag, c, leader)}

Anchors(i) ==
  {j \in DOMAIN dag.commits :
     LeaderRound(j) >= LeaderRound(i) + DEFAULT_WAVE_LENGTH}

(* The blocks that let a validator decide the i-th leader itself: a quorum *)
(* of certificates, or the anchor with a certificate in its history.  For  *)
(* a leader without anchor they lie beyond this part of the DAG.           *)
Evidence(i) ==
  LET leader == dag.commits[i].leader
      anchor == dag.commits[Min(Anchors(i))].leader
  IN
  IF Anchors(i) = {} THEN {{leader}}
  ELSE {Q \in SUBSET Certificates(leader) : ReachedQuorum(Authors(Q))}
         \cup {{anchor} : c \in Certificates(leader) \cap dag.history[anchor]}

(* Mutant: every recovered commit counts as local. *)
RecoveredAsDecided(i) ==
  IF i <= recovered THEN {[local |-> TRUE, seen |-> {}]}
  ELSE {[local |-> TRUE, seen |-> S] : S \in Evidence(i)} \cup {[local |-> FALSE, seen |-> {}]}

(* The ways in which the i-th commit can arrive: the flag                  *)
(* decided_with_local_blocks, and the blocks accepted before.  A commit is *)
(* decided here, or received as certified commit, or it was committed      *)
(* before a crash and counts as local only if it had been finalized.       *)
DecidedAs(i) ==
  IF i <= recovered THEN {[local |-> i <= LastFinalized, seen |-> {}]}
  ELSE {[local |-> TRUE, seen |-> S] : S \in Evidence(i)} \cup {[local |-> FALSE, seen |-> {}]}

-----------------------------------------------------------------------------
(* CommitFinalizer *)

Finalized(c) == c.pending_blocks = {} /\ c.pending_transactions = {}

(* A remote commit waits for a commit a wave above it. *)
MayDirectFinalize(cs, k) ==
  \/ cs[k].pending_blocks = {}
  \/ cs[k].decided_with_local_blocks
  \/ LeaderRound(cs[k].index) + DEFAULT_WAVE_LENGTH <= LeaderRound(cs[Len(cs)].index)

TryDirectFinalizeCommit(c) ==
  LET pending == {b \in c.pending_blocks : RejectVoters(voted, b) # {}}
      rejected == {b \in pending : ReachedQuorum(RejectVoters(voted, b))}
  IN [c EXCEPT !.pending_blocks = {},
               !.pending_transactions = pending \ rejected,
               !.rejected_transactions = rejected]

DirectFinalize(cs) ==
  LET n == Max({m \in 0 .. Len(cs) : \A k \in 1 .. m : MayDirectFinalize(cs, k)})
      tried == [k \in DOMAIN cs |->
                  IF cs[k].pending_blocks # {} THEN TryDirectFinalizeCommit(cs[k]) ELSE cs[k]]
  IN SubSeq(tried, 1, n) \o SubSeq(cs, n + 1, Len(cs))

(* The linked blocks from which t is reached through linked blocks, round  *)
(* by round.                                                               *)
Reached(linked, t) ==
  LET upto[r \in Nat] ==
        IF r <= Round[t] THEN {t}
        ELSE LET below == upto[r - 1] IN
             below \cup {b \in linked : Round[b] = r /\ dag.ancestors[b] \cap below # {}}
  IN upto[Max({Round[t]} \cup {Round[b] : b \in linked})]

(* The authorities that accept t: of each, only the first block above t    *)
(* votes, by not rejecting it.                                             *)
AcceptVoters(linked, t) ==
  LET descendants == Reached(linked, t) \ {t}
      immediate == {b \in descendants :
                      Author[b] \notin Authors(dag.ancestors[b] \cap descendants)}
  IN Authors({b \in immediate : t \notin dag.rejects[b]})

(* Mutant: rejected one round later than a wave above. *)
IndirectFinalizeTooLate(c, last, linked) ==
  LET late == {t \in c.pending_transactions : ReachedQuorum(RejectVoters(voted, t))}
      finalized == {t \in c.pending_transactions \ late :
                      ReachedQuorum(AcceptVoters(linked, t))}
      rest == c.pending_transactions \ (late \cup finalized)
      deep == LeaderRound(c.index) + INDIRECT_REJECT_DEPTH < LeaderRound(last.index)
  IN [c EXCEPT !.pending_transactions = IF deep THEN {} ELSE rest,
               !.rejected_transactions = @ \cup late \cup (IF deep THEN rest ELSE {})]

(* Late rejections by a quorum, then acceptance by committed votes, then   *)
(* rejection once the last commit is far enough above.                     *)
TryIndirectFinalize(c, last, linked) ==
  LET late == {t \in c.pending_transactions : ReachedQuorum(RejectVoters(voted, t))}
      finalized == {t \in c.pending_transactions \ late :
                      ReachedQuorum(AcceptVoters(linked, t))}
      rest == c.pending_transactions \ (late \cup finalized)
      deep == LeaderRound(c.index) + INDIRECT_REJECT_DEPTH <= LeaderRound(last.index)
  IN [c EXCEPT !.pending_transactions = IF deep THEN {} ELSE rest,
               !.rejected_transactions = @ \cup late \cup (IF deep THEN rest ELSE {})]

BlocksOf(cs) == UNION {dag.commits[c.index].blocks : c \in {cs[k] : k \in DOMAIN cs}}

(* Mutant: the links of popped blocks are kept. *)
PopKeepingLinks(popped, cs, linked) ==
  LET n == Max({m \in 0 .. Len(cs) : \A k \in 1 .. m : Finalized(cs[k])})
  IN [popped |-> popped \o SubSeq(cs, 1, n), left |-> SubSeq(cs, n + 1, Len(cs)),
      blocks |-> linked]

(* Moves the finalized commits at the front of cs to those popped before,  *)
(* and forgets the links of their blocks.                                  *)
PopFinalizedCommits(popped, cs, linked) ==
  LET n == Max({m \in 0 .. Len(cs) : \A k \in 1 .. m : Finalized(cs[k])})
      left == SubSeq(cs, n + 1, Len(cs))
  IN [popped |-> popped \o SubSeq(cs, 1, n), left |-> left,
      blocks |-> linked \cap BlocksOf(left)]

(* The loop over the first commit, never the last one nor one that still   *)
(* waits for the direct attempt, with the links of the commits from there  *)
(* on; it ends when the first commit stays.                                *)
IndirectFinalize(direct) ==
  LET cs == direct.left
      tried == [k \in DOMAIN cs |->
                  IF k < Len(cs) /\ cs[k].pending_blocks = {}
                  THEN TryIndirectFinalize(cs[k], cs[Len(cs)],
                         direct.blocks \cap BlocksOf(SubSeq(cs, k, Len(cs))))
                  ELSE cs[k]]
      n == Max({m \in 0 .. Len(cs) : \A k \in 1 .. m - 1 : Finalized(tried[k])})
  IN PopFinalizedCommits(direct.popped, SubSeq(tried, 1, n) \o SubSeq(cs, n + 1, Len(cs)),
                         direct.blocks)

(* Mutant: collection follows the last commit processed. *)
RunGcAtLastProcessed(popped, i) == CalculateGcRound(LeaderRound(i))

(* TransactionCertifier::run_gc, at the last commit finalized. *)
RunGc(popped, i) ==
  IF popped = << >> THEN gc ELSE CalculateGcRound(LeaderRound(popped[Len(popped)].index))

(* CommitFinalizer::process_commit *)
ProcessedCommit(i, local) ==
  LET arrived == Append(pending_commits,
                        [index |-> i, decided_with_local_blocks |-> local,
                         pending_blocks |-> dag.commits[i].blocks,
                         pending_transactions |-> {}, rejected_transactions |-> {}])
      direct == PopFinalizedCommits(<< >>, DirectFinalize(arrived),
                                    blocks \cup dag.commits[i].blocks)
  IN IndirectFinalize(direct)

(* CommitFinalizer::run for one commit: the commits that are finalized are *)
(* recorded and flushed, with all that has been accepted, and sent.        *)
ProcessCommit(i, decided) ==
  LET needed == Rejecting(dag.commits[i].blocks \cup UNION {dag.history[b] : b \in decided.seen})
  IN
  /\ {b \in needed : Round[b] > gc} \subseteq voted
  /\ \E result \in {ProcessedCommit(i, decided.local)} :
       /\ pending_commits' = result.left /\ blocks' = result.blocks
       /\ output' = output \cup {[index |-> c.index, rejected |-> c.rejected_transactions] :
                                   c \in {result.popped[k] : k \in DOMAIN result.popped}}
       /\ gc' = RunGc(result.popped, i)
       /\ stored' = IF result.popped = << >> THEN stored ELSE stored \cup accepted \cup needed
  /\ processed' = i
  /\ accepted' = accepted \cup needed
  /\ UNCHANGED <<dag, voted, recovered, restarts>>

(* A crash and restart.  The consumer has handled the commits up to k, and *)
(* the store has the commits up to last, with their blocks; of the other   *)
(* blocks it has at least those of the last flush.  TransactionCertifier:: *)
(* recover counts the votes of the stored blocks again, and the commits    *)
(* after k are sent to the finalizer once more.                            *)
Restart(k, last, kept) ==
  /\ stored \cup Rejecting(UNION {dag.commits[i].blocks : i \in 1 .. last}) \subseteq kept
  /\ gc' = IF k = 0 THEN 0 ELSE CalculateGcRound(LeaderRound(k))
  /\ voted' = {b \in kept : Round[b] > gc'}
  /\ accepted' = kept /\ stored' = kept
  /\ pending_commits' = << >> /\ blocks' = {}
  /\ processed' = k /\ recovered' = last
  /\ restarts' = restarts + 1
  /\ UNCHANGED <<dag, output>>

Init ==
  /\ dag \in Dags
  /\ voted = {} /\ gc = 0 /\ accepted = {} /\ stored = {}
  /\ pending_commits = << >> /\ blocks = {} /\ processed = 0 /\ recovered = 0
  /\ output = {} /\ restarts = 0

Next ==
  \/ \E b \in Rejecting(Block) : AddVotedBlock(b)
  \/ /\ processed < Len(dag.commits)
     /\ \E decided \in DecidedAs(processed + 1) : ProcessCommit(processed + 1, decided)
  \/ /\ restarts < MaxRestarts
     /\ \E k \in 0 .. LastFinalized, last \in LastFinalized .. processed :
          \E kept \in SUBSET (voted \cup stored \cup accepted) : Restart(k, last, kept)

Spec == Init /\ [][Next]_vars

-----------------------------------------------------------------------------
(* The types, and that the commits are finalized in their order, none left *)
(* out: the finalized ones and the pending ones are the processed ones.    *)
TypeOK ==
  /\ voted \subseteq Block /\ accepted \subseteq Block /\ stored \subseteq Block
  /\ gc \in Nat /\ restarts \in 0 .. MaxRestarts
  /\ blocks = BlocksOf(pending_commits)
  /\ \A k \in DOMAIN pending_commits :
       pending_commits[k].index = processed - Len(pending_commits) + k
  /\ \A i \in 1 .. processed - Len(pending_commits) : \E o \in output : o.index = i

(* The blocks of the commits from the i-th to the first one that is a wave *)
(* above it.                                                               *)
CommittedFrom(i) == UNION {dag.commits[j].blocks : j \in i .. Min(Anchors(i))}

(* The verdict that follows from the committed blocks alone: t is rejected *)
(* unless a quorum accepts it in them.                                     *)
CommittedVerdict(i) ==
  {t \in dag.commits[i].blocks : ~ ReachedQuorum(AcceptVoters(CommittedFrom(i), t))}

(* Transactions that were linked so late that blocks above them may have   *)
(* been collected before the commit a wave above.                          *)
LateLinked(i) ==
  {t \in dag.commits[i].blocks : Round[t] < CalculateGcRound(LeaderRound(Min(Anchors(i)) - 1))}

(* All validators reject the same transactions of a commit, and a          *)
(* validator rejects the same ones again after a crash: direct, late and   *)
(* indirect finalization, over whatever part of the DAG has been seen when *)
(* the commit is processed, all come to the verdict of the committed       *)
(* blocks.  Only of the late linked ones may more be rejected, by a quorum *)
(* of votes some of which are collected.                                   *)
VerdictsAgree ==
  \A o \in output : Anchors(o.index) # {} =>
    /\ CommittedVerdict(o.index) \subseteq o.rejected
    /\ o.rejected \subseteq CommittedVerdict(o.index) \cup LateLinked(o.index)

(* What a quorum has sent to the fast path is never rejected, even if all  *)
(* faulty authorities pretend to be in that quorum.                        *)
FastpathHonoured ==
  \A o \in output : \A t \in o.rejected :
    ~ ReachedQuorum(Faulty \cup Authors({b \in Block : Certifies(b, t)}))

(* "No vote info found for {block_ref}. It is either incorrectly gc'ed or  *)
(* failed to be recovered after crash": the certifier never collects the   *)
(* votes for a block of a commit that waits for its verdict, or is still   *)
(* to come.                                                                *)
VotesKept ==
  \A i \in DOMAIN dag.commits :
    i > processed - Len(pending_commits) => \A b \in dag.commits[i].blocks : Round[b] > gc

(* No commit waits once a commit a wave above it has been processed,       *)
(* remote or not, so that few commits are ever pending.                    *)
NoneOverdue ==
  \A k \in DOMAIN pending_commits :
    LeaderRound(processed) < LeaderRound(pending_commits[k].index) + INDIRECT_REJECT_DEPTH
=============================================================================
