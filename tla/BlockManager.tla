---------------------------- MODULE BlockManager ----------------------------
(***************************************************************************)
(* The block manager of one validator (consensus/core/src/block_manager.rs)*)
(* together with the part of the DAG state it reads and writes: the set of *)
(* accepted blocks and the garbage collection (GC) round.                  *)
(*                                                                         *)
(* A block is accepted once every ancestor above the GC round has been     *)
(* accepted.  Until then it is suspended, the ancestors it waits for are   *)
(* recorded, and the ones whose payload nobody delivered yet are reported  *)
(* to the synchronizer.  Two events release suspended blocks: acceptance   *)
(* of an ancestor, and garbage collection of an ancestor when a commit     *)
(* raises the GC round.  Blocks of certified commits are accepted at once. *)
(*                                                                         *)
(* All handlers run on the single core thread, so each one is one action.  *)
(* The handlers take vectors of blocks and treat the members one by one;   *)
(* a vector is a run of one-block actions that nothing interrupts.         *)
(***************************************************************************)
EXTENDS Integers, FiniteSets

CONSTANTS
  Block,      \* the references of all non-genesis blocks that may exist
  Round,      \* Round[b]: the round of block b
  Ancestors,  \* Ancestors[b]: the non-genesis ancestors b references
  GcDepth     \* protocol_config.gc_depth()

ASSUME DagAssumption ==
  /\ Round \in [Block -> Nat \ {0}]
  /\ Ancestors \in [Block -> SUBSET Block]
  /\ \A b \in Block : \A a \in Ancestors[b] : Round[a] < Round[b]

ASSUME GcDepthAssumption == GcDepth \in Nat

VARIABLES
  accepted,           \* blocks contained in DagState (cache or store)
  last_commit_round,  \* round of the last committed leader
  stored,             \* what the last flush wrote: blocks, commit round (and
                      \* the history variable below at that moment)
  sequencing,         \* the certified commits whose blocks are accepted but
                      \* which are not sequenced yet: blocks, leader round
  suspended_blocks,   \* suspended block -> ancestors it still waits for
  missing_ancestors,  \* awaited ancestor -> suspended blocks waiting for it
  missing_blocks,     \* awaited ancestors whose payload has not arrived
  received,           \* history: blocks handed over and not skipped
  unsequenced         \* history: blocks of certified commits accepted ahead
                      \* of the commit

vars == <<accepted, last_commit_round, stored, sequencing, suspended_blocks,
          missing_ancestors, missing_blocks, received, unsequenced>>

Idle == [blocks |-> {}, round |-> 0]

managerVars == <<suspended_blocks, missing_ancestors, missing_blocks>>

-----------------------------------------------------------------------------
(* Helpers.                                                                *)

(* DagState::calculate_gc_round: a saturating subtraction. *)
GcRoundOf(commitRound) ==
  IF commitRound > GcDepth THEN commitRound - GcDepth ELSE 0

gc_round == GcRoundOf(last_commit_round)

(* Ancestors at or below the GC round are never looked for. *)
RequiredAncestors(b, gc) == {a \in Ancestors[b] : Round[a] > gc}

(* A set U of suspended blocks is closed under release of `freed` when it  *)
(* holds every suspended block that waits for nothing outside freed and U. *)
ReleaseClosed(U, susp, freed) ==
  \A c \in DOMAIN susp : susp[c] \subseteq freed \cup U => c \in U

(* The blocks that the to_process_blocks work list ends up unsuspending    *)
(* once the references in `freed` are no longer awaited: the least closed  *)
(* set, whatever the order in which the list is worked off.                *)
UnsuspendedBy(susp, freed) ==
  {c \in DOMAIN susp :
     \A U \in SUBSET DOMAIN susp : ReleaseClosed(U, susp, freed) => c \in U}

(* Mutant: the links to a certified block that was suspended stay. *)
ReleaseKeepingLinks(freed) ==
  LET gone == freed \cup UnsuspendedBy(suspended_blocks, freed)
  IN  /\ suspended_blocks' = [c \in DOMAIN suspended_blocks \ gone
                                |-> suspended_blocks[c] \ gone]
      /\ missing_ancestors' = [a \in DOMAIN missing_ancestors \ gone
                                 |-> missing_ancestors[a]]
      /\ missing_blocks' = missing_blocks \ freed

(* try_unsuspend_children_blocks for every reference in `freed`: the       *)
(* references and the blocks they release leave both maps.                 *)
Release(freed) ==
  LET gone == freed \cup UnsuspendedBy(suspended_blocks, freed)
  IN  /\ suspended_blocks' = [c \in DOMAIN suspended_blocks \ gone
                                |-> suspended_blocks[c] \ gone]
      /\ missing_ancestors' = [a \in DOMAIN missing_ancestors \ gone
                                 |-> missing_ancestors[a] \ freed]
      /\ missing_blocks' = missing_blocks \ freed

-----------------------------------------------------------------------------
Init ==
  /\ accepted = {}
  /\ last_commit_round = 0
  /\ stored = [blocks |-> {}, commit_round |-> 0, unsequenced |-> {}]
  /\ sequencing = Idle
  /\ suspended_blocks = [b \in {} |-> {}]
  /\ missing_ancestors = [b \in {} |-> {}]
  /\ missing_blocks = {}
  /\ received = {}
  /\ unsequenced = {}

(* Mutant: an ancestor whose payload is held counts as present. *)
AcceptBlockOnPayload(b) ==
  /\ sequencing = Idle
  /\ b \notin DOMAIN suspended_blocks \cup accepted
  /\ Round[b] > gc_round
  /\ RequiredAncestors(b, gc_round) \subseteq accepted \cup DOMAIN suspended_blocks
  /\ Release({b})
  /\ accepted' = accepted \cup {b} \cup UnsuspendedBy(suspended_blocks, {b})
  /\ received' = received \cup {b}
  /\ UNCHANGED <<last_commit_round, stored, sequencing, unsequenced>>

(* try_accept_one_block finds every required ancestor: the block enters    *)
(* DagState and so do the suspended blocks it releases.                    *)
AcceptBlock(b) ==
  /\ sequencing = Idle
  /\ b \notin DOMAIN suspended_blocks \cup accepted
  /\ Round[b] > gc_round
  /\ RequiredAncestors(b, gc_round) \subseteq accepted
  /\ Release({b})
  /\ accepted' = accepted \cup {b} \cup UnsuspendedBy(suspended_blocks, {b})
  /\ received' = received \cup {b}
  /\ UNCHANGED <<last_commit_round, stored, sequencing, unsequenced>>

(* The ancestors block b has to wait for. *)
MissingAncestorsOf(b) == RequiredAncestors(b, gc_round) \ accepted

(* Mutant: the suspended block itself stays on the list. *)
MissingWithSelf(b, missing) ==
  missing_blocks \cup (missing \ DOMAIN suspended_blocks)

(* Mutant: the list is replaced, not extended. *)
MissingReplaced(b, missing) == (missing \ DOMAIN suspended_blocks) \ {b}

(* The blocks to fetch once b is suspended for the ancestors in `missing`. *)
MissingWith(b, missing) ==
  (missing_blocks \cup (missing \ DOMAIN suspended_blocks)) \ {b}

(* try_accept_one_block misses an ancestor: the block is suspended, linked *)
(* from each ancestor it waits for, and those not suspended themselves are *)
(* added to the blocks to fetch.                                           *)
SuspendBlock(b) ==
  LET missing == MissingAncestorsOf(b)
  IN  /\ sequencing = Idle
      /\ b \notin DOMAIN suspended_blocks \cup accepted
      /\ Round[b] > gc_round
      /\ missing # {}
      /\ suspended_blocks' =
           [c \in DOMAIN suspended_blocks \cup {b}
              |-> IF c = b THEN missing ELSE suspended_blocks[c]]
      /\ missing_ancestors' =
           [a \in DOMAIN missing_ancestors \cup missing |->
              (IF a \in DOMAIN missing_ancestors
                 THEN missing_ancestors[a] ELSE {})
              \cup (IF a \in missing THEN {b} ELSE {})]
      /\ missing_blocks' = MissingWith(b, missing)
      /\ received' = received \cup {b}
      /\ UNCHANGED <<accepted, last_commit_round, stored, sequencing,
                     unsequenced>>

(* Mutant: references announced earlier are forgotten. *)
FindBlocksForgetting(refs) ==
  LET unknown == {r \in refs : /\ Round[r] > gc_round
                               /\ r \notin accepted
                               /\ r \notin DOMAIN suspended_blocks}
      awaited == {a \in DOMAIN missing_ancestors : missing_ancestors[a] # {}}
  IN  /\ sequencing = Idle
      /\ missing_blocks' = (awaited \cup unknown) \ DOMAIN suspended_blocks
      /\ missing_ancestors' =
           [a \in awaited \cup unknown |->
              IF a \in DOMAIN missing_ancestors
                THEN missing_ancestors[a] ELSE {}]
      /\ UNCHANGED <<accepted, last_commit_round, stored, sequencing,
                     suspended_blocks, received, unsequenced>>

(* try_find_blocks: references announced by peers (excluded ancestors of   *)
(* their blocks) are looked up and fetched when unknown.                   *)
FindBlocks(refs) ==
  LET unknown == {r \in refs : /\ Round[r] > gc_round
                               /\ r \notin accepted
                               /\ r \notin DOMAIN suspended_blocks}
  IN  /\ sequencing = Idle
      /\ missing_blocks' = missing_blocks \cup unknown
      /\ missing_ancestors' =
           [a \in DOMAIN missing_ancestors \cup unknown |->
              IF a \in DOMAIN missing_ancestors
                THEN missing_ancestors[a] ELSE {}]
      /\ UNCHANGED <<accepted, last_commit_round, stored, sequencing,
                     suspended_blocks, received, unsequenced>>

(* The blocks a leader's commit brings when the commits before it set the  *)
(* GC round to gc: the least set that holds the leader and what its        *)
(* members reference above gc (Linearizer::linearize_sub_dag).  The blocks *)
(* committed before that it also holds are in DagState already.            *)
SubDag(leader, gc) ==
  {b \in Block :
     \A S \in SUBSET Block :
       (leader \in S /\ \A c \in S : RequiredAncestors(c, gc) \subseteq S)
         => b \in S}

(* The round of the commit before the one of `leader`, in a run of         *)
(* certified commits that follows the local ones.                          *)
PrecedingRound(leaders, leader) ==
  LET earlier == {last_commit_round} \cup
                   {Round[k] : k \in {k \in leaders : Round[k] < Round[leader]}}
  IN  CHOOSE p \in earlier : \A q \in earlier : q <= p

CertifiedBlocks(leaders) ==
  UNION {SubDag(l, GcRoundOf(PrecedingRound(leaders, l))) : l \in leaders}

(* try_accept_committed_blocks: the blocks of a run of certified commits,  *)
(* the last of which is that of leader `last`, enter DagState without a    *)
(* look at their ancestors.                                                *)
AcceptCertified(leaders, last) ==
  LET blocks == CertifiedBlocks(leaders)
  IN  /\ sequencing = Idle
      /\ last \in leaders
      /\ \A k \in leaders : /\ Round[k] > last_commit_round
                            /\ Round[k] <= Round[last]
      /\ \A k, l \in leaders : Round[k] = Round[l] => k = l
      /\ Release(blocks)
      /\ accepted' = accepted \cup blocks \cup
                       UnsuspendedBy(suspended_blocks, blocks)
      /\ received' = received \cup blocks
      /\ unsequenced' = unsequenced \cup (blocks \ accepted)
      /\ sequencing' = [blocks |-> blocks, round |-> Round[last]]
      /\ UNCHANGED <<last_commit_round, stored>>

(* The awaited ancestors that GC round gc gives up on.  The suspended ones *)
(* below it are released by then and leave the map as children.            *)
Collected(gc) ==
  {a \in DOMAIN missing_ancestors \ DOMAIN suspended_blocks : Round[a] <= gc}

(* Mutant: blocks released by garbage collection are not accepted. *)
CommitDroppingReleased(r) ==
  LET collected == Collected(GcRoundOf(r))
  IN  /\ last_commit_round' = r
      /\ Release(collected)
      /\ UNCHANGED <<accepted, stored, received>>

(* A commit with leader round r: the GC round moves up and                 *)
(* try_unsuspend_blocks_for_latest_gc_round stops waiting for the          *)
(* ancestors that fell below it.                                           *)
Commit(r) ==
  LET collected == Collected(GcRoundOf(r))
  IN  /\ last_commit_round' = r
      /\ Release(collected)
      /\ accepted' = accepted \cup UnsuspendedBy(suspended_blocks, collected)
      /\ UNCHANGED <<stored, received>>

(* The decision rule commits an accepted leader. *)
CommitLeader(b) ==
  /\ sequencing = Idle
  /\ b \in accepted
  /\ Round[b] > last_commit_round
  /\ Commit(Round[b])
  /\ UNCHANGED <<sequencing, unsequenced>>

(* Mutant: the run of certified commits is not taken off the work list. *)
CommitCertifiedAgain ==
  /\ sequencing # Idle
  /\ Commit(sequencing.round)
  /\ unsequenced' = unsequenced \ sequencing.blocks
  /\ UNCHANGED sequencing

(* The certified commits whose blocks were just accepted are sequenced. *)
CommitCertified ==
  /\ sequencing # Idle
  /\ Commit(sequencing.round)
  /\ sequencing' = Idle
  /\ unsequenced' = unsequenced \ sequencing.blocks

(* DagState::flush writes all buffered blocks and commits in one batch.    *)
(* The core thread calls it when it proposes.  The commit finalizer calls  *)
(* it from its own thread once a commit is finalized, so it may run        *)
(* between the two halves of a certified commit that follows.              *)
Flush ==
  /\ sequencing # Idle => last_commit_round > 0
  /\ stored' = [blocks |-> accepted, commit_round |-> last_commit_round,
                unsequenced |-> unsequenced]
  /\ UNCHANGED <<accepted, last_commit_round, sequencing, managerVars,
                 received, unsequenced>>

(* The process dies and starts again: DagState is rebuilt from storage and *)
(* the block manager is empty.                                             *)
Restart ==
  /\ accepted' = stored.blocks
  /\ last_commit_round' = stored.commit_round
  /\ sequencing' = Idle
  /\ suspended_blocks' = [b \in {} |-> {}]
  /\ missing_ancestors' = [b \in {} |-> {}]
  /\ missing_blocks' = {}
  /\ received' = stored.blocks
  /\ unsequenced' = stored.unsequenced
  /\ UNCHANGED stored

Next ==
  \/ \E b \in Block : AcceptBlock(b) \/ SuspendBlock(b) \/ CommitLeader(b)
  \/ \E refs \in SUBSET Block : FindBlocks(refs)
  \/ \E leaders \in SUBSET Block :
       \E last \in leaders : AcceptCertified(leaders, last)
  \/ CommitCertified
  \/ Flush
  \/ Restart

Spec == Init /\ [][Next]_vars

(* The synchronizer asks peers for the reported blocks until one answers,  *)
(* and hands the answer to the core thread, which works its queue off.     *)
Fetch(b) == b \in missing_blocks /\ (AcceptBlock(b) \/ SuspendBlock(b))

FairSpec ==
  /\ Spec
  /\ \A b \in Block : SF_vars(Fetch(b))
  /\ WF_vars(CommitCertified)

-----------------------------------------------------------------------------
(* Properties.                                                             *)

(* The types, and no underflow where the GC depth is subtracted from the   *)
(* round of an early commit.                                               *)
TypeOK ==
  /\ accepted \in SUBSET Block
  /\ last_commit_round \in Nat
  /\ gc_round \in Nat
  /\ stored \in [blocks : SUBSET Block, commit_round : Nat,
                unsequenced : SUBSET Block]
  /\ sequencing \in [blocks : SUBSET Block, round : Nat]
  /\ DOMAIN suspended_blocks \in SUBSET Block
  /\ suspended_blocks \in [DOMAIN suspended_blocks -> SUBSET Block]
  /\ DOMAIN missing_ancestors \in SUBSET Block
  /\ missing_ancestors \in [DOMAIN missing_ancestors -> SUBSET Block]
  /\ missing_blocks \in SUBSET Block
  /\ received \in SUBSET Block
  /\ unsequenced \in SUBSET Block

(* What is fetched is exactly what is awaited and not held: the field      *)
(* comment of missing_blocks, kept up by four handlers and by GC.          *)
MissingBlocksExact ==
  missing_blocks = DOMAIN missing_ancestors \ DOMAIN suspended_blocks

(* The two maps mirror each other.  Each direction is a panic in the code: *)
(* a child link without a suspended block is "Block should be in suspended *)
(* map", a link the block does not know of is "should be present in        *)
(* missing dependencies", and a wait without a link is never released.     *)
LinksMirror ==
  /\ \A a \in DOMAIN missing_ancestors : \A c \in missing_ancestors[a] :
       c \in DOMAIN suspended_blocks /\ a \in suspended_blocks[c]
  /\ \A c \in DOMAIN suspended_blocks : \A a \in suspended_blocks[c] :
       a \in DOMAIN missing_ancestors /\ c \in missing_ancestors[a]

(* Nothing is awaited, suspended or fetched that is accepted already or    *)
(* that garbage collection made irrelevant.                                *)
NothingStaleAwaited ==
  /\ \A a \in DOMAIN missing_ancestors :
       a \notin accepted /\ Round[a] > gc_round
  /\ DOMAIN suspended_blocks \cap accepted = {}

(* A suspended block waits for something, and for every required ancestor  *)
(* that is not accepted.                                                   *)
SuspendedForAReason ==
  \A c \in DOMAIN suspended_blocks :
    /\ suspended_blocks[c] # {}
    /\ suspended_blocks[c] \subseteq Ancestors[c]
    /\ RequiredAncestors(c, gc_round) \subseteq
         accepted \cup suspended_blocks[c]

(* The blocks reported for fetching suffice: once they all arrive with     *)
(* their own ancestors, every suspended block is released.  A suspended    *)
(* block outside this set would stay suspended until garbage collection.   *)
FetchingReleasesAll ==
  UnsuspendedBy(suspended_blocks, missing_blocks) = DOMAIN suspended_blocks

(* A block of DagState lacks an ancestor above the GC round only when it   *)
(* came with a certified commit that is not sequenced yet.                 *)
CausalGapsOnlyUnsequenced ==
  \A b \in accepted \ unsequenced :
    RequiredAncestors(b, gc_round) \subseteq accepted

(* A block handed over and not skipped is accepted or suspended, however   *)
(* releases, commits and garbage collection interleave.                    *)
NoBlockLost == received \subseteq accepted \cup DOMAIN suspended_blocks

(* What a flush wrote has gaps only where DagState had them. *)
StoredGapsOnlyUnsequenced ==
  \A b \in stored.blocks \ stored.unsequenced :
    RequiredAncestors(b, GcRoundOf(stored.commit_round))
      \subseteq stored.blocks

(* The certified commits being sequenced close their own gaps. *)
SequencingClosesGaps ==
  sequencing # Idle =>
    /\ sequencing.round > last_commit_round
    /\ \A b \in sequencing.blocks :
         RequiredAncestors(b, GcRoundOf(sequencing.round)) \subseteq accepted

(* The inductive invariant. *)
IInv ==
  /\ TypeOK
  /\ MissingBlocksExact
  /\ LinksMirror
  /\ NothingStaleAwaited
  /\ SuspendedForAReason
  /\ CausalGapsOnlyUnsequenced
  /\ NoBlockLost
  /\ StoredGapsOnlyUnsequenced
  /\ SequencingClosesGaps

(* What a restart finds is behind what the process knows. *)
StoredBehind ==
  /\ stored.blocks \subseteq accepted
  /\ stored.commit_round <= last_commit_round

(* No suspended block stays suspended: the fetches, garbage collection or  *)
(* a restart release it.                                                   *)
EverySuspensionEnds ==
  \A b \in Block :
    b \in DOMAIN suspended_blocks ~> b \notin DOMAIN suspended_blocks

(* "When buffering a block, all of its ancestors and the latest commit     *)
(* which sets the GC round must also be buffered" (DagState::flush), so    *)
(* that the DAG a restart finds has no gap.                                *)
StoredDagComplete ==
  \A b \in stored.blocks :
    RequiredAncestors(b, GcRoundOf(stored.commit_round))
      \subseteq stored.blocks

(* What the synchronizer sees: payloads that are accepted or suspended are *)
(* held, and the list of blocks to fetch changes only as FetchList says.   *)
(* In particular no handler drops a block from the list that somebody      *)
(* still waits for, and garbage collection never drops a payload.          *)
FL == INSTANCE FetchList WITH held <- accepted \cup DOMAIN suspended_blocks,
                              missing <- missing_blocks, gc <- gc_round

ImplementsFetchList == FL!Spec
=============================================================================
