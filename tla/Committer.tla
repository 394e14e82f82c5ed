------------------------------ MODULE Committer ------------------------------
(***************************************************************************)
(* The commit rule: BaseCommitter decides the leader slot of one round,    *)
(* UniversalCommitter::try_decide walks the rounds downwards and emits the *)
(* longest decided prefix (consensus/core/src/{base,universal}_committer). *)
(*                                                                         *)
(* The validators build one block DAG; every run of try_decide, by any     *)
(* honest validator at any time, sees some causally closed part of it, its *)
(* view.  The question is whether two runs over different views can decide *)
(* the same slot differently.  The model runs try_decide over one view     *)
(* after the other, one loop iteration per step, and remembers what every  *)
(* run decided.  Nothing relates the views of successive runs: they stand  *)
(* for runs of different validators as much as for later runs of one.      *)
(*                                                                         *)
(* Genesis blocks are left out: a block of round 1 has no ancestors here.  *)
(***************************************************************************)
EXTENDS Integers, FiniteSets, Sequences

CONSTANTS
  Authority,  \* the members of the committee
  Honest,     \* the ones that sign at most one block per round
  Quorum,     \* the sets of authorities whose stake reaches 2f+1
  Block,      \* all blocks that any authority ever signs
  Author,     \* Author[b]: the authority that signed b
  Round,      \* Round[b]: the round of b
  Leader,     \* Leader[r]: the authority LeaderSchedule elects for round r
  Dags,       \* the DAGs that may be built over Block, by name
  Ancestors,  \* Ancestors[d][b]: the blocks that b references in DAG d
  Past,       \* Past[d][b]: the causal history of b in DAG d
  Tips,       \* the sets of blocks whose causal histories make up a view
  Skip,       \* LeaderStatus::Skip
  Undecided   \* LeaderStatus::Undecided; LeaderStatus::Commit(b) is b itself

ReachedQuorum(authorities) == \E Q \in Quorum : Q \subseteq authorities

AuthorsOf(blocks) == {Author[b] : b \in blocks}

Parents(d, b) == {a \in Ancestors[d][b] : Round[a] = Round[b] - 1}

(* What SignedBlockVerifier::verify_block lets into the DAG: ancestors of  *)
(* lower rounds, at most one per author, a quorum of them in the round     *)
(* just below.                                                             *)
ValidDag(d) ==
  /\ Ancestors[d] \in [Block -> SUBSET Block]
  /\ Past[d] \in [Block -> SUBSET Block]
  /\ \A b \in Block :
       /\ \A a \in Past[d][b] : Round[a] < Round[b] /\ Past[d][a] \subseteq Past[d][b]
       /\ \A a1, a2 \in Ancestors[d][b] : Author[a1] = Author[a2] => a1 = a2
       /\ Round[b] > 1 => ReachedQuorum(AuthorsOf(Parents(d, b)))
       /\ Past[d][b] = Ancestors[d][b] \cup UNION {Past[d][a] : a \in Ancestors[d][b]}

ASSUME BlockAssumption ==
  /\ Author \in [Block -> Authority]
  /\ Round \in [Block -> Nat \ {0}]
  /\ \A b, c \in Block :
       Author[b] \in Honest /\ Author[b] = Author[c] /\ Round[b] = Round[c] => b = c

(* Stake 3f+1 of which at most f is faulty: two quorums share an honest    *)
(* authority.                                                              *)
ASSUME QuorumAssumption ==
  \A Q1, Q2 \in Quorum : \E a \in Honest : a \in Q1 /\ a \in Q2

ASSUME DagsAssumption == \A d \in Dags : ValidDag(d)

(* A DAG state holds some block of its highest accepted round.             *)
ASSUME TipsAssumption ==
  \A T \in Tips : T \subseteq Block /\ \E t \in T : \A b \in T : Round[b] <= Round[t]

ASSUME StatusAssumption == Skip \notin Block /\ Undecided \notin Block /\ Skip # Undecided

VARIABLES
  dag,           \* the DAG the validators build
  view,          \* DagState of the validator running try_decide; {} if none
  last_decided,  \* the round of the argument last_decided
  round,         \* the loop variable: the next round to decide
  leaders,       \* the deque of statuses: round -> status
  sequence,      \* the longest leader sequence any run has emitted
  decisions      \* history: every <<round, decided status>> of any run

vars == <<dag, view, last_decided, round, leaders, sequence, decisions>>

Decided == Block \cup {Skip}

-----------------------------------------------------------------------------
(* Waves.  With pipelining there is one BaseCommitter per round offset.    *)

WaveLength == 3

Offsets == 0 .. WaveLength - 1

WaveNumber(offset, r) == (IF r > offset THEN r - offset ELSE 0) \div WaveLength

LeaderRound(offset, wave) == wave * WaveLength + offset

DecisionRound(offset, wave) == wave * WaveLength + WaveLength - 1 + offset

(* The committers with a leader in round r. *)
Electing(r) == {o \in Offsets : LeaderRound(o, WaveNumber(o, r)) = r}

DecisionRoundOf(r) ==
  LET o == CHOOSE o \in Electing(r) : TRUE IN DecisionRound(o, WaveNumber(o, r))

-----------------------------------------------------------------------------
(* BaseCommitter.                                                          *)

LeaderBlocks(V, r) == {b \in V : Round[b] = r /\ Author[b] = Leader[r]}

(* The block find_supported_block(slot of l, v) finds is l.  is_vote is    *)
(* asked about ancestors v of a block of the decision round, two rounds    *)
(* above l, so v has no ancestor above the round of l and the search ends  *)
(* with the ancestors of v itself, of which one at most is in the slot.    *)
IsVote(d, v, l) == l \in Ancestors[d][v]

IsCertificate(d, c, l) ==
  ReachedQuorum(AuthorsOf({v \in Ancestors[d][c] : IsVote(d, v, l)}))

(* Mutant: a single blame is enough. *)
EnoughLeaderBlameOnce(d, V, r) ==
  \E b \in V : Round[b] = r + 1 /\ \A a \in Ancestors[d][b] : Author[a] # Leader[r]

(* A blame has no ancestor by the leader, of whatever round. *)
EnoughLeaderBlame(d, V, r) ==
  ReachedQuorum(AuthorsOf({b \in V : /\ Round[b] = r + 1
                                     /\ \A a \in Ancestors[d][b] : Author[a] # Leader[r]}))

EnoughLeaderSupport(d, V, l) ==
  ReachedQuorum(AuthorsOf({c \in V : /\ Round[c] = DecisionRoundOf(Round[l])
                                     /\ IsCertificate(d, c, l)}))

LeadersWithEnoughSupport(d, V, r) == {l \in LeaderBlocks(V, r) : EnoughLeaderSupport(d, V, l)}

TryDirectDecide(d, V, r) ==
  IF EnoughLeaderBlame(d, V, r) THEN Skip
  ELSE IF LeadersWithEnoughSupport(d, V, r) # {}
       THEN CHOOSE l \in LeadersWithEnoughSupport(d, V, r) : TRUE
       ELSE Undecided

(* Mutant: only the direct ancestors of the later block. *)
AncestorsAtRoundDirect(d, b, r) == {a \in Ancestors[d][b] : Round[a] = r}

(* DagState::ancestors_at_round. *)
AncestorsAtRound(d, b, r) == {a \in Past[d][b] : Round[a] = r}

CertifiedLeaderBlocks(d, V, anchor, r) ==
  {l \in LeaderBlocks(V, r) :
     \E c \in AncestorsAtRound(d, anchor, DecisionRoundOf(r)) : IsCertificate(d, c, l)}

DecideLeaderFromAnchor(d, V, anchor, r) ==
  IF CertifiedLeaderBlocks(d, V, anchor, r) # {}
  THEN CHOOSE l \in CertifiedLeaderBlocks(d, V, anchor, r) : TRUE
  ELSE Skip

(* Mutant: the leader of the decision round itself serves as an anchor. *)
AnchorTooClose(leads, r) ==
  {t \in DOMAIN leads : /\ r + WaveLength - 1 <= t
                        /\ leads[t] \in Block
                        /\ \A u \in (r + WaveLength - 1) .. (t - 1) : leads[u] = Skip}

(* The round of the anchor: the first leader at or above r + WaveLength    *)
(* that is not skipped, if that one is committed; else there is none.      *)
Anchor(leads, r) ==
  {t \in DOMAIN leads : /\ r + WaveLength <= t
                        /\ leads[t] \in Block
                        /\ \A u \in (r + WaveLength) .. (t - 1) : leads[u] = Skip}

TryIndirectDecide(d, V, leads, r) ==
  IF Anchor(leads, r) # {}
  THEN DecideLeaderFromAnchor(d, V, leads[CHOOSE t \in Anchor(leads, r) : TRUE], r)
  ELSE Undecided

Status(d, V, leads, r) ==
  IF TryDirectDecide(d, V, r) \in Decided
  THEN TryDirectDecide(d, V, r)
  ELSE TryIndirectDecide(d, V, leads, r)

-----------------------------------------------------------------------------
(* UniversalCommitter::try_decide.                                         *)

ViewOf(d, T) == T \cup UNION {Past[d][b] : b \in T}

HighestAcceptedRound(V) == CHOOSE r \in {Round[b] : b \in V} : \A b \in V : Round[b] <= r

(* The round where the loop begins: saturating_sub(2). *)
FirstRound(V) == IF HighestAcceptedRound(V) > 2 THEN HighestAcceptedRound(V) - 2 ELSE 0

Init ==
  /\ dag \in Dags
  /\ view = {}
  /\ last_decided = 0
  /\ round = 0
  /\ leaders = <<>>
  /\ sequence = <<>>
  /\ decisions = {}

(* A validator whose DAG state holds the histories of T, and which has     *)
(* already sequenced the leaders up to round `last`, calls try_decide.     *)
Start(T, last) ==
  /\ view = {}
  /\ view' = ViewOf(dag, T)
  /\ last_decided' = last
  /\ round' = FirstRound(ViewOf(dag, T))
  /\ leaders' = <<>>
  /\ UNCHANGED <<dag, sequence, decisions>>

Deciding == view # {} /\ round > last_decided

(* One iteration of the loop over the rounds, highest first.               *)
Decide ==
  /\ Deciding
  /\ leaders' = [r \in DOMAIN leaders \cup {round} |->
                   IF r = round THEN Status(dag, view, leaders, round) ELSE leaders[r]]
  /\ decisions' = IF Status(dag, view, leaders, round) \in Decided
                  THEN decisions \cup {<<round, Status(dag, view, leaders, round)>>}
                  ELSE decisions
  /\ round' = round - 1
  /\ UNCHANGED <<dag, view, last_decided, sequence>>

(* The rounds of the longest prefix of decided leaders. *)
DecidedPrefix ==
  {r \in DOMAIN leaders : \A u \in (last_decided + 1) .. r : leaders[u] \in Decided}

(* Mutant: leaders that are still undecided are emitted as skipped. *)
EmitSkippingUndecided ==
  /\ view # {}
  /\ round <= last_decided
  /\ sequence' = [r \in DOMAIN sequence \cup DOMAIN leaders |->
                    IF r \in DOMAIN sequence THEN sequence[r]
                    ELSE IF leaders[r] = Undecided THEN Skip ELSE leaders[r]]
  /\ view' = {}
  /\ leaders' = <<>>
  /\ last_decided' = 0
  /\ round' = 0
  /\ UNCHANGED <<dag, decisions>>

(* The loop is done; the decided prefix is emitted. *)
Emit ==
  /\ view # {}
  /\ round <= last_decided
  /\ sequence' = [r \in DOMAIN sequence \cup DecidedPrefix |->
                    IF r \in DOMAIN sequence THEN sequence[r] ELSE leaders[r]]
  /\ view' = {}
  /\ leaders' = <<>>
  /\ last_decided' = 0
  /\ round' = 0
  /\ UNCHANGED <<dag, decisions>>

Next ==
  \/ \E T \in Tips, last \in {0} \cup DOMAIN sequence : Start(T, last)
  \/ Decide
  \/ Emit

Spec == Init /\ [][Next]_vars

-----------------------------------------------------------------------------
(* Properties.                                                             *)

(* The rounds the loop has been through. *)
Visited == (IF round > last_decided THEN round + 1 ELSE last_decided + 1) .. FirstRound(view)

(* The shape of the state; in particular `leaders` holds exactly the       *)
(* rounds the loop of try_decide has visited, and an emitted sequence has  *)
(* no gaps and no undecided leader.                                        *)
TypeOK ==
  /\ dag \in Dags
  /\ view \in SUBSET Block
  /\ last_decided \in 0 .. Len(sequence)
  /\ round \in Nat
  /\ IF view = {} THEN leaders = <<>>
     ELSE leaders \in [Visited -> Decided \cup {Undecided}]
  /\ sequence \in Seq(Decided)
  /\ decisions \subseteq Nat \X Decided

(* No two runs of the commit rule, over whatever views of the DAG, decide  *)
(* a leader slot differently: two honest validators never commit different *)
(* blocks for one slot, nor does one commit what the other skips.          *)
DecisionsAgree ==
  \A x, y \in decisions : x[1] = y[1] => x[2] = y[2]

(* The leaders about to be emitted repeat or extend what any other run has *)
(* emitted: the leader sequences of all validators are prefixes of one.    *)
SequencesAgree ==
  \A r \in DOMAIN leaders \cap DOMAIN sequence :
    leaders[r] \in Decided => leaders[r] = sequence[r]

(* The two "more than one candidate" panics of try_direct_decide and       *)
(* decide_leader_from_anchor are unreachable, with an equivocating leader  *)
(* too.                                                                    *)
AtMostOneCandidate ==
  Deciding =>
    /\ \A k, l \in LeadersWithEnoughSupport(dag, view, round) : k = l
    /\ \A t \in Anchor(leaders, round) :
         \A k, l \in CertifiedLeaderBlocks(dag, view, leaders[t], round) : k = l

(* "2f+1 non-votes for that leader (which ensure there will never be a     *)
(* certificate for that leader)": once some view lets a validator skip a   *)
(* slot directly, no block anywhere in the DAG certifies a block of it.    *)
BlameForbidsCertificate ==
  Deciding /\ EnoughLeaderBlame(dag, view, round) =>
    \A l \in LeaderBlocks(Block, round), c \in Block :
      Round[c] = DecisionRoundOf(round) => ~ IsCertificate(dag, c, l)

(* Once some view lets a validator commit a leader directly, every block   *)
(* a wave or more above it, seen by whomever, has a certificate for that   *)
(* leader in its history: no anchor can skip the leader.                   *)
SupportReachesAnchors ==
  Deciding =>
    \A l \in LeadersWithEnoughSupport(dag, view, round), b \in Block :
      Round[b] >= round + WaveLength =>
        \E c \in AncestorsAtRound(dag, b, DecisionRoundOf(round)) : IsCertificate(dag, c, l)
=============================================================================
