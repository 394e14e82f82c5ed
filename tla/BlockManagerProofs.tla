------------------------- MODULE BlockManagerProofs -------------------------
(***************************************************************************)
(* Proofs about BlockManager for every DAG, every GC depth and every       *)
(* number of blocks.                                                       *)
(***************************************************************************)
EXTENDS BlockManager, WellFoundedInduction, TLAPS

(* A non-empty set of naturals has a least element. *)
LEMMA MinExists ==
  ASSUME NEW S \in SUBSET Nat, S # {}
  PROVE  \E m \in S : \A k \in S : m <= k
<1> DEFINE R == OpToRel(<, Nat)
<1>1. IsWellFoundedOn(R, Nat)
  BY Zenon, NatLessThanWellFounded
<1>2. PICK m \in S : \A k \in S : ~(<<k, m>> \in R)
  <2> HIDE DEF R
  <2> QED BY Zenon, <1>1, WFMin
<1>3. \A k \in S : ~(k < m)
  BY Zenon, <1>2 DEF OpToRel
<1> HIDE DEF R
<1> QED BY <1>3

(* A set of naturals with an upper bound in Nat has a greatest element. *)
LEMMA MaxExists ==
  ASSUME NEW S \in SUBSET Nat, S # {}, NEW u \in Nat, \A k \in S : k <= u
  PROVE  \E m \in S : \A k \in S : k <= m
<1> DEFINE T == {u - k : k \in S}
<1>1. T \in SUBSET Nat /\ T # {}
  <2>1. \A k \in S : u - k \in Nat
    OBVIOUS
  <2> QED BY Zenon, <2>1
<1>2. PICK t \in T : \A j \in T : t <= j
  <2> HIDE DEF T
  <2> QED BY Zenon, <1>1, MinExists
<1>3. PICK m \in S : t = u - m
  BY Zenon
<1>4. \A k \in S : u - m <= u - k
  BY Zenon, <1>2, <1>3
<1> QED BY <1>4

(* The work list of try_unsuspend_children_blocks runs until no suspended  *)
(* block waits for released references only.                               *)
LEMMA UnsuspendedClosed ==
  ASSUME NEW susp, NEW freed
  PROVE  ReleaseClosed(UnsuspendedBy(susp, freed), susp, freed)
BY Zenon DEF ReleaseClosed, UnsuspendedBy

(* It unsuspends nothing that still waits for something else. *)
LEMMA UnsuspendedGrounded ==
  ASSUME NEW susp, NEW freed, NEW c \in UnsuspendedBy(susp, freed)
  PROVE  susp[c] \subseteq freed \cup UnsuspendedBy(susp, freed)
<1> USE Zenon
<1> DEFINE UB == UnsuspendedBy(susp, freed)
           U == UB \ {c}
<1>1. UB \subseteq DOMAIN susp
  BY DEF UnsuspendedBy
<1>2. SUFFICES ASSUME ~(susp[c] \subseteq freed \cup UB)
               PROVE  FALSE
  OBVIOUS
<1>3. ReleaseClosed(UB, susp, freed)
  BY UnsuspendedClosed
<1>4. ReleaseClosed(U, susp, freed)
  BY <1>2, <1>3 DEF ReleaseClosed
<1>5. c \in U
  BY <1>1, <1>4 DEF UnsuspendedBy
<1> QED BY <1>5

(* Everything below a round bound is released once the awaited references  *)
(* below the bound that nobody holds are: by descent along the rounds, a   *)
(* suspended block waiting only for suspended ones cannot exist.           *)
LEMMA ReleasedByRound ==
  ASSUME NEW susp, NEW freed, NEW bound \in Nat,
         DOMAIN susp \in SUBSET Block,
         \A c \in DOMAIN susp : \A a \in susp[c] :
           /\ a \in Block
           /\ Round[a] < Round[c]
           /\ Round[a] <= bound => a \in freed \/ a \in DOMAIN susp
  PROVE  \A c \in DOMAIN susp :
           Round[c] <= bound => c \in UnsuspendedBy(susp, freed)
<1> USE Zenon
<1> DEFINE UB == UnsuspendedBy(susp, freed)
           Left == {c \in DOMAIN susp : Round[c] <= bound /\ c \notin UB}
           Rounds == {Round[c] : c \in Left}
<1>1. SUFFICES ASSUME Left # {}
               PROVE  FALSE
  OBVIOUS
<1>2. Rounds \in SUBSET Nat /\ Rounds # {}
  BY <1>1, DagAssumption
<1>3. PICK m \in Rounds : \A k \in Rounds : m <= k
  <2> HIDE DEF Rounds
  <2> QED BY <1>2, MinExists
<1>4. PICK c \in Left : Round[c] = m
  BY <1>3
<1>5. ~(susp[c] \subseteq freed \cup UB)
  BY <1>4, UnsuspendedClosed DEF ReleaseClosed
<1>6. PICK a \in susp[c] : a \notin freed /\ a \notin UB
  BY <1>5
<1>7. Round[a] \in Nat /\ Round[c] \in Nat /\ Round[a] < Round[c]
  BY <1>4, <1>6, DagAssumption
<1>8. a \in Left
  BY SMT, <1>4, <1>6, <1>7
<1>9. m <= Round[a]
  BY <1>3, <1>8
<1> QED BY SMT, <1>4, <1>7, <1>9

(* The GC round does not move back when the commit round does not. *)
LEMMA GcMonotone ==
  ASSUME NEW r \in Nat, NEW q \in Nat, r <= q
  PROVE  GcRoundOf(r) \in Nat /\ GcRoundOf(q) \in Nat
           /\ GcRoundOf(r) <= GcRoundOf(q)
BY GcDepthAssumption DEF GcRoundOf

-----------------------------------------------------------------------------
(* What every releasing handler keeps, stated once: `freed` is what the    *)
(* handler stops waiting for because it is accepted or below the new GC    *)
(* round.                                                                  *)
LEMMA ReleaseKeepsMaps ==
  ASSUME IInv, NEW freed \in SUBSET Block, Release(freed),
         accepted' \in SUBSET Block, gc_round' \in Nat, gc_round \in Nat,
         gc_round <= gc_round',
         accepted \cup UnsuspendedBy(suspended_blocks, freed)
           \subseteq accepted',
         accepted' \subseteq
           accepted \cup freed \cup UnsuspendedBy(suspended_blocks, freed),
         \A a \in freed : a \in accepted' \/ Round[a] <= gc_round',
         \A a \in DOMAIN missing_ancestors :
           Round[a] <= gc_round' =>
             a \in freed \cup UnsuspendedBy(suspended_blocks, freed)
  PROVE  /\ DOMAIN suspended_blocks' \in SUBSET Block
         /\ suspended_blocks' \in [DOMAIN suspended_blocks' -> SUBSET Block]
         /\ DOMAIN missing_ancestors' \in SUBSET Block
         /\ missing_ancestors' \in [DOMAIN missing_ancestors' -> SUBSET Block]
         /\ missing_blocks' \in SUBSET Block
         /\ MissingBlocksExact'
         /\ LinksMirror'
         /\ NothingStaleAwaited'
         /\ SuspendedForAReason'
<1> USE Zenon
<1> DEFINE UB == UnsuspendedBy(suspended_blocks, freed)
           gone == freed \cup UB
<1>1. UB \subseteq DOMAIN suspended_blocks
  BY DEF UnsuspendedBy
<1>2. \A c \in DOMAIN suspended_blocks :
        suspended_blocks[c] \subseteq gone => c \in UB
  BY UnsuspendedClosed DEF ReleaseClosed
<1>3. \A c \in UB : suspended_blocks[c] \subseteq gone
  BY UnsuspendedGrounded
<1>4. /\ suspended_blocks' = [c \in DOMAIN suspended_blocks \ gone
                                |-> suspended_blocks[c] \ gone]
      /\ missing_ancestors' = [a \in DOMAIN missing_ancestors \ gone
                                 |-> missing_ancestors[a] \ freed]
      /\ missing_blocks' = missing_blocks \ freed
  BY DEF Release
<1> HIDE DEF UB
<1>5. TypeOK /\ MissingBlocksExact /\ LinksMirror /\ NothingStaleAwaited
        /\ SuspendedForAReason
  BY DEF IInv
<1>6. /\ DOMAIN suspended_blocks' \in SUBSET Block
      /\ suspended_blocks' \in [DOMAIN suspended_blocks' -> SUBSET Block]
      /\ DOMAIN missing_ancestors' \in SUBSET Block
      /\ missing_ancestors' \in [DOMAIN missing_ancestors' -> SUBSET Block]
      /\ missing_blocks' \in SUBSET Block
  BY <1>4, <1>5 DEF TypeOK
<1>7. MissingBlocksExact'
  BY <1>1, <1>4, <1>5 DEF MissingBlocksExact
<1>8. LinksMirror'
  <2>1. ASSUME NEW a \in DOMAIN missing_ancestors',
               NEW c \in missing_ancestors'[a]
        PROVE  c \in DOMAIN suspended_blocks' /\ a \in suspended_blocks'[c]
    <3>1. /\ a \in DOMAIN missing_ancestors /\ a \notin gone
          /\ c \in missing_ancestors[a] /\ c \notin freed
      BY <1>4, <2>1
    <3>2. c \in DOMAIN suspended_blocks /\ a \in suspended_blocks[c]
      BY <1>5, <3>1 DEF LinksMirror
    <3>3. c \notin UB
      BY <1>3, <3>1, <3>2
    <3> QED BY <1>4, <3>1, <3>2, <3>3
  <2>2. ASSUME NEW c \in DOMAIN suspended_blocks',
               NEW a \in suspended_blocks'[c]
        PROVE  a \in DOMAIN missing_ancestors' /\ c \in missing_ancestors'[a]
    <3>1. /\ c \in DOMAIN suspended_blocks /\ c \notin gone
          /\ a \in suspended_blocks[c] /\ a \notin gone
      BY <1>4, <2>2
    <3>2. a \in DOMAIN missing_ancestors /\ c \in missing_ancestors[a]
      BY <1>5, <3>1 DEF LinksMirror
    <3> QED BY <1>4, <3>1, <3>2
  <2> QED BY <2>1, <2>2 DEF LinksMirror
<1>9. NothingStaleAwaited'
  <2>1. ASSUME NEW a \in DOMAIN missing_ancestors'
        PROVE  a \notin accepted' /\ Round[a] > gc_round'
    <3>1. a \in DOMAIN missing_ancestors /\ a \notin gone
      BY <1>4
    <3>2. a \notin accepted /\ a \in Block
      BY <1>5, <3>1 DEF NothingStaleAwaited, TypeOK
    <3>3. Round[a] \in Nat
      BY <3>2, DagAssumption
    <3> QED BY SMT, <3>1, <3>2, <3>3 DEF UB
  <2>2. DOMAIN suspended_blocks' \cap accepted' = {}
    BY <1>4, <1>5 DEF NothingStaleAwaited, UB
  <2> QED BY <2>1, <2>2 DEF NothingStaleAwaited
<1>10. SuspendedForAReason'
  <2> SUFFICES ASSUME NEW c \in DOMAIN suspended_blocks'
               PROVE  /\ suspended_blocks'[c] # {}
                      /\ suspended_blocks'[c] \subseteq Ancestors[c]
                      /\ RequiredAncestors(c, gc_round') \subseteq
                           accepted' \cup suspended_blocks'[c]
    BY DEF SuspendedForAReason
  <2>1. /\ c \in DOMAIN suspended_blocks /\ c \notin gone
        /\ suspended_blocks'[c] = suspended_blocks[c] \ gone
    BY <1>4
  <2>2. suspended_blocks'[c] # {}
    BY <1>2, <2>1
  <2>3. suspended_blocks'[c] \subseteq Ancestors[c]
    BY <1>5, <2>1 DEF SuspendedForAReason
  <2>4. ASSUME NEW a \in RequiredAncestors(c, gc_round')
        PROVE  a \in accepted' \cup suspended_blocks'[c]
    <3>1. a \in Ancestors[c] /\ Round[a] > gc_round' /\ Round[a] \in Nat
      BY <1>5, <2>1, DagAssumption DEF RequiredAncestors, TypeOK
    <3>2. a \in accepted \cup suspended_blocks[c]
      BY SMT, <1>5, <2>1, <3>1 DEF SuspendedForAReason, RequiredAncestors
    <3>3. a \in freed => a \in accepted'
      BY SMT, <3>1
    <3> QED BY <2>1, <3>2, <3>3 DEF UB
  <2> QED BY <2>2, <2>3, <2>4
<1> QED BY <1>6, <1>7, <1>8, <1>9, <1>10

-----------------------------------------------------------------------------
(* An empty validator satisfies the invariant. *)
LEMMA InitIInv == Init => IInv
BY GcDepthAssumption
   DEF Init, IInv, TypeOK, MissingBlocksExact, LinksMirror,
       NothingStaleAwaited, SuspendedForAReason, CausalGapsOnlyUnsequenced,
       NoBlockLost, StoredGapsOnlyUnsequenced, SequencingClosesGaps, Idle,
       gc_round, GcRoundOf

(* try_accept_one_block, ancestors present. *)
LEMMA AcceptBlockStep ==
  ASSUME IInv, NEW b \in Block, AcceptBlock(b)
  PROVE  IInv'
<1> USE Zenon
<1> DEFINE UB == UnsuspendedBy(suspended_blocks, {b})
<1>1. TypeOK
  BY DEF IInv
<1>2. gc_round \in Nat /\ gc_round' = gc_round
  BY <1>1, GcMonotone DEF TypeOK, gc_round, AcceptBlock
<1>3. UB \subseteq DOMAIN suspended_blocks
  BY DEF UnsuspendedBy
<1>4. accepted' = accepted \cup {b} \cup UB /\ Release({b})
  BY DEF AcceptBlock
<1> HIDE DEF UB
<1>5. accepted' \in SUBSET Block
  BY <1>1, <1>3, <1>4 DEF TypeOK
<1>6. \A a \in DOMAIN missing_ancestors : Round[a] > gc_round
  BY DEF IInv, NothingStaleAwaited
<1>7. /\ DOMAIN suspended_blocks' \in SUBSET Block
      /\ suspended_blocks' \in [DOMAIN suspended_blocks' -> SUBSET Block]
      /\ DOMAIN missing_ancestors' \in SUBSET Block
      /\ missing_ancestors' \in [DOMAIN missing_ancestors' -> SUBSET Block]
      /\ missing_blocks' \in SUBSET Block
      /\ MissingBlocksExact'
      /\ LinksMirror'
      /\ NothingStaleAwaited'
      /\ SuspendedForAReason'
  <2>1. \A a \in DOMAIN missing_ancestors : ~(Round[a] <= gc_round')
    BY SMT, <1>1, <1>2, <1>6, DagAssumption DEF TypeOK
  <2> QED
    BY SMT, <1>2, <1>4, <1>5, <2>1, ReleaseKeepsMaps DEF UB
<1>8. TypeOK'
  BY <1>1, <1>2, <1>5, <1>7 DEF TypeOK, AcceptBlock
<1>9. \A c \in UB : RequiredAncestors(c, gc_round') \subseteq accepted'
  BY <1>2, <1>3, <1>4, UnsuspendedGrounded
     DEF IInv, SuspendedForAReason, UB
<1>10. CausalGapsOnlyUnsequenced'
  BY <1>2, <1>4, <1>9 DEF CausalGapsOnlyUnsequenced, AcceptBlock, IInv
<1>11. NoBlockLost'
  BY <1>4 DEF NoBlockLost, IInv, AcceptBlock, Release, UB
<1>12. StoredGapsOnlyUnsequenced' /\ SequencingClosesGaps'
  BY <1>4 DEF IInv, StoredGapsOnlyUnsequenced, SequencingClosesGaps,
              AcceptBlock
<1> QED BY <1>7, <1>8, <1>10, <1>11, <1>12 DEF IInv

(* try_accept_one_block, some ancestor missing. *)
LEMMA SuspendBlockStep ==
  ASSUME IInv, NEW b \in Block, SuspendBlock(b)
  PROVE  IInv'
<1> USE Zenon
<1> DEFINE missing == RequiredAncestors(b, gc_round) \ accepted
<1>1. TypeOK
  BY SMT DEF IInv
<1>2. gc_round \in Nat /\ gc_round' = gc_round
  BY <1>1, GcMonotone DEF TypeOK, gc_round, SuspendBlock
<1>3. /\ missing # {} /\ missing \subseteq Block
      /\ \A a \in missing : /\ Round[a] \in Nat /\ Round[a] > gc_round
                            /\ a \notin accepted /\ a \in Ancestors[b]
                            /\ a # b
  BY SMT, DagAssumption DEF SuspendBlock, RequiredAncestors, MissingAncestorsOf
<1>4. /\ suspended_blocks' =
           [c \in DOMAIN suspended_blocks \cup {b}
              |-> IF c = b THEN missing ELSE suspended_blocks[c]]
      /\ missing_ancestors' =
           [a \in DOMAIN missing_ancestors \cup missing |->
              (IF a \in DOMAIN missing_ancestors
                 THEN missing_ancestors[a] ELSE {})
              \cup (IF a \in missing THEN {b} ELSE {})]
      /\ missing_blocks' =
           (missing_blocks \cup (missing \ DOMAIN suspended_blocks)) \ {b}
      /\ b \notin DOMAIN suspended_blocks /\ b \notin accepted
      /\ accepted' = accepted
  BY DEF SuspendBlock, MissingWith, MissingAncestorsOf
<1>5. RequiredAncestors(b, gc_round) \subseteq accepted \cup missing
  OBVIOUS
<1> HIDE DEF missing
<1>6. TypeOK'
  BY SMT, <1>1, <1>2, <1>3, <1>4 DEF TypeOK, SuspendBlock, MissingWith
<1>7. MissingBlocksExact'
  BY <1>3, <1>4 DEF IInv, MissingBlocksExact
<1>8. LinksMirror'
  <2>1. LinksMirror
    BY DEF IInv
  <2>2. ASSUME NEW a \in DOMAIN missing_ancestors',
               NEW c \in missing_ancestors'[a]
        PROVE  c \in DOMAIN suspended_blocks' /\ a \in suspended_blocks'[c]
    BY <1>4, <2>1, <2>2 DEF LinksMirror
  <2>3. ASSUME NEW c \in DOMAIN suspended_blocks',
               NEW a \in suspended_blocks'[c]
        PROVE  a \in DOMAIN missing_ancestors' /\ c \in missing_ancestors'[a]
    BY <1>4, <2>1, <2>3 DEF LinksMirror
  <2> QED BY <2>2, <2>3 DEF LinksMirror
<1>9. NothingStaleAwaited'
  BY <1>2, <1>3, <1>4 DEF IInv, NothingStaleAwaited
<1>10. SuspendedForAReason'
  BY <1>2, <1>3, <1>4, <1>5 DEF IInv, SuspendedForAReason
<1>11. CausalGapsOnlyUnsequenced' /\ NoBlockLost'
         /\ StoredGapsOnlyUnsequenced' /\ SequencingClosesGaps'
  BY <1>2, <1>4 DEF IInv, CausalGapsOnlyUnsequenced, NoBlockLost,
       StoredGapsOnlyUnsequenced, SequencingClosesGaps, SuspendBlock
<1> QED BY <1>6, <1>7, <1>8, <1>9, <1>10, <1>11 DEF IInv

(* try_find_blocks. *)
LEMMA FindBlocksStep ==
  ASSUME IInv, NEW refs \in SUBSET Block, FindBlocks(refs)
  PROVE  IInv'
<1> USE Zenon
<1> DEFINE unknown == {r \in refs : /\ Round[r] > gc_round
                                    /\ r \notin accepted
                                    /\ r \notin DOMAIN suspended_blocks}
<1>1. TypeOK
  BY DEF IInv
<1>2. gc_round \in Nat /\ gc_round' = gc_round
  BY <1>1, GcMonotone DEF TypeOK, gc_round, FindBlocks
<1>3. /\ missing_blocks' = missing_blocks \cup unknown
      /\ missing_ancestors' =
           [a \in DOMAIN missing_ancestors \cup unknown |->
              IF a \in DOMAIN missing_ancestors
                THEN missing_ancestors[a] ELSE {}]
      /\ suspended_blocks' = suspended_blocks /\ accepted' = accepted
  BY DEF FindBlocks
<1>4. TypeOK'
  BY <1>1, <1>2, <1>3 DEF TypeOK, FindBlocks
<1>5. MissingBlocksExact'
  BY <1>3 DEF IInv, MissingBlocksExact
<1>6. LinksMirror'
  BY <1>3 DEF IInv, LinksMirror
<1>7. NothingStaleAwaited' /\ SuspendedForAReason'
  BY <1>2, <1>3 DEF IInv, NothingStaleAwaited, SuspendedForAReason
<1>8. CausalGapsOnlyUnsequenced' /\ NoBlockLost'
         /\ StoredGapsOnlyUnsequenced' /\ SequencingClosesGaps'
  BY <1>2, <1>3 DEF IInv, CausalGapsOnlyUnsequenced, NoBlockLost,
       StoredGapsOnlyUnsequenced, SequencingClosesGaps, FindBlocks
<1> QED BY <1>4, <1>5, <1>6, <1>7, <1>8 DEF IInv

(* A sub-dag holds everything its members reference above its GC round. *)
LEMMA SubDagClosed ==
  ASSUME NEW leader, NEW gc, NEW b \in SubDag(leader, gc)
  PROVE  RequiredAncestors(b, gc) \subseteq SubDag(leader, gc)
<1>1. RequiredAncestors(b, gc) \subseteq Block
  BY Zenon, DagAssumption DEF SubDag, RequiredAncestors
<1>2. ASSUME NEW S \in SUBSET Block, leader \in S,
             \A c \in S : RequiredAncestors(c, gc) \subseteq S
      PROVE  RequiredAncestors(b, gc) \subseteq S
  BY Zenon, <1>2 DEF SubDag
<1> QED BY Zenon, <1>1, <1>2 DEF SubDag

(* Sequencing a run of certified commits moves the GC round at least to    *)
(* where the sub-dag of each of them was cut.                              *)
LEMMA CertifiedBlocksClosed ==
  ASSUME last_commit_round \in Nat, NEW leaders \in SUBSET Block,
         NEW last \in leaders,
         \A k \in leaders : /\ Round[k] > last_commit_round
                            /\ Round[k] <= Round[last],
         NEW b \in CertifiedBlocks(leaders)
  PROVE  RequiredAncestors(b, GcRoundOf(Round[last]))
           \subseteq CertifiedBlocks(leaders)
<1> USE Zenon
<1>1. PICK l \in leaders : b \in SubDag(l, GcRoundOf(PrecedingRound(leaders, l)))
  BY DEF CertifiedBlocks
<1> DEFINE earlier == {last_commit_round} \cup
                        {Round[k] : k \in {k \in leaders : Round[k] < Round[l]}}
           p == PrecedingRound(leaders, l)
<1>2. Round[l] \in Nat /\ Round[last] \in Nat
  BY DagAssumption
<1>3. earlier \in SUBSET Nat /\ earlier # {} /\ \A q \in earlier : q <= Round[l]
  BY SMT, <1>2, DagAssumption
<1>4. p \in earlier
  <2>1. \E m \in earlier : \A q \in earlier : q <= m
    <3> HIDE DEF earlier
    <3> QED BY <1>2, <1>3, MaxExists
  <2> QED BY <2>1 DEF PrecedingRound
<1>5. p \in Nat /\ p <= Round[last]
  <2>1. p \in Nat /\ p <= Round[l]
    BY <1>3, <1>4
  <2> QED BY SMT, <1>2, <2>1
<1> HIDE DEF p
<1>6. GcRoundOf(p) \in Nat /\ GcRoundOf(p) <= GcRoundOf(Round[last])
      /\ GcRoundOf(Round[last]) \in Nat
  BY <1>2, <1>5, GcMonotone
<1>7. b \in Block
  BY <1>1 DEF SubDag
<1>8. RequiredAncestors(b, GcRoundOf(Round[last]))
        \subseteq RequiredAncestors(b, GcRoundOf(p))
  BY SMT, <1>6, <1>7, DagAssumption DEF RequiredAncestors
<1>9. RequiredAncestors(b, GcRoundOf(p)) \subseteq SubDag(l, GcRoundOf(p))
  BY <1>1, SubDagClosed DEF p
<1> QED BY <1>8, <1>9 DEF CertifiedBlocks, p

(* try_accept_committed_blocks. *)
LEMMA AcceptCertifiedStep ==
  ASSUME IInv, NEW leaders \in SUBSET Block, NEW last \in leaders,
         AcceptCertified(leaders, last)
  PROVE  IInv'
<1> USE Zenon
<1> DEFINE blocks == CertifiedBlocks(leaders)
           r == Round[last]
           UB == UnsuspendedBy(suspended_blocks, blocks)
<1>1. TypeOK /\ r \in Nat /\ r > last_commit_round
  BY DagAssumption DEF IInv, AcceptCertified
<1>2. gc_round \in Nat /\ gc_round' = gc_round
  BY <1>1 DEF TypeOK, gc_round, AcceptCertified
<1>3. UB \subseteq DOMAIN suspended_blocks
  BY DEF UnsuspendedBy
<1>4. /\ accepted' = accepted \cup blocks \cup UB
      /\ Release(blocks)
      /\ unsequenced' = unsequenced \cup (blocks \ accepted)
      /\ sequencing' = [blocks |-> blocks, round |-> r]
      /\ received' = received \cup blocks
      /\ last_commit_round' = last_commit_round /\ stored' = stored
  BY DEF AcceptCertified
<1>5. blocks \in SUBSET Block
  BY DEF CertifiedBlocks, SubDag
<1>6. \A b \in blocks : RequiredAncestors(b, GcRoundOf(r)) \subseteq blocks
  BY <1>1, CertifiedBlocksClosed DEF TypeOK, AcceptCertified
<1> HIDE DEF UB, blocks, r
<1>7. accepted' \in SUBSET Block
  BY <1>1, <1>3, <1>4, <1>5 DEF TypeOK
<1>8. \A a \in DOMAIN missing_ancestors : ~(Round[a] <= gc_round')
  BY SMT, <1>1, <1>2, DagAssumption DEF TypeOK, IInv, NothingStaleAwaited
<1>9. /\ DOMAIN suspended_blocks' \in SUBSET Block
      /\ suspended_blocks' \in [DOMAIN suspended_blocks' -> SUBSET Block]
      /\ DOMAIN missing_ancestors' \in SUBSET Block
      /\ missing_ancestors' \in [DOMAIN missing_ancestors' -> SUBSET Block]
      /\ missing_blocks' \in SUBSET Block
      /\ MissingBlocksExact'
      /\ LinksMirror'
      /\ NothingStaleAwaited'
      /\ SuspendedForAReason'
  BY SMT, <1>2, <1>4, <1>5, <1>7, <1>8, ReleaseKeepsMaps DEF UB
<1>10. TypeOK'
  BY <1>1, <1>2, <1>4, <1>5, <1>7, <1>9 DEF TypeOK
<1>11. \A c \in UB : RequiredAncestors(c, gc_round') \subseteq accepted'
  BY <1>2, <1>3, <1>4, UnsuspendedGrounded
     DEF IInv, SuspendedForAReason, UB
<1>12. CausalGapsOnlyUnsequenced'
  BY <1>2, <1>4, <1>11 DEF CausalGapsOnlyUnsequenced, IInv
<1>13. NoBlockLost'
  BY <1>4 DEF NoBlockLost, IInv, Release, UB
<1>14. StoredGapsOnlyUnsequenced' /\ SequencingClosesGaps'
  BY <1>1, <1>4, <1>6 DEF IInv, StoredGapsOnlyUnsequenced, SequencingClosesGaps
<1> QED BY <1>9, <1>10, <1>12, <1>13, <1>14 DEF IInv

(* A commit and try_unsuspend_blocks_for_latest_gc_round.  The assertion   *)
(* that no collected reference is suspended holds because every suspended  *)
(* block below the new GC round is released before its turn comes.         *)
LEMMA CommitStep ==
  ASSUME IInv, NEW r \in Nat, r > last_commit_round, Commit(r),
         \/ /\ sequencing' = sequencing
            /\ sequencing = Idle
            /\ unsequenced' = unsequenced
         \/ /\ sequencing # Idle
            /\ r = sequencing.round
            /\ sequencing' = Idle
            /\ unsequenced' = unsequenced \ sequencing.blocks
  PROVE  IInv'
<1> USE Zenon
<1> DEFINE collected == Collected(GcRoundOf(r))
           UB == UnsuspendedBy(suspended_blocks, collected)
<1>1. TypeOK
  BY DEF IInv
<1>2. /\ gc_round \in Nat /\ gc_round' \in Nat /\ gc_round <= gc_round'
      /\ gc_round' = GcRoundOf(r)
  BY SMT, <1>1, GcMonotone DEF TypeOK, gc_round, Commit
<1>3. UB \subseteq DOMAIN suspended_blocks
  BY DEF UnsuspendedBy
<1>4. /\ accepted' = accepted \cup UB
      /\ Release(collected)
      /\ stored' = stored /\ received' = received
      /\ last_commit_round' = r
  BY DEF Commit
<1>5. \A c \in DOMAIN suspended_blocks : \A a \in suspended_blocks[c] :
        /\ a \in Block
        /\ Round[a] < Round[c]
        /\ Round[a] <= gc_round' => a \in collected \/ a \in DOMAIN suspended_blocks
  BY <1>1, <1>2, DagAssumption
     DEF TypeOK, IInv, LinksMirror, SuspendedForAReason, Collected
<1>6. \A c \in DOMAIN suspended_blocks : Round[c] <= gc_round' => c \in UB
  <2>1. DOMAIN suspended_blocks \in SUBSET Block
    BY <1>1 DEF TypeOK
  <2> HIDE DEF collected
  <2> QED BY <1>2, <1>5, <2>1, ReleasedByRound
<1>7. \A a \in DOMAIN missing_ancestors :
        Round[a] <= gc_round' => a \in collected \cup UB
  BY <1>2, <1>6 DEF Collected
<1>8. \A a \in collected : Round[a] <= gc_round'
  BY <1>2 DEF Collected
<1>9. collected \in SUBSET Block
  BY <1>1 DEF TypeOK, Collected
<1> HIDE DEF UB, collected
<1>10. accepted' \in SUBSET Block
  BY <1>1, <1>3, <1>4 DEF TypeOK
<1>11. /\ DOMAIN suspended_blocks' \in SUBSET Block
       /\ suspended_blocks' \in [DOMAIN suspended_blocks' -> SUBSET Block]
       /\ DOMAIN missing_ancestors' \in SUBSET Block
       /\ missing_ancestors' \in [DOMAIN missing_ancestors' -> SUBSET Block]
       /\ missing_blocks' \in SUBSET Block
       /\ MissingBlocksExact'
       /\ LinksMirror'
       /\ NothingStaleAwaited'
       /\ SuspendedForAReason'
  BY <1>2, <1>4, <1>7, <1>8, <1>9, <1>10, ReleaseKeepsMaps DEF UB
<1>12. TypeOK'
  BY SMT, <1>1, <1>2, <1>4, <1>10, <1>11 DEF TypeOK, Idle
<1>13. \A c \in Block :
         RequiredAncestors(c, gc_round') \subseteq RequiredAncestors(c, gc_round)
  BY SMT, <1>2, DagAssumption DEF RequiredAncestors
<1>14. \A c \in UB : RequiredAncestors(c, gc_round') \subseteq accepted'
  <2> SUFFICES ASSUME NEW c \in UB, NEW a \in RequiredAncestors(c, gc_round')
               PROVE  a \in accepted'
    OBVIOUS
  <2>1. c \in DOMAIN suspended_blocks /\ c \in Block
    BY <1>1, <1>3 DEF TypeOK
  <2>2. a \in accepted \cup suspended_blocks[c]
    BY <1>13, <2>1 DEF IInv, SuspendedForAReason
  <2>3. suspended_blocks[c] \subseteq collected \cup UB
    BY UnsuspendedGrounded DEF UB
  <2>4. a \notin collected
    BY SMT, <1>2, <1>8, <2>1, DagAssumption DEF RequiredAncestors
  <2> QED BY <1>4, <2>2, <2>3, <2>4
<1>15. CausalGapsOnlyUnsequenced'
  <2>1. ASSUME NEW b \in accepted \ unsequenced
        PROVE  RequiredAncestors(b, gc_round') \subseteq accepted'
    BY <1>1, <1>4, <1>13 DEF IInv, CausalGapsOnlyUnsequenced, TypeOK
  <2>2. ASSUME sequencing # Idle, r = sequencing.round,
               NEW b \in sequencing.blocks
        PROVE  RequiredAncestors(b, gc_round') \subseteq accepted'
    BY <1>2, <1>4, <2>2 DEF IInv, SequencingClosesGaps
  <2> QED BY <1>4, <1>14, <2>1, <2>2 DEF CausalGapsOnlyUnsequenced
<1>16. NoBlockLost'
  <2>1. \A c \in DOMAIN suspended_blocks : c \notin collected
    BY DEF collected, Collected
  <2> QED BY <1>4, <2>1 DEF NoBlockLost, IInv, Release, UB
<1>17. StoredGapsOnlyUnsequenced' /\ SequencingClosesGaps'
  BY <1>4 DEF IInv, StoredGapsOnlyUnsequenced, SequencingClosesGaps
<1> QED BY <1>11, <1>12, <1>15, <1>16, <1>17 DEF IInv

(* DagState::flush and a restart from what it wrote. *)
LEMMA FlushStep ==
  ASSUME IInv, Flush
  PROVE  IInv'
<1> USE Zenon
<1>1. /\ gc_round' = gc_round
      /\ GcRoundOf(stored.commit_round)' = gc_round
  BY DEF Flush, gc_round
<1>2. TypeOK'
  BY <1>1 DEF IInv, TypeOK, Flush, managerVars
<1>3. /\ MissingBlocksExact' /\ LinksMirror' /\ NothingStaleAwaited'
      /\ SuspendedForAReason' /\ CausalGapsOnlyUnsequenced' /\ NoBlockLost'
  BY <1>1 DEF IInv, Flush, managerVars, MissingBlocksExact, LinksMirror,
       NothingStaleAwaited, SuspendedForAReason, CausalGapsOnlyUnsequenced,
       NoBlockLost
<1>4. StoredGapsOnlyUnsequenced'
  BY <1>1 DEF IInv, Flush, StoredGapsOnlyUnsequenced,
       CausalGapsOnlyUnsequenced
<1>5. SequencingClosesGaps'
  BY DEF IInv, Flush, SequencingClosesGaps
<1> QED BY <1>2, <1>3, <1>4, <1>5 DEF IInv

LEMMA RestartStep ==
  ASSUME IInv, Restart
  PROVE  IInv'
<1> USE Zenon
<1>1. gc_round' = GcRoundOf(stored.commit_round)
  BY DEF Restart, gc_round
<1>2. TypeOK'
  BY SMT, <1>1, GcMonotone DEF IInv, TypeOK, Restart, Idle
<1>3. /\ MissingBlocksExact' /\ LinksMirror' /\ NothingStaleAwaited'
      /\ SuspendedForAReason' /\ NoBlockLost'
  BY DEF Restart, MissingBlocksExact, LinksMirror, NothingStaleAwaited,
       SuspendedForAReason, NoBlockLost
<1>4. CausalGapsOnlyUnsequenced' /\ StoredGapsOnlyUnsequenced'
  BY <1>1 DEF IInv, Restart, StoredGapsOnlyUnsequenced,
       CausalGapsOnlyUnsequenced
<1>5. SequencingClosesGaps'
  BY DEF Restart, SequencingClosesGaps
<1> QED BY <1>2, <1>3, <1>4, <1>5 DEF IInv

(* Every step of the block manager keeps the inductive invariant. *)
LEMMA NextIInv == IInv /\ [Next]_vars => IInv'
<1> USE Zenon
<1> SUFFICES ASSUME IInv, [Next]_vars
             PROVE  IInv'
  OBVIOUS
<1>1. ASSUME NEW b \in Block, AcceptBlock(b)
      PROVE  IInv'
  BY <1>1, AcceptBlockStep
<1>2. ASSUME NEW b \in Block, SuspendBlock(b)
      PROVE  IInv'
  BY SMT, <1>2, SuspendBlockStep
<1>3. ASSUME NEW b \in Block, CommitLeader(b)
      PROVE  IInv'
  <2>1. Round[b] \in Nat
    BY DagAssumption
  <2> QED BY <1>3, <2>1, CommitStep DEF CommitLeader
<1>4. ASSUME NEW refs \in SUBSET Block, FindBlocks(refs)
      PROVE  IInv'
  BY <1>4, FindBlocksStep
<1>5. ASSUME NEW leaders \in SUBSET Block, NEW last \in leaders,
             AcceptCertified(leaders, last)
      PROVE  IInv'
  BY <1>5, AcceptCertifiedStep
<1>6. ASSUME CommitCertified
      PROVE  IInv'
  <2>1. sequencing.round \in Nat /\ sequencing.round > last_commit_round
    BY <1>6 DEF IInv, TypeOK, SequencingClosesGaps, CommitCertified
  <2> QED BY <1>6, <2>1, CommitStep DEF CommitCertified
<1>7. CASE Flush
  BY <1>7, FlushStep
<1>8. CASE Restart
  BY SMT, <1>8, RestartStep
<1>9. CASE UNCHANGED vars
  BY <1>9 DEF vars, IInv, TypeOK, MissingBlocksExact, LinksMirror,
       NothingStaleAwaited, SuspendedForAReason, CausalGapsOnlyUnsequenced,
       NoBlockLost, StoredGapsOnlyUnsequenced, SequencingClosesGaps, gc_round
<1> QED BY <1>1, <1>2, <1>3, <1>4, <1>5, <1>6, <1>7, <1>8, <1>9 DEF Next

(* The inductive invariant holds in every reachable state. *)
LEMMA Invariance == Spec => []IInv
BY InitIInv, NextIInv, PTL DEF Spec

(* Types hold and the GC round never underflows. *)
THEOREM TypesHold == Spec => []TypeOK
BY Invariance, PTL DEF IInv

(* No handler meets one of the panics of try_unsuspend_block: the maps     *)
(* mirror each other whatever blocks, commits, collections, flushes and    *)
(* restarts came before.                                                   *)
THEOREM MapsMirror == Spec => []LinksMirror
BY Invariance, PTL DEF IInv

(* missing_blocks is what is awaited and not held, and nothing accepted or *)
(* below the GC round is awaited.                                          *)
THEOREM FetchListExact == Spec => [](MissingBlocksExact /\ NothingStaleAwaited)
BY Invariance, PTL DEF IInv

(* No delivered block is lost. *)
THEOREM DeliveredBlocksKept == Spec => []NoBlockLost
BY Invariance, PTL DEF IInv

(* DagState has a causal gap above the GC round only at blocks of          *)
(* certified commits that are not sequenced yet.                           *)
THEOREM DagCausallyComplete == Spec => []CausalGapsOnlyUnsequenced
BY Invariance, PTL DEF IInv

(* Fetching what is reported suffices: a suspended block of least round    *)
(* among those a full fetch would leave behind waits only for blocks that  *)
(* are fetched or released, so there is none.                              *)
THEOREM FetchingSuffices == Spec => []FetchingReleasesAll
<1>1. IInv => FetchingReleasesAll
  <2> SUFFICES ASSUME IInv, NEW c \in DOMAIN suspended_blocks
               PROVE  c \in UnsuspendedBy(suspended_blocks, missing_blocks)
    BY Zenon DEF FetchingReleasesAll, UnsuspendedBy
  <2>1. /\ DOMAIN suspended_blocks \in SUBSET Block
        /\ Round[c] \in Nat
    BY Zenon, DagAssumption DEF IInv, TypeOK
  <2>2. \A d \in DOMAIN suspended_blocks : \A a \in suspended_blocks[d] :
          /\ a \in Block
          /\ Round[a] < Round[d]
          /\ a \in missing_blocks \/ a \in DOMAIN suspended_blocks
    BY Zenon, DagAssumption
       DEF IInv, TypeOK, LinksMirror, SuspendedForAReason, MissingBlocksExact
  <2>3. \A d \in DOMAIN suspended_blocks : Round[d] <= Round[c] =>
          d \in UnsuspendedBy(suspended_blocks, missing_blocks)
    BY Zenon, <2>1, <2>2, ReleasedByRound
  <2> QED BY <2>1, <2>3
<1> QED BY <1>1, Invariance, PTL

-----------------------------------------------------------------------------
(* The block manager implements FetchList.                                 *)

(* Only a restart goes back, and it goes back to what was stored. *)
LEMMA StoredBehindStep == IInv /\ StoredBehind /\ [Next]_vars => StoredBehind'
<1> SUFFICES ASSUME IInv, StoredBehind, [Next]_vars
             PROVE  StoredBehind'
  BY Zenon
<1>1. /\ last_commit_round \in Nat /\ stored.commit_round \in Nat
      /\ sequencing # Idle => /\ sequencing.round \in Nat
                              /\ sequencing.round > last_commit_round
      /\ \A b \in Block : Round[b] \in Nat
  BY Zenon, DagAssumption DEF IInv, TypeOK, SequencingClosesGaps
<1>2. ASSUME NEW b \in Block,
             AcceptBlock(b) \/ SuspendBlock(b) \/ CommitLeader(b)
      PROVE  StoredBehind'
  BY <1>1, <1>2 DEF StoredBehind, AcceptBlock, SuspendBlock, CommitLeader, Commit
<1>3. ASSUME NEW refs \in SUBSET Block, FindBlocks(refs)
      PROVE  StoredBehind'
  BY Zenon, <1>3 DEF StoredBehind, FindBlocks
<1>4. ASSUME NEW leaders \in SUBSET Block, NEW last \in leaders,
             AcceptCertified(leaders, last)
      PROVE  StoredBehind'
  BY Zenon, <1>4 DEF StoredBehind, AcceptCertified
<1>5. CASE CommitCertified
  BY <1>1, <1>5 DEF StoredBehind, CommitCertified, Commit
<1>6. CASE Flush \/ Restart \/ UNCHANGED vars
  BY <1>1, <1>6 DEF StoredBehind, Flush, Restart, vars
<1> QED BY Zenon, <1>2, <1>3, <1>4, <1>5, <1>6 DEF Next

(* A release on delivery of the payloads in `freed` is a delivery. *)
LEMMA ReleaseDelivers ==
  ASSUME IInv, NEW freed \in SUBSET Block, Release(freed),
         accepted' = accepted \cup freed \cup
                       UnsuspendedBy(suspended_blocks, freed),
         gc_round' = gc_round
  PROVE  FL!Deliver(freed, {})
<1> USE Zenon
<1> DEFINE UB == UnsuspendedBy(suspended_blocks, freed)
<1>1. UB \subseteq DOMAIN suspended_blocks
  BY DEF UnsuspendedBy
<1>2. /\ DOMAIN suspended_blocks' = DOMAIN suspended_blocks \ (freed \cup UB)
      /\ missing_blocks' = missing_blocks \ freed
  BY DEF Release
<1>3. missing_blocks \cap (accepted \cup DOMAIN suspended_blocks) = {}
  BY DEF IInv, MissingBlocksExact, NothingStaleAwaited
<1> HIDE DEF UB
<1>4. accepted' \cup DOMAIN suspended_blocks' =
        (accepted \cup DOMAIN suspended_blocks) \cup freed
  BY <1>1, <1>2 DEF UB
<1> QED BY <1>2, <1>3, <1>4 DEF FL!Deliver

(* A commit moves the GC round and gives up what fell below it. *)
LEMMA CommitCollects ==
  ASSUME IInv, NEW r \in Nat, r > last_commit_round, Commit(r)
  PROVE  FL!Commit
<1> USE Zenon
<1> DEFINE freed == Collected(GcRoundOf(r))
           UB == UnsuspendedBy(suspended_blocks, freed)
<1>1. last_commit_round \in Nat
  BY DEF IInv, TypeOK
<1>2. gc_round \in Nat /\ gc_round' \in Nat /\ gc_round <= gc_round'
      /\ gc_round' = GcRoundOf(r)
  BY SMT, <1>1, GcMonotone DEF gc_round, Commit
<1>3. UB \subseteq DOMAIN suspended_blocks
  BY DEF UnsuspendedBy
<1>4. /\ DOMAIN suspended_blocks' = DOMAIN suspended_blocks \ (freed \cup UB)
      /\ missing_blocks' = missing_blocks \ freed
      /\ accepted' = accepted \cup UB
  BY DEF Commit, Release
<1>5. freed = {a \in missing_blocks : Round[a] <= gc_round'}
  BY <1>2 DEF Collected, IInv, MissingBlocksExact
<1>6. freed \cap DOMAIN suspended_blocks = {}
  BY DEF Collected
<1>7. \A a \in missing_blocks : Round[a] \in Nat
  BY DagAssumption DEF IInv, TypeOK
<1> HIDE DEF freed, UB
<1>8. accepted' \cup DOMAIN suspended_blocks' =
        accepted \cup DOMAIN suspended_blocks
  BY <1>3, <1>4, <1>6
<1>9. missing_blocks' = {a \in missing_blocks : Round[a] > gc_round'}
  BY SMT, <1>2, <1>4, <1>5, <1>7
<1> QED BY <1>2, <1>8, <1>9 DEF FL!Commit

(* Every step of the block manager is a step of the fetch list. *)
LEMMA FetchListStep ==
  ASSUME IInv, StoredBehind, [Next]_vars
  PROVE  [FL!Next]_<<accepted \cup DOMAIN suspended_blocks,
                     missing_blocks, gc_round>>
<1> USE Zenon
<1>1. /\ last_commit_round \in Nat /\ stored.commit_round \in Nat
      /\ \A b \in Block : Round[b] \in Nat
  BY DagAssumption DEF IInv, TypeOK
<1>2. missing_blocks \cap (accepted \cup DOMAIN suspended_blocks) = {}
  BY DEF IInv, MissingBlocksExact, NothingStaleAwaited
<1>3. ASSUME NEW b \in Block, AcceptBlock(b)
      PROVE  FL!Next
  <2>1. FL!Deliver({b}, {})
    BY <1>3, ReleaseDelivers DEF AcceptBlock, gc_round
  <2> QED BY <2>1 DEF FL!Next
<1>4. ASSUME NEW b \in Block, SuspendBlock(b)
      PROVE  FL!Next
  <2> DEFINE missing == MissingAncestorsOf(b)
  <2>1. missing \in SUBSET Block
    BY DagAssumption DEF MissingAncestorsOf, RequiredAncestors
  <2>2. missing \subseteq FL!Recent(UNION {Ancestors[c] : c \in {b}})
    BY DEF MissingAncestorsOf, RequiredAncestors, FL!Recent
  <2>3. missing \cap accepted = {}
    BY DEF MissingAncestorsOf
  <2>4. /\ DOMAIN suspended_blocks' = DOMAIN suspended_blocks \cup {b}
        /\ missing_blocks' =
             (missing_blocks \cup (missing \ DOMAIN suspended_blocks)) \ {b}
        /\ accepted' = accepted /\ gc_round' = gc_round
    BY <1>4 DEF SuspendBlock, MissingWith, gc_round
  <2> HIDE DEF missing
  <2>5. missing_blocks' = (missing_blocks \cup missing) \
          (accepted' \cup DOMAIN suspended_blocks')
    BY <1>2, <2>3, <2>4
  <2>6. FL!Deliver({b}, missing)
    BY <2>2, <2>4, <2>5 DEF FL!Deliver
  <2> QED BY <2>1, <2>6 DEF FL!Next
<1>5. ASSUME NEW b \in Block, CommitLeader(b)
      PROVE  FL!Next
  BY <1>1, <1>5, CommitCollects DEF CommitLeader, FL!Next
<1>6. ASSUME NEW refs \in SUBSET Block, FindBlocks(refs)
      PROVE  FL!Next
  <2>1. FL!Announce(refs)
    BY <1>6 DEF FindBlocks, FL!Announce, FL!Recent, gc_round
  <2> QED BY <2>1 DEF FL!Next
<1>7. ASSUME NEW leaders \in SUBSET Block, NEW last \in leaders,
             AcceptCertified(leaders, last)
      PROVE  FL!Next
  <2> DEFINE blocks == CertifiedBlocks(leaders)
  <2>1. blocks \in SUBSET Block
    BY DEF CertifiedBlocks, SubDag
  <2>2. FL!Deliver(blocks, {})
    BY <1>7, <2>1, ReleaseDelivers DEF AcceptCertified, gc_round
  <2> QED BY <2>1, <2>2 DEF FL!Next
<1>8. CASE CommitCertified
  <2>1. sequencing.round \in Nat /\ sequencing.round > last_commit_round
    BY <1>8 DEF IInv, TypeOK, SequencingClosesGaps, CommitCertified
  <2> QED BY <1>8, <2>1, CommitCollects DEF CommitCertified, FL!Next
<1>9. CASE Restart
  <2>1. gc_round' \in Nat /\ gc_round' <= gc_round
    BY <1>1, <1>9, GcMonotone DEF StoredBehind, Restart, gc_round
  <2>2. FL!Restart
    BY <1>9, <2>1 DEF StoredBehind, Restart, FL!Restart
  <2> QED BY <2>2 DEF FL!Next
<1>10. CASE Flush \/ UNCHANGED vars
  BY <1>10 DEF Flush, vars, managerVars, gc_round
<1> QED BY <1>3, <1>4, <1>5, <1>6, <1>7, <1>8, <1>9, <1>10 DEF Next

(* The block manager implements the fetch list the synchronizer relies on, *)
(* for every DAG: payloads are never forgotten except at a restart, and a  *)
(* block leaves the list only by arriving or by garbage collection.        *)
THEOREM BlockManagerImplementsFetchList == Spec => ImplementsFetchList
<1>1. Init => FL!Init
  BY GcDepthAssumption DEF Init, FL!Init, gc_round, GcRoundOf
<1>2. Init => StoredBehind
  BY DEF Init, StoredBehind
<1>3. Spec => []StoredBehind
  BY <1>2, StoredBehindStep, Invariance, PTL DEF Spec
<1>4. IInv /\ StoredBehind /\ [Next]_vars =>
        [FL!Next]_<<accepted \cup DOMAIN suspended_blocks,
                    missing_blocks, gc_round>>
  BY Zenon, FetchListStep
<1> QED BY <1>1, <1>3, <1>4, Invariance, PTL
      DEF Spec, FL!Spec, ImplementsFetchList
=============================================================================
