--------------------------- MODULE CommitterProofs ---------------------------
(***************************************************************************)
(* Agreement of the commit rule, for every committee with intersecting     *)
(* quorums, every DAG the block verifier lets through and every view.      *)
(*                                                                         *)
(* The lemmas say what quorum intersection gives about votes, blames and   *)
(* certificates in one DAG.  The inductive invariant then says of every    *)
(* decision ever made why it was made (JustifiedBy): enough blame, enough  *)
(* support, or the verdict of an anchor which is itself a recorded         *)
(* decision, as are the skips before it.  Two justifications of the same   *)
(* slot give the same status because the recorded decisions above it       *)
(* already agree.                                                          *)
(***************************************************************************)
EXTENDS Committer, WellFoundedInduction, TLAPS

(* A non-empty set of naturals has a least element. *)
LEMMA MinExists ==
  ASSUME NEW S \in SUBSET Nat, S # {}
  PROVE  \E m \in S : \A k \in S : m <= k
<1> DEFINE R == OpToRel(<, Nat)
<1>1. IsWellFoundedOn(R, Nat)
  BY Zenon, NatLessThanWellFounded
<1>2. PICK m \in S : \A k \in S : ~(<<k, m>> \in R)
  <2> HIDE DEF R
  <2> QED BY Zenon, <1>1, WFMin
<1>3. \A k \in S : ~(k < m)
  BY Zenon, <1>2 DEF OpToRel
<1> HIDE DEF R
<1> QED BY <1>3

(* Pipelining gives every round one committer, and its decision round is   *)
(* two rounds above the leader.                                            *)
LEMMA OneCommitterPerRound ==
  ASSUME NEW r \in Nat
  PROVE  /\ \E o \in Electing(r) : Electing(r) = {o}
         /\ DecisionRoundOf(r) = r + 2
<1> DEFINE o == r % 3
<1>1. o \in 0 .. 2 /\ r >= o /\ ((r - o) \div 3) * 3 + o = r
  OBVIOUS
<1>2. o \in Electing(r)
  BY <1>1 DEF Electing, Offsets, WaveLength, LeaderRound, WaveNumber
<1>3. ASSUME NEW p \in Electing(r)
      PROVE  p = o /\ DecisionRound(p, WaveNumber(p, r)) = r + 2
  BY <1>3 DEF Electing, Offsets, WaveLength, LeaderRound, WaveNumber, DecisionRound
<1> HIDE DEF o
<1> QED BY Zenon, <1>2, <1>3 DEF DecisionRoundOf

(* Two sets of authorities that reach quorum share an honest one. *)
LEMMA SharedHonest ==
  ASSUME NEW S, NEW T, ReachedQuorum(S), ReachedQuorum(T)
  PROVE  \E a \in Honest : a \in S /\ a \in T
<1> USE Zenon
<1>1. PICK Q1 \in Quorum : Q1 \subseteq S
  BY DEF ReachedQuorum
<1>2. PICK Q2 \in Quorum : Q2 \subseteq T
  BY DEF ReachedQuorum
<1>3. PICK a \in Honest : a \in Q1 /\ a \in Q2
  BY QuorumAssumption
<1> QED BY <1>1, <1>2, <1>3

(* More authorities reach whatever fewer reach. *)
LEMMA QuorumGrows ==
  ASSUME NEW S, NEW T, S \subseteq T, ReachedQuorum(S)
  PROVE  ReachedQuorum(T)
BY Zenon DEF ReachedQuorum

(* What the block verifier guarantees of ancestors. *)
LEMMA DagFacts ==
  ASSUME NEW d \in Dags, NEW b \in Block
  PROVE  /\ Ancestors[d][b] \subseteq Block
         /\ Past[d][b] \subseteq Block
         /\ Ancestors[d][b] \subseteq Past[d][b]
         /\ \A a \in Past[d][b] : Round[a] < Round[b] /\ Past[d][a] \subseteq Past[d][b]
         /\ Round[b] \in Nat /\ Round[b] >= 1
BY DagsAssumption, BlockAssumption DEF ValidDag

(* The votes that a block of the decision round collects are cast by       *)
(* blocks of the round just above the leader.                              *)
LEMMA VoteRound ==
  ASSUME NEW d \in Dags, NEW l \in Block, NEW c \in Block, Round[c] = Round[l] + 2,
         NEW v \in Ancestors[d][c], IsVote(d, v, l)
  PROVE  v \in Block /\ Round[v] = Round[l] + 1
<1>1. v \in Block /\ Round[v] < Round[c]
  BY Zenon, DagFacts
<1>2. Round[l] < Round[v]
  BY Zenon, <1>1, DagFacts DEF IsVote
<1> QED BY <1>1, <1>2, DagFacts

(* Two certified blocks of one slot are the same block. *)
LEMMA CertifiedUnique ==
  ASSUME NEW d \in Dags, NEW k \in Block, NEW l \in Block,
         Round[k] = Round[l], Author[k] = Author[l],
         NEW b \in Block, Round[b] = Round[k] + 2, IsCertificate(d, b, k),
         NEW c \in Block, Round[c] = Round[l] + 2, IsCertificate(d, c, l)
  PROVE  k = l
<1>1. PICK a \in Honest : /\ a \in AuthorsOf({v \in Ancestors[d][b] : IsVote(d, v, k)})
                          /\ a \in AuthorsOf({v \in Ancestors[d][c] : IsVote(d, v, l)})
  BY Zenon, SharedHonest DEF IsCertificate
<1>2. PICK v \in Ancestors[d][b] : IsVote(d, v, k) /\ Author[v] = a
  BY Zenon, <1>1 DEF AuthorsOf
<1>3. PICK w \in Ancestors[d][c] : IsVote(d, w, l) /\ Author[w] = a
  BY Zenon, <1>1 DEF AuthorsOf
<1>4. v \in Block /\ w \in Block /\ Round[v] = Round[w]
  BY <1>2, <1>3, VoteRound
<1>5. v = w
  BY Zenon, <1>1, <1>2, <1>3, <1>4, BlockAssumption
<1>6. k \in Ancestors[d][v] /\ l \in Ancestors[d][v]
  BY Zenon, <1>2, <1>3, <1>5 DEF IsVote
<1> QED BY <1>4, <1>6, DagsAssumption DEF ValidDag

(* A quorum of blames leaves no quorum of votes. *)
LEMMA BlameExcludesCertificate ==
  ASSUME NEW d \in Dags, NEW V \in SUBSET Block, NEW r \in Nat,
         EnoughLeaderBlame(d, V, r),
         NEW l \in LeaderBlocks(Block, r), NEW c \in Block, Round[c] = r + 2,
         IsCertificate(d, c, l)
  PROVE  FALSE
<1> USE Zenon
<1> DEFINE blames == {b \in V : /\ Round[b] = r + 1
                                /\ \A a \in Ancestors[d][b] : Author[a] # Leader[r]}
<1>1. l \in Block /\ Round[l] = r /\ Author[l] = Leader[r]
  BY DEF LeaderBlocks
<1>2. PICK a \in Honest : /\ a \in AuthorsOf(blames)
                          /\ a \in AuthorsOf({v \in Ancestors[d][c] : IsVote(d, v, l)})
  BY SharedHonest DEF IsCertificate, EnoughLeaderBlame
<1>3. PICK b \in blames : Author[b] = a
  BY <1>2 DEF AuthorsOf
<1>4. PICK v \in Ancestors[d][c] : IsVote(d, v, l) /\ Author[v] = a
  BY <1>2 DEF AuthorsOf
<1>5. v \in Block /\ Round[v] = r + 1
  BY <1>1, <1>4, VoteRound
<1>6. b = v
  BY <1>2, <1>3, <1>4, <1>5, BlockAssumption
<1> QED BY <1>1, <1>3, <1>4, <1>6 DEF IsVote

(* The history of a block goes down round by round. *)
LEMMA HistoryReaches ==
  ASSUME NEW d \in Dags, NEW b \in Block, NEW k \in Nat, k >= 1, Round[b] >= k
  PROVE  \E c \in {b} \cup Past[d][b] : c \in Block /\ Round[c] = k
<1> USE Zenon
<1> DEFINE H == {b} \cup Past[d][b]
           S == {n \in Nat : n >= k /\ \E c \in H : Round[c] = n}
<1>1. H \subseteq Block /\ \A c \in H : Ancestors[d][c] \subseteq H
  BY DagFacts
<1>2. S \in SUBSET Nat /\ S # {}
  BY DagFacts
<1>3. PICK m \in S : \A n \in S : m <= n
  <2> HIDE DEF S
  <2> QED BY <1>2, MinExists
<1>4. PICK c \in H : Round[c] = m
  OBVIOUS
<1> SUFFICES ASSUME m # k PROVE FALSE
  BY <1>1, <1>4
<1>5. ReachedQuorum(AuthorsOf(Parents(d, c)))
  BY SMT, <1>1, <1>4, DagsAssumption DEF ValidDag
<1>6. PICK a \in Parents(d, c) : TRUE
  BY <1>5, SharedHonest DEF AuthorsOf
<1>7. a \in H /\ Round[a] = m - 1
  BY <1>1, <1>4, <1>6 DEF Parents
<1>8. m - 1 \in S
  BY SMT, <1>3, <1>7
<1> QED BY SMT, <1>3, <1>8

(* A quorum of certificates reaches every block a wave above. *)
LEMMA SupportReaches ==
  ASSUME NEW d \in Dags, NEW V \in SUBSET Block, NEW l \in Block,
         EnoughLeaderSupport(d, V, l),
         NEW b \in Block, Round[b] >= Round[l] + 3
  PROVE  \E c \in AncestorsAtRound(d, b, Round[l] + 2) :
           c \in Block /\ IsCertificate(d, c, l)
<1> USE Zenon
<1> DEFINE certs == {c \in V : /\ Round[c] = DecisionRoundOf(Round[l])
                               /\ IsCertificate(d, c, l)}
<1>1. Round[l] \in Nat /\ DecisionRoundOf(Round[l]) = Round[l] + 2
  BY DagFacts, OneCommitterPerRound
<1>2. PICK e \in {b} \cup Past[d][b] : e \in Block /\ Round[e] = Round[l] + 3
  BY SMT, <1>1, HistoryReaches
<1>3. ReachedQuorum(AuthorsOf(Parents(d, e)))
  BY SMT, <1>1, <1>2, DagsAssumption DEF ValidDag
<1>4. PICK a \in Honest : a \in AuthorsOf(Parents(d, e)) /\ a \in AuthorsOf(certs)
  BY <1>3, SharedHonest DEF EnoughLeaderSupport
<1>5. PICK c \in certs : Author[c] = a
  BY <1>4 DEF AuthorsOf
<1>6. PICK p \in Parents(d, e) : Author[p] = a
  BY <1>4 DEF AuthorsOf
<1>7. p \in Ancestors[d][e] /\ p \in Block /\ Round[p] = Round[l] + 2
  BY SMT, <1>1, <1>2, <1>6, DagFacts DEF Parents
<1>8. p = c
  BY <1>1, <1>4, <1>5, <1>6, <1>7, BlockAssumption
<1>9. p \in Past[d][b]
  BY <1>2, <1>7, DagFacts
<1> QED BY <1>1, <1>5, <1>7, <1>8, <1>9 DEF AncestorsAtRound

-----------------------------------------------------------------------------
(* Decisions do not depend on the view they are made in.                   *)

CausallyClosed(d, V) == V \subseteq Block /\ \A b \in V : Past[d][b] \subseteq V

(* A block with a certificate in the history of a block of the view is     *)
(* itself in the view.                                                     *)
LEMMA CertifiedInView ==
  ASSUME NEW d \in Dags, NEW V, CausallyClosed(d, V), NEW anchor \in V, NEW r \in Nat
  PROVE  CertifiedLeaderBlocks(d, V, anchor, r) = CertifiedLeaderBlocks(d, Block, anchor, r)
<1>1. SUFFICES ASSUME NEW l \in LeaderBlocks(Block, r),
                      NEW c \in AncestorsAtRound(d, anchor, DecisionRoundOf(r)),
                      IsCertificate(d, c, l)
               PROVE  l \in V
  BY Zenon DEF CertifiedLeaderBlocks, LeaderBlocks, CausallyClosed
<1>2. c \in V /\ c \in Block
  BY Zenon DEF AncestorsAtRound, CausallyClosed
<1>3. PICK v \in Ancestors[d][c] : IsVote(d, v, l)
  BY <1>1, SharedHonest DEF IsCertificate, AuthorsOf
<1>4. v \in V /\ v \in Block
  BY Zenon, <1>2, <1>3, DagFacts DEF CausallyClosed
<1> QED BY Zenon, <1>3, <1>4, DagFacts DEF IsVote, CausallyClosed

(* The histories of a set of blocks make a causally closed view, with a    *)
(* highest round.                                                          *)
LEMMA ViewFacts ==
  ASSUME NEW d \in Dags, NEW T \in Tips
  PROVE  /\ CausallyClosed(d, ViewOf(d, T))
         /\ ViewOf(d, T) # {}
         /\ HighestAcceptedRound(ViewOf(d, T)) \in Nat
         /\ FirstRound(ViewOf(d, T)) \in Nat
<1> USE Zenon
<1>1. T \subseteq Block
  BY TipsAssumption
<1>2. CausallyClosed(d, ViewOf(d, T))
  BY SMT, <1>1, DagFacts DEF ViewOf, CausallyClosed
<1>3. PICK t \in T : \A b \in T : Round[b] <= Round[t]
  BY TipsAssumption
<1>4. \A b \in ViewOf(d, T) : Round[b] <= Round[t]
  <2> TAKE b \in ViewOf(d, T)
  <2>1. CASE b \in T
    BY <2>1, <1>3
  <2>2. CASE \E x \in T : b \in Past[d][x]
    <3>1. PICK x \in T : b \in Past[d][x]
      BY <2>2
    <3>2. Round[b] < Round[x] /\ Round[x] <= Round[t] /\ b \in Block
      BY <1>1, <1>3, <3>1, DagFacts
    <3> QED BY SMT, <1>1, <3>2, DagFacts
  <2> QED BY <2>1, <2>2 DEF ViewOf
<1>5. t \in ViewOf(d, T) /\ Round[t] \in Nat
  BY <1>1, DagFacts DEF ViewOf
<1>6. HighestAcceptedRound(ViewOf(d, T)) \in {Round[b] : b \in ViewOf(d, T)}
  BY <1>4, <1>5 DEF HighestAcceptedRound
<1>7. HighestAcceptedRound(ViewOf(d, T)) \in Nat
  BY <1>2, <1>6, DagFacts DEF CausallyClosed
<1> QED BY SMT, <1>2, <1>5, <1>7 DEF FirstRound

(* Why a status was given to the slot of round r, in terms of the whole    *)
(* DAG and of the decisions D recorded for higher rounds.                  *)
FromAnchor(d, D, r, s, t, a) ==
  /\ t >= r + 3
  /\ <<t, a>> \in D
  /\ \A u \in (r + 3) .. (t - 1) : <<u, Skip>> \in D
  /\ s = DecideLeaderFromAnchor(d, Block, a, r)

JustifiedBy(d, D, r, s) ==
  \/ s = Skip /\ EnoughLeaderBlame(d, Block, r)
  \/ s \in LeaderBlocks(Block, r) /\ EnoughLeaderSupport(d, Block, s)
  \/ \E t \in Nat, a \in Block : FromAnchor(d, D, r, s, t, a)

Agreeing(D) == \A x, y \in D : x[1] = y[1] => x[2] = y[2]

(* Commits are of blocks of the slot. *)
InSlot(D) ==
  /\ D \subseteq Nat \X Decided
  /\ \A x \in D : x[2] \in Block => x[2] \in LeaderBlocks(Block, x[1])

(* What an anchor commits has a certificate, and what has a certificate in *)
(* its history it does not skip.                                           *)
LEMMA AnchorVerdict ==
  ASSUME NEW d \in Dags, NEW a \in Block, NEW r \in Nat
  PROVE  LET s == DecideLeaderFromAnchor(d, Block, a, r) IN
         /\ \/ s = Skip
            \/ /\ s \in LeaderBlocks(Block, r)
               /\ \E c \in Block : Round[c] = r + 2 /\ IsCertificate(d, c, s)
         /\ \A l \in LeaderBlocks(Block, r) :
              (\E c \in AncestorsAtRound(d, a, r + 2) : IsCertificate(d, c, l)) => s # Skip
<1> USE Zenon
<1> DEFINE C == CertifiedLeaderBlocks(d, Block, a, r)
           s == DecideLeaderFromAnchor(d, Block, a, r)
<1>1. DecisionRoundOf(r) = r + 2
  BY OneCommitterPerRound
<1>2. \A l \in C : /\ l \in LeaderBlocks(Block, r)
                   /\ l \in Block
                   /\ \E c \in Block : Round[c] = r + 2 /\ IsCertificate(d, c, l)
  BY <1>1, DagFacts DEF CertifiedLeaderBlocks, AncestorsAtRound, LeaderBlocks
<1>3. s = Skip \/ s \in C
  BY DEF DecideLeaderFromAnchor
<1>4. C # {} => s \in C
  BY DEF DecideLeaderFromAnchor
<1>5. \A l \in LeaderBlocks(Block, r) :
        (\E c \in AncestorsAtRound(d, a, r + 2) : IsCertificate(d, c, l)) => l \in C
  BY <1>1 DEF CertifiedLeaderBlocks
<1> HIDE DEF C, s
<1>6. s # Skip \/ C = {}
  BY <1>2, <1>4, StatusAssumption
<1> QED BY <1>2, <1>3, <1>5, <1>6 DEF s

(* Two justifications of one slot, over the same agreeing decisions, give  *)
(* the same status.                                                        *)
LEMMA JustificationsAgree ==
  ASSUME NEW d \in Dags, NEW D, Agreeing(D), InSlot(D), NEW r \in Nat,
         NEW s1, JustifiedBy(d, D, r, s1),
         NEW s2, JustifiedBy(d, D, r, s2)
  PROVE  s1 = s2
<1> USE Zenon
<1> DEFINE Blame(s) == s = Skip /\ EnoughLeaderBlame(d, Block, r)
           Support(s) == s \in LeaderBlocks(Block, r) /\ EnoughLeaderSupport(d, Block, s)
           Indirect(s) == \E t \in Nat, a \in Block : FromAnchor(d, D, r, s, t, a)
<1>1. DecisionRoundOf(r) = r + 2 /\ \A l \in LeaderBlocks(Block, r) : l \in Block /\ Round[l] = r
                                                             /\ Author[l] = Leader[r]
  BY OneCommitterPerRound DEF LeaderBlocks
<1>2. ASSUME NEW s, Support(s)
      PROVE  \E c \in Block : Round[c] = r + 2 /\ IsCertificate(d, c, s)
  <2>1. ReachedQuorum(AuthorsOf({c \in Block : Round[c] = DecisionRoundOf(Round[s])
                                               /\ IsCertificate(d, c, s)}))
    BY <1>2 DEF EnoughLeaderSupport
  <2> QED BY SMT, <1>1, <1>2, <2>1, SharedHonest DEF AuthorsOf
<1>3. ASSUME NEW s, Indirect(s)
      PROVE  s = Skip \/ /\ s \in LeaderBlocks(Block, r)
                         /\ \E c \in Block : Round[c] = r + 2 /\ IsCertificate(d, c, s)
  BY <1>3, AnchorVerdict DEF FromAnchor
<1>4. ASSUME NEW k \in LeaderBlocks(Block, r), NEW l \in LeaderBlocks(Block, r),
             \E c \in Block : Round[c] = r + 2 /\ IsCertificate(d, c, k),
             \E c \in Block : Round[c] = r + 2 /\ IsCertificate(d, c, l)
      PROVE  k = l
  BY <1>1, <1>4, CertifiedUnique
<1>5. ASSUME NEW x, NEW y, Blame(x), Support(y) \/ Indirect(y)
      PROVE  x = y
  <2>1. \A l \in LeaderBlocks(Block, r), c \in Block : Round[c] = r + 2 => ~ IsCertificate(d, c, l)
    BY <1>5, BlameExcludesCertificate
  <2>2. ~ Support(y)
    BY <1>2, <2>1
  <2>3. y = Skip
    BY <1>3, <1>5, <2>1, <2>2
  <2> QED BY <1>5, <2>3
<1>6. ASSUME NEW x, NEW y, Support(x), Indirect(y)
      PROVE  x = y
  <2>1. PICK t \in Nat, a \in Block : FromAnchor(d, D, r, y, t, a)
    BY <1>6
  <2>2. Round[a] = t /\ t >= r + 3
    BY <2>1 DEF FromAnchor, InSlot, LeaderBlocks
  <2>3. \E c \in AncestorsAtRound(d, a, r + 2) : IsCertificate(d, c, x)
    BY <1>1, <1>6, <2>2, SupportReaches
  <2>4. y # Skip
    BY <1>6, <2>1, <2>3, AnchorVerdict DEF FromAnchor
  <2> QED BY <1>2, <1>3, <1>4, <1>6, <2>4
<1>7. ASSUME NEW x, NEW y, Indirect(x), Indirect(y)
      PROVE  x = y
  <2>1. PICK t \in Nat, a \in Block : FromAnchor(d, D, r, x, t, a)
    BY <1>7
  <2>2. PICK u \in Nat, b \in Block : FromAnchor(d, D, r, y, u, b)
    BY <1>7
  <2>3. t = u
    <3>1. CASE t < u
      <4>1. <<t, Skip>> \in D /\ <<t, a>> \in D
        BY SMT, <2>1, <2>2, <3>1 DEF FromAnchor
      <4> QED BY <4>1, StatusAssumption DEF Agreeing
    <3>2. CASE u < t
      <4>1. <<u, Skip>> \in D /\ <<u, b>> \in D
        BY SMT, <2>1, <2>2, <3>2 DEF FromAnchor
      <4> QED BY <4>1, StatusAssumption DEF Agreeing
    <3> QED BY SMT, <3>1, <3>2
  <2>4. a = b
    BY <2>1, <2>2, <2>3 DEF FromAnchor, Agreeing
  <2> QED BY <2>1, <2>2, <2>4 DEF FromAnchor
<1>8. ASSUME NEW x, NEW y, Support(x), Support(y)
      PROVE  x = y
  BY <1>2, <1>4, <1>8
<1>9. ASSUME NEW s, JustifiedBy(d, D, r, s)
      PROVE  Blame(s) \/ Support(s) \/ Indirect(s)
  BY <1>9 DEF JustifiedBy
<1> QED
  <2> HIDE DEF Support, Indirect
  <2> QED BY SMT, <1>5, <1>6, <1>7, <1>8, <1>9

-----------------------------------------------------------------------------
(* The inductive invariant.                                                *)

(* The run in progress works on a causally closed view and has recorded    *)
(* what it decided.                                                        *)
RunInv ==
  /\ view = {} => round = 0 /\ last_decided = 0
  /\ view # {} => round <= FirstRound(view) /\ \E T \in Tips : view = ViewOf(dag, T)
  /\ \A r \in DOMAIN leaders : /\ leaders[r] \in Decided => <<r, leaders[r]>> \in decisions
                               /\ leaders[r] \in Block => leaders[r] \in view

(* Every recorded decision is justified and everything emitted is recorded. *)
HistoryInv ==
  /\ InSlot(decisions)
  /\ Agreeing(decisions)
  /\ \A x \in decisions : JustifiedBy(dag, decisions, x[1], x[2])
  /\ \A r \in DOMAIN sequence : <<r, sequence[r]>> \in decisions

IInv == TypeOK /\ RunInv /\ HistoryInv

(* The status that one iteration of try_decide gives is justified by the   *)
(* whole DAG and the decisions recorded so far.                            *)
LEMMA StatusJustified ==
  ASSUME IInv, Deciding
  PROVE  LET s == Status(dag, view, leaders, round) IN
         /\ s \in Decided \cup {Undecided}
         /\ s \in Decided => JustifiedBy(dag, decisions, round, s)
         /\ s \in Block => s \in LeaderBlocks(view, round)
<1> USE Zenon
<1> DEFINE s == Status(dag, view, leaders, round)
           direct == TryDirectDecide(dag, view, round)
           indirect == TryIndirectDecide(dag, view, leaders, round)
<1>1. dag \in Dags /\ view \subseteq Block /\ round \in Nat /\ CausallyClosed(dag, view)
  BY ViewFacts DEF IInv, TypeOK, RunInv, Deciding
<1>2. direct \in Decided =>
        /\ JustifiedBy(dag, decisions, round, direct)
        /\ direct \in Block => direct \in LeaderBlocks(view, round)
  <2>1. CASE EnoughLeaderBlame(dag, view, round)
    <3>1. direct = Skip
      BY <2>1 DEF TryDirectDecide
    <3>2. EnoughLeaderBlame(dag, Block, round)
      BY <1>1, <2>1, QuorumGrows DEF EnoughLeaderBlame, AuthorsOf
    <3> QED BY <3>1, <3>2, StatusAssumption DEF JustifiedBy
  <2>2. CASE ~ EnoughLeaderBlame(dag, view, round)
             /\ LeadersWithEnoughSupport(dag, view, round) # {}
    <3>1. direct \in LeadersWithEnoughSupport(dag, view, round)
      BY <2>2 DEF TryDirectDecide
    <3>2. direct \in LeaderBlocks(view, round) /\ EnoughLeaderSupport(dag, view, direct)
      BY <3>1 DEF LeadersWithEnoughSupport
    <3>3. direct \in LeaderBlocks(Block, round)
      BY <1>1, <3>2 DEF LeaderBlocks
    <3> HIDE DEF direct
    <3>4. EnoughLeaderSupport(dag, Block, direct)
      BY <1>1, <3>2, QuorumGrows DEF EnoughLeaderSupport, AuthorsOf
    <3> QED BY <3>2, <3>3, <3>4 DEF JustifiedBy
  <2>3. CASE ~ EnoughLeaderBlame(dag, view, round)
             /\ LeadersWithEnoughSupport(dag, view, round) = {}
    <3>1. direct = Undecided
      BY <2>3 DEF TryDirectDecide
    <3> QED BY <3>1, StatusAssumption DEF Decided
  <2> QED BY <2>1, <2>2, <2>3
<1>3. /\ indirect \in Decided \cup {Undecided}
      /\ indirect \in Decided => JustifiedBy(dag, decisions, round, indirect)
      /\ indirect \in Block => indirect \in LeaderBlocks(view, round)
  <2>1. CASE Anchor(leaders, round) = {}
    <3>1. indirect = Undecided
      BY <2>1 DEF TryIndirectDecide
    <3> QED BY <3>1, StatusAssumption DEF Decided
  <2>2. CASE Anchor(leaders, round) # {}
    <3>1. PICK t \in Anchor(leaders, round) :
                 indirect = DecideLeaderFromAnchor(dag, view, leaders[t], round)
      BY <2>2 DEF TryIndirectDecide
    <3>2. /\ t \in DOMAIN leaders /\ t >= round + 3 /\ leaders[t] \in Block
          /\ \A u \in (round + 3) .. (t - 1) : leaders[u] = Skip
      BY <3>1 DEF Anchor, WaveLength
    <3>3. leaders[t] \in view /\ <<t, leaders[t]>> \in decisions
      BY <3>2 DEF IInv, RunInv, Decided
    <3>4. t \in Nat /\ \A u \in (round + 3) .. (t - 1) : u \in DOMAIN leaders
      <4>1. DOMAIN leaders = (round + 1) .. FirstRound(view)
        BY DEF IInv, TypeOK, Visited, Deciding
      <4>2. FirstRound(view) \in Nat
        BY <1>1, ViewFacts DEF IInv, RunInv, Deciding
      <4> QED BY SMT, <1>1, <3>2, <4>1, <4>2
    <3>5. \A u \in (round + 3) .. (t - 1) : <<u, Skip>> \in decisions
      BY <3>2, <3>4 DEF IInv, RunInv, Decided
    <3>6. indirect = DecideLeaderFromAnchor(dag, Block, leaders[t], round)
      BY <1>1, <3>1, <3>3, CertifiedInView DEF DecideLeaderFromAnchor
    <3>7. FromAnchor(dag, decisions, round, indirect, t, leaders[t])
      BY <3>2, <3>3, <3>5, <3>6 DEF FromAnchor
    <3>8. JustifiedBy(dag, decisions, round, indirect)
      BY <3>2, <3>4, <3>7 DEF JustifiedBy
    <3>9. indirect = Skip \/ indirect \in LeaderBlocks(view, round)
      <4>1. CASE CertifiedLeaderBlocks(dag, view, leaders[t], round) = {}
        BY <3>1, <4>1 DEF DecideLeaderFromAnchor
      <4>2. CASE CertifiedLeaderBlocks(dag, view, leaders[t], round) # {}
        <5>1. indirect \in CertifiedLeaderBlocks(dag, view, leaders[t], round)
          BY <3>1, <4>2 DEF DecideLeaderFromAnchor
        <5> QED BY <5>1 DEF CertifiedLeaderBlocks
      <4> QED BY <4>1, <4>2
    <3>10. \A l \in LeaderBlocks(view, round) : l \in Block
      BY <1>1 DEF LeaderBlocks
    <3> HIDE DEF indirect
    <3> QED BY <3>8, <3>9, <3>10, StatusAssumption DEF Decided
  <2> QED BY <2>1, <2>2
<1>4. (s = direct /\ direct \in Decided) \/ s = indirect
  BY DEF Status
<1> HIDE DEF s, direct, indirect
<1>5. s \in Decided \cup {Undecided}
  BY <1>3, <1>4
<1>6. s \in Decided => JustifiedBy(dag, decisions, round, s)
  BY <1>2, <1>3, <1>4
<1>7. s \in Block => s \in LeaderBlocks(view, round)
  BY <1>2, <1>3, <1>4 DEF Decided
<1> QED BY <1>5, <1>6, <1>7 DEF s

(* Recording more decisions invalidates no justification. *)
LEMMA JustifiedMonotone ==
  ASSUME NEW d, NEW D, NEW E, D \subseteq E, NEW r, NEW s, JustifiedBy(d, D, r, s)
  PROVE  JustifiedBy(d, E, r, s)
BY Zenon DEF JustifiedBy, FromAnchor

(* Initially nothing has been decided. *)
LEMMA InitIInv == Init => IInv
<1> SUFFICES ASSUME Init PROVE IInv
  BY Zenon
<1>1. TypeOK
  BY DEF Init, TypeOK
<1>2. RunInv
  BY DEF Init, RunInv
<1>3. HistoryInv
  BY DEF Init, HistoryInv, InSlot, Agreeing
<1> QED BY Zenon, <1>1, <1>2, <1>3 DEF IInv

(* A run of try_decide begins. *)
LEMMA StartStep ==
  ASSUME IInv, NEW T \in Tips, NEW last \in {0} \cup DOMAIN sequence, Start(T, last)
  PROVE  IInv'
<1> USE DEF Start
<1>1. dag \in Dags /\ CausallyClosed(dag, view') /\ view' # {}
  BY Zenon, ViewFacts DEF IInv, TypeOK
<1>2. round' = FirstRound(view') /\ FirstRound(view') \in Nat
  BY Zenon, <1>1, ViewFacts
<1>3. last \in 0 .. Len(sequence) /\ last \in Nat
  BY DEF IInv, TypeOK
<1>4. Visited' = {}
  BY SMTT(60), <1>2, <1>3 DEF Visited
<1>5. TypeOK'
  BY SMTT(60), <1>1, <1>2, <1>3, <1>4 DEF IInv, TypeOK, CausallyClosed
<1>6. RunInv'
  BY <1>1, <1>2 DEF RunInv
<1>7. HistoryInv'
  BY Zenon DEF IInv, HistoryInv
<1> QED BY Zenon, <1>5, <1>6, <1>7 DEF IInv

(* One iteration of the loop: the new status agrees with every decision    *)
(* made before, in whatever view.                                          *)
LEMMA DecideStep ==
  ASSUME IInv, Decide
  PROVE  IInv'
<1> USE Zenon
<1> USE DEF Decide
<1> DEFINE s == Status(dag, view, leaders, round)
           first == FirstRound(view)
<1>1. /\ s \in Decided \cup {Undecided}
      /\ s \in Decided => JustifiedBy(dag, decisions, round, s)
      /\ s \in Block => s \in LeaderBlocks(view, round)
  BY StatusJustified
<1>2. /\ dag \in Dags /\ dag' = dag /\ view' = view /\ view # {} /\ view \subseteq Block
      /\ round \in Nat /\ last_decided \in Nat /\ round > last_decided /\ round <= first
      /\ first \in Nat /\ round' = round - 1
  BY SMT, ViewFacts DEF IInv, TypeOK, RunInv, Deciding
<1>3. leaders' = [r \in DOMAIN leaders \cup {round} |-> IF r = round THEN s ELSE leaders[r]]
  OBVIOUS
<1>4. decisions' = (IF s \in Decided THEN decisions \cup {<<round, s>>} ELSE decisions)
  OBVIOUS
<1> HIDE DEF s
<1>5. /\ DOMAIN leaders = (round + 1) .. first
      /\ leaders \in [(round + 1) .. first -> Decided \cup {Undecided}]
  BY <1>2 DEF IInv, TypeOK, Visited
<1>6. TypeOK'
  <2>1. Visited' = round .. first
    BY SMT, <1>2 DEF Visited
  <2>2. DOMAIN leaders \cup {round} = round .. first
    BY SMT, <1>2, <1>5
  <2>3. leaders' \in [Visited' -> Decided \cup {Undecided}]
    BY <1>1, <1>3, <1>5, <2>1, <2>2
  <2>4. decisions' \subseteq Nat \X Decided
    BY SMT, <1>2, <1>4 DEF IInv, TypeOK
  <2> QED BY SMT, <1>2, <2>3, <2>4 DEF IInv, TypeOK
<1>7. RunInv'
  <2>1. \A r \in DOMAIN leaders' :
          /\ leaders'[r] \in Decided => <<r, leaders'[r]>> \in decisions'
          /\ leaders'[r] \in Block => leaders'[r] \in view
    <3> TAKE r \in DOMAIN leaders'
    <3>1. CASE r = round
      <4>1. leaders'[r] = s
        BY <1>3, <3>1
      <4> QED BY <1>1, <1>4, <3>1, <4>1 DEF LeaderBlocks
    <3>2. CASE r # round
      <4>1. r \in DOMAIN leaders /\ leaders'[r] = leaders[r]
        BY <1>3, <3>2
      <4> QED BY <1>4, <4>1 DEF IInv, RunInv
    <3> QED BY <3>1, <3>2
  <2>2. view' # {} /\ round' <= FirstRound(view')
    BY SMT, <1>2
  <2>3. \E T \in Tips : view' = ViewOf(dag', T)
    BY <1>2 DEF IInv, RunInv
  <2>4. view' = view
    BY <1>2
  <2> QED BY <2>1, <2>2, <2>3, <2>4 DEF RunInv
<1>8. HistoryInv'
  <2>1. CASE s \notin Decided
    BY <1>4, <2>1 DEF IInv, HistoryInv
  <2>2. CASE s \in Decided
    <3>1. decisions' = decisions \cup {<<round, s>>}
      BY <1>4, <2>2
    <3>2. InSlot(decisions')
      BY SMTT(60), <1>1, <1>2, <2>2, <3>1 DEF IInv, HistoryInv, InSlot, LeaderBlocks
    <3>3. \A x \in decisions : x[1] = round => x[2] = s
      <4> SUFFICES ASSUME NEW x \in decisions, x[1] = round PROVE x[2] = s
        OBVIOUS
      <4>1. JustifiedBy(dag, decisions, round, x[2])
        BY DEF IInv, HistoryInv
      <4>2. Agreeing(decisions) /\ InSlot(decisions)
        BY DEF IInv, HistoryInv
      <4> QED BY <1>1, <1>2, <2>2, <4>1, <4>2, JustificationsAgree
    <3>4. Agreeing(decisions')
      BY SMT, <3>1, <3>3 DEF IInv, HistoryInv, Agreeing
    <3>5. \A x \in decisions' : JustifiedBy(dag, decisions, x[1], x[2])
      BY SMTT(60), <1>1, <2>2, <3>1 DEF IInv, HistoryInv
    <3>6. \A x \in decisions' : JustifiedBy(dag, decisions', x[1], x[2])
      BY <3>1, <3>5, JustifiedMonotone
    <3> QED BY <1>2, <3>1, <3>2, <3>4, <3>6 DEF IInv, HistoryInv
  <2> QED BY <2>1, <2>2
<1> QED BY <1>6, <1>7, <1>8 DEF IInv

(* The decided prefix is emitted. *)
LEMMA EmitStep ==
  ASSUME IInv, Emit
  PROVE  IInv'
<1> USE DEF Emit
<1> DEFINE n == Len(sequence)
           first == FirstRound(view)
<1>1. /\ n \in Nat /\ DOMAIN sequence = 1 .. n /\ \A r \in 1 .. n : sequence[r] \in Decided
      /\ last_decided \in Nat /\ last_decided <= n /\ round \in Nat
      /\ first \in Nat
  BY SMTT(60), ViewFacts DEF IInv, TypeOK, RunInv
<1>2. DOMAIN leaders = (last_decided + 1) .. first
  BY <1>1 DEF IInv, TypeOK, Visited
<1>3. \E k \in Nat : DOMAIN sequence \cup DecidedPrefix = 1 .. k
  <2> DEFINE U == {u \in (last_decided + 1) .. first : leaders[u] \notin Decided}
  <2>0. ASSUME NEW w \in Nat
        PROVE  \E k \in Nat : 1 .. n \cup (last_decided + 1) .. w = 1 .. k
    <3>1. n \in Nat /\ last_decided \in Nat /\ last_decided <= n
      BY Zenon, <1>1
    <3> HIDE DEF n
    <3>2. CASE w >= n
      <4>1. 1 .. n \cup (last_decided + 1) .. w = 1 .. w
        BY SMT, <3>1, <3>2
      <4> QED BY Zenon, <4>1
    <3>3. CASE ~(w >= n)
      <4>1. 1 .. n \cup (last_decided + 1) .. w = 1 .. n
        BY SMT, <3>1, <3>3
      <4> QED BY Zenon, <3>1, <4>1
    <3> QED BY Zenon, <3>2, <3>3
  <2>1. CASE U = {}
    <3>1. DecidedPrefix = (last_decided + 1) .. first
      BY <1>1, <1>2, <2>1 DEF DecidedPrefix
    <3> HIDE DEF U, n, first
    <3> QED BY Zenon, <1>1, <2>0, <3>1
  <2>2. CASE U # {}
    <3>1. U \in SUBSET Nat
      BY <1>1
    <3>2. PICK u \in U : \A w \in U : u <= w
      <4> HIDE DEF U
      <4> QED BY Zenon, <2>2, <3>1, MinExists
    <3>3. DecidedPrefix = (last_decided + 1) .. (u - 1)
      BY <1>1, <1>2, <3>2 DEF DecidedPrefix
    <3>4. u - 1 \in Nat
      BY <1>1
    <3> HIDE DEF U, n
    <3> QED BY Zenon, <1>1, <2>0, <3>3, <3>4
  <2> QED BY Zenon, <2>1, <2>2
<1>4. \A r \in DecidedPrefix : r \in DOMAIN leaders /\ leaders[r] \in Decided
  BY <1>1, <1>2 DEF DecidedPrefix
<1>5. PICK k \in Nat : DOMAIN sequence \cup DecidedPrefix = 1 .. k
  BY Zenon, <1>3
<1>6. /\ DOMAIN sequence' = 1 .. k
      /\ \A r \in 1 .. k : sequence'[r] \in Decided /\ <<r, sequence'[r]>> \in decisions
  <2>1. \A r \in DOMAIN sequence : <<r, sequence[r]>> \in decisions
    BY Zenon DEF IInv, HistoryInv
  <2>2. \A r \in DecidedPrefix : <<r, leaders[r]>> \in decisions
    BY Zenon, <1>4 DEF IInv, RunInv
  <2> QED BY Zenon, <1>1, <1>4, <1>5, <2>1, <2>2
<1>7. sequence' \in Seq(Decided) /\ Len(sequence') \in Nat
  <2>1. sequence' = [r \in 1 .. k |-> sequence'[r]]
    BY Zenon, <1>5
  <2>2. sequence' \in [1 .. k -> Decided]
    BY Zenon, <1>6, <2>1
  <2>3. \A f : f \in [1 .. k -> Decided] => f \in Seq(Decided) /\ Len(f) \in Nat
    OBVIOUS
  <2> HIDE DEF Emit
  <2> QED BY Zenon, <2>2, <2>3
<1>8. TypeOK'
  BY <1>7 DEF IInv, TypeOK
<1>9. RunInv'
  BY DEF RunInv
<1>10. HistoryInv'
  BY Zenon, <1>6 DEF IInv, HistoryInv
<1> QED BY Zenon, <1>8, <1>9, <1>10 DEF IInv

(* Every step of the commit rule, by any validator, keeps the invariant. *)
LEMMA NextIInv == IInv /\ [Next]_vars => IInv'
<1> USE Zenon
<1> SUFFICES ASSUME IInv, [Next]_vars PROVE IInv'
  OBVIOUS
<1>1. CASE \E T \in Tips, last \in {0} \cup DOMAIN sequence : Start(T, last)
  BY <1>1, StartStep
<1>2. CASE Decide
  BY <1>2, DecideStep
<1>3. CASE Emit
  BY SMT, <1>3, EmitStep
<1>4. CASE UNCHANGED vars
  BY <1>4 DEF vars, IInv, TypeOK, RunInv, HistoryInv, Visited
<1> QED BY <1>1, <1>2, <1>3, <1>4 DEF Next

(* The inductive invariant holds in every reachable state. *)
LEMMA Invariance == Spec => []IInv
BY InitIInv, NextIInv, PTL DEF Spec

-----------------------------------------------------------------------------
(* The theorems.                                                           *)

(* Types: in particular try_decide emits gapless sequences of decided      *)
(* leaders.                                                                *)
THEOREM TypesHold == Spec => []TypeOK
<1>1. IInv => TypeOK
  BY Zenon DEF IInv
<1> QED BY <1>1, Invariance, PTL

(* Agreement: however many validators run try_decide over whatever parts   *)
(* of the DAG, no two of them decide a leader slot differently.            *)
THEOREM Agreement == Spec => []DecisionsAgree
<1>1. IInv => DecisionsAgree
  BY Zenon DEF IInv, HistoryInv, Agreeing, DecisionsAgree
<1> QED BY <1>1, Invariance, PTL

(* Total order: the leader sequences that validators emit are prefixes of  *)
(* one sequence.                                                           *)
THEOREM TotalOrder == Spec => []SequencesAgree
<1>1. IInv => SequencesAgree
  <2> SUFFICES ASSUME IInv, NEW r \in DOMAIN leaders, r \in DOMAIN sequence,
                      leaders[r] \in Decided
               PROVE  leaders[r] = sequence[r]
    BY Zenon DEF SequencesAgree
  <2>1. <<r, leaders[r]>> \in decisions /\ <<r, sequence[r]>> \in decisions
    BY Zenon DEF IInv, RunInv, HistoryInv
  <2> QED BY Zenon, <2>1 DEF IInv, HistoryInv, Agreeing
<1> QED BY <1>1, Invariance, PTL

(* The panics on two supported or two certified leader blocks in           *)
(* try_direct_decide and decide_leader_from_anchor are unreachable.        *)
THEOREM CandidatesUnique == Spec => []AtMostOneCandidate
<1>1. IInv => AtMostOneCandidate
  <2> SUFFICES ASSUME IInv, Deciding PROVE AtMostOneCandidate
    BY Zenon DEF AtMostOneCandidate
  <2>1. /\ dag \in Dags /\ view \subseteq Block /\ round \in Nat
        /\ CausallyClosed(dag, view) /\ DecisionRoundOf(round) = round + 2
    BY Zenon, ViewFacts, OneCommitterPerRound DEF IInv, TypeOK, RunInv, Deciding
  <2>2. ASSUME NEW l \in LeadersWithEnoughSupport(dag, view, round)
        PROVE  /\ l \in Block /\ Round[l] = round /\ Author[l] = Leader[round]
               /\ \E c \in Block : Round[c] = round + 2 /\ IsCertificate(dag, c, l)
    <3>1. l \in Block /\ Round[l] = round /\ Author[l] = Leader[round]
          /\ EnoughLeaderSupport(dag, view, l)
      BY Zenon, <2>1 DEF LeadersWithEnoughSupport, LeaderBlocks
    <3>2. ReachedQuorum(AuthorsOf({c \in view : Round[c] = DecisionRoundOf(Round[l])
                                                /\ IsCertificate(dag, c, l)}))
      BY Zenon, <3>1 DEF EnoughLeaderSupport
    <3> QED BY SMTT(60), <2>1, <3>1, <3>2, SharedHonest DEF AuthorsOf
  <2>3. ASSUME NEW t \in Anchor(leaders, round),
               NEW l \in CertifiedLeaderBlocks(dag, view, leaders[t], round)
        PROVE  /\ l \in Block /\ Round[l] = round /\ Author[l] = Leader[round]
               /\ \E c \in Block : Round[c] = round + 2 /\ IsCertificate(dag, c, l)
    <3>1. leaders[t] \in Block
      BY Zenon DEF Anchor
    <3> QED BY Zenon, <2>1, <3>1, DagFacts DEF CertifiedLeaderBlocks, LeaderBlocks, AncestorsAtRound
  <2>4. ASSUME NEW k \in LeadersWithEnoughSupport(dag, view, round),
               NEW l \in LeadersWithEnoughSupport(dag, view, round)
        PROVE  k = l
    BY Zenon, <2>1, <2>2, CertifiedUnique
  <2>5. ASSUME NEW t \in Anchor(leaders, round),
               NEW k \in CertifiedLeaderBlocks(dag, view, leaders[t], round),
               NEW l \in CertifiedLeaderBlocks(dag, view, leaders[t], round)
        PROVE  k = l
    BY SMTT(60), <2>1, <2>3, CertifiedUnique
  <2> QED BY Zenon, <2>4, <2>5 DEF AtMostOneCandidate
<1> QED BY <1>1, Invariance, PTL

(* "2f+1 non-votes ensure there will never be a certificate": a slot that  *)
(* enough_leader_blame lets one validator skip has no certificate at all.  *)
THEOREM BlameIsFinal == Spec => []BlameForbidsCertificate
<1>1. IInv => BlameForbidsCertificate
  BY Zenon, BlameExcludesCertificate, OneCommitterPerRound DEF IInv, TypeOK, BlameForbidsCertificate
<1> QED BY <1>1, Invariance, PTL

(* A leader that enough_leader_support lets one validator commit has a     *)
(* certificate in the history of every possible anchor.                    *)
THEOREM SupportIsFinal == Spec => []SupportReachesAnchors
<1>1. IInv => SupportReachesAnchors
  <2> SUFFICES ASSUME IInv, Deciding,
                      NEW l \in LeadersWithEnoughSupport(dag, view, round),
                      NEW b \in Block, Round[b] >= round + WaveLength
               PROVE  \E c \in AncestorsAtRound(dag, b, DecisionRoundOf(round)) :
                        IsCertificate(dag, c, l)
    BY Zenon DEF SupportReachesAnchors
  <2>1. dag \in Dags /\ view \subseteq Block /\ round \in Nat
        /\ DecisionRoundOf(round) = round + 2
    BY Zenon, OneCommitterPerRound DEF IInv, TypeOK
  <2>2. l \in Block /\ Round[l] = round /\ EnoughLeaderSupport(dag, view, l)
    BY Zenon, <2>1 DEF LeadersWithEnoughSupport, LeaderBlocks
  <2> QED BY Zenon, <2>1, <2>2, SupportReaches DEF WaveLength
<1> QED BY <1>1, Invariance, PTL
=============================================================================
