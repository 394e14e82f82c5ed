-------------------------- MODULE CommitLogProofs --------------------------
(***************************************************************************)
(* The safety properties of CommitLog hold for every DAG, leader sequence, *)
(* GC depth, cache size, replay batch and number of crashes: facts about   *)
(* logs and sequences of commits, the inductive invariant, its             *)
(* preservation by the core thread, the finalizer, the consumer and a      *)
(* restart, and the properties that follow from it.                        *)
(***************************************************************************)
EXTENDS CommitLog, WellFoundedInduction, TLAPS

(* A non-empty set of naturals has a least element. *)
LEMMA MinExists ==
  ASSUME NEW S \in SUBSET Nat, S # {}
  PROVE  \E m \in S : \A k \in S : m <= k
<1> DEFINE R == OpToRel(<, Nat)
<1>1. IsWellFoundedOn(R, Nat)
  BY Zenon, NatLessThanWellFounded
<1>2. PICK m \in S : \A k \in S : ~(<<k, m>> \in R)
  <2> HIDE DEF R
  <2> QED BY Zenon, <1>1, WFMin
<1>3. \A k \in S : ~(k < m)
  BY Zenon, <1>2 DEF OpToRel
<1> HIDE DEF R
<1> QED BY <1>3

(* A set of naturals with an upper bound in Nat has a greatest element. *)
LEMMA MaxExists ==
  ASSUME NEW S \in SUBSET Nat, S # {}, NEW u \in Nat, \A k \in S : k <= u
  PROVE  \E m \in S : \A k \in S : k <= m
<1> DEFINE T == {u - k : k \in S}
<1>1. T \in SUBSET Nat /\ T # {}
  <2>1. \A k \in S : u - k \in Nat
    OBVIOUS
  <2> QED BY Zenon, <2>1
<1>2. PICK t \in T : \A j \in T : t <= j
  <2> HIDE DEF T
  <2> QED BY Zenon, <1>1, MinExists
<1>3. PICK m \in S : t = u - m
  BY Zenon
<1>4. \A k \in S : u - m <= u - k
  BY Zenon, <1>2, <1>3
<1> QED BY <1>4

-----------------------------------------------------------------------------
(* Sequences of commits.                                                   *)

(* The sequences below are functions on an initial segment of the numbers. *)
LEMMA SeqFacts ==
  ASSUME NEW s \in Seq(Commit)
  PROVE  /\ Len(s) \in Nat
         /\ DOMAIN s = 1 .. Len(s)
         /\ \A i \in 1 .. Len(s) : s[i] \in Commit
         /\ RangeOf(s) \subseteq Commit
         /\ s # <<>> => Len(s) > 0
BY DEF RangeOf

(* Appending a commit adds it to the range. *)
LEMMA RangeAppend ==
  ASSUME NEW s \in Seq(Commit), NEW c \in Commit
  PROVE  RangeOf(Append(s, c)) = RangeOf(s) \cup {c}
<1>1. /\ Append(s, c) \in Seq(Commit)
      /\ Len(Append(s, c)) = Len(s) + 1
      /\ \A i \in 1 .. Len(s) : Append(s, c)[i] = s[i]
      /\ Append(s, c)[Len(s) + 1] = c
  OBVIOUS
<1>2. 1 .. Len(s) + 1 = (1 .. Len(s)) \cup {Len(s) + 1}
  BY SeqFacts
<1>3. DOMAIN Append(s, c) = (1 .. Len(s)) \cup {Len(s) + 1}
  BY Zenon, <1>1, <1>2, SeqFacts
<1>4. DOMAIN s = 1 .. Len(s)
  BY Zenon, SeqFacts
<1> QED BY <1>1, <1>3, <1>4 DEF RangeOf

(* Concatenation unites the ranges. *)
LEMMA RangeConcat ==
  ASSUME NEW s \in Seq(Commit), NEW t \in Seq(Commit)
  PROVE  /\ s \o t \in Seq(Commit)
         /\ RangeOf(s \o t) = RangeOf(s) \cup RangeOf(t)
<1>1. /\ s \o t \in Seq(Commit)
      /\ Len(s \o t) = Len(s) + Len(t)
      /\ \A i \in 1 .. Len(s) + Len(t) : (s \o t)[i] = IF i <= Len(s) THEN s[i] ELSE t[i - Len(s)]
  OBVIOUS
<1>2. ASSUME NEW c \in RangeOf(s) PROVE c \in RangeOf(s \o t)
  <2>1. PICK i \in 1 .. Len(s) : c = s[i]
    BY Zenon, SeqFacts DEF RangeOf
  <2>2. i \in 1 .. Len(s) + Len(t) /\ i <= Len(s)
    BY SeqFacts
  <2> QED BY Zenon, <1>1, <2>1, <2>2, SeqFacts DEF RangeOf
<1>3. ASSUME NEW c \in RangeOf(t) PROVE c \in RangeOf(s \o t)
  <2>1. PICK i \in 1 .. Len(t) : c = t[i]
    BY Zenon, SeqFacts DEF RangeOf
  <2>2. Len(s) + i \in 1 .. Len(s) + Len(t) /\ ~ (Len(s) + i <= Len(s)) /\ Len(s) + i - Len(s) = i
    BY SeqFacts
  <2>3. (s \o t)[Len(s) + i] = c
    BY <1>1, <2>1, <2>2
  <2> QED BY Zenon, <1>1, <2>2, <2>3, SeqFacts DEF RangeOf
<1>4. ASSUME NEW c \in RangeOf(s \o t) PROVE c \in RangeOf(s) \cup RangeOf(t)
  <2>1. PICK i \in 1 .. Len(s) + Len(t) : c = (s \o t)[i]
    BY Zenon, <1>1, SeqFacts DEF RangeOf
  <2>2. CASE i <= Len(s)
    BY <1>1, <2>1, <2>2, SeqFacts DEF RangeOf
  <2>3. CASE ~ (i <= Len(s))
    <3>1. i - Len(s) \in 1 .. Len(t)
      BY <2>3, SeqFacts
    <3> QED BY Zenon, <1>1, <2>1, <2>3, <3>1, SeqFacts DEF RangeOf
  <2> QED BY Zenon, <2>2, <2>3
<1> QED BY Zenon, <1>1, <1>2, <1>3, <1>4

(* A stretch of the log followed by the next stretch is a stretch. *)
LEMMA ContinuesConcat ==
  ASSUME NEW L, NEW s \in Seq(Commit), NEW t \in Seq(Commit), NEW n \in Nat,
         Continues(L, s, n), Continues(L, t, n + Len(s))
  PROVE  /\ s \o t \in Seq(Commit)
         /\ Len(s \o t) = Len(s) + Len(t)
         /\ Continues(L, s \o t, n)
<1>1. /\ s \o t \in Seq(Commit)
      /\ Len(s \o t) = Len(s) + Len(t)
      /\ \A i \in 1 .. Len(s) + Len(t) : (s \o t)[i] = IF i <= Len(s) THEN s[i] ELSE t[i - Len(s)]
  OBVIOUS
<1>2. ASSUME NEW i \in 1 .. Len(s) + Len(t)
      PROVE  (s \o t)[i] \in L /\ (s \o t)[i].index = n + i
  <2>1. CASE i <= Len(s)
    BY <1>1, <2>1, SeqFacts DEF Continues
  <2>2. CASE ~ (i <= Len(s))
    <3>1. i - Len(s) \in 1 .. Len(t) /\ n + Len(s) + (i - Len(s)) = n + i
      BY <2>2, SeqFacts
    <3>2. (s \o t)[i] = t[i - Len(s)]
      BY Zenon, <1>1, <2>2
    <3>3. t[i - Len(s)] \in L /\ t[i - Len(s)].index = n + Len(s) + (i - Len(s))
      BY Zenon, <3>1, SeqFacts DEF Continues
    <3> QED BY Zenon, <3>1, <3>2, <3>3
  <2> QED BY Zenon, <2>1, <2>2
<1> QED BY Zenon, <1>1, <1>2, SeqFacts DEF Continues

(* A stretch of the log followed by the next commit is a stretch. *)
LEMMA ContinuesAppend ==
  ASSUME NEW L, NEW s \in Seq(Commit), NEW c \in Commit, NEW n \in Nat,
         Continues(L, s, n), c \in L, c.index = n + Len(s) + 1
  PROVE  /\ Append(s, c) \in Seq(Commit)
         /\ Len(Append(s, c)) = Len(s) + 1
         /\ Continues(L, Append(s, c), n)
<1>1. /\ Append(s, c) \in Seq(Commit)
      /\ Len(Append(s, c)) = Len(s) + 1
      /\ \A i \in 1 .. Len(s) : Append(s, c)[i] = s[i]
      /\ Append(s, c)[Len(s) + 1] = c
  OBVIOUS
<1>2. \A i \in 1 .. Len(s) + 1 : i \in 1 .. Len(s) \/ i = Len(s) + 1
  BY SeqFacts
<1>3. n + Len(s) + 1 = n + (Len(s) + 1)
  BY SeqFacts
<1>4. DOMAIN s = 1 .. Len(s) /\ DOMAIN Append(s, c) = 1 .. Len(s) + 1
  BY Zenon, <1>1, SeqFacts
<1> QED BY Zenon, <1>1, <1>2, <1>3, <1>4 DEF Continues

(* The first commit of a stretch of the log and the rest. *)
LEMMA ContinuesTail ==
  ASSUME NEW L, NEW s \in Seq(Commit), NEW n \in Nat, Continues(L, s, n), s # <<>>
  PROVE  /\ Head(s) \in Commit /\ Head(s) \in L /\ Head(s).index = n + 1
         /\ Tail(s) \in Seq(Commit) /\ Len(Tail(s)) = Len(s) - 1
         /\ Continues(L, Tail(s), n + 1)
<1>1. Len(s) > 0 /\ Head(s) = s[1]
  BY SeqFacts
<1>2. /\ Tail(s) \in Seq(Commit) /\ Len(Tail(s)) = Len(s) - 1
      /\ \A i \in 1 .. Len(Tail(s)) : Tail(s)[i] = s[i + 1]
  OBVIOUS
<1>3. ASSUME NEW i \in 1 .. Len(s) - 1
      PROVE  Tail(s)[i] \in L /\ Tail(s)[i].index = n + 1 + i
  <2>1. i + 1 \in 1 .. Len(s) /\ n + (i + 1) = n + 1 + i
    BY SeqFacts
  <2>2. s[i + 1] \in L /\ s[i + 1].index = n + (i + 1)
    BY Zenon, <2>1, SeqFacts DEF Continues
  <2> QED BY Zenon, <1>2, <2>1, <2>2
<1>4. Head(s) \in Commit /\ Head(s) \in L /\ Head(s).index = n + 1
  BY <1>1, SeqFacts DEF Continues
<1>5. DOMAIN Tail(s) = 1 .. Len(s) - 1
  BY Zenon, <1>2, SeqFacts
<1> QED BY Zenon, <1>2, <1>3, <1>4, <1>5 DEF Continues

(* A stretch of the log can be cut anywhere. *)
LEMMA ContinuesCut ==
  ASSUME NEW L, NEW s \in Seq(Commit), NEW n \in Nat, Continues(L, s, n), NEW k \in 0 .. Len(s)
  PROVE  /\ SubSeq(s, 1, k) \in Seq(Commit) /\ Len(SubSeq(s, 1, k)) = k
         /\ Continues(L, SubSeq(s, 1, k), n)
         /\ SubSeq(s, k + 1, Len(s)) \in Seq(Commit) /\ Len(SubSeq(s, k + 1, Len(s))) = Len(s) - k
         /\ Continues(L, SubSeq(s, k + 1, Len(s)), n + k)
<1>0. k \in Nat /\ Len(s) \in Nat /\ k <= Len(s)
  BY SeqFacts
<1>1. /\ SubSeq(s, 1, k) \in Seq(Commit) /\ Len(SubSeq(s, 1, k)) = k
      /\ \A i \in 1 .. k : SubSeq(s, 1, k)[i] = s[i]
  <2>1. \A i \in 1 .. k : s[i] \in Commit
    BY <1>0, SeqFacts
  <2>2. /\ SubSeq(s, 1, k) \in Seq(Commit)
        /\ Len(SubSeq(s, 1, k)) = IF 1 <= k THEN k - 1 + 1 ELSE 0
        /\ \A i \in 1 .. k - 1 + 1 : SubSeq(s, 1, k)[i] = s[1 + i - 1]
    BY <1>0, <2>1
  <2> QED BY <1>0, <2>2
<1>2. /\ SubSeq(s, k + 1, Len(s)) \in Seq(Commit)
      /\ Len(SubSeq(s, k + 1, Len(s))) = Len(s) - k
      /\ \A i \in 1 .. Len(s) - k : SubSeq(s, k + 1, Len(s))[i] = s[k + i]
  <2>1. \A i \in k + 1 .. Len(s) : s[i] \in Commit
    BY <1>0, SeqFacts
  <2>2. /\ SubSeq(s, k + 1, Len(s)) \in Seq(Commit)
        /\ Len(SubSeq(s, k + 1, Len(s))) = IF k + 1 <= Len(s) THEN Len(s) - (k + 1) + 1 ELSE 0
        /\ \A i \in 1 .. Len(s) - (k + 1) + 1 : SubSeq(s, k + 1, Len(s))[i] = s[k + 1 + i - 1]
    BY <1>0, <2>1
  <2> QED BY SMTT(60), <1>0, <2>2
<1>3. Continues(L, SubSeq(s, 1, k), n)
  BY <1>0, <1>1, SeqFacts DEF Continues
<1>4. Continues(L, SubSeq(s, k + 1, Len(s)), n + k)
  <2>1. ASSUME NEW i \in 1 .. Len(s) - k
        PROVE  s[k + i] \in L /\ s[k + i].index = n + k + i
    BY <1>0, SeqFacts DEF Continues
  <2> QED BY Zenon, <1>0, <1>2, <2>1, SeqFacts DEF Continues
<1> QED BY Zenon, <1>1, <1>2, <1>3, <1>4

(* A stretch of a log is one of any larger log. *)
LEMMA ContinuesMonotone ==
  ASSUME NEW L, NEW M, L \subseteq M, NEW s, NEW n, Continues(L, s, n)
  PROVE  Continues(M, s, n)
BY Zenon DEF Continues

(* The empty sequence continues anything. *)
LEMMA ContinuesEmpty ==
  ASSUME NEW L, NEW n
  PROVE  <<>> \in Seq(Commit) /\ Len(<<>>) = 0 /\ RangeOf(<<>>) = {} /\ Continues(L, <<>>, n)
BY DEF Continues, RangeOf

-----------------------------------------------------------------------------
(* The walk of the linearizer.                                             *)

(* The walk only asks for the status of blocks above the GC round. *)
LEMMA SubDagAgree ==
  ASSUME NEW leader, NEW done, NEW other, NEW gc,
         \A b \in Block : Round[b] > gc => (b \in done <=> b \in other)
  PROVE  LinearizeSubDag(leader, done, gc) = LinearizeSubDag(leader, other, gc)
<1> USE Zenon
<1>1. \A b \in Block : Walkable(b, done, gc) <=> Walkable(b, other, gc)
  BY DEF Walkable
<1> DEFINE Candidates(D) ==
             {b \in Block : b = leader \/ (Walkable(b, D, gc) /\ Round[b] < Round[leader])}
           Closed(U, D) == \A b \in U : \A a \in Ancestors[b] : Walkable(a, D, gc) => a \in U
<1>2. Candidates(done) = Candidates(other)
  BY <1>1
<1>3. \A U \in SUBSET Block : Closed(U, done) <=> Closed(U, other)
  BY <1>1, DagAssumption
<1>4. Candidates(done) \subseteq Block
  OBVIOUS
<1>5. LinearizeSubDag(leader, done, gc)
        = {b \in Candidates(done) : \A U \in SUBSET Candidates(done) :
             leader \in U /\ Closed(U, done) => b \in U}
  BY DEF LinearizeSubDag
<1>6. LinearizeSubDag(leader, other, gc)
        = {b \in Candidates(other) : \A U \in SUBSET Candidates(other) :
             leader \in U /\ Closed(U, other) => b \in U}
  BY DEF LinearizeSubDag
<1> HIDE DEF Candidates, Closed
<1> QED BY <1>2, <1>3, <1>4, <1>5, <1>6

(* It commits the leader, and otherwise uncommitted blocks of lower rounds *)
(* above the GC round.                                                     *)
LEMMA SubDagFacts ==
  ASSUME NEW leader \in Block, NEW done, NEW gc
  PROVE  /\ LinearizeSubDag(leader, done, gc) \subseteq Block
         /\ leader \in LinearizeSubDag(leader, done, gc)
         /\ \A b \in LinearizeSubDag(leader, done, gc) :
              b = leader \/ (b \notin done /\ Round[b] < Round[leader])
BY Zenon DEF LinearizeSubDag, Walkable

(* It stays inside a DAG that is causally complete above the GC round. *)
LEMMA SubDagInside ==
  ASSUME NEW acc \in SUBSET Block, NEW leader \in acc, NEW done, NEW gc \in Nat,
         Round[leader] > gc,
         \A b \in acc : Round[b] > gc => \A a \in Ancestors[b] : Round[a] > gc => a \in acc
  PROVE  LinearizeSubDag(leader, done, gc) \subseteq acc
<1> USE Zenon
<1> DEFINE Candidates ==
             {b \in Block : b = leader \/ (Walkable(b, done, gc) /\ Round[b] < Round[leader])}
           Closed(U) == \A b \in U : \A a \in Ancestors[b] : Walkable(a, done, gc) => a \in U
           Inside == {b \in acc : b \in Candidates}
<1>1. Closed(Inside)
  <2> SUFFICES ASSUME NEW b \in Inside, NEW a \in Ancestors[b], Walkable(a, done, gc)
               PROVE  a \in Inside
    OBVIOUS
  <2>1. b \in Block /\ a \in Block /\ Round[a] \in Nat /\ Round[b] \in Nat /\ Round[leader] \in Nat
    BY DagAssumption
  <2>2. Round[a] > gc /\ Round[a] < Round[b] /\ Round[b] <= Round[leader]
    BY SMT, <2>1, DagAssumption DEF Walkable
  <2>3. Round[b] > gc /\ Round[a] < Round[leader]
    BY SMT, <2>1, <2>2
  <2>4. a \in acc
    BY <2>2, <2>3
  <2> QED BY <2>1, <2>3, <2>4
<1>2. leader \in Inside
  OBVIOUS
<1>3. Inside \in SUBSET Candidates
  OBVIOUS
<1>4. LinearizeSubDag(leader, done, gc)
        = {b \in Candidates : \A U \in SUBSET Candidates : leader \in U /\ Closed(U) => b \in U}
  BY DEF LinearizeSubDag
<1>5. Inside \subseteq acc
  OBVIOUS
<1> HIDE DEF Candidates, Closed, Inside
<1> QED BY <1>1, <1>2, <1>3, <1>4, <1>5

-----------------------------------------------------------------------------
(* The inductive invariant.                                                *)

(* What is true of a commit of index i, in the log or about to be added,   *)
(* when the blocks in acc have been accepted.                              *)
CommitOK(c, i, acc) ==
  /\ c \in Commit
  /\ c.index = i
  /\ i \in DOMAIN Leaders
  /\ c.leader = Leaders[i]
  /\ c.blocks \subseteq acc
  /\ \A b \in c.blocks : Round[b] <= Round[c.leader]

(* L is a log without gaps or duplicates whose last commit is `last`, and  *)
(* each commit is what the leader sequence says.                           *)
LogOK(L, last, acc) ==
  /\ last.index \in Nat
  /\ \A c \in L : CommitOK(c, c.index, acc) /\ c.index <= last.index
  /\ \A c, d \in L : c.index = d.index => c = d
  /\ \A c, d \in L : c.index # d.index => c.blocks \cap d.blocks = {}
  /\ \A i \in 1 .. last.index : \E c \in L : c.index = i
  /\ last = NoCommit \/ last \in L
  /\ \A c \in L : \A p \in L \cup {NoCommit} : p.index = c.index - 1 => Follows(L, c, p)

(* c is the commit that comes next in log L. *)
NextOK(L, last, c, acc) ==
  /\ CommitOK(c, last.index + 1, acc)
  /\ Follows(L, c, last)
  /\ \A d \in L : d.blocks \cap c.blocks = {}

(* The store is causally complete above its own GC round. *)
StoredDagOK ==
  /\ stored.blocks \subseteq accepted
  /\ \A b \in stored.blocks : \A a \in Ancestors[b] :
       Round[a] > GcRoundOf(CommitRound(LastStored)) => a \in stored.blocks

(* The threads: a core that is building or passing on commits has replayed *)
(* everything, and what is left to replay is in the store.                 *)
ThreadsOK ==
  /\ replayed <= last_commit.index
  /\ replayed < last_commit.index =>
       last_commit \in stored.commits /\ unsent = <<>> /\ collected = NoCommit

IInv ==
  /\ TypeOK
  /\ LogOK(Log, last_commit, accepted)
  /\ collected = NoCommit \/ NextOK(Log, last_commit, collected, accepted)
  /\ StatusesExact
  /\ WalkNeverMisses
  /\ StoreReplayable
  /\ StoredDagOK
  /\ ThreadsOK
  /\ DeliveredIsPersisted
  /\ DeliveredInOrder

-----------------------------------------------------------------------------
(* Logs.                                                                   *)

(* The GC round follows the commit round. *)
LEMMA GcFacts ==
  ASSUME NEW m \in Nat, NEW n \in Nat, m <= n
  PROVE  GcRoundOf(m) \in Nat /\ GcRoundOf(m) <= GcRoundOf(n) /\ GcRoundOf(m) <= m
BY ConstantsAssumption DEF GcRoundOf

(* The last commit of a log has a round, and the next leader a higher one. *)
LEMMA CommitRoundFacts ==
  ASSUME NEW L, NEW last, NEW acc, LogOK(L, last, acc)
  PROVE  /\ CommitRound(last) \in Nat
         /\ last.index + 1 \in DOMAIN Leaders => Round[Leaders[last.index + 1]] > CommitRound(last)
<1>1. CASE last = NoCommit
  <2>1. CommitRound(last) = 0
    BY Zenon, <1>1 DEF CommitRound, NoCommit
  <2>2. last.index + 1 \in DOMAIN Leaders => Leaders[last.index + 1] \in Block
    BY LeadersAssumption
  <2> QED BY <2>1, <2>2, DagAssumption
<1>2. CASE last \in L
  <2>1. CommitOK(last, last.index, acc)
    BY Zenon, <1>2 DEF LogOK
  <2>2. last.index \in Nat \ {0} /\ last.leader \in Block /\ last.index \in DOMAIN Leaders
        /\ last.leader = Leaders[last.index]
    BY Zenon, <2>1 DEF CommitOK, Commit
  <2>3. CommitRound(last) = Round[last.leader]
    BY Zenon, <2>2 DEF CommitRound
  <2>4. last.index < last.index + 1
    BY <2>2
  <2> QED BY Zenon, <2>2, <2>3, <2>4, DagAssumption, LeadersAssumption
<1> QED BY Zenon, <1>1, <1>2 DEF LogOK

(* A log and its next commit make a log. *)
LEMMA LogExtend ==
  ASSUME NEW L, NEW last, NEW acc, NEW c, LogOK(L, last, acc), NextOK(L, last, c, acc)
  PROVE  LogOK(L \cup {c}, c, acc)
<1> USE Zenon
<1> DEFINE M == L \cup {c}
<1>1. last.index \in Nat /\ c \in Commit /\ c.index = last.index + 1 /\ c.index \in Nat
  BY DEF LogOK, NextOK, CommitOK, Commit
<1>2. \A d \in L : d.index \in Nat /\ d.index <= last.index /\ d \in Commit
  BY DEF LogOK, CommitOK, Commit
<1>3. \A d \in M : CommitOK(d, d.index, acc) /\ d.index <= c.index
  BY SMT, <1>1, <1>2 DEF LogOK, NextOK
<1>4. \A d, e \in M : d.index = e.index => d = e
  BY SMT, <1>1, <1>2 DEF LogOK
<1>5. \A d, e \in M : d.index # e.index => d.blocks \cap e.blocks = {}
  BY DEF LogOK, NextOK
<1>6. \A i \in 1 .. c.index : \E d \in M : d.index = i
  BY SMT, <1>1 DEF LogOK
<1>7. ASSUME NEW d \in M, NEW p \in M \cup {NoCommit}, p.index = d.index - 1
      PROVE  Follows(M, d, p)
  <2>1. p \in L \cup {NoCommit}
    BY SMT, <1>1, <1>2, <1>7
  <2>2. BlocksBefore(M, d.index) = BlocksBefore(L, d.index)
    <3>1. \A e \in M : e.index < d.index <=> (e \in L /\ e.index < d.index)
      BY SMT, <1>1, <1>2
    <3>2. {e \in M : e.index < d.index} = {e \in L : e.index < d.index}
      BY <3>1
    <3> QED BY <3>2 DEF BlocksBefore
  <2>3. CASE d \in L
    BY SMTT(60), <1>7, <2>1, <2>2, <2>3 DEF LogOK, Follows
  <2>4. CASE d = c
    <3>1. p.index = last.index
      BY SMT, <1>1, <1>7, <2>4
    <3>2. p = last
      <4>1. CASE last = NoCommit
        <5>1. p.index = 0
          BY <3>1, <4>1 DEF NoCommit
        <5>2. \A e \in L : e.index # 0
          BY DEF LogOK, CommitOK, Commit
        <5> QED BY <2>1, <4>1, <5>1, <5>2
      <4>2. CASE last \in L
        <5>1. last.index # 0
          BY <4>2 DEF LogOK, CommitOK, Commit
        <5>2. p \in L
          BY SMT, <2>1, <3>1, <5>1 DEF NoCommit
        <5> QED BY <3>1, <4>2, <5>2 DEF LogOK
      <4> QED BY <4>1, <4>2 DEF LogOK
    <3> QED BY <2>2, <2>4, <3>2 DEF NextOK, Follows
  <2> QED BY <2>3, <2>4
<1> HIDE DEF M
<1>8. c \in M
  BY DEF M
<1>9. LogOK(M, c, acc)
  BY <1>1, <1>3, <1>4, <1>5, <1>6, <1>7, <1>8 DEF LogOK
<1> QED BY <1>9 DEF M

(* The last commit of a log is the one of the highest index. *)
LEMMA LastOfLog ==
  ASSUME NEW L, NEW last, NEW acc, LogOK(L, last, acc)
  PROVE  LastOf(L) = last
<1> USE Zenon
<1>1. CASE last = NoCommit
  <2>1. \A c \in L : c.index \in Nat \ {0} /\ c.index <= 0
    BY <1>1 DEF LogOK, CommitOK, Commit, NoCommit
  <2>2. L = {}
    BY SMT, <2>1
  <2> QED BY <1>1, <2>2 DEF LastOf
<1>2. CASE last \in L
  <2>1. \A d \in L : d.index <= last.index /\ d.index \in Nat
    BY DEF LogOK, CommitOK, Commit
  <2>2. ASSUME NEW c \in L, \A d \in L : d.index <= c.index PROVE c = last
    <3>1. c.index = last.index
      BY SMT, <1>2, <2>1, <2>2
    <3> QED BY <1>2, <3>1 DEF LogOK
  <2> QED BY <1>2, <2>1, <2>2 DEF LastOf
<1> QED BY <1>1, <1>2 DEF LogOK

(* The commits of a log up to some index are a log. *)
LEMMA LogPrefix ==
  ASSUME NEW L, NEW last, NEW acc, LogOK(L, last, acc),
         NEW M \in SUBSET L, NEW acc2,
         \A c \in M : c.blocks \subseteq acc2,
         \A c \in M : \A i \in 1 .. c.index : \E d \in M : d.index = i
  PROVE  LogOK(M, LastOf(M), acc2)
<1> USE Zenon
<1>1. \A c \in M : CommitOK(c, c.index, acc2) /\ c.index \in Nat \ {0}
  BY DEF LogOK, CommitOK, Commit
<1>2. \A c, d \in M : c.index = d.index => c = d
  BY DEF LogOK
<1>3. \A c, d \in M : c.index # d.index => c.blocks \cap d.blocks = {}
  BY DEF LogOK
<1>4. ASSUME NEW c \in M, NEW p \in M \cup {NoCommit}, p.index = c.index - 1
      PROVE  Follows(M, c, p)
  <2>1. Follows(L, c, p)
    BY <1>4 DEF LogOK
  <2>2. ASSUME NEW e \in L, e.index < c.index PROVE e \in M
    <3>1. e.index \in Nat \ {0} /\ c.index \in Nat
      BY DEF LogOK, CommitOK, Commit
    <3>2. e.index \in 1 .. c.index
      BY SMT, <2>2, <3>1
    <3>3. PICK d \in M : d.index = e.index
      BY <3>2
    <3> QED BY <3>3 DEF LogOK
  <2>3. {e \in M : e.index < c.index} = {e \in L : e.index < c.index}
    BY <2>2
  <2>4. BlocksBefore(M, c.index) = BlocksBefore(L, c.index)
    BY <2>3 DEF BlocksBefore
  <2> QED BY <2>1, <2>4 DEF Follows
<1>5. CASE M = {}
  <2>1. LastOf(M) = NoCommit /\ NoCommit.index = 0
    BY <1>5 DEF LastOf, NoCommit
  <2> QED BY SMT, <1>5, <2>1 DEF LogOK
<1>6. CASE M # {}
  <2> DEFINE Indices == {c.index : c \in M}
  <2>1. Indices \in SUBSET Nat /\ Indices # {} /\ last.index \in Nat
    BY SMT, <1>1, <1>6 DEF LogOK
  <2>2. \A k \in Indices : k <= last.index
    BY SMTT(60) DEF LogOK
  <2>3. \E m \in Indices : \A k \in Indices : k <= m
    <3> HIDE DEF Indices
    <3> QED BY <2>1, <2>2, MaxExists
  <2>4. PICK c \in M : \A d \in M : d.index <= c.index
    BY <2>3
  <2>5. LastOf(M) \in M /\ \A d \in M : d.index <= LastOf(M).index
    BY <1>6, <2>4 DEF LastOf
  <2>6. \A i \in 1 .. LastOf(M).index : \E d \in M : d.index = i
    BY <2>5
  <2>7. LastOf(M).index \in Nat
    BY <1>1, <2>5
  <2> QED BY <1>1, <1>2, <1>3, <1>4, <2>5, <2>6, <2>7 DEF LogOK
<1> QED BY <1>5, <1>6

-----------------------------------------------------------------------------
(* The steps preserve the invariant.                                       *)

(* What the steps below use of the invariant. *)
LEMMA StateFacts ==
  ASSUME IInv
  PROVE  /\ accepted \subseteq Block
         /\ last_commit.index \in Nat /\ CommitRound(last_commit) \in Nat /\ gc_round \in Nat
         /\ LastOf(Log) = last_commit
         /\ Log \subseteq Commit
         /\ stored.commits \subseteq Log
         /\ RangeOf(commits_to_write) \subseteq Log
         /\ replayed \in Nat /\ handled \in Nat /\ Len(output) \in Nat /\ Len(outgoing) \in Nat
         /\ Len(pending) \in Nat /\ Len(queue) \in Nat /\ Len(unsent) \in Nat
         /\ Len(consumed) \in Nat
<1>1. LogOK(Log, last_commit, accepted) /\ TypeOK
  BY Zenon DEF IInv
<1>2. CommitRound(last_commit) \in Nat
  BY Zenon, <1>1, CommitRoundFacts
<1>3. gc_round \in Nat
  BY <1>2, GcFacts DEF gc_round
<1>4. Log \subseteq Commit
  BY Zenon, <1>1 DEF LogOK, CommitOK
<1> QED BY Zenon, <1>1, <1>2, <1>3, <1>4, LastOfLog, SeqFacts DEF LogOK, TypeOK, Log

(* The initial state. *)
LEMMA InitIInv == Init => IInv
<1> SUFFICES ASSUME Init PROVE IInv
  BY Zenon
<1> USE DEF Init
<1>1. Log = {} /\ last_commit.index = 0
  BY Zenon, ContinuesEmpty DEF Log, NoCommit
<1>2. TypeOK
  BY SMTT(60), ContinuesEmpty, ConstantsAssumption DEF TypeOK, Commit
<1>3. LogOK(Log, last_commit, accepted)
  BY SMTT(60), <1>1 DEF LogOK
<1>4. StatusesExact /\ WalkNeverMisses
  BY SMTT(60), <1>1 DEF StatusesExact, WalkNeverMisses, NoCommit
<1>5. StoreReplayable /\ StoredDagOK /\ ThreadsOK
  BY <1>1 DEF StoreReplayable, StoredDagOK, ThreadsOK
<1>6. DeliveredIsPersisted
  BY Zenon, ContinuesEmpty DEF DeliveredIsPersisted
<1>7. DeliveredInOrder
  BY SMTT(60), ContinuesEmpty DEF DeliveredInOrder
<1> QED BY Zenon, <1>2, <1>3, <1>4, <1>5, <1>6, <1>7 DEF IInv

(* A flush changes neither the log nor the flags that matter, and leaves a *)
(* store that can be replayed.                                             *)
LEMMA FlushFacts ==
  ASSUME IInv, FlushDag
  PROVE  /\ Log' = Log /\ stored'.commits = Log
         /\ stored' \in [blocks : SUBSET Block, commits : SUBSET Commit]
         /\ commits_to_write' = <<>>
         /\ cached' \subseteq accepted /\ committed' \subseteq cached'
         /\ accepted' = accepted /\ last_commit' = last_commit /\ gc_round' = gc_round
         /\ \A b \in Block : Round[b] > gc_round => (b \in committed' <=> b \in committed)
         /\ WalkNeverMisses'
         /\ StoreReplayable'
         /\ StoredDagOK'
         /\ last_commit = NoCommit \/ last_commit \in stored'.commits
<1> USE Zenon
<1> USE DEF FlushDag
<1>1. Log' = Log /\ stored'.commits = Log
  BY ContinuesEmpty DEF Log
<1>2. accepted' = accepted /\ last_commit' = last_commit /\ gc_round' = gc_round
  BY DEF gc_round
<1>3. stored' \in [blocks : SUBSET Block, commits : SUBSET Commit]
  BY StateFacts, <1>1
<1>4. cached' \subseteq cached /\ \A b \in cached : Round[b] > gc_round => b \in cached'
  <2>1. \A b \in cached : Round[b] \in Nat
    BY DagAssumption DEF IInv, TypeOK
  <2> QED BY SMTT(60), <2>1, StateFacts DEF Unevicted, Evicted
<1>5. cached' \subseteq accepted /\ committed' \subseteq cached'
  BY <1>4 DEF IInv, TypeOK
<1>6. \A b \in Block : Round[b] > gc_round => (b \in committed' <=> b \in committed)
  BY <1>4 DEF IInv, TypeOK
<1>7. WalkNeverMisses'
  BY <1>2, <1>4 DEF WalkNeverMisses, IInv
<1>8. StoreReplayable'
  <2>1. LogOK(Log, last_commit, accepted)
    BY DEF IInv
  <2>2. \A c \in Log : c.index \in Nat /\ last_commit.index \in Nat /\ c.index <= last_commit.index
    BY <2>1 DEF LogOK, CommitOK, Commit
  <2>3. \A c \in Log : \A i \in 1 .. c.index : \E d \in Log : d.index = i
    BY SMTT(60), <2>1, <2>2 DEF LogOK
  <2>4. \A c \in Log : c.blocks \subseteq accepted
    BY <2>1 DEF LogOK, CommitOK
  <2> QED BY <1>1, <2>1, <2>3, <2>4 DEF StoreReplayable, LogOK
<1>9. StoredDagOK'
  <2>1. LastStored' = last_commit
    BY <1>1, StateFacts DEF LastStored
  <2>2. \A b \in accepted : \A a \in Ancestors[b] : Round[a] > gc_round => a \in accepted
    <3> SUFFICES ASSUME NEW b \in accepted, NEW a \in Ancestors[b], Round[a] > gc_round
                 PROVE  a \in accepted
      OBVIOUS
    <3>1. Round[a] < Round[b] /\ Round[a] \in Nat /\ Round[b] \in Nat
      BY DagAssumption, StateFacts
    <3>2. gc_round \in Nat
      BY Zenon, StateFacts
    <3>3. Round[b] > gc_round
      BY SMT, <3>1, <3>2
    <3> QED BY <3>3 DEF IInv, WalkNeverMisses, TypeOK
  <2> QED BY <2>1, <2>2 DEF StoredDagOK, gc_round
<1>10. last_commit = NoCommit \/ last_commit \in stored'.commits
  BY <1>1 DEF IInv, LogOK
<1> QED BY <1>1, <1>2, <1>3, <1>5, <1>6, <1>7, <1>8, <1>9, <1>10

(* The core thread accepts a block. *)
LEMMA AcceptStep ==
  ASSUME IInv, NEW b \in Block, AcceptBlock(b)
  PROVE  IInv'
<1> USE Zenon
<1> USE DEF AcceptBlock, coreVars, finalizerVars, consumerVars
<1>1. Log' = Log /\ gc_round' = gc_round /\ LastStored' = LastStored
  BY DEF Log, gc_round, LastStored
<1>2. TypeOK'
  BY DEF IInv, TypeOK
<1>3. accepted \subseteq accepted'
  OBVIOUS
<1>4. LogOK(Log, last_commit, accepted')
  BY <1>3 DEF IInv, LogOK, CommitOK
<1>5. collected = NoCommit
  BY DEF CoreIdle
<1>6. StatusesExact'
  BY <1>1 DEF IInv, StatusesExact
<1>7. WalkNeverMisses'
  BY <1>1 DEF IInv, WalkNeverMisses, TypeOK
<1>8. StoreReplayable' /\ StoredDagOK' /\ ThreadsOK'
  BY <1>1 DEF IInv, StoreReplayable, StoredDagOK, ThreadsOK
<1>9. DeliveredIsPersisted' /\ DeliveredInOrder'
  BY <1>1 DEF IInv, DeliveredIsPersisted, DeliveredInOrder
<1> QED BY <1>1, <1>2, <1>4, <1>5, <1>6, <1>7, <1>8, <1>9 DEF IInv

(* The walk from the next leader makes the next commit of the log, because *)
(* the flags it reads are exact where it reads them.                       *)
LEMMA CollectedIsNext ==
  ASSUME IInv, CollectSubDag
  PROVE  /\ NextOK(Log, last_commit, collected', accepted)
         /\ collected'.blocks \subseteq accepted
         /\ collected'.blocks \subseteq cached
<1> USE Zenon
<1> DEFINE n == last_commit.index + 1
           leader == Leaders[n]
           c == CommitOf(leader)
<1>1. LogOK(Log, last_commit, accepted)
  BY DEF IInv
<1>2. last_commit.index \in Nat /\ n \in DOMAIN Leaders /\ leader \in accepted /\ leader \in Block
  <2>1. last_commit.index \in Nat /\ last_commit.index < Len(Leaders) /\ leader \in accepted
    BY StateFacts DEF CollectSubDag
  <2>2. DOMAIN Leaders = 1 .. Len(Leaders) /\ Len(Leaders) \in Nat
    BY SMT, LeadersAssumption
  <2>3. n \in 1 .. Len(Leaders)
    BY SMT, <2>1, <2>2
  <2>4. leader \in Block
    BY <2>1, StateFacts
  <2> QED BY <2>1, <2>2, <2>3, <2>4
<1>3. Round[leader] > CommitRound(last_commit) /\ Round[leader] \in Nat
  BY <1>1, <1>2, CommitRoundFacts, DagAssumption
<1>4. Round[leader] > gc_round
  <2>1. CommitRound(last_commit) \in Nat /\ gc_round \in Nat
    BY StateFacts
  <2>2. CommitRound(last_commit) <= CommitRound(last_commit)
    BY SMT, <2>1
  <2>3. gc_round <= CommitRound(last_commit)
    BY <2>1, <2>2, GcFacts DEF gc_round
  <2> HIDE DEF leader
  <2> QED BY SMT, <1>3, <2>1, <2>3
<1>5. BlocksBefore(Log, n) = UNION {d.blocks : d \in Log}
  <2>1. \A d \in Log : d.index < n
    BY SMT, <1>1, <1>2 DEF LogOK, CommitOK, Commit
  <2> QED BY <2>1 DEF BlocksBefore
<1>6. LinearizeSubDag(leader, committed, gc_round) = LinearizeSubDag(leader, BlocksBefore(Log, n), gc_round)
  <2>1. collected = NoCommit /\ NoCommit.blocks = {}
    BY DEF CollectSubDag, NoCommit
  <2>2. \A b \in Block : Round[b] > gc_round => (b \in committed <=> b \in BlocksBefore(Log, n))
    BY <1>5, <2>1 DEF IInv, StatusesExact
  <2> QED BY <2>2, SubDagAgree
<1>7. c.blocks = LinearizeSubDag(leader, BlocksBefore(Log, n), gc_round) /\ c.leader = leader /\ c.index = n
  BY <1>6 DEF CommitOf
<1>8. c.blocks \subseteq accepted
  <2>1. \A b \in accepted : Round[b] > gc_round => \A a \in Ancestors[b] : Round[a] > gc_round => a \in accepted
    BY DEF IInv, WalkNeverMisses, TypeOK
  <2>2. LinearizeSubDag(leader, BlocksBefore(Log, n), gc_round) \subseteq accepted
    BY <1>2, <1>4, <2>1, StateFacts, SubDagInside
  <2> QED BY <1>7, <2>2
<1>9. \A b \in c.blocks : b = leader \/ (b \notin BlocksBefore(Log, n) /\ Round[b] < Round[leader])
  BY SMT, <1>2, <1>7, SubDagFacts
<1>10. c \in Commit
  <2>1. last_commit.timestamp \in Nat
    BY SMTT(60) DEF IInv, TypeOK, Commit, NoCommit
  <2>2. c.timestamp \in Nat
    BY <1>2, <2>1, ConstantsAssumption DEF CommitOf
  <2>3. c = [index |-> c.index, leader |-> c.leader, blocks |-> c.blocks, timestamp |-> c.timestamp]
    BY DEF CommitOf
  <2> HIDE DEF c, leader, n
  <2>4. c.index \in Nat \ {0} /\ c.leader \in Block /\ c.blocks \in SUBSET Block
    <3>1. n \in Nat \ {0}
      BY SMT, <1>2 DEF n
    <3> QED BY <1>2, <1>7, <1>8, <3>1, StateFacts
  <2> QED BY <2>2, <2>3, <2>4 DEF Commit
<1>11. \A b \in c.blocks : Round[b] <= Round[c.leader]
  <2>1. \A b \in c.blocks : b = leader \/ Round[b] < Round[leader]
    BY <1>9
  <2>2. \A b \in c.blocks : Round[b] \in Nat
    BY <1>8, StateFacts, DagAssumption
  <2> HIDE DEF c, leader
  <2> QED BY SMTT(60), <1>3, <1>7, <2>1, <2>2
<1>12. ASSUME NEW d \in Log PROVE d.blocks \cap c.blocks = {}
  <2> SUFFICES ASSUME NEW b \in d.blocks, b \in c.blocks PROVE FALSE
    OBVIOUS
  <2>1. b \in BlocksBefore(Log, n)
    BY <1>5
  <2>2. b = leader
    BY <1>9, <2>1
  <2>3. CommitOK(d, d.index, accepted) /\ d.index <= last_commit.index /\ d.index \in Nat
    BY <1>1 DEF LogOK, CommitOK, Commit
  <2>4. Round[b] <= Round[Leaders[d.index]] /\ d.index \in DOMAIN Leaders
    BY <2>3 DEF CommitOK
  <2>5. d.index < n
    BY SMT, <1>2, <2>3
  <2>6. Round[Leaders[d.index]] < Round[leader]
    BY <1>2, <2>4, <2>5, LeadersAssumption
  <2>7. Leaders[d.index] \in Block
    BY SMTT(60), <2>4, LeadersAssumption
  <2> QED BY SMTT(60), <1>3, <2>2, <2>4, <2>6, <2>7, DagAssumption
<1>13. Follows(Log, c, last_commit)
  BY <1>7 DEF Follows, CommitOf, gc_round
<1>14. \A b \in c.blocks : b \in cached
  <2>1. \A b \in c.blocks : b = leader \/ Round[b] > gc_round
    BY <1>2, <1>7 DEF LinearizeSubDag, Walkable
  <2> QED BY <1>4, <1>8, <2>1 DEF IInv, WalkNeverMisses
<1>15. collected' = c
  BY DEF CollectSubDag
<1> HIDE DEF c, leader
<1>16. NextOK(Log, last_commit, c, accepted)
  BY <1>2, <1>7, <1>8, <1>10, <1>11, <1>12, <1>13 DEF NextOK, CommitOK, leader
<1> QED BY <1>8, <1>14, <1>15, <1>16

(* The core thread collects the sub-dag of the next leader. *)
LEMMA CollectStep ==
  ASSUME IInv, CollectSubDag
  PROVE  IInv'
<1> USE Zenon
<1> USE DEF CollectSubDag, finalizerVars, consumerVars
<1>1. NextOK(Log, last_commit, collected', accepted) /\ collected'.blocks \subseteq cached
  BY CollectedIsNext
<1>2. Log' = Log /\ gc_round' = gc_round /\ LastStored' = LastStored
  BY DEF Log, gc_round, LastStored
<1>3. TypeOK'
  BY <1>1 DEF IInv, TypeOK, NextOK, CommitOK
<1>4. LogOK(Log, last_commit, accepted)
  BY DEF IInv
<1>5. StatusesExact'
  <2>1. NoCommit.blocks = {} /\ collected = NoCommit
    BY DEF NoCommit
  <2>2. committed' = committed \cup collected'.blocks
    OBVIOUS
  <2> QED BY <1>2, <2>1, <2>2 DEF IInv, StatusesExact
<1>6. WalkNeverMisses' /\ StoreReplayable' /\ StoredDagOK'
  BY <1>2 DEF IInv, WalkNeverMisses, StoreReplayable, StoredDagOK
<1>7. ThreadsOK'
  BY SMTT(60), StateFacts DEF IInv, ThreadsOK, Recovered
<1>8. DeliveredIsPersisted' /\ DeliveredInOrder'
  BY <1>2 DEF IInv, DeliveredIsPersisted, DeliveredInOrder
<1> QED BY <1>1, <1>2, <1>3, <1>4, <1>5, <1>6, <1>7, <1>8 DEF IInv

(* The collected commit is added to the log. *)
LEMMA AddStep ==
  ASSUME IInv, AddCommit
  PROVE  IInv'
<1> USE Zenon
<1> USE DEF AddCommit, blockVars, finalizerVars, consumerVars
<1>1. NextOK(Log, last_commit, collected, accepted) /\ LogOK(Log, last_commit, accepted)
  BY DEF IInv
<1>2. collected \in Commit /\ collected.index = last_commit.index + 1
  BY <1>1 DEF NextOK, CommitOK
<1>3. Log' = Log \cup {collected}
  BY SMT, <1>2, RangeAppend DEF Log, IInv, TypeOK
<1>4. LogOK(Log', last_commit', accepted')
  BY <1>1, <1>3, LogExtend
<1>5. replayed = last_commit.index
  <2>1. replayed \in Nat /\ last_commit.index \in Nat
    BY StateFacts
  <2>2. replayed <= last_commit.index /\ ~(replayed < last_commit.index)
    BY DEF IInv, ThreadsOK
  <2> HIDE DEF AddCommit
  <2> QED BY SMT, <2>1, <2>2
<1>6. TypeOK'
  <2>1. replayed' \in Nat
    BY <1>2 DEF Commit
  <2>2. commits_to_write' \in Seq(Commit) /\ unsent' \in Seq(Commit)
    BY SMT, <1>2 DEF IInv, TypeOK
  <2> QED BY <1>2, <2>1, <2>2 DEF IInv, TypeOK
<1>7. gc_round <= gc_round' /\ gc_round' \in Nat
  <2>1. CommitRound(collected) = Round[collected.leader] /\ collected.leader = Leaders[last_commit.index + 1]
        /\ last_commit.index + 1 \in DOMAIN Leaders
    BY <1>1, <1>2 DEF CommitRound, NextOK, CommitOK, Commit
  <2>2. Round[collected.leader] \in Nat
    BY <1>2, DagAssumption DEF Commit
  <2>3. CommitRound(last_commit) <= CommitRound(collected) /\ CommitRound(last_commit) \in Nat
        /\ CommitRound(collected) \in Nat
    BY SMTT(60), <1>1, <2>1, <2>2, CommitRoundFacts
  <2>4. GcRoundOf(CommitRound(last_commit)) <= GcRoundOf(CommitRound(collected))
        /\ GcRoundOf(CommitRound(collected)) \in Nat
    BY SMTT(60), <2>3, GcFacts
  <2> QED BY <2>4 DEF gc_round
<1>8. \A b \in Block : Round[b] > gc_round' => Round[b] > gc_round
  <2>1. gc_round \in Nat /\ \A b \in Block : Round[b] \in Nat
    BY StateFacts, DagAssumption
  <2> HIDE DEF AddCommit
  <2> QED BY SMT, <1>7, <2>1
<1>9. StatusesExact'
  <2>1. NoCommit.blocks = {} /\ collected' = NoCommit
    BY DEF NoCommit
  <2>2. committed' = committed
    OBVIOUS
  <2> QED BY <1>3, <1>8, <2>1, <2>2 DEF IInv, StatusesExact
<1>10. WalkNeverMisses'
  <2>1. \A b \in accepted : b \in Block /\ \A a \in Ancestors[b] : a \in Block
    BY StateFacts, DagAssumption
  <2> QED BY <1>8, <2>1 DEF IInv, WalkNeverMisses
<1>11. StoreReplayable' /\ StoredDagOK'
  BY DEF IInv, StoreReplayable, StoredDagOK, LastStored
<1>12. ThreadsOK'
  <2>1. replayed' = last_commit'.index /\ last_commit'.index \in Nat
    BY <1>2 DEF Commit
  <2>2. replayed' <= last_commit'.index /\ ~(replayed' < last_commit'.index)
    <3> HIDE DEF AddCommit
    <3> QED BY SMT, <2>1
  <2> QED BY <2>2 DEF ThreadsOK
<1>13. DeliveredIsPersisted'
  BY DEF IInv, DeliveredIsPersisted
<1>14. DeliveredInOrder'
  <2> DEFINE to == handled + Len(output) + Len(outgoing) + Len(pending) + Len(queue)
  <2>1. to \in Nat /\ replayed = to + Len(unsent) /\ Continues(Log, unsent, to) /\ unsent \in Seq(Commit)
    BY SMT, StateFacts DEF IInv, DeliveredInOrder, TypeOK
  <2>2. Log \subseteq Log' /\ collected \in Log'
    BY <1>3
  <2> HIDE DEF to
  <2>3. Continues(Log', unsent, to)
    BY <2>1, <2>2, ContinuesMonotone
  <2>4. collected.index = to + Len(unsent) + 1
    BY <1>2, <1>5, <2>1
  <2>5. Continues(Log', unsent', to) /\ Len(unsent') = Len(unsent) + 1
    BY <1>2, <2>1, <2>2, <2>3, <2>4, ContinuesAppend
  <2>6. replayed' = to + Len(unsent')
    BY SMTT(60), <1>2, <1>5, <2>1, <2>5, StateFacts
  <2>7. \A s, m : Continues(Log, s, m) => Continues(Log', s, m)
    BY <2>2, ContinuesMonotone
  <2> QED BY <2>5, <2>6, <2>7 DEF IInv, DeliveredInOrder, to
<1> QED BY <1>4, <1>6, <1>9, <1>10, <1>11, <1>12, <1>13, <1>14 DEF IInv

(* The new commits are sent to the finalizer. *)
LEMMA SendStep ==
  ASSUME IInv, SendToFinalizer
  PROVE  IInv'
<1> USE Zenon
<1> USE DEF SendToFinalizer, blockVars, consumerVars
<1>1. Log' = Log /\ gc_round' = gc_round /\ LastStored' = LastStored
  BY DEF Log, gc_round, LastStored
<1> DEFINE to == handled + Len(output) + Len(outgoing) + Len(pending)
<1>2. /\ to \in Nat /\ queue \in Seq(Commit) /\ unsent \in Seq(Commit)
      /\ Continues(Log, queue, to) /\ Continues(Log, unsent, to + Len(queue))
      /\ replayed = to + Len(queue) + Len(unsent)
  BY SMTT(60), StateFacts DEF IInv, DeliveredInOrder, TypeOK
<1> HIDE DEF to
<1>3. /\ queue' \in Seq(Commit) /\ Len(queue') = Len(queue) + Len(unsent)
      /\ Continues(Log, queue', to)
  BY <1>2, ContinuesConcat
<1>4. /\ unsent' \in Seq(Commit) /\ Len(unsent') = 0 /\ Continues(Log, unsent', to + Len(queue'))
  BY ContinuesEmpty
<1>5. TypeOK'
  BY <1>3, <1>4 DEF IInv, TypeOK
<1>6. StatusesExact' /\ WalkNeverMisses' /\ StoreReplayable' /\ StoredDagOK'
  BY <1>1 DEF IInv, StatusesExact, WalkNeverMisses, StoreReplayable, StoredDagOK
<1>7. ThreadsOK'
  BY DEF IInv, ThreadsOK
<1>8. DeliveredIsPersisted'
  BY DEF IInv, DeliveredIsPersisted
<1>9. replayed' = to + Len(queue') + Len(unsent')
  <2>1. to \in Nat /\ Len(queue) \in Nat /\ Len(unsent) \in Nat
    BY <1>2, StateFacts
  <2>2. replayed' = to + Len(queue) + Len(unsent) /\ Len(queue') = Len(queue) + Len(unsent)
        /\ Len(unsent') = 0
    BY <1>2, <1>3, <1>4
  <2> HIDE DEF SendToFinalizer
  <2> QED BY SMT, <2>1, <2>2
<1>10. DeliveredInOrder'
  BY <1>1, <1>3, <1>4, <1>9 DEF IInv, DeliveredInOrder, to
<1> QED BY <1>1, <1>5, <1>6, <1>7, <1>8, <1>10 DEF IInv

(* What a flush preserves, whichever thread calls it. *)
LEMMA FlushPreserves ==
  ASSUME IInv, FlushDag, UNCHANGED coreVars, consumed' = consumed
  PROVE  /\ LogOK(Log, last_commit, accepted)' /\ StatusesExact' /\ ThreadsOK'
         /\ (collected = NoCommit \/ NextOK(Log, last_commit, collected, accepted))'
         /\ RangeOf(consumed') \cup RangeOf(output) \cup RangeOf(outgoing) \subseteq stored'.commits
<1> USE Zenon
<1> USE DEF coreVars
<1>1. Log' = Log /\ accepted' = accepted /\ last_commit' = last_commit /\ gc_round' = gc_round
      /\ stored'.commits = Log
  BY FlushFacts
<1>2. LogOK(Log, last_commit, accepted)'
  BY <1>1 DEF IInv
<1>3. (collected = NoCommit \/ NextOK(Log, last_commit, collected, accepted))'
  BY <1>1 DEF IInv
<1>4. StatusesExact'
  <2>1. \A b \in Block : Round[b] > gc_round => (b \in committed' <=> b \in committed)
    BY FlushFacts
  <2> QED BY <1>1, <2>1 DEF IInv, StatusesExact
<1>5. ThreadsOK'
  <2>1. last_commit = NoCommit => last_commit.index = 0
    BY SMTT(60) DEF NoCommit
  <2>2. replayed < last_commit.index => last_commit \in stored'.commits
    <3>1. last_commit = NoCommit \/ last_commit \in stored'.commits
      BY FlushFacts
    <3>2. replayed \in Nat /\ ~(replayed < 0)
      BY SMT, StateFacts
    <3> QED BY <2>1, <3>1, <3>2
  <2> QED BY <1>1, <2>2 DEF IInv, ThreadsOK
<1>6. RangeOf(consumed') \cup RangeOf(output) \cup RangeOf(outgoing) \subseteq stored'.commits
  BY <1>1, StateFacts DEF IInv, DeliveredIsPersisted
<1> QED BY <1>2, <1>3, <1>4, <1>5, <1>6

(* The core thread flushes. *)
LEMMA CoreFlushStep ==
  ASSUME IInv, CoreFlush
  PROVE  IInv'
<1> USE Zenon
<1> USE DEF CoreFlush
<1>0. FlushDag /\ UNCHANGED coreVars /\ UNCHANGED finalizerVars /\ UNCHANGED consumerVars /\ UNCHANGED restarts
  OBVIOUS
<1>1. Log' = Log /\ accepted' = accepted /\ last_commit' = last_commit
  BY <1>0, FlushFacts
<1>2. TypeOK'
  BY <1>0, FlushFacts, ContinuesEmpty DEF IInv, TypeOK, coreVars, finalizerVars, consumerVars
<1>3. LogOK(Log, last_commit, accepted)' /\ StatusesExact' /\ ThreadsOK'
      /\ (collected = NoCommit \/ NextOK(Log, last_commit, collected, accepted))'
  BY <1>0, FlushPreserves DEF consumerVars
<1>4. WalkNeverMisses' /\ StoreReplayable' /\ StoredDagOK'
  BY <1>0, FlushFacts
<1>5. DeliveredIsPersisted'
  BY <1>0, FlushPreserves DEF DeliveredIsPersisted, finalizerVars, consumerVars
<1>6. DeliveredInOrder'
  BY <1>0, <1>1 DEF IInv, DeliveredInOrder, coreVars, finalizerVars, consumerVars
<1> QED BY <1>2, <1>3, <1>4, <1>5, <1>6 DEF IInv

-----------------------------------------------------------------------------
(* The finalizer takes a commit, and outputs and flushes n pending ones. *)
LEMMA ProcessStep ==
  ASSUME IInv, NEW n \in Finalizable, ProcessCommit(n)
  PROVE  IInv'
<1> USE Zenon
<1> DEFINE s == Append(pending, Head(queue))
           to == handled + Len(output)
<1>1. /\ queue # <<>> /\ outgoing = <<>> /\ queue' = Tail(queue)
      /\ pending' = SubSeq(s, n + 1, Len(pending) + 1)
      /\ outgoing' = SubSeq(s, 1, n)
      /\ UNCHANGED coreVars /\ UNCHANGED consumerVars /\ output' = output /\ restarts' = restarts
  BY DEF ProcessCommit
<1>2. (n > 0 /\ FlushDag) \/ (n = 0 /\ UNCHANGED <<blockVars, last_commit, commits_to_write, stored>>)
  <2>1. Len(pending) \in Nat /\ (n \in 0 .. (Len(pending) + 1) \/ n \in {Len(pending) + 1})
    BY StateFacts DEF Finalizable
  <2>2. n > 0 \/ (n = 0 /\ ~(n > 0))
    BY SMT, <2>1
  <2> QED BY <2>2 DEF ProcessCommit
<1>3. /\ to \in Nat /\ queue \in Seq(Commit) /\ pending \in Seq(Commit) /\ Len(outgoing) = 0
      /\ Continues(Log, pending, to) /\ Continues(Log, queue, to + Len(pending))
      /\ Continues(Log, unsent, to + Len(pending) + Len(queue))
      /\ replayed = to + Len(pending) + Len(queue) + Len(unsent)
  <2>1. Len(outgoing) = 0 /\ to + Len(outgoing) = to
    <3>1. Len(outgoing) = 0 /\ handled \in Nat /\ Len(output) \in Nat
      BY <1>1, ContinuesEmpty, StateFacts
    <3> QED BY SMT, <3>1
  <2>2. to \in Nat
    <3>1. handled \in Nat /\ Len(output) \in Nat
      BY StateFacts
    <3> QED BY SMT, <3>1
  <2> QED BY <2>1, <2>2 DEF IInv, DeliveredInOrder, TypeOK
<1> HIDE DEF to
<1>4. /\ Head(queue) \in Commit /\ Head(queue) \in Log /\ Head(queue).index = to + Len(pending) + 1
      /\ queue' \in Seq(Commit) /\ Len(queue') = Len(queue) - 1
      /\ Continues(Log, queue', to + Len(pending) + 1)
  <2>1. to \in Nat /\ pending \in Seq(Commit)
    BY <1>3
  <2>2. to + Len(pending) \in Nat
    BY SMT, <2>1
  <2> QED BY <1>1, <1>3, <2>2, ContinuesTail
<1>5. s \in Seq(Commit) /\ Len(s) = Len(pending) + 1 /\ Continues(Log, s, to)
  BY <1>3, <1>4, ContinuesAppend
<1> HIDE DEF s
<1>6. n \in 0 .. Len(s)
  BY SMT, <1>5, StateFacts DEF Finalizable
<1>7. /\ outgoing' \in Seq(Commit) /\ Len(outgoing') = n /\ Continues(Log, outgoing', to)
      /\ pending' \in Seq(Commit) /\ Len(pending') = Len(s) - n /\ Continues(Log, pending', to + n)
  <2>1. outgoing' = SubSeq(s, 1, n) /\ pending' = SubSeq(s, n + 1, Len(s))
    BY <1>1, <1>5
  <2>2. /\ SubSeq(s, 1, n) \in Seq(Commit) /\ Len(SubSeq(s, 1, n)) = n
        /\ Continues(Log, SubSeq(s, 1, n), to)
        /\ SubSeq(s, n + 1, Len(s)) \in Seq(Commit) /\ Len(SubSeq(s, n + 1, Len(s))) = Len(s) - n
        /\ Continues(Log, SubSeq(s, n + 1, Len(s)), to + n)
    BY <1>3, <1>5, <1>6, ContinuesCut
  <2> QED BY <2>1, <2>2
<1>8. /\ Log' = Log /\ accepted' = accepted /\ last_commit' = last_commit
      /\ stored' \in [blocks : SUBSET Block, commits : SUBSET Commit]
      /\ commits_to_write' \in Seq(Commit)
      /\ cached' \subseteq accepted /\ committed' \subseteq cached'
  <2>1. CASE FlushDag
    BY <2>1, FlushFacts, ContinuesEmpty
  <2>2. CASE UNCHANGED <<blockVars, last_commit, commits_to_write, stored>>
    BY <2>2 DEF IInv, TypeOK, blockVars, Log
  <2> QED BY <1>2, <2>1, <2>2
<1>9. TypeOK'
  BY <1>1, <1>4, <1>7, <1>8 DEF IInv, TypeOK, coreVars, consumerVars
<1>10. /\ LogOK(Log, last_commit, accepted)' /\ StatusesExact' /\ ThreadsOK'
       /\ (collected = NoCommit \/ NextOK(Log, last_commit, collected, accepted))'
       /\ WalkNeverMisses' /\ StoreReplayable' /\ StoredDagOK'
       /\ RangeOf(consumed) \cup RangeOf(output) \subseteq stored'.commits
  <2>1. CASE FlushDag
    BY <1>1, <2>1, FlushFacts, FlushPreserves DEF consumerVars
  <2>2. CASE UNCHANGED <<blockVars, last_commit, commits_to_write, stored>>
    <3>1. gc_round' = gc_round /\ LastStored' = LastStored /\ Log' = Log
      BY <2>2 DEF gc_round, LastStored, Log
    <3>2. collected' = collected /\ unsent' = unsent /\ replayed' = replayed
      BY <1>1 DEF coreVars
    <3>3. accepted' = accepted /\ cached' = cached /\ committed' = committed
          /\ last_commit' = last_commit /\ stored' = stored
      BY <2>2 DEF blockVars
    <3>4. StatusesExact' /\ WalkNeverMisses'
      BY <3>1, <3>2, <3>3 DEF IInv, StatusesExact, WalkNeverMisses
    <3>5. StoreReplayable' /\ StoredDagOK' /\ ThreadsOK'
      BY <3>1, <3>2, <3>3 DEF IInv, StoreReplayable, StoredDagOK, ThreadsOK
    <3>6. RangeOf(consumed) \cup RangeOf(output) \subseteq stored'.commits
      BY <3>3 DEF IInv, DeliveredIsPersisted
    <3> QED BY <3>1, <3>2, <3>3, <3>4, <3>5, <3>6 DEF IInv
  <2> QED BY <1>2, <2>1, <2>2
<1>11. RangeOf(outgoing') \subseteq stored'.commits
  <2>1. DOMAIN outgoing' = 1 .. n
    BY <1>7, SeqFacts
  <2>2. CASE n = 0
    BY SMT, <2>1, <2>2 DEF RangeOf
  <2>3. CASE n > 0 /\ FlushDag
    <3>1. stored'.commits = Log
      BY <2>3, FlushFacts
    <3> QED BY <1>7, <3>1 DEF RangeOf, Continues
  <2> QED BY <1>2, <2>2, <2>3
<1>12. DeliveredIsPersisted'
  BY <1>1, <1>10, <1>11 DEF DeliveredIsPersisted, consumerVars
<1>13. DeliveredInOrder'
  <2>1. n \in Nat /\ Len(pending) \in Nat /\ Len(queue) \in Nat /\ Len(unsent) \in Nat
    BY SMT, <1>6, StateFacts
  <2>2. to + Len(outgoing') + Len(pending') = to + Len(pending) + 1
    BY SMT, <1>3, <1>5, <1>7, <2>1
  <2>3. to + Len(outgoing') + Len(pending') + Len(queue') = to + Len(pending) + Len(queue)
    <3>1. Len(queue') = Len(queue) - 1
      BY <1>4
    <3>2. to + Len(pending) \in Nat
      BY SMT, <1>3, <2>1
    <3> HIDE DEF s
    <3> QED BY SMT, <2>1, <2>2, <3>1, <3>2
  <2>4. to' = to /\ to + Len(outgoing') = to + n /\ handled' = handled /\ startup' = startup
        /\ consumed' = consumed /\ unsent' = unsent /\ replayed' = replayed /\ output' = output
    BY <1>1, <1>7 DEF to, consumerVars, coreVars
  <2>5. Continues(Log, consumed, 0) /\ Continues(Log, output, handled)
        /\ Len(consumed) = IF handled > startup THEN handled ELSE startup
    BY DEF IInv, DeliveredInOrder
  <2>6. Continues(Log, queue', to + Len(outgoing') + Len(pending'))
    BY <1>4, <2>2
  <2>7. Continues(Log, unsent, to + Len(outgoing') + Len(pending') + Len(queue'))
    BY <1>3, <2>3
  <2>8. replayed = to + Len(outgoing') + Len(pending') + Len(queue') + Len(unsent)
    BY <1>3, <2>3
  <2>9. Continues(Log, pending', to + Len(outgoing'))
    BY <1>7
  <2> QED BY <1>7, <1>8, <2>4, <2>5, <2>6, <2>7, <2>8, <2>9 DEF DeliveredInOrder, to
<1> QED BY <1>9, <1>10, <1>12, <1>13 DEF IInv

(* The finalized commits are sent to the consumer. *)
LEMMA SendFinalizedStep ==
  ASSUME IInv, SendFinalized
  PROVE  IInv'
<1> USE Zenon
<1> USE DEF SendFinalized, blockVars, coreVars, consumerVars
<1>1. Log' = Log /\ gc_round' = gc_round /\ LastStored' = LastStored
  BY DEF Log, gc_round, LastStored
<1>2. /\ handled \in Nat /\ output \in Seq(Commit) /\ outgoing \in Seq(Commit)
      /\ Continues(Log, output, handled) /\ Continues(Log, outgoing, handled + Len(output))
  BY DEF IInv, DeliveredInOrder, TypeOK
<1>3. /\ output' \in Seq(Commit) /\ Len(output') = Len(output) + Len(outgoing)
      /\ Continues(Log, output', handled)
  BY <1>2, ContinuesConcat
<1>4. /\ outgoing' \in Seq(Commit) /\ Len(outgoing') = 0 /\ RangeOf(outgoing') = {}
      /\ Continues(Log, outgoing', handled + Len(output'))
  BY ContinuesEmpty
<1>5. TypeOK'
  BY <1>3, <1>4 DEF IInv, TypeOK
<1>6. StatusesExact' /\ WalkNeverMisses' /\ StoreReplayable' /\ StoredDagOK' /\ ThreadsOK'
  BY <1>1 DEF IInv, StatusesExact, WalkNeverMisses, StoreReplayable, StoredDagOK, ThreadsOK
<1>7. DeliveredIsPersisted'
  <2>1. RangeOf(output') = RangeOf(output) \cup RangeOf(outgoing)
    BY <1>2, RangeConcat
  <2> QED BY <1>4, <2>1 DEF IInv, DeliveredIsPersisted
<1>8. handled + Len(output') + Len(outgoing') = handled + Len(output) + Len(outgoing)
  <2>1. handled \in Nat /\ Len(output) \in Nat /\ Len(outgoing) \in Nat
        /\ Len(output') = Len(output) + Len(outgoing) /\ Len(outgoing') = 0
    BY <1>3, <1>4, StateFacts
  <2> HIDE DEF SendFinalized
  <2> QED BY SMT, <2>1
<1>9. DeliveredInOrder'
  BY <1>1, <1>3, <1>4, <1>8 DEF IInv, DeliveredInOrder
<1> QED BY <1>1, <1>5, <1>6, <1>7, <1>9 DEF IInv

(* The consumer handles a commit. *)
LEMMA ConsumeStep ==
  ASSUME IInv, Consume
  PROVE  IInv'
<1> USE Zenon
<1> USE DEF Consume, blockVars, coreVars
<1>1. Log' = Log /\ gc_round' = gc_round /\ LastStored' = LastStored
  BY DEF Log, gc_round, LastStored
<1> DEFINE c == Head(output)
<1>2. /\ handled \in Nat /\ output \in Seq(Commit) /\ output # <<>> /\ Continues(Log, output, handled)
      /\ consumed \in Seq(Commit) /\ Continues(Log, consumed, 0) /\ startup \in Nat
      /\ Len(consumed) = IF handled > startup THEN handled ELSE startup
  BY DEF IInv, DeliveredInOrder, TypeOK
<1>3. /\ c \in Commit /\ c \in Log /\ c.index = handled + 1
      /\ output' \in Seq(Commit) /\ Len(output') = Len(output) - 1
      /\ Continues(Log, output', handled + 1)
  BY <1>2, ContinuesTail
<1>4. c \in RangeOf(output) /\ RangeOf(output') \subseteq RangeOf(output)
  <2>1. c = output[1] /\ Len(output) > 0 /\ Len(output) \in Nat
    BY SMT, <1>2, SeqFacts
  <2>2. \A i \in 1 .. Len(output) - 1 : output'[i] = output[i + 1]
    BY SMT, <1>2, <1>3
  <2>3. \A i \in 1 .. Len(output) - 1 : i + 1 \in 1 .. Len(output)
    BY SMT, <2>1
  <2>4. DOMAIN output = 1 .. Len(output) /\ DOMAIN output' = 1 .. Len(output) - 1
    BY <1>2, <1>3, SeqFacts
  <2> QED BY SMT, <2>1, <2>2, <2>3, <2>4 DEF RangeOf
<1> HIDE DEF c
<1>5. /\ consumed' \in Seq(Commit) /\ Continues(Log, consumed', 0)
      /\ Len(consumed) <= Len(consumed')
      /\ Len(consumed') = IF handled + 1 > startup THEN handled + 1 ELSE startup
      /\ RangeOf(consumed') \subseteq RangeOf(consumed) \cup {c}
  <2>1. CASE c.index <= startup
    <3>1. consumed' = consumed
      BY <2>1 DEF c
    <3> QED BY SMT, <1>2, <1>3, <2>1, <3>1, SeqFacts
  <2>2. CASE ~ (c.index <= startup)
    <3>1. consumed' = Append(consumed, c)
      BY <2>2 DEF c
    <3>2. Len(consumed) = handled /\ handled + 1 > startup
      BY SMT, <1>2, <1>3, <2>2
    <3>3. c.index = 0 + Len(consumed) + 1
      BY SMT, <1>2, <1>3, <3>2
    <3>4. /\ consumed' \in Seq(Commit) /\ Continues(Log, consumed', 0)
          /\ Len(consumed') = Len(consumed) + 1
      BY SMTT(60), <1>2, <1>3, <3>1, <3>3, ContinuesAppend
    <3>5. RangeOf(consumed') = RangeOf(consumed) \cup {c}
      BY <1>2, <1>3, <3>1, RangeAppend
    <3> QED BY SMT, <1>2, <3>2, <3>4, <3>5
  <2> QED BY <2>1, <2>2
<1>6. handled' = handled + 1
  BY <1>3 DEF c
<1>7. TypeOK'
  <2>1. durable \in 0 .. Len(consumed')
    BY SMT, <1>5, SeqFacts, StateFacts DEF IInv, TypeOK
  <2>2. handled' \in Nat
    <3> HIDE DEF Consume
    <3> QED BY SMT, <1>2, <1>6
  <2> QED BY <1>2, <1>3, <1>5, <2>1, <2>2 DEF IInv, TypeOK
<1>8. StatusesExact' /\ WalkNeverMisses' /\ StoreReplayable' /\ StoredDagOK' /\ ThreadsOK'
  BY <1>1 DEF IInv, StatusesExact, WalkNeverMisses, StoreReplayable, StoredDagOK, ThreadsOK
<1>9. DeliveredIsPersisted'
  BY <1>4, <1>5 DEF IInv, DeliveredIsPersisted
<1>10. handled' + Len(output') = handled + Len(output)
  <2>1. Len(output') = Len(output) - 1 /\ Len(output) \in Nat /\ handled \in Nat
    BY <1>3, StateFacts
  <2> QED BY SMT, <1>6, <2>1
<1>11. DeliveredInOrder'
  <2>1. Len(consumed') = IF handled' > startup' THEN handled' ELSE startup'
    BY <1>5, <1>6
  <2>2. Continues(Log, output', handled')
    BY <1>3, <1>6
  <2> QED BY <1>1, <1>5, <1>10, <2>1, <2>2 DEF IInv, DeliveredInOrder
<1> QED BY <1>1, <1>7, <1>8, <1>9, <1>11 DEF IInv

(* Effects of the consumer become durable. *)
LEMMA CommitOutputsStep ==
  ASSUME IInv, NEW k \in (durable + 1) .. Len(consumed), CommitOutputs(k)
  PROVE  IInv'
<1> USE Zenon
<1> USE DEF CommitOutputs, blockVars, coreVars, finalizerVars
<1>1. Log' = Log /\ gc_round' = gc_round /\ LastStored' = LastStored
  BY DEF Log, gc_round, LastStored
<1>2. TypeOK'
  <2>1. k \in 0 .. Len(consumed)
    BY SMTT(60), StateFacts DEF IInv, TypeOK
  <2> QED BY <2>1 DEF IInv, TypeOK
<1>3. StatusesExact' /\ WalkNeverMisses' /\ StoreReplayable' /\ StoredDagOK' /\ ThreadsOK'
  BY <1>1 DEF IInv, StatusesExact, WalkNeverMisses, StoreReplayable, StoredDagOK, ThreadsOK
<1>4. DeliveredIsPersisted' /\ DeliveredInOrder'
  BY <1>1 DEF IInv, DeliveredIsPersisted, DeliveredInOrder
<1> QED BY <1>1, <1>2, <1>3, <1>4 DEF IInv

(* A crash takes back no commit that was delivered, and the flags rebuilt  *)
(* from the store are exact: a block above the GC round is in a commit     *)
(* whose leader is above it.                                               *)
LEMMA RestartStep ==
  ASSUME IInv, Restart
  PROVE  IInv'
<1> USE Zenon
<1> DEFINE M == stored.commits
           last == LastOf(M)
           gc == GcRoundOf(CommitRound(last))
<1>1. LogOK(Log, last_commit, accepted) /\ M \in SUBSET Log
  BY StateFacts DEF IInv
<1>2. StoreReplayable /\ TypeOK /\ StoredDagOK
  BY DEF IInv
<1>3. /\ \A c \in M : c.blocks \subseteq stored.blocks
      /\ \A c \in M : \A i \in 1 .. c.index : \E d \in M : d.index = i
  BY <1>2 DEF StoreReplayable
<1>4. LogOK(M, last, stored.blocks)
  <2> HIDE DEF M, last
  <2>1. LogOK(M, LastOf(M), stored.blocks)
    BY <1>1, <1>3, LogPrefix
  <2> QED BY <2>1 DEF last
<1>5. Log' = M /\ last_commit' = last /\ accepted' = stored.blocks /\ gc_round' = gc
  BY ContinuesEmpty DEF Restart, Log, LastStored, gc_round
<1>6. gc \in Nat /\ last.index \in Nat
  <2>1. CommitRound(last) \in Nat
    <3> HIDE DEF last, M
    <3> QED BY <1>4, CommitRoundFacts
  <2> HIDE DEF last, M
  <2> QED BY SMT, <1>4, <2>1, GcFacts DEF LogOK
<1>7. stored.blocks \subseteq Block /\ M \subseteq Commit /\ \A b \in Block : Round[b] \in Nat
  BY <1>2, DagAssumption DEF TypeOK
<1>8. cached' \subseteq stored.blocks /\ \A b \in stored.blocks : Round[b] > gc => b \in cached'
  BY SMTT(60), <1>6, <1>7 DEF Restart, LastStored, Unevicted, Evicted
<1>9. committed' = {b \in UNION {c.blocks : c \in {c \in M : Round[c.leader] > gc}} : Round[b] > gc}
  BY DEF Restart, RecoveredStatuses, LastStored
<1> HIDE DEF gc, last, M
<1>10. \A c \in M : c.blocks \subseteq stored.blocks /\ c.leader \in Block
                    /\ \A b \in c.blocks : Round[b] <= Round[c.leader]
  BY <1>4 DEF LogOK, CommitOK, Commit
<1>11. \A b \in Block : Round[b] > gc => (b \in committed' <=> \E c \in M : b \in c.blocks)
  <2> SUFFICES ASSUME NEW b \in Block, Round[b] > gc
               PROVE  b \in committed' <=> \E c \in M : b \in c.blocks
    OBVIOUS
  <2>1. ASSUME NEW c \in M, b \in c.blocks PROVE Round[c.leader] > gc
    BY SMTT(60), <1>6, <1>7, <1>10, <2>1
  <2> QED BY <1>9, <2>1
<1>12. committed' \subseteq cached'
  BY <1>8, <1>9, <1>10
<1>13. ReplayAfter \in Nat /\ ReplayAfter <= durable /\ durable \in 0 .. Len(consumed)
  BY SMTT(60), <1>2, ConstantsAssumption, StateFacts DEF ReplayAfter, TypeOK
<1>14. consumed \in Seq(Commit) /\ Continues(M, consumed, 0)
  <2>1. Continues(Log, consumed, 0) /\ RangeOf(consumed) \subseteq M
    BY DEF IInv, DeliveredInOrder, DeliveredIsPersisted, M
  <2> QED BY <1>2, <2>1 DEF Continues, RangeOf, TypeOK
<1>15. /\ consumed' \in Seq(Commit) /\ Len(consumed') = durable /\ Continues(M, consumed', 0)
  BY SMT, <1>13, <1>14, ContinuesCut DEF Restart
<1>16. durable <= last.index
  <2>1. CASE durable = 0
    BY SMT, <1>6, <2>1
  <2>2. CASE durable # 0
    <3>1. durable \in DOMAIN consumed
      BY SMT, <1>13, <1>14, <2>2, SeqFacts
    <3>2. consumed[durable] \in M /\ consumed[durable].index = 0 + durable
      BY <1>14, <3>1 DEF Continues
    <3>3. consumed[durable].index <= last.index
      BY <1>4, <3>2 DEF LogOK
    <3> QED BY SMT, <1>13, <3>2, <3>3
  <2> QED BY <2>1, <2>2
<1>17. /\ commits_to_write' = <<>> /\ unsent' = <<>> /\ queue' = <<>> /\ pending' = <<>>
       /\ outgoing' = <<>> /\ output' = <<>> /\ collected' = NoCommit
       /\ replayed' = ReplayAfter /\ handled' = ReplayAfter /\ startup' = durable
       /\ durable' = durable /\ stored' = stored /\ restarts' \in 0 .. MaxRestarts
  BY SMTT(60), <1>2, ConstantsAssumption DEF Restart, TypeOK
<1>18. TypeOK'
  <2>1. last \in Commit \cup {NoCommit}
    BY <1>4, <1>7 DEF LogOK
  <2>2. durable' \in 0 .. Len(consumed')
    BY SMT, <1>13, <1>15, <1>17
  <2>3. <<>> \in Seq(Commit)
    BY ContinuesEmpty
  <2>4. durable \in Nat
    BY SMT, <1>13
  <2> QED BY <1>2, <1>5, <1>7, <1>8, <1>12, <1>13, <1>15, <1>17, <2>1, <2>2, <2>3, <2>4 DEF TypeOK
<1>19. StatusesExact'
  <2>1. NoCommit.blocks = {}
    BY DEF NoCommit
  <2> QED BY <1>5, <1>11, <1>17, <2>1 DEF StatusesExact
<1>20. WalkNeverMisses'
  <2>1. \A b \in stored.blocks : \A a \in Ancestors[b] : Round[a] > gc => a \in stored.blocks
    BY <1>2 DEF StoredDagOK, LastStored, gc, last, M
  <2> QED BY <1>5, <1>8, <2>1 DEF WalkNeverMisses
<1>21. StoreReplayable' /\ StoredDagOK'
  BY <1>2, <1>5, <1>17 DEF StoreReplayable, StoredDagOK, LastStored
<1>22. ThreadsOK'
  <2>1. ReplayAfter <= last.index
    BY SMTT(60), <1>6, <1>13, <1>16
  <2>2. ReplayAfter < last.index => last \in M
    <3>1. last = NoCommit => last.index = 0
      BY SMTT(60) DEF NoCommit
    <3> QED BY SMT, <1>4, <1>13, <3>1 DEF LogOK
  <2> QED BY <1>5, <1>17, <2>1, <2>2 DEF ThreadsOK, M
<1>23. DeliveredIsPersisted'
  <2>1. RangeOf(consumed') \subseteq M
    BY <1>15 DEF Continues, RangeOf
  <2> QED BY <1>17, <2>1, ContinuesEmpty DEF DeliveredIsPersisted, M
<1>24. DeliveredInOrder'
  <2>1. Len(consumed') = IF handled' > startup' THEN handled' ELSE startup'
    BY SMT, <1>13, <1>15, <1>17
  <2>2. Len(<<>>) = 0 /\ \A m : Continues(M, <<>>, m)
    BY ContinuesEmpty
  <2>3. replayed' = handled' + 0 + 0 + 0 + 0 + 0
    BY SMT, <1>13, <1>17
  <2> QED BY <1>5, <1>15, <1>17, <2>1, <2>2, <2>3 DEF DeliveredInOrder
<1> QED BY <1>4, <1>5, <1>17, <1>18, <1>19, <1>20, <1>21, <1>22, <1>23, <1>24 DEF IInv

(* A batch of stored commits is replayed. *)
LEMMA RecoverStep ==
  ASSUME IInv, RecoverBatch
  PROVE  IInv'
<1> USE Zenon
<1> DEFINE k == BatchLen
           commits == [i \in 1 .. k |-> CommitAt(replayed + i)]
<1>1. /\ replayed < last_commit.index /\ last_commit \in stored.commits
      /\ unsent = <<>> /\ collected = NoCommit
  <2>1. replayed <= last_commit.index /\ replayed # last_commit.index
        /\ replayed \in Nat /\ last_commit.index \in Nat
    BY StateFacts DEF IInv, ThreadsOK, RecoverBatch, Recovered
  <2>2. replayed < last_commit.index
    BY SMT, <2>1
  <2> QED BY <2>2 DEF IInv, ThreadsOK
<1>2. k \in Nat /\ replayed + k <= last_commit.index
  <2>1. replayed < last_commit.index /\ replayed \in Nat /\ last_commit.index \in Nat /\ BatchSize \in Nat
    BY <1>1, StateFacts, ConstantsAssumption
  <2> QED BY SMT, <2>1 DEF BatchLen
<1> HIDE DEF k
<1>3. ASSUME NEW i \in 1 .. k
      PROVE  /\ commits[i] \in stored.commits /\ commits[i] \in Commit
             /\ commits[i].index = replayed + i
  <2>1. replayed + i \in 1 .. last_commit.index
    <3>1. k \in Nat /\ replayed + k <= last_commit.index /\ replayed \in Nat /\ last_commit.index \in Nat
      BY <1>2, StateFacts
    <3> QED BY SMT, <3>1
  <2>2. \E d \in stored.commits : d.index = replayed + i
    BY <1>1, <2>1 DEF IInv, StoreReplayable
  <2>3. CommitAt(replayed + i) \in stored.commits /\ CommitAt(replayed + i).index = replayed + i
    BY <2>2 DEF CommitAt
  <2> QED BY <2>3, StateFacts
<1>4. /\ commits_to_write' = commits_to_write \o commits /\ queue' = queue \o commits
      /\ replayed' = replayed + k
  BY DEF RecoverBatch, k
<1>5. UNCHANGED <<accepted, cached, committed, last_commit, stored, collected, unsent,
                  pending, outgoing, output, consumed, handled, durable, startup, restarts>>
  BY DEF RecoverBatch, blockVars, consumerVars
<1>6. DOMAIN commits = 1 .. k
  OBVIOUS
<1>7. commits \in [1 .. k -> Commit]
  BY <1>3
<1> HIDE DEF commits
<1>8. commits \in Seq(Commit) /\ Len(commits) = k
  BY SMT, <1>2, <1>6, <1>7
<1>9. RangeOf(commits) \subseteq stored.commits
  BY <1>3, <1>6 DEF RangeOf
<1>10. commits_to_write \in Seq(Commit) /\ queue \in Seq(Commit)
  BY DEF IInv, TypeOK
<1>11. commits_to_write' \in Seq(Commit)
       /\ RangeOf(commits_to_write') = RangeOf(commits_to_write) \cup RangeOf(commits)
  BY <1>4, <1>8, <1>10, RangeConcat
<1>12. Log' = Log /\ gc_round' = gc_round /\ LastStored' = LastStored
  BY <1>5, <1>9, <1>11 DEF Log, gc_round, LastStored
<1> DEFINE to == handled + Len(output) + Len(outgoing) + Len(pending)
<1>13. /\ to \in Nat /\ Continues(Log, queue, to) /\ replayed = to + Len(queue)
  <2>1. Len(unsent) = 0
    BY <1>1, ContinuesEmpty
  <2>2. replayed = to + Len(queue) + Len(unsent) /\ Continues(Log, queue, to)
    BY DEF IInv, DeliveredInOrder
  <2>3. /\ handled \in Nat /\ Len(output) \in Nat /\ Len(outgoing) \in Nat /\ Len(pending) \in Nat
        /\ Len(queue) \in Nat
    BY StateFacts
  <2>4. to \in Nat
    BY SMT, <2>3
  <2> HIDE DEF to
  <2>5. replayed = to + Len(queue)
    BY SMT, <2>1, <2>2, <2>3, <2>4
  <2> QED BY <2>2, <2>4, <2>5
<1> HIDE DEF to
<1>14. Continues(Log, commits, to + Len(queue))
  BY <1>3, <1>6, <1>13, StateFacts DEF Continues
<1>15. queue' \in Seq(Commit) /\ Len(queue') = Len(queue) + k /\ Continues(Log, queue', to)
  <2>1. to \in Nat /\ queue \in Seq(Commit) /\ commits \in Seq(Commit)
        /\ Continues(Log, queue, to) /\ Continues(Log, commits, to + Len(queue))
    BY <1>8, <1>10, <1>13, <1>14
  <2>2. /\ queue \o commits \in Seq(Commit) /\ Len(queue \o commits) = Len(queue) + Len(commits)
        /\ Continues(Log, queue \o commits, to)
    BY <2>1, ContinuesConcat
  <2> QED BY <1>4, <1>8, <2>2
<1>16. TypeOK'
  <2>1. replayed' \in Nat
    <3>1. replayed \in Nat /\ k \in Nat /\ replayed' = replayed + k
      BY <1>2, <1>4, StateFacts
    <3> QED BY SMT, <3>1
  <2> QED BY <1>5, <1>11, <1>15, <2>1 DEF IInv, TypeOK
<1>17. LogOK(Log, last_commit, accepted)'
  BY <1>5, <1>12 DEF IInv
<1>18. StatusesExact' /\ WalkNeverMisses' /\ StoreReplayable' /\ StoredDagOK'
  BY <1>5, <1>12 DEF IInv, StatusesExact, WalkNeverMisses, StoreReplayable, StoredDagOK
<1>19. ThreadsOK'
  BY <1>1, <1>2, <1>4, <1>5 DEF ThreadsOK
<1>20. DeliveredIsPersisted'
  BY <1>5 DEF IInv, DeliveredIsPersisted
<1>21. DeliveredInOrder'
  <2>1. Len(unsent) = 0 /\ Continues(Log, unsent, to + Len(queue'))
    BY <1>1, ContinuesEmpty
  <2>2. replayed' = to + Len(queue') + Len(unsent)
    <3>1. to \in Nat /\ k \in Nat /\ Len(queue) \in Nat
      BY <1>2, <1>13, StateFacts
    <3>2. replayed' = (to + Len(queue)) + k /\ Len(queue') = Len(queue) + k /\ Len(unsent) = 0
      BY <1>4, <1>13, <1>15, <2>1
    <3> QED BY SMT, <3>1, <3>2
  <2> QED BY <1>5, <1>12, <1>15, <2>1, <2>2 DEF IInv, DeliveredInOrder, to
<1> QED BY <1>1, <1>5, <1>16, <1>17, <1>18, <1>19, <1>20, <1>21 DEF IInv

(* Every step preserves the invariant. *)
LEMMA NextIInv ==
  ASSUME IInv, [Next]_vars
  PROVE  IInv'
<1>1. CASE \E b \in Block : AcceptBlock(b)
  BY Zenon, <1>1, AcceptStep
<1>2. CASE CollectSubDag
  BY Zenon, <1>2, CollectStep
<1>3. CASE AddCommit
  BY <1>3, AddStep
<1>4. CASE SendToFinalizer
  BY <1>4, SendStep
<1>5. CASE CoreFlush
  BY <1>5, CoreFlushStep
<1>6. CASE \E n \in Finalizable : ProcessCommit(n)
  BY Zenon, <1>6, ProcessStep
<1>7. CASE SendFinalized
  BY <1>7, SendFinalizedStep
<1>8. CASE Consume
  BY <1>8, ConsumeStep
<1>9. CASE \E k \in (durable + 1) .. Len(consumed) : CommitOutputs(k)
  BY Zenon, <1>9, CommitOutputsStep
<1>10. CASE Restart
  BY <1>10, RestartStep
<1>11. CASE RecoverBatch
  BY <1>11, RecoverStep
<1>12. CASE UNCHANGED vars
  <2> USE <1>12 DEF vars
  <2>1. Log' = Log /\ gc_round' = gc_round /\ LastStored' = LastStored
    BY Zenon DEF Log, gc_round, LastStored
  <2>2. TypeOK' /\ LogOK(Log, last_commit, accepted)'
        /\ (collected = NoCommit \/ NextOK(Log, last_commit, collected, accepted))'
    BY Zenon, <2>1 DEF IInv, TypeOK
  <2>3. StatusesExact' /\ WalkNeverMisses' /\ StoreReplayable' /\ StoredDagOK' /\ ThreadsOK'
    BY Zenon, <2>1 DEF IInv, StatusesExact, WalkNeverMisses, StoreReplayable, StoredDagOK, ThreadsOK
  <2>4. DeliveredIsPersisted' /\ DeliveredInOrder'
    BY Zenon, <2>1 DEF IInv, DeliveredIsPersisted, DeliveredInOrder
  <2> QED BY Zenon, <2>2, <2>3, <2>4 DEF IInv
<1> QED BY Zenon, <1>1, <1>2, <1>3, <1>4, <1>5, <1>6, <1>7, <1>8, <1>9, <1>10, <1>11, <1>12 DEF Next

(* The inductive invariant holds in every reachable state. *)
LEMMA Invariance == Spec => []IInv
<1>1. Init => IInv
  BY Zenon, InitIInv
<1>2. IInv /\ [Next]_vars => IInv'
  BY Zenon, NextIInv
<1> QED BY <1>1, <1>2, PTL DEF Spec

-----------------------------------------------------------------------------
(* The theorems.                                                           *)

(* DagState, the queues and the consumer keep their types. *)
THEOREM TypesHold == Spec => []TypeOK
<1>1. IInv => TypeOK
  BY Zenon DEF IInv
<1> QED BY <1>1, Invariance, PTL

(* The commits Linearizer builds are a function of the leader sequence,    *)
(* whatever is flushed, evicted or lost in a crash in between.             *)
THEOREM LogDetermined == Spec => []LogIsLinearization
<1>1. IInv => LogIsLinearization
  BY Zenon DEF IInv, LogOK, CommitOK, LogIsLinearization
<1> QED BY <1>1, Invariance, PTL

(* No block is committed twice, so the assertions on set_committed hold. *)
THEOREM NoDoubleCommit == Spec => []CommittedOnce
<1>1. IInv => CommittedOnce
  <2>1. NoCommit.blocks = {}
    BY Zenon DEF NoCommit
  <2> QED BY Zenon, <2>1 DEF IInv, LogOK, NextOK, CommittedOnce
<1> QED BY <1>1, Invariance, PTL

(* The committed flags of DagState are exact above the GC round, also when *)
(* DagState::new has rebuilt them.                                         *)
THEOREM FlagsExact == Spec => []StatusesExact
<1>1. IInv => StatusesExact
  BY Zenon DEF IInv
<1> QED BY <1>1, Invariance, PTL

(* The walk of Linearizer finds every block it asks DagState for. *)
THEOREM CacheSuffices == Spec => []WalkNeverMisses
<1>1. IInv => WalkNeverMisses
  BY Zenon DEF IInv
<1> QED BY <1>1, Invariance, PTL

(* The store can be replayed by CommitObserver after a crash at any point. *)
THEOREM ReplayPossible == Spec => []StoreReplayable
<1>1. IInv => StoreReplayable
  BY Zenon DEF IInv
<1> QED BY <1>1, Invariance, PTL

(* CommitFinalizer sends nothing on that is not in the store. *)
THEOREM PersistedFirst == Spec => []DeliveredIsPersisted
<1>1. IInv => DeliveredIsPersisted
  BY Zenon DEF IInv
<1> QED BY <1>1, Invariance, PTL

(* The consumer gets the commits in order, without gap or repetition, over *)
(* any number of crashes.                                                  *)
THEOREM InOrderDelivery == Spec => []DeliveredInOrder
<1>1. IInv => DeliveredInOrder
  BY Zenon DEF IInv
<1> QED BY <1>1, Invariance, PTL
=============================================================================
