------------------------ MODULE CommitFinalizerProofs ------------------------
(***************************************************************************)
(* The queue of the commit finalizer, the garbage collection of votes and  *)
(* the verdicts, for every DAG with its commits and votes, every           *)
(* committee, every order in which votes and commits arrive, and every     *)
(* number of crashes.                                                      *)
(*                                                                         *)
(* The queue comes first, with the invariant IInv, then what votes in the  *)
(* DAG imply for each other, and at last the invariant VInv behind the     *)
(* verdicts.                                                               *)
(***************************************************************************)
EXTENDS CommitFinalizer, WellFoundedInduction, TLAPS

(* A non-empty set of naturals has a least element. *)
LEMMA MinExists ==
  ASSUME NEW S \in SUBSET Nat, S # {}
  PROVE  \E m \in S : \A k \in S : m <= k
<1> DEFINE R == OpToRel(<, Nat)
<1>1. IsWellFoundedOn(R, Nat)
  BY Zenon, NatLessThanWellFounded
<1>2. PICK m \in S : \A k \in S : ~(<<k, m>> \in R)
  <2> HIDE DEF R
  <2> QED BY Zenon, <1>1, WFMin
<1>3. \A k \in S : ~(k < m)
  BY Zenon, <1>2 DEF OpToRel
<1> HIDE DEF R
<1> QED BY <1>3

(* A set of naturals with an upper bound in Nat has a greatest element. *)
LEMMA MaxExists ==
  ASSUME NEW S \in SUBSET Nat, S # {}, NEW u \in Nat, \A k \in S : k <= u
  PROVE  \E m \in S : \A k \in S : k <= m
<1> DEFINE T == {u - k : k \in S}
<1>1. T \in SUBSET Nat /\ T # {}
  <2>1. \A k \in S : u - k \in Nat
    OBVIOUS
  <2> QED BY Zenon, <2>1
<1>2. PICK t \in T : \A j \in T : t <= j
  <2> HIDE DEF T
  <2> QED BY Zenon, <1>1, MinExists
<1>3. PICK m \in S : t = u - m
  BY Zenon
<1>4. \A k \in S : u - m <= u - k
  BY Zenon, <1>2, <1>3
<1> QED BY <1>4

CommitState ==
  [index : Nat, decided_with_local_blocks : BOOLEAN, pending_blocks : SUBSET Block,
   pending_transactions : SUBSET Block, rejected_transactions : SUBSET Block]

(* The commits after the given one, one after the other. *)
Queue(cs, from) ==
  /\ cs \in Seq(CommitState)
  /\ \A k \in 1 .. Len(cs) : cs[k].index = from + k

(* The number of commits that are finalized. *)
Done == processed - Len(pending_commits)

(* The inductive invariant: the pending commits are the last ones          *)
(* processed, all before them are finalized and so is every commit before  *)
(* a finalized one, and the GC round is that of a finalized commit.        *)
IInv ==
  /\ dag \in Dags
  /\ processed \in 0 .. Len(dag.commits) /\ Len(pending_commits) <= processed
  /\ Queue(pending_commits, Done)
  /\ \A o \in output :
       /\ o.index \in 1 .. Len(dag.commits)
       /\ \A i \in 1 .. o.index : \E p \in output : p.index = i
  /\ gc = 0 \/ \E i \in 1 .. Done : gc = CalculateGcRound(LeaderRound(i))
  /\ TypeOK /\ NoneOverdue

-----------------------------------------------------------------------------
(* The DAG.                                                                *)

(* The commits of a DAG. *)
LEMMA DagFacts ==
  ASSUME dag \in Dags
  PROVE  /\ Len(dag.commits) \in Nat /\ DOMAIN dag.commits = 1 .. Len(dag.commits)
         /\ \A i \in 1 .. Len(dag.commits) : /\ dag.commits[i].blocks \in SUBSET Block
                                             /\ LeaderRound(i) \in Nat
         /\ \A j \in 1 .. Len(dag.commits) : \A i \in 1 .. j - 1 :
              /\ LeaderRound(i) < LeaderRound(j)
              /\ \A b \in dag.commits[j].blocks : Round[b] > CalculateGcRound(LeaderRound(i))
<1> USE Zenon
<1>1. dag.commits \in Seq([leader : Block, blocks : SUBSET Block])
  BY FinalizerAssumption
<1>2. /\ Len(dag.commits) \in Nat /\ DOMAIN dag.commits = 1 .. Len(dag.commits)
      /\ \A i \in 1 .. Len(dag.commits) :
           dag.commits[i] \in [leader : Block, blocks : SUBSET Block]
  <2> DEFINE cs == dag.commits
             T == [leader : Block, blocks : SUBSET Block]
  <2>1. cs \in Seq(T)
    BY <1>1
  <2> HIDE DEF cs, T
  <2>2. Len(cs) \in Nat /\ DOMAIN cs = 1 .. Len(cs) /\ \A i \in 1 .. Len(cs) : cs[i] \in T
    BY SMT, <2>1
  <2> QED BY <2>2 DEF cs, T
<1>3. \A i \in 1 .. Len(dag.commits) :
        dag.commits[i].blocks \in SUBSET Block /\ dag.commits[i].leader \in Block
  BY <1>2
<1>4. \A i \in 1 .. Len(dag.commits) : LeaderRound(i) \in Nat
  BY <1>3, FinalizerAssumption DEF LeaderRound
<1>5. \A j \in DOMAIN dag.commits : \A i \in 1 .. j - 1 :
        /\ LeaderRound(i) < LeaderRound(j)
        /\ \A b \in dag.commits[j].blocks : Round[b] > CalculateGcRound(LeaderRound(i))
  <2>1. Committed(dag)
    BY DagsAssumption
  <2>2. ASSUME NEW j \in DOMAIN dag.commits, NEW i \in 1 .. j - 1 PROVE LeaderRound(i) < LeaderRound(j)
    BY <2>1 DEF Committed, LeaderRound
  <2>3. ASSUME NEW j \in DOMAIN dag.commits, NEW i \in 1 .. j - 1, NEW b \in dag.commits[j].blocks
        PROVE  Round[b] > CalculateGcRound(LeaderRound(i))
    <3>1. b \in Block
      BY <1>2, <1>3
    <3> QED BY <2>1, <3>1 DEF Committed, LeaderRound
  <2> QED BY <2>2, <2>3
<1> QED BY <1>2, <1>3, <1>4, <1>5

-----------------------------------------------------------------------------
(* Sequences of commits.                                                   *)

(* Max is the greatest element. *)
LEMMA MaxFacts ==
  ASSUME NEW u \in Nat, NEW S \in SUBSET (0 .. u), S # {}
  PROVE  Max(S) \in S /\ \A m \in S : m <= Max(S)
<1>1. S \in SUBSET Nat /\ \A m \in S : m <= u
  OBVIOUS
<1>2. \E m \in S : \A k \in S : k <= m
  BY Zenon, <1>1, MaxExists
<1>3. \E m \in S : \A k \in S : m >= k
  BY Zenon, <1>1, <1>2
<1>4. Max(S) \in S /\ \A k \in S : Max(S) >= k
  BY Zenon, <1>3 DEF Max
<1> QED BY Zenon, <1>1, <1>4

(* The longest prefix of 1 .. len that lies in F. *)
LEMMA LongestFacts ==
  ASSUME NEW len \in Nat, NEW F, NEW S \in SUBSET (0 .. len),
         \A m \in 0 .. len : m \in S <=> \A k \in 1 .. m : k \in F,
         NEW n, n = Max(S)
  PROVE  /\ n \in 0 .. len
         /\ \A k \in 1 .. n : k \in F
         /\ n < len => n + 1 \notin F
         /\ \A m \in 0 .. len : (\A k \in 1 .. m : k \in F) => m <= n
<1>1. S \in SUBSET (0 .. len) /\ 0 \in S
  OBVIOUS
<1>2. n \in S /\ \A m \in S : m <= n
  BY Zenon, <1>1, MaxFacts
<1>3. n \in 0 .. len /\ \A k \in 1 .. n : k \in F
  BY Zenon, <1>2
<1>4. ASSUME n < len, n + 1 \in F PROVE FALSE
  <2>1. \A k \in 1 .. n + 1 : k \in F
    BY <1>3, <1>4
  <2>2. n + 1 \in S
    BY <1>3, <1>4, <2>1
  <2> QED BY <1>2, <1>3, <2>2
<1>5. \A m \in 0 .. len : (\A k \in 1 .. m : k \in F) => m <= n
  BY Zenon, <1>2
<1> QED BY Zenon, <1>3, <1>4, <1>5

(* What follows the first n elements. *)
LEMMA SuffixFacts ==
  ASSUME NEW S, NEW t \in Seq(S), NEW n \in 0 .. Len(t)
  PROVE  LET b == SubSeq(t, n + 1, Len(t)) IN
         /\ b \in Seq(S) /\ Len(b) = Len(t) - n
         /\ \A k \in 1 .. Len(t) - n : b[k] = t[n + k]
<1> DEFINE b == SubSeq(t, n + 1, Len(t))
<1>1. Len(t) \in Nat /\ n \in Nat /\ n + 1 \in 1 .. Len(t) + 1
  OBVIOUS
<1>2. b \in Seq(S)
  BY <1>1
<1>3. Len(b) = Len(t) - n
  BY <1>1
<1>4. \A k \in 1 .. Len(t) - n : b[k] = t[n + k]
  BY <1>1, <1>3
<1> QED BY Zenon, <1>2, <1>3, <1>4

(* The first n of one sequence and the rest of another. *)
Splice(s, t, n) == SubSeq(s, 1, n) \o SubSeq(t, n + 1, Len(t))

(* It is as long as the second, and has the elements of both. *)
LEMMA SpliceFacts ==
  ASSUME NEW s \in Seq(CommitState), NEW t \in Seq(CommitState),
         NEW n \in 0 .. Len(s), n \in 0 .. Len(t)
  PROVE  /\ Splice(s, t, n) \in Seq(CommitState) /\ Len(Splice(s, t, n)) = Len(t)
         /\ \A k \in 1 .. n : Splice(s, t, n)[k] = s[k]
         /\ \A k \in n + 1 .. Len(t) : Splice(s, t, n)[k] = t[k]
<1> DEFINE a == SubSeq(s, 1, n)
           b == SubSeq(t, n + 1, Len(t))
<1>1. Len(s) \in Nat /\ Len(t) \in Nat /\ n \in Nat
  OBVIOUS
<1>2. a \in Seq(CommitState) /\ Len(a) = n /\ \A k \in 1 .. n : a[k] = s[k]
  OBVIOUS
<1>3. b \in Seq(CommitState) /\ Len(b) = Len(t) - n /\ \A k \in 1 .. Len(t) - n : b[k] = t[n + k]
  BY Zenon, SuffixFacts
<1> HIDE DEF a, b
<1>4. a \o b \in Seq(CommitState) /\ Len(a \o b) = Len(t)
  <2>1. \A x \in Seq(CommitState), y \in Seq(CommitState) : x \o y \in Seq(CommitState) /\ Len(x \o y) = Len(x) + Len(y)
    OBVIOUS
  <2>2. n + (Len(t) - n) = Len(t)
    BY <1>1
  <2> QED BY Zenon, <1>2, <1>3, <2>1, <2>2
<1>5. ASSUME NEW k \in 1 .. n PROVE (a \o b)[k] = s[k]
  <2>1. k \in 1 .. Len(a) /\ a[k] = s[k]
    BY Zenon, <1>2
  <2>2. \A x \in Seq(CommitState), y \in Seq(CommitState) : \A i \in 1 .. Len(x) : (x \o y)[i] = x[i]
    OBVIOUS
  <2> QED BY Zenon, <1>2, <1>3, <2>1, <2>2
<1>6. ASSUME NEW k \in n + 1 .. Len(t) PROVE (a \o b)[k] = t[k]
  <2>1. k - n \in 1 .. Len(t) - n /\ n + (k - n) = k
    BY <1>1
  <2>2. (a \o b)[k] = b[k - n]
    BY <1>1, <1>2, <1>3
  <2> QED BY Zenon, <1>3, <2>1, <2>2
<1> QED BY Zenon, <1>4, <1>5, <1>6 DEF Splice, a, b

(* One sequence of commits after another. *)
LEMMA QueueConcat ==
  ASSUME NEW from \in Nat, NEW s, NEW t, Queue(s, from), Queue(t, from + Len(s))
  PROVE  Queue(s \o t, from) /\ Len(s \o t) = Len(s) + Len(t)
<1>1. s \in Seq(CommitState) /\ t \in Seq(CommitState) /\ Len(s) \in Nat /\ Len(t) \in Nat
  BY DEF Queue
<1>2. s \o t \in Seq(CommitState) /\ Len(s \o t) = Len(s) + Len(t)
  BY <1>1
<1>3. ASSUME NEW k \in 1 .. Len(s) + Len(t) PROVE (s \o t)[k].index = from + k
  <2>1. CASE k <= Len(s)
    <3>1. (s \o t)[k] = s[k] /\ k \in 1 .. Len(s)
      BY <1>1, <2>1
    <3> QED BY Zenon, <3>1 DEF Queue
  <2>2. CASE ~(k <= Len(s))
    <3>1. (s \o t)[k] = t[k - Len(s)] /\ k - Len(s) \in 1 .. Len(t)
      BY <1>1, <2>2
    <3>2. t[k - Len(s)].index = from + Len(s) + (k - Len(s))
      BY Zenon, <3>1 DEF Queue
    <3> QED BY <1>1, <3>1, <3>2
  <2> QED BY Zenon, <2>1, <2>2
<1> QED BY Zenon, <1>2, <1>3 DEF Queue

(* The first n of a sequence of commits, and the others. *)
LEMMA QueueSplit ==
  ASSUME NEW from \in Nat, NEW s, Queue(s, from), NEW n \in 0 .. Len(s)
  PROVE  /\ Queue(SubSeq(s, 1, n), from) /\ Len(SubSeq(s, 1, n)) = n
         /\ Queue(SubSeq(s, n + 1, Len(s)), from + n)
         /\ Len(SubSeq(s, n + 1, Len(s))) = Len(s) - n
         /\ \A k \in 1 .. Len(s) - n : SubSeq(s, n + 1, Len(s))[k] = s[n + k]
<1> DEFINE a == SubSeq(s, 1, n)
           b == SubSeq(s, n + 1, Len(s))
<1>1. s \in Seq(CommitState) /\ Len(s) \in Nat /\ n \in Nat
      /\ \A k \in 1 .. Len(s) : s[k].index = from + k
  BY DEF Queue
<1>2. a \in Seq(CommitState) /\ Len(a) = n /\ \A k \in 1 .. n : a[k] = s[k]
  BY <1>1
<1>3. /\ b \in Seq(CommitState) /\ Len(b) = Len(s) - n
      /\ \A k \in 1 .. Len(s) - n : b[k] = s[n + k]
  BY Zenon, <1>1, SuffixFacts
<1> HIDE DEF a, b
<1>4. Queue(a, from)
  BY <1>1, <1>2 DEF Queue
<1>5. ASSUME NEW k \in 1 .. Len(s) - n PROVE b[k].index = (from + n) + k
  <2>1. n + k \in 1 .. Len(s) /\ from + (n + k) = (from + n) + k
    BY <1>1
  <2> QED BY Zenon, <1>1, <1>3, <2>1
<1>6. Queue(b, from + n)
  BY Zenon, <1>3, <1>5 DEF Queue
<1> QED BY Zenon, <1>2, <1>3, <1>4, <1>6 DEF a, b

(* The blocks of a sequence of commits. *)
LEMMA BlocksOfQueue ==
  ASSUME NEW from \in Nat, NEW s, Queue(s, from)
  PROVE  BlocksOf(s) = UNION {dag.commits[i].blocks : i \in from + 1 .. from + Len(s)}
<1>1. DOMAIN s = 1 .. Len(s) /\ Len(s) \in Nat /\ \A k \in 1 .. Len(s) : s[k].index = from + k
  BY DEF Queue
<1>2. ASSUME NEW b \in BlocksOf(s)
      PROVE  b \in UNION {dag.commits[i].blocks : i \in from + 1 .. from + Len(s)}
  <2>1. PICK k \in 1 .. Len(s) : b \in dag.commits[s[k].index].blocks
    BY Zenon, <1>1 DEF BlocksOf
  <2>2. from + k \in from + 1 .. from + Len(s)
    BY <1>1
  <2>3. b \in dag.commits[from + k].blocks
    BY Zenon, <1>1, <2>1
  <2> QED BY Zenon, <2>2, <2>3
<1>3. ASSUME NEW i \in from + 1 .. from + Len(s), NEW b \in dag.commits[i].blocks
      PROVE  b \in BlocksOf(s)
  <2>1. i - from \in DOMAIN s /\ from + (i - from) = i
    BY <1>1
  <2>2. s[i - from].index = i
    BY Zenon, <1>1, <2>1
  <2> QED BY Zenon, <2>1, <2>2 DEF BlocksOf
<1> QED BY Zenon, <1>2, <1>3

Elements(s) == {s[k] : k \in DOMAIN s}

(* Part of a sequence has elements of it. *)
LEMMA SubSeqElements ==
  ASSUME NEW S, NEW s \in Seq(S), NEW n \in 0 .. Len(s)
  PROVE  /\ \A x \in Elements(SubSeq(s, 1, n)) : \E k \in 1 .. n : x = s[k]
         /\ Elements(SubSeq(s, n + 1, Len(s))) \subseteq Elements(s)
<1> DEFINE a == SubSeq(s, 1, n)
           b == SubSeq(s, n + 1, Len(s))
<1>1. Len(s) \in Nat /\ n \in Nat /\ DOMAIN s = 1 .. Len(s)
  OBVIOUS
<1>2. DOMAIN a = 1 .. n /\ \A k \in 1 .. n : a[k] = s[k]
  OBVIOUS
<1>3. b \in Seq(S) /\ Len(b) = Len(s) - n /\ \A k \in 1 .. Len(s) - n : b[k] = s[n + k]
  BY Zenon, SuffixFacts
<1> HIDE DEF a, b
<1>4. DOMAIN b = 1 .. Len(s) - n
  BY <1>3
<1>5. \A k \in 1 .. Len(s) - n : n + k \in 1 .. Len(s)
  BY <1>1
<1>6. ASSUME NEW x \in Elements(a) PROVE \E k \in 1 .. n : x = s[k]
  BY Zenon, <1>2 DEF Elements
<1>7. ASSUME NEW x \in Elements(b) PROVE x \in Elements(s)
  BY Zenon, <1>1, <1>3, <1>4, <1>5 DEF Elements
<1> QED BY Zenon, <1>6, <1>7 DEF a, b

(* A concatenation has the elements of both sequences. *)
LEMMA ConcatElements ==
  ASSUME NEW S, NEW s \in Seq(S), NEW t \in Seq(S)
  PROVE  Elements(s \o t) \subseteq Elements(s) \cup Elements(t)
<1>1. Len(s) \in Nat /\ Len(t) \in Nat /\ DOMAIN s = 1 .. Len(s) /\ DOMAIN t = 1 .. Len(t)
      /\ DOMAIN (s \o t) = 1 .. Len(s) + Len(t)
  OBVIOUS
<1>2. ASSUME NEW k \in 1 .. Len(s) + Len(t)
      PROVE  \/ k \in 1 .. Len(s) /\ (s \o t)[k] = s[k]
             \/ k - Len(s) \in 1 .. Len(t) /\ (s \o t)[k] = t[k - Len(s)]
  <2>1. CASE k <= Len(s)
    <3>1. (s \o t)[k] = s[k] /\ k \in 1 .. Len(s)
      BY <1>1, <2>1
    <3> QED BY Zenon, <3>1
  <2>2. CASE ~(k <= Len(s))
    <3>1. (s \o t)[k] = t[k - Len(s)] /\ k - Len(s) \in 1 .. Len(t)
      BY <1>1, <2>2
    <3> QED BY Zenon, <3>1
  <2> QED BY Zenon, <2>1, <2>2
<1>3. ASSUME NEW k \in DOMAIN (s \o t) PROVE (s \o t)[k] \in Elements(s) \cup Elements(t)
  <2>1. \/ k \in DOMAIN s /\ (s \o t)[k] = s[k]
        \/ \E j \in DOMAIN t : (s \o t)[k] = t[j]
    BY Zenon, <1>1, <1>2
  <2> QED BY Zenon, <2>1 DEF Elements
<1> QED BY Zenon, <1>3 DEF Elements

-----------------------------------------------------------------------------
(* The steps of process_commit.                                            *)

(* try_direct_finalize_commit takes all blocks of a commit out of the      *)
(* pending ones.                                                           *)
LEMMA DirectCommit ==
  ASSUME NEW c \in CommitState
  PROVE  /\ TryDirectFinalizeCommit(c) \in CommitState
         /\ TryDirectFinalizeCommit(c).index = c.index
         /\ TryDirectFinalizeCommit(c).pending_blocks = {}
<1> USE Zenon
<1> DEFINE pending == {b \in c.pending_blocks : RejectVoters(voted, b) # {}}
           rejected == {b \in pending : ReachedQuorum(RejectVoters(voted, b))}
           d == [c EXCEPT !.pending_blocks = {},
                          !.pending_transactions = pending \ rejected,
                          !.rejected_transactions = rejected]
<1>1. pending \in SUBSET Block /\ rejected \in SUBSET Block /\ pending \ rejected \in SUBSET Block
  BY DEF CommitState
<1>2. TryDirectFinalizeCommit(c) = d
  BY DEF TryDirectFinalizeCommit
<1> HIDE DEF pending, rejected
<1>3. d \in CommitState /\ d.index = c.index /\ d.pending_blocks = {}
  BY <1>1 DEF CommitState
<1> QED BY <1>2, <1>3

(* try_indirect_finalize_first_commit leaves nothing pending once the last *)
(* commit is far enough above.                                             *)
LEMMA IndirectCommit ==
  ASSUME NEW c \in CommitState, NEW last, NEW linked
  PROVE  LET d == TryIndirectFinalize(c, last, linked) IN
         /\ d \in CommitState /\ d.index = c.index /\ d.pending_blocks = c.pending_blocks
         /\ LeaderRound(c.index) + INDIRECT_REJECT_DEPTH <= LeaderRound(last.index)
              => d.pending_transactions = {}
<1> USE Zenon
<1> DEFINE late == {t \in c.pending_transactions : ReachedQuorum(RejectVoters(voted, t))}
           finalized == {t \in c.pending_transactions \ late :
                           ReachedQuorum(AcceptVoters(linked, t))}
           rest == c.pending_transactions \ (late \cup finalized)
           deep == LeaderRound(c.index) + INDIRECT_REJECT_DEPTH <= LeaderRound(last.index)
           more == late \cup (IF deep THEN rest ELSE {})
           left == IF deep THEN {} ELSE rest
           d == [c EXCEPT !.pending_transactions = left,
                          !.rejected_transactions = @ \cup late \cup (IF deep THEN rest ELSE {})]
           e == [c EXCEPT !.pending_transactions = left, !.rejected_transactions = @ \cup more]
<1>1. late \in SUBSET Block /\ rest \in SUBSET Block
  BY DEF CommitState
<1>2. TryIndirectFinalize(c, last, linked) = d
  BY DEF TryIndirectFinalize
<1>3. d = e
  <2> DEFINE r == c.rejected_transactions
  <2>1. (r \cup late) \cup (IF deep THEN rest ELSE {}) = r \cup more
    OBVIOUS
  <2> QED BY <2>1
<1>4. more \in SUBSET Block /\ left \in SUBSET Block
  <2> HIDE DEF late, rest, deep
  <2> QED BY <1>1
<1>5. deep => left = {}
  OBVIOUS
<1> HIDE DEF late, rest, deep, more, left
<1>6. e \in CommitState /\ e.index = c.index /\ e.pending_blocks = c.pending_blocks
      /\ e.pending_transactions = left
  BY <1>4 DEF CommitState
<1> QED BY <1>2, <1>3, <1>5, <1>6 DEF deep

(* What is popped from cs after the commits popped before. *)
Popped(r, popped, cs, from) ==
  /\ Queue(r.popped, from) /\ Queue(r.left, from + Len(r.popped))
  /\ r.blocks = BlocksOf(r.left)
  /\ \E n \in 0 .. Len(cs) :
       /\ Len(r.popped) = Len(popped) + n /\ Len(r.left) = Len(cs) - n
       /\ \A k \in 1 .. n : Finalized(cs[k])
       /\ \A k \in 1 .. Len(cs) - n : r.left[k] = cs[n + k]
       /\ n < Len(cs) => ~Finalized(cs[n + 1])
  /\ Elements(r.popped) \subseteq Elements(popped) \cup {c \in Elements(cs) : Finalized(c)}
  /\ Elements(r.left) \subseteq Elements(cs)

(* pop_finalized_commits takes the finalized commits from the front, and   *)
(* leaves the links of the blocks of the other ones.                       *)
LEMMA PopFacts ==
  ASSUME NEW from \in Nat, NEW popped, NEW cs,
         Queue(popped, from), Queue(cs, from + Len(popped)),
         NEW linked, BlocksOf(cs) \in SUBSET linked
  PROVE  Popped(PopFinalizedCommits(popped, cs, linked), popped, cs, from)
<1> USE Zenon
<1> DEFINE S == {m \in 0 .. Len(cs) : \A k \in 1 .. m : Finalized(cs[k])}
           n == Max(S)
           F == {k \in 1 .. Len(cs) : Finalized(cs[k])}
           left == SubSeq(cs, n + 1, Len(cs))
           front == SubSeq(cs, 1, n)
           r == PopFinalizedCommits(popped, cs, linked)
<1>1. Len(popped) \in Nat /\ Len(cs) \in Nat /\ cs \in Seq(CommitState)
  BY SMT DEF Queue
<1>2. S \in SUBSET (0 .. Len(cs))
  OBVIOUS
<1>3. ASSUME NEW m \in 0 .. Len(cs) PROVE m \in S <=> \A k \in 1 .. m : k \in F
  <2>1. \A k \in 1 .. m : k \in 1 .. Len(cs)
    BY SMT, <1>1
  <2> QED BY <2>1
<1>4. n \in 0 .. Len(cs) /\ (\A k \in 1 .. n : k \in F) /\ (n < Len(cs) => n + 1 \notin F)
  <2> HIDE DEF S, F
  <2> QED BY <1>1, <1>2, <1>3, LongestFacts
<1>5. r = [popped |-> popped \o front, left |-> left, blocks |-> linked \cap BlocksOf(left)]
  BY DEF PopFinalizedCommits
<1> HIDE DEF n
<1>6. (\A k \in 1 .. n : Finalized(cs[k])) /\ (n < Len(cs) => ~Finalized(cs[n + 1]))
  BY SMT, <1>1, <1>4
<1>7. /\ Queue(front, from + Len(popped)) /\ Len(front) = n
      /\ Queue(left, (from + Len(popped)) + n) /\ Len(left) = Len(cs) - n
      /\ \A k \in 1 .. Len(cs) - n : left[k] = cs[n + k]
  BY SMT, <1>1, <1>4, QueueSplit
<1> HIDE DEF F, left, front, r
<1>8. Queue(popped \o front, from) /\ Len(popped \o front) = Len(popped) + n
  BY <1>7, QueueConcat
<1>9. (from + Len(popped)) + n = from + (Len(popped) + n)
  BY SMT, <1>1, <1>4
<1>10. linked \cap BlocksOf(left) = BlocksOf(left)
  <2> DEFINE f == from + Len(popped)
  <2>1. f \in Nat /\ n \in Nat /\ f + n \in Nat
    BY SMT, <1>1, <1>4
  <2>2. BlocksOf(cs) = UNION {dag.commits[i].blocks : i \in f + 1 .. f + Len(cs)}
    BY <2>1, BlocksOfQueue
  <2>3. BlocksOf(left)
          = UNION {dag.commits[i].blocks : i \in (f + n) + 1 .. (f + n) + Len(left)}
    BY <1>7, <2>1, BlocksOfQueue
  <2> HIDE DEF f
  <2>4. (f + n) + 1 .. (f + n) + Len(left) \subseteq f + 1 .. f + Len(cs)
    BY SMT, <1>1, <1>4, <1>7, <2>1
  <2>5. BlocksOf(left) \subseteq BlocksOf(cs)
    BY <2>2, <2>3, <2>4
  <2> QED BY <2>5
<1>11. r.popped = popped \o front /\ r.left = left /\ r.blocks = BlocksOf(left)
  BY <1>5, <1>10
<1>12. Queue(r.popped, from) /\ Queue(r.left, from + Len(r.popped)) /\ r.blocks = BlocksOf(r.left)
  BY <1>7, <1>8, <1>9, <1>11
<1>13. /\ Len(r.popped) = Len(popped) + n /\ Len(r.left) = Len(cs) - n
       /\ \A k \in 1 .. Len(cs) - n : r.left[k] = cs[n + k]
  BY <1>7, <1>8, <1>11
<1>14. \E m \in 0 .. Len(cs) :
         /\ Len(r.popped) = Len(popped) + m /\ Len(r.left) = Len(cs) - m
         /\ \A k \in 1 .. m : Finalized(cs[k])
         /\ \A k \in 1 .. Len(cs) - m : r.left[k] = cs[m + k]
         /\ m < Len(cs) => ~Finalized(cs[m + 1])
  BY <1>4, <1>6, <1>13
<1>15. Elements(r.left) \subseteq Elements(cs)
  <2>1. Elements(left) \subseteq Elements(cs)
    BY <1>1, <1>4, SubSeqElements DEF left
  <2> QED BY <1>11, <2>1
<1>16. Elements(r.popped) \subseteq Elements(popped) \cup {c \in Elements(cs) : Finalized(c)}
  <2>1. popped \in Seq(CommitState) /\ front \in Seq(CommitState)
    BY <1>7 DEF Queue
  <2>2. Elements(popped \o front) \subseteq Elements(popped) \cup Elements(front)
    BY <2>1, ConcatElements
  <2>3. \A x \in Elements(front) : \E k \in 1 .. n : x = cs[k]
    BY <1>1, <1>4, SubSeqElements DEF front
  <2>4. \A k \in 1 .. n : k \in DOMAIN cs
    BY SMT, <1>1, <1>4
  <2>5. \A x \in Elements(front) : x \in Elements(cs) /\ Finalized(x)
    BY <1>6, <2>3, <2>4 DEF Elements
  <2> QED BY <1>11, <2>2, <2>5
<1>17. Popped(r, popped, cs, from)
  BY <1>12, <1>14, <1>15, <1>16 DEF Popped
<1> QED BY <1>17 DEF r

(* A function on 1 .. n is a sequence. *)
LEMMA FunctionIsSeq ==
  ASSUME NEW S, NEW n \in Nat, NEW f \in [1 .. n -> S]
  PROVE  f \in Seq(S) /\ Len(f) = n
OBVIOUS

(* The direct attempts leave a commit as it is, or try to finalize it. *)
DirectStep(cs, q) ==
  \/ DirectFinalize(cs)[q] = cs[q]
  \/ /\ MayDirectFinalize(cs, q) /\ cs[q].pending_blocks # {}
     /\ DirectFinalize(cs)[q] = TryDirectFinalizeCommit(cs[q])

(* The direct attempts keep the commits and their order, and have been     *)
(* made on every commit that is a wave below the last one.                 *)
LEMMA DirectFacts ==
  ASSUME dag \in Dags, NEW from \in Nat, NEW cs, Queue(cs, from),
         from + Len(cs) <= Len(dag.commits)
  PROVE  /\ Queue(DirectFinalize(cs), from) /\ Len(DirectFinalize(cs)) = Len(cs)
         /\ \A q \in 1 .. Len(cs) :
              LeaderRound(from + q) + DEFAULT_WAVE_LENGTH <= LeaderRound(from + Len(cs))
                => DirectFinalize(cs)[q].pending_blocks = {}
         /\ \A q \in 1 .. Len(cs) : DirectStep(cs, q)
<1> USE Zenon
<1> DEFINE S == {m \in 0 .. Len(cs) : \A k \in 1 .. m : MayDirectFinalize(cs, k)}
           n == Max(S)
           F == {k \in 1 .. Len(cs) : MayDirectFinalize(cs, k)}
           tried == [k \in DOMAIN cs |->
                       IF cs[k].pending_blocks # {} THEN TryDirectFinalizeCommit(cs[k]) ELSE cs[k]]
           r == SubSeq(tried, 1, n) \o SubSeq(cs, n + 1, Len(cs))
<1>1. Len(cs) \in Nat /\ cs \in Seq(CommitState) /\ DOMAIN cs = 1 .. Len(cs)
      /\ (\A k \in 1 .. Len(cs) : cs[k] \in CommitState /\ cs[k].index = from + k)
  BY SMT DEF Queue
<1>2. S \in SUBSET (0 .. Len(cs))
  OBVIOUS
<1>3. ASSUME NEW m \in 0 .. Len(cs) PROVE m \in S <=> \A k \in 1 .. m : k \in F
  <2>1. \A k \in 1 .. m : k \in 1 .. Len(cs)
    BY SMT, <1>1
  <2> QED BY <2>1
<1>4. /\ n \in 0 .. Len(cs) /\ \A k \in 1 .. n : k \in F
      /\ \A m \in 0 .. Len(cs) : (\A k \in 1 .. m : k \in F) => m <= n
  <2> HIDE DEF S, F
  <2> QED BY <1>1, <1>2, <1>3, LongestFacts
<1>5. ASSUME NEW k \in 1 .. Len(cs)
      PROVE  tried[k] \in CommitState /\ tried[k].index = from + k /\ tried[k].pending_blocks = {}
  <2>1. tried[k] = IF cs[k].pending_blocks # {} THEN TryDirectFinalizeCommit(cs[k]) ELSE cs[k]
    BY <1>1
  <2> HIDE DEF tried
  <2>2. CASE cs[k].pending_blocks # {}
    <3>1. tried[k] = TryDirectFinalizeCommit(cs[k])
      BY <2>1, <2>2
    <3>2. cs[k] \in CommitState /\ cs[k].index = from + k
      BY <1>1
    <3> QED BY <3>1, <3>2, DirectCommit
  <2>3. CASE cs[k].pending_blocks = {}
    <3>1. tried[k] = cs[k]
      BY <2>1, <2>3
    <3> QED BY <1>1, <2>3, <3>1
  <2> QED BY <2>2, <2>3
<1>6. tried \in Seq(CommitState) /\ Len(tried) = Len(cs)
  <2>1. DOMAIN tried = 1 .. Len(cs) /\ tried = [k \in 1 .. Len(cs) |-> tried[k]]
    BY <1>1
  <2> HIDE DEF tried
  <2>2. tried \in [1 .. Len(cs) -> CommitState]
    BY <1>5, <2>1
  <2> QED BY <1>1, <2>2, FunctionIsSeq
<1>7. /\ DirectFinalize(cs) = r
      /\ \A k \in 1 .. Len(cs) :
           tried[k] = cs[k] \/ (cs[k].pending_blocks # {} /\ tried[k] = TryDirectFinalizeCommit(cs[k]))
  <2>1. DirectFinalize(cs) = r
    BY DEF DirectFinalize
  <2>2. ASSUME NEW k \in 1 .. Len(cs)
        PROVE  \/ tried[k] = cs[k]
               \/ cs[k].pending_blocks # {} /\ tried[k] = TryDirectFinalizeCommit(cs[k])
    BY <1>1
  <2> QED BY <2>1, <2>2
<1>8. /\ r \in Seq(CommitState) /\ Len(r) = Len(cs)
      /\ \A k \in 1 .. n : r[k] = tried[k]
      /\ \A k \in n + 1 .. Len(cs) : r[k] = cs[k]
  <2> HIDE DEF tried, n
  <2>1. n \in 0 .. Len(tried) /\ n \in 0 .. Len(cs)
        /\ tried \in Seq(CommitState) /\ cs \in Seq(CommitState)
    BY <1>1, <1>4, <1>6
  <2>2. /\ Splice(tried, cs, n) \in Seq(CommitState) /\ Len(Splice(tried, cs, n)) = Len(cs)
        /\ \A k \in 1 .. n : Splice(tried, cs, n)[k] = tried[k]
        /\ \A k \in n + 1 .. Len(cs) : Splice(tried, cs, n)[k] = cs[k]
    BY <2>1, SpliceFacts
  <2>3. r = Splice(tried, cs, n)
    BY DEF Splice
  <2> HIDE DEF r
  <2> QED BY <2>2, <2>3
<1> HIDE DEF tried, n, S, F, r
<1>9. Queue(r, from)
  <2>1. ASSUME NEW k \in 1 .. Len(cs) PROVE r[k].index = from + k
    <3>1. k \in 1 .. n \/ k \in n + 1 .. Len(cs)
      BY SMT, <1>1, <1>4
    <3>2. r[k] = tried[k] \/ r[k] = cs[k]
      BY <1>8, <3>1
    <3>3. tried[k].index = from + k /\ cs[k].index = from + k
      BY <1>1, <1>5
    <3> QED BY <3>2, <3>3
  <2> QED BY <1>8, <2>1 DEF Queue
<1>10. ASSUME NEW q \in 1 .. Len(cs),
              LeaderRound(from + q) + DEFAULT_WAVE_LENGTH <= LeaderRound(from + Len(cs))
       PROVE  r[q].pending_blocks = {}
  <2>1. ASSUME NEW k \in 1 .. q PROVE k \in F
    <3>1. k \in 1 .. Len(cs) /\ Len(cs) \in 1 .. Len(cs)
      BY SMT, <1>1
    <3>2. cs[k].index = from + k /\ cs[Len(cs)].index = from + Len(cs)
      BY <1>1, <3>1
    <3> DEFINE x == from + k
               y == from + q
               z == from + Len(cs)
    <3>3. x \in 1 .. Len(dag.commits) /\ y \in 1 .. Len(dag.commits)
          /\ z \in 1 .. Len(dag.commits) /\ (x = y \/ x \in 1 .. y - 1)
      <4>1. Len(dag.commits) \in Nat
        BY DagFacts
      <4> QED BY SMT, <3>1, <4>1
    <3>4. LeaderRound(y) + DEFAULT_WAVE_LENGTH <= LeaderRound(z)
      BY <1>10
    <3> HIDE DEF x, y, z
    <3>5. LeaderRound(x) \in Nat /\ LeaderRound(y) \in Nat /\ LeaderRound(z) \in Nat
          /\ LeaderRound(x) <= LeaderRound(y)
      <4>1. /\ LeaderRound(x) \in Nat /\ LeaderRound(y) \in Nat /\ LeaderRound(z) \in Nat
            /\ x = y \/ LeaderRound(x) < LeaderRound(y)
        BY <3>3, DagFacts
      <4> QED BY SMT, <4>1
    <3>6. LeaderRound(x) + DEFAULT_WAVE_LENGTH <= LeaderRound(z)
      BY SMT, <3>4, <3>5 DEF DEFAULT_WAVE_LENGTH
    <3>7. MayDirectFinalize(cs, k)
      BY <3>2, <3>6 DEF MayDirectFinalize, x, z
    <3> QED BY <3>1, <3>7 DEF F
  <2>2. q <= n
    BY SMT, <1>1, <1>4, <2>1
  <2>3. q \in 1 .. n
    BY SMT, <1>4, <2>2
  <2> QED BY <1>5, <1>8, <2>3
<1>11. ASSUME NEW q \in 1 .. Len(cs)
       PROVE  \/ r[q] = cs[q]
              \/ /\ MayDirectFinalize(cs, q) /\ cs[q].pending_blocks # {}
                 /\ r[q] = TryDirectFinalizeCommit(cs[q])
  <2>1. q \in 1 .. n \/ q \in n + 1 .. Len(cs)
    BY SMT, <1>1, <1>4
  <2>2. CASE q \in 1 .. n
    <3>1. r[q] = tried[q] /\ MayDirectFinalize(cs, q)
      BY <1>4, <1>8, <2>2 DEF F
    <3> QED BY <1>7, <3>1
  <2>3. CASE q \in n + 1 .. Len(cs)
    BY <1>8, <2>3
  <2> QED BY <2>1, <2>2, <2>3
<1>12. \A q \in 1 .. Len(cs) : DirectStep(cs, q)
  BY <1>7, <1>11 DEF DirectStep
<1> QED BY <1>7, <1>8, <1>9, <1>10, <1>12

(* What the direct attempts leave to the indirect ones. *)
Direct(direct, from) ==
  LET cs == direct.left
      f == from + Len(direct.popped)
  IN
  /\ Queue(direct.popped, from) /\ Queue(cs, f) /\ direct.blocks = BlocksOf(cs)
  /\ f + Len(cs) <= Len(dag.commits)
  /\ \A q \in 1 .. Len(cs) :
       LeaderRound(f + q) + INDIRECT_REJECT_DEPTH <= LeaderRound(f + Len(cs))
         => cs[q].pending_blocks = {}

(* The commits up to the last one are popped or left, in their order, and *)
(* the first one left is less than a wave below the last one.              *)
Outcome(r, from, last) ==
  /\ Queue(r.popped, from) /\ Queue(r.left, from + Len(r.popped))
  /\ r.blocks = BlocksOf(r.left)
  /\ from + Len(r.popped) + Len(r.left) = last
  /\ Len(r.left) # 0
       => LeaderRound(last) < LeaderRound(from + Len(r.popped) + 1) + INDIRECT_REJECT_DEPTH

(* A commit of the queue, as it was or after the indirect attempt on it. *)
Attempted(c, direct) ==
  LET cs == direct.left IN
  \E k \in 1 .. Len(cs) :
    \/ c = cs[k]
    \/ /\ k < Len(cs) /\ cs[k].pending_blocks = {}
       /\ c = TryIndirectFinalize(cs[k], cs[Len(cs)],
                direct.blocks \cap BlocksOf(SubSeq(cs, k, Len(cs))))

(* The indirect attempts keep the commits and their order, and the first   *)
(* commit that stays is less than a wave below the last one.               *)
LEMMA IndirectFacts ==
  ASSUME dag \in Dags, NEW from \in Nat, NEW direct, Direct(direct, from)
  PROVE  /\ Outcome(IndirectFinalize(direct), from, from + Len(direct.popped) + Len(direct.left))
         /\ \A c \in Elements(IndirectFinalize(direct).popped) :
              c \in Elements(direct.popped) \/ (Finalized(c) /\ Attempted(c, direct))
         /\ \A c \in Elements(IndirectFinalize(direct).left) : Attempted(c, direct)
<1> USE Zenon
<1> DEFINE cs == direct.left
           front == direct.popped
           linked == direct.blocks
           f == from + Len(front)
           try(k) == TryIndirectFinalize(cs[k], cs[Len(cs)],
                       linked \cap BlocksOf(SubSeq(cs, k, Len(cs))))
           tried == [k \in DOMAIN cs |->
                       IF k < Len(cs) /\ cs[k].pending_blocks = {} THEN try(k) ELSE cs[k]]
           S == {m \in 0 .. Len(cs) : \A k \in 1 .. m - 1 : Finalized(tried[k])}
           n == Max(S)
           s == Splice(tried, cs, n)
           r == PopFinalizedCommits(front, s, linked)
<1>1. IndirectFinalize(direct) = r
  BY DEF IndirectFinalize, Splice
<1>2. Queue(front, from) /\ Queue(cs, f) /\ linked = BlocksOf(cs)
      /\ f + Len(cs) <= Len(dag.commits)
  BY DEF Direct
<1>3. ASSUME NEW q \in 1 .. Len(cs),
             LeaderRound(f + q) + INDIRECT_REJECT_DEPTH <= LeaderRound(f + Len(cs))
      PROVE  cs[q].pending_blocks = {}
  BY <1>3 DEF Direct
<1>4. Len(front) \in Nat /\ f \in Nat /\ f = from + Len(front)
  BY SMT, <1>2 DEF Queue
<1> HIDE DEF cs, front, linked, f
<1>5. Len(cs) \in Nat /\ cs \in Seq(CommitState) /\ DOMAIN cs = 1 .. Len(cs)
      /\ (\A k \in 1 .. Len(cs) : cs[k] \in CommitState /\ cs[k].index = f + k)
  BY SMT, <1>2 DEF Queue
<1>6. ASSUME NEW k \in 1 .. Len(cs)
      PROVE  tried[k] \in CommitState /\ tried[k].index = f + k
  <2>1. tried[k] = IF k < Len(cs) /\ cs[k].pending_blocks = {} THEN try(k) ELSE cs[k]
    BY <1>5
  <2>2. try(k) \in CommitState /\ try(k).index = cs[k].index
    BY SMT, <1>5, IndirectCommit
  <2> HIDE DEF tried, try
  <2> QED BY <1>5, <2>1, <2>2
<1>7. ASSUME NEW k \in 1 .. Len(cs),
             LeaderRound(f + k) + INDIRECT_REJECT_DEPTH <= LeaderRound(f + Len(cs))
      PROVE  Finalized(tried[k])
  <2>1. tried[k] = IF k < Len(cs) /\ cs[k].pending_blocks = {} THEN try(k) ELSE cs[k]
    BY SMT, <1>5
  <2>2. k # Len(cs)
    <3>1. SUFFICES ASSUME k = Len(cs) PROVE FALSE
      OBVIOUS
    <3> DEFINE x == f + k
    <3>2. x \in 1 .. Len(dag.commits)
      BY SMT, <1>2, <1>4, <1>5, DagFacts
    <3>3. LeaderRound(x) + INDIRECT_REJECT_DEPTH <= LeaderRound(x)
      BY <1>7, <3>1
    <3> HIDE DEF x
    <3> QED BY SMT, <3>2, <3>3, DagFacts DEF INDIRECT_REJECT_DEPTH
  <2>3. cs[k].pending_blocks = {} /\ k < Len(cs)
    <3>1. k < Len(cs)
      <4>1. Len(cs) \in Nat
        BY <1>5
      <4> QED BY SMT, <2>2, <4>1
    <3>2. cs[k].pending_blocks = {}
      BY <1>3, <1>7
    <3> QED BY <3>1, <3>2
  <2>4. cs[k].index = f + k /\ cs[Len(cs)].index = f + Len(cs) /\ cs[k] \in CommitState
    BY SMT, <1>5
  <2>5. LeaderRound(cs[k].index) + INDIRECT_REJECT_DEPTH <= LeaderRound(cs[Len(cs)].index)
    BY <1>7, <2>4
  <2>6. try(k).pending_blocks = {} /\ try(k).pending_transactions = {}
    BY SMT, <2>3, <2>4, <2>5, IndirectCommit
  <2> HIDE DEF tried, try
  <2>7. tried[k] = try(k)
    BY <2>1, <2>3
  <2> QED BY <2>6, <2>7 DEF Finalized
<1>8. tried \in Seq(CommitState) /\ Len(tried) = Len(cs)
      /\ \A k \in 1 .. Len(cs) :
           tried[k] = cs[k] \/ (k < Len(cs) /\ cs[k].pending_blocks = {} /\ tried[k] = try(k))
  <2>0. ASSUME NEW k \in 1 .. Len(cs)
        PROVE  tried[k] = cs[k] \/ (k < Len(cs) /\ cs[k].pending_blocks = {} /\ tried[k] = try(k))
    <3>1. tried[k] = IF k < Len(cs) /\ cs[k].pending_blocks = {} THEN try(k) ELSE cs[k]
      BY SMT, <1>5
    <3> HIDE DEF tried, try
    <3> QED BY <3>1
  <2>1. DOMAIN tried = 1 .. Len(cs) /\ tried = [k \in 1 .. Len(cs) |-> tried[k]]
    BY <1>5
  <2> HIDE DEF tried
  <2>2. tried \in [1 .. Len(cs) -> CommitState]
    BY <1>6, <2>1
  <2>3. tried \in Seq(CommitState) /\ Len(tried) = Len(cs)
    BY <1>5, <2>2, FunctionIsSeq
  <2> QED BY <2>0, <2>3
<1> HIDE DEF tried
<1>9. S \in SUBSET (0 .. Len(cs)) /\ 0 \in S
  BY SMT, <1>5
<1>10. n \in S /\ \A m \in S : m <= n
  <2> HIDE DEF S
  <2> QED BY <1>5, <1>9, MaxFacts
<1> HIDE DEF n
<1>11. n \in 0 .. Len(cs) /\ n \in Nat
  BY SMT, <1>5, <1>10
<1>12. n < Len(cs) => n # 0 /\ ~Finalized(tried[n])
  <2>1. SUFFICES ASSUME n < Len(cs), n = 0 \/ Finalized(tried[n]) PROVE FALSE
    OBVIOUS
  <2>2. \A k \in 1 .. (n + 1) - 1 : Finalized(tried[k])
    BY SMT, <1>10, <1>11, <2>1
  <2>3. n + 1 \in S
    BY SMT, <1>5, <1>11, <2>1, <2>2
  <2> QED BY SMT, <1>10, <1>11, <2>3
<1> HIDE DEF S
<1>13. /\ s \in Seq(CommitState) /\ Len(s) = Len(cs)
       /\ \A k \in 1 .. n : s[k] = tried[k]
       /\ \A k \in n + 1 .. Len(cs) : s[k] = cs[k]
  <2>1. n \in 0 .. Len(tried) /\ n \in 0 .. Len(cs)
        /\ tried \in Seq(CommitState) /\ cs \in Seq(CommitState)
    BY <1>5, <1>8, <1>11
  <2> HIDE DEF s
  <2>2. /\ Splice(tried, cs, n) \in Seq(CommitState) /\ Len(Splice(tried, cs, n)) = Len(cs)
        /\ \A k \in 1 .. n : Splice(tried, cs, n)[k] = tried[k]
        /\ \A k \in n + 1 .. Len(cs) : Splice(tried, cs, n)[k] = cs[k]
    BY <2>1, SpliceFacts
  <2> QED BY <2>2 DEF s
<1> HIDE DEF s
<1>14. Queue(s, f)
  <2>1. ASSUME NEW k \in 1 .. Len(cs) PROVE s[k].index = f + k
    <3>1. k \in 1 .. n \/ k \in n + 1 .. Len(cs)
      BY SMT, <1>5, <1>11
    <3>2. s[k] = tried[k] \/ s[k] = cs[k]
      BY <1>13, <3>1
    <3>3. tried[k].index = f + k /\ cs[k].index = f + k
      BY <1>5, <1>6
    <3> QED BY <3>2, <3>3
  <2> QED BY <1>13, <2>1 DEF Queue
<1>15. BlocksOf(s) \in SUBSET linked
  <2>1. f \in Nat /\ Queue(cs, f) /\ Queue(s, f) /\ Len(s) = Len(cs)
    BY <1>2, <1>4, <1>13, <1>14
  <2>2. BlocksOf(s) = BlocksOf(cs)
    BY <2>1, BlocksOfQueue
  <2> QED BY <1>2, <2>2
<1>16. Popped(r, front, s, from)
  <2>1. Queue(s, from + Len(front)) /\ Queue(front, from)
    BY <1>2, <1>4, <1>14
  <2> QED BY <1>15, <2>1, PopFacts
<1> HIDE DEF r
<1>17. /\ Queue(r.popped, from) /\ Queue(r.left, from + Len(r.popped))
       /\ r.blocks = BlocksOf(r.left)
  BY <1>16 DEF Popped
<1> DEFINE out == Len(r.popped)
           left == Len(r.left)
<1>18. PICK p \in 0 .. Len(cs) :
         /\ out = Len(front) + p /\ left = Len(cs) - p
         /\ \A k \in 1 .. p : Finalized(s[k])
         /\ p < Len(cs) => ~Finalized(s[p + 1])
  BY <1>13, <1>16 DEF Popped
<1> HIDE DEF out, left
<1>19. from + out + left = f + Len(cs)
  BY SMT, <1>4, <1>5, <1>18
<1>20. ASSUME left # 0
       PROVE  LeaderRound(f + Len(cs))
                < LeaderRound(from + out + 1) + INDIRECT_REJECT_DEPTH
  <2>1. p < Len(cs) /\ p + 1 \in 1 .. Len(cs) /\ ~Finalized(s[p + 1])
    <3>1. Len(cs) \in Nat
      BY <1>5
    <3>2. p < Len(cs) /\ p + 1 \in 1 .. Len(cs)
      BY SMT, <1>18, <1>20, <3>1
    <3> QED BY <1>18, <3>2
  <2>2. /\ from + out + 1 = f + (p + 1)
        /\ from + out + left = f + Len(cs)
    <3>1. out = Len(front) + p /\ p \in Nat
      BY SMT, <1>18
    <3>2. f = from + Len(front) /\ Len(front) \in Nat
      BY <1>4
    <3>3. from + out + 1 = f + (p + 1)
      BY SMT, <3>1, <3>2
    <3> QED BY <1>19, <3>3
  <2>3. p + 1 <= n
    <3>1. SUFFICES ASSUME n <= p PROVE FALSE
      BY SMT, <1>11, <2>1
    <3>2. n # 0 /\ ~Finalized(tried[n]) /\ n \in 1 .. n /\ n \in 1 .. p
      BY SMT, <1>5, <1>11, <1>12, <2>1, <3>1
    <3> QED BY <1>13, <1>18, <3>2
  <2>4. ~Finalized(tried[p + 1])
    BY SMT, <1>11, <1>13, <2>1, <2>3
  <2>5. ~(LeaderRound(f + (p + 1)) + INDIRECT_REJECT_DEPTH <= LeaderRound(f + Len(cs)))
    BY <1>7, <2>1, <2>4
  <2> DEFINE x == f + (p + 1)
             z == f + Len(cs)
  <2>6. x \in 1 .. Len(dag.commits) /\ z \in 1 .. Len(dag.commits)
    BY SMT, <1>2, <1>4, <1>5, <2>1, DagFacts
  <2>7. ~(LeaderRound(x) + INDIRECT_REJECT_DEPTH <= LeaderRound(z))
    BY <2>5
  <2> HIDE DEF x, z
  <2>8. LeaderRound(z) < LeaderRound(x) + INDIRECT_REJECT_DEPTH
    BY SMT, <2>6, <2>7, DagFacts DEF INDIRECT_REJECT_DEPTH
  <2> QED BY <2>2, <2>8 DEF x, z
<1>21. f + Len(cs) = from + Len(direct.popped) + Len(direct.left)
  BY <1>4 DEF cs, front
<1>22. Outcome(r, from, f + Len(cs))
  BY <1>17, <1>19, <1>20 DEF Outcome, out, left
<1>23. ASSUME NEW c \in Elements(s) PROVE Attempted(c, direct)
  <2>1. PICK k \in DOMAIN s : c = s[k]
    BY DEF Elements
  <2>2. k \in 1 .. Len(cs) /\ (k \in 1 .. n \/ k \in n + 1 .. Len(cs))
    BY SMT, <1>5, <1>11, <1>13
  <2>3. c = cs[k] \/ (k < Len(cs) /\ cs[k].pending_blocks = {} /\ c = try(k))
    <3> HIDE DEF try
    <3> QED BY <1>8, <1>13, <2>1, <2>2
  <2> QED BY <2>2, <2>3 DEF Attempted, cs, linked
<1>24. /\ Elements(r.popped) \subseteq Elements(front) \cup {c \in Elements(s) : Finalized(c)}
       /\ Elements(r.left) \subseteq Elements(s)
  BY <1>16 DEF Popped
<1>25. /\ \A c \in Elements(r.popped) :
            c \in Elements(direct.popped) \/ (Finalized(c) /\ Attempted(c, direct))
       /\ \A c \in Elements(r.left) : Attempted(c, direct)
  BY <1>23, <1>24 DEF front
<1> QED BY <1>1, <1>21, <1>22, <1>25

-----------------------------------------------------------------------------
(* The whole of process_commit.                                            *)

(* The queue with the commit that arrives, and what the direct attempts    *)
(* make of it.                                                             *)
Arrived(i, local) ==
  Append(pending_commits,
         [index |-> i, decided_with_local_blocks |-> local,
          pending_blocks |-> dag.commits[i].blocks,
          pending_transactions |-> {}, rejected_transactions |-> {}])

Directly(i, local) ==
  PopFinalizedCommits(<< >>, DirectFinalize(Arrived(i, local)), blocks \cup dag.commits[i].blocks)

(* The queue that is processed. *)
LEMMA ArrivedFacts ==
  ASSUME IInv, processed < Len(dag.commits), NEW local \in BOOLEAN
  PROVE  LET arrived == Arrived(processed + 1, local) IN
         /\ Queue(arrived, Done) /\ Len(arrived) = Len(pending_commits) + 1
         /\ Done \in Nat /\ Done + Len(arrived) = processed + 1
         /\ Done + Len(arrived) <= Len(dag.commits)
         /\ \A k \in 1 .. Len(pending_commits) : arrived[k] = pending_commits[k]
         /\ arrived[Len(arrived)] =
              [index |-> processed + 1, decided_with_local_blocks |-> local,
               pending_blocks |-> dag.commits[processed + 1].blocks,
               pending_transactions |-> {}, rejected_transactions |-> {}]
<1> DEFINE i == processed + 1
           new == [index |-> i, decided_with_local_blocks |-> local,
                   pending_blocks |-> dag.commits[i].blocks,
                   pending_transactions |-> {}, rejected_transactions |-> {}]
           arrived == Append(pending_commits, new)
           from == Done
<1>1. arrived = Arrived(i, local)
  BY Zenon DEF Arrived
<1>2. /\ dag \in Dags /\ processed \in Nat /\ Len(pending_commits) \in Nat
      /\ Len(pending_commits) <= processed /\ Done \in Nat
      /\ i \in 1 .. Len(dag.commits) /\ i = Done + Len(pending_commits) + 1
      /\ Queue(pending_commits, Done)
  BY DagFacts DEF IInv, Done, Queue, TypeOK
<1>3. from \in Nat /\ Queue(pending_commits, from) /\ i = from + Len(pending_commits) + 1
  BY Zenon, <1>2
<1> HIDE DEF i, from
<1>4. new \in CommitState /\ new.index = i
  <2>1. dag.commits[i].blocks \in SUBSET Block /\ i \in Nat
    BY <1>2, DagFacts
  <2> QED BY Zenon, <2>1 DEF CommitState
<1> HIDE DEF new
<1>5. /\ Queue(arrived, from) /\ Len(arrived) = Len(pending_commits) + 1
      /\ \A k \in 1 .. Len(pending_commits) : arrived[k] = pending_commits[k]
      /\ arrived[Len(pending_commits) + 1] = new
  <2>1. pending_commits \in Seq(CommitState)
        /\ \A k \in 1 .. Len(pending_commits) : pending_commits[k].index = from + k
    BY Zenon, <1>3 DEF Queue
  <2>2. /\ arrived \in Seq(CommitState) /\ Len(arrived) = Len(pending_commits) + 1
        /\ \A k \in 1 .. Len(pending_commits) : arrived[k] = pending_commits[k]
        /\ arrived[Len(pending_commits) + 1] = new
    BY <1>4, <2>1
  <2> HIDE DEF arrived
  <2>3. ASSUME NEW k \in 1 .. Len(pending_commits) + 1
        PROVE  arrived[k].index = from + k
    <3>1. CASE k = Len(pending_commits) + 1
      BY <1>2, <1>3, <1>4, <2>2, <3>1
    <3>2. CASE k # Len(pending_commits) + 1
      <4>1. k \in 1 .. Len(pending_commits)
        BY <1>2, <3>2
      <4> QED BY Zenon, <2>1, <2>2, <4>1
    <3> QED BY Zenon, <3>1, <3>2
  <2> QED BY Zenon, <2>2, <2>3 DEF Queue
<1> HIDE DEF arrived
<1>6. from + Len(arrived) = i /\ from + Len(arrived) <= Len(dag.commits)
  BY <1>2, <1>3, <1>5
<1>7. arrived[Len(arrived)] = new
  BY Zenon, <1>5
<1> QED BY Zenon, <1>1, <1>3, <1>5, <1>6, <1>7 DEF i, from, new

(* The direct attempts on it. *)
LEMMA DirectlyFacts ==
  ASSUME IInv, processed < Len(dag.commits), NEW local \in BOOLEAN
  PROVE  LET tried == DirectFinalize(Arrived(processed + 1, local))
             direct == Directly(processed + 1, local)
         IN
         /\ Direct(direct, Done)
         /\ Done + Len(direct.popped) + Len(direct.left) = processed + 1
         /\ \A c \in Elements(direct.popped) : c \in Elements(tried) /\ Finalized(c)
         /\ Elements(direct.left) \subseteq Elements(tried)
<1> USE Zenon
<1> DEFINE i == processed + 1
           from == Done
           arrived == Arrived(i, local)
           tried == DirectFinalize(arrived)
           linked == blocks \cup dag.commits[i].blocks
           direct == Directly(i, local)
<1>2. /\ dag \in Dags /\ Queue(pending_commits, Done) /\ blocks = BlocksOf(pending_commits)
      /\ Len(pending_commits) \in Nat
  BY SMT DEF IInv, Queue, TypeOK
<1>3. /\ from \in Nat /\ Queue(arrived, from) /\ Len(arrived) = Len(pending_commits) + 1
      /\ from + Len(arrived) = i /\ from + Len(arrived) <= Len(dag.commits)
  BY ArrivedFacts
<1>4. direct = PopFinalizedCommits(<< >>, tried, linked)
  BY DEF Directly
<1> HIDE DEF i, from, arrived, direct
<1>7. /\ Queue(tried, from) /\ Len(tried) = Len(arrived)
      /\ \A q \in 1 .. Len(arrived) :
           LeaderRound(from + q) + DEFAULT_WAVE_LENGTH <= LeaderRound(from + Len(arrived))
             => tried[q].pending_blocks = {}
  BY <1>2, <1>3, DirectFacts
<1> HIDE DEF tried
<1>8. BlocksOf(tried) \in SUBSET linked
  <2>1. BlocksOf(tried)
          = UNION {dag.commits[j].blocks : j \in from + 1 .. from + Len(tried)}
    BY <1>3, <1>7, BlocksOfQueue
  <2>2. blocks = UNION {dag.commits[j].blocks : j \in from + 1 .. from + Len(pending_commits)}
    BY <1>2, <1>3, BlocksOfQueue DEF from
  <2>3. ASSUME NEW j \in from + 1 .. from + Len(tried)
        PROVE  j = i \/ j \in from + 1 .. from + Len(pending_commits)
    <3>1. /\ Len(tried) = Len(pending_commits) + 1 /\ i = from + Len(tried)
          /\ from \in Nat /\ Len(pending_commits) \in Nat
      BY <1>2, <1>3, <1>7
    <3> QED BY SMT, <3>1
  <2> QED BY <2>1, <2>2, <2>3
<1> HIDE DEF linked
<1>9. Popped(direct, << >>, tried, from)
  <2>1. << >> \in Seq(CommitState) /\ Len(<< >>) = 0
    BY SMT
  <2>2. Queue(<< >>, from) /\ from + Len(<< >>) = from
    BY SMT, <1>3, <2>1 DEF Queue
  <2>3. Queue(tried, from + Len(<< >>))
    BY <1>7, <2>2
  <2> QED BY <1>3, <1>4, <1>8, <2>2, <2>3, PopFacts
<1> DEFINE cs == direct.left
           f == from + Len(direct.popped)
           len == Len(cs)
<1>10. /\ Queue(direct.popped, from) /\ Queue(cs, f) /\ direct.blocks = BlocksOf(cs)
       /\ Elements(direct.popped) \subseteq Elements(<< >>) \cup {c \in Elements(tried) : Finalized(c)}
       /\ Elements(cs) \subseteq Elements(tried)
  BY <1>9 DEF Popped
<1>11. PICK n \in 0 .. Len(tried) :
         /\ Len(direct.popped) = Len(<< >>) + n /\ len = Len(tried) - n
         /\ \A k \in 1 .. Len(tried) - n : cs[k] = tried[n + k]
  BY <1>9 DEF Popped
<1>12. Len(tried) \in Nat /\ Len(tried) = Len(arrived)
  BY SMT, <1>7 DEF Queue
<1>13. n \in Nat /\ Len(direct.popped) = n /\ f = from + n /\ f + len = i
  <2>1. Len(<< >>) = 0
    OBVIOUS
  <2>2. Len(direct.popped) = n
    BY SMT, <1>11, <1>12, <2>1
  <2>3. n \in Nat /\ f = from + n
    BY SMT, <1>11, <1>12, <2>2
  <2> HIDE DEF len, f
  <2>4. len = Len(arrived) - n
    BY <1>11, <1>12
  <2>5. Len(arrived) \in Nat
    BY <1>12
  <2>6. f + len = i
    BY SMT, <1>3, <2>3, <2>4, <2>5
  <2> QED BY <2>2, <2>3, <2>6
<1> HIDE DEF cs, f, len
<1>14. ASSUME NEW q \in 1 .. len,
              LeaderRound(f + q) + INDIRECT_REJECT_DEPTH <= LeaderRound(f + len)
       PROVE  cs[q].pending_blocks = {}
  <2>1. n + q \in 1 .. Len(arrived) /\ q \in 1 .. Len(tried) - n /\ from + (n + q) = f + q
    <3> DEFINE m == Len(arrived)
    <3>1. m \in Nat /\ Len(tried) = m /\ len = m - n /\ n \in Nat /\ from \in Nat /\ f = from + n
      BY <1>3, <1>11, <1>12, <1>13
    <3> HIDE DEF m
    <3>2. n + q \in 1 .. m /\ q \in 1 .. m - n /\ from + (n + q) = f + q
      BY SMT, <3>1
    <3> QED BY <3>1, <3>2 DEF m
  <2>2. cs[q] = tried[n + q]
    BY <1>11, <2>1
  <2>3. LeaderRound(from + (n + q)) + DEFAULT_WAVE_LENGTH <= LeaderRound(from + Len(arrived))
    BY <1>3, <1>13, <1>14, <2>1 DEF DEFAULT_WAVE_LENGTH, INDIRECT_REJECT_DEPTH
  <2> QED BY <1>7, <2>1, <2>2, <2>3
<1>15. f + len <= Len(dag.commits)
  BY <1>3, <1>13
<1>16. Direct(direct, from)
  BY <1>10, <1>14, <1>15 DEF Direct, cs, f, len
<1>17. from + Len(direct.popped) + Len(direct.left) = i
  BY <1>13 DEF cs, f, len
<1>18. ASSUME NEW c \in Elements(direct.popped) PROVE c \in Elements(tried) /\ Finalized(c)
  <2>1. DOMAIN << >> = {}
    <3>1. Len(<< >>) = 0 /\ << >> \in Seq(CommitState)
      BY SMT
    <3>2. DOMAIN << >> = 1 .. 0 /\ 1 .. 0 = {}
      BY SMT, <3>1
    <3> QED BY <3>2
  <2> QED BY <1>10, <2>1 DEF Elements
<1> QED BY <1>10, <1>16, <1>17, <1>18 DEF i, from, arrived, tried, direct, cs

(* The commits that are popped and those that are left. *)
LEMMA ProcessedFacts ==
  ASSUME IInv, processed < Len(dag.commits), NEW local \in BOOLEAN
  PROVE  Outcome(ProcessedCommit(processed + 1, local), Done, processed + 1)
<1> USE Zenon
<1> DEFINE direct == Directly(processed + 1, local)
<1>1. ProcessedCommit(processed + 1, local) = IndirectFinalize(direct)
  BY DEF ProcessedCommit, Directly, Arrived
<1>2. dag \in Dags /\ Done \in Nat
  BY ArrivedFacts DEF IInv
<1>3. Direct(direct, Done) /\ Done + Len(direct.popped) + Len(direct.left) = processed + 1
  BY DirectlyFacts
<1> HIDE DEF direct
<1>4. Outcome(IndirectFinalize(direct), Done, Done + Len(direct.popped) + Len(direct.left))
  BY <1>2, <1>3, IndirectFacts
<1> QED BY <1>1, <1>3, <1>4

-----------------------------------------------------------------------------
(* What is recovered and how a commit arrives.                             *)

(* The commits up to the last one finalized are all finalized. *)
LEMMA LastFacts ==
  ASSUME IInv
  PROVE  /\ LastFinalized \in 0 .. Len(dag.commits)
         /\ \A i \in 1 .. LastFinalized : \E p \in output : p.index = i
<1> USE Zenon
<1> DEFINE S == {0} \cup {o.index : o \in output}
           u == Len(dag.commits)
<1>1. u \in Nat /\ \A o \in output : o.index \in 1 .. u
  BY DagFacts DEF IInv
<1>2. S \in SUBSET (0 .. u) /\ S # {}
  <2> HIDE DEF u
  <2> QED BY SMT, <1>1
<1>3. LastFinalized \in S
  <2>1. LastFinalized = Max(S)
    BY DEF LastFinalized
  <2> HIDE DEF S, u
  <2> QED BY <1>1, <1>2, <2>1, MaxFacts
<1>4. LastFinalized \in 0 .. u
  <2> HIDE DEF S, u
  <2> QED BY <1>2, <1>3
<1>5. CASE LastFinalized = 0
  BY SMT, <1>4, <1>5
<1>6. CASE \E o \in output : LastFinalized = o.index
  BY <1>4, <1>6 DEF IInv
<1> QED BY <1>3, <1>5, <1>6

(* The flag and the blocks that come with a commit. *)
LEMMA DecidedFacts ==
  ASSUME IInv, NEW i \in 1 .. Len(dag.commits), NEW decided \in DecidedAs(i)
  PROVE  decided.local \in BOOLEAN /\ decided.seen \in SUBSET Block
<1> USE Zenon
<1>1. dag \in Dags
  BY DEF IInv
<1>2. CASE decided = [local |-> i <= LastFinalized, seen |-> {}]
  <2>1. (i <= LastFinalized) \in BOOLEAN
    BY SMT, LastFacts
  <2> QED BY <1>2, <2>1
<1>3. CASE decided = [local |-> FALSE, seen |-> {}]
  BY <1>3
<1>4. ASSUME NEW S \in Evidence(i), decided = [local |-> TRUE, seen |-> S]
      PROVE  decided.local \in BOOLEAN /\ decided.seen \in SUBSET Block
  <2>1. \A j \in DOMAIN dag.commits : dag.commits[j].leader \in Block
    <3> DEFINE cs == dag.commits
               T == [leader : Block, blocks : SUBSET Block]
    <3>1. cs \in Seq(T)
      BY <1>1, FinalizerAssumption
    <3>2. \A x \in T : x.leader \in Block
      OBVIOUS
    <3> HIDE DEF cs, T
    <3>3. \A j \in DOMAIN cs : cs[j] \in T
      BY SMT, <3>1
    <3> QED BY <3>2, <3>3 DEF cs
  <2>2. i \in DOMAIN dag.commits /\ DOMAIN dag.commits = 1 .. Len(dag.commits)
        /\ Len(dag.commits) \in Nat
    BY <1>1, DagFacts
  <2>3. Anchors(i) # {} => Min(Anchors(i)) \in DOMAIN dag.commits
    <3> DEFINE A == Anchors(i)
    <3>1. A \in SUBSET DOMAIN dag.commits
      BY DEF Anchors
    <3>2. A \in SUBSET Nat
      BY SMT, <2>2, <3>1
    <3> HIDE DEF A
    <3>3. ASSUME A # {} PROVE Min(A) \in A
      <4>1. \E m \in A : \A k \in A : m <= k
        BY <3>2, <3>3, MinExists
      <4> QED BY <4>1 DEF Min
    <3> QED BY <3>1, <3>3 DEF A
  <2>4. S \in SUBSET Block
    <3>1. CASE Anchors(i) = {}
      <4>1. S = {dag.commits[i].leader}
        BY <1>4, <3>1 DEF Evidence
      <4> QED BY <2>1, <2>2, <4>1
    <3>2. CASE Anchors(i) # {}
      <4>1. \/ S \in SUBSET Certificates(dag.commits[i].leader)
            \/ S = {dag.commits[Min(Anchors(i))].leader}
        BY <1>4, <3>2 DEF Evidence
      <4>2. Certificates(dag.commits[i].leader) \in SUBSET Block
        BY DEF Certificates
      <4>3. dag.commits[Min(Anchors(i))].leader \in Block
        BY <2>1, <2>3, <3>2
      <4> QED BY <4>1, <4>2, <4>3
    <3> QED BY <3>1, <3>2
  <2> QED BY <1>4, <2>4
<1>5. \/ decided = [local |-> i <= LastFinalized, seen |-> {}]
      \/ decided = [local |-> FALSE, seen |-> {}]
      \/ \E S \in Evidence(i) : decided = [local |-> TRUE, seen |-> S]
  <2>1. CASE i <= recovered
    BY <2>1 DEF DecidedAs
  <2>2. CASE ~(i <= recovered)
    BY <2>2 DEF DecidedAs
  <2> QED BY <2>1, <2>2
<1> QED BY <1>2, <1>3, <1>4, <1>5

-----------------------------------------------------------------------------
(* The inductive invariant.                                                *)

(* Nothing is pending or finalized at the start. *)
LEMMA InitStep == Init => IInv
<1> SUFFICES ASSUME Init PROVE IInv
  BY Zenon
<1>1. Len(dag.commits) \in Nat /\ dag \in Dags
  BY Zenon, DagFacts DEF Init
<1>2. pending_commits = << >> /\ Len(pending_commits) = 0 /\ processed = 0 /\ Done = 0
      /\ DOMAIN pending_commits = {}
  <2>1. Len(<< >>) = 0 /\ << >> \in Seq(CommitState)
    OBVIOUS
  <2>2. pending_commits = << >> /\ processed = 0 /\ Len(pending_commits) = 0
    BY Zenon, <2>1 DEF Init
  <2>3. Done = 0
    <3>1. Done = 0 - 0
      BY Zenon, <2>2 DEF Done
    <3> QED BY <3>1
  <2>4. DOMAIN pending_commits = 1 .. 0 /\ 1 .. 0 = {}
    BY <2>1, <2>2
  <2> QED BY Zenon, <2>2, <2>3, <2>4
<1>3. Queue(pending_commits, Done)
  BY <1>2 DEF Queue
<1>4. BlocksOf(pending_commits) = {}
  BY Zenon, <1>2 DEF BlocksOf
<1>5. TypeOK
  BY <1>2, <1>4, FinalizerAssumption DEF TypeOK, Init
<1>6. NoneOverdue
  BY Zenon, <1>2 DEF NoneOverdue
<1> QED BY <1>1, <1>2, <1>3, <1>5, <1>6 DEF IInv, Init

(* Votes change neither the queue nor what is finalized. *)
LEMMA AddVotedBlockStep ==
  ASSUME IInv, NEW b \in Rejecting(Block), AddVotedBlock(b)
  PROVE  IInv'
<1> USE Zenon
<1>1. voted' \subseteq Block
  BY DEF IInv, TypeOK, AddVotedBlock, Rejecting
<1>2. UNCHANGED <<dag, gc, accepted, stored, pending_commits, blocks, processed,
                  recovered, output, restarts>>
  BY DEF AddVotedBlock
<1>3. TypeOK'
  <2>1. TypeOK
    BY DEF IInv
  <2>2. BlocksOf(pending_commits)' = BlocksOf(pending_commits)
    BY SMT, <1>2 DEF BlocksOf
  <2> QED BY <1>1, <1>2, <2>1, <2>2 DEF TypeOK
<1>4. NoneOverdue'
  BY <1>2 DEF IInv, NoneOverdue, LeaderRound
<1>5. Done' = Done
  BY <1>2 DEF Done
<1>6. Queue(pending_commits, Done)'
  BY <1>2, <1>5 DEF IInv, Queue
<1>7. (gc = 0 \/ \E i \in 1 .. Done : gc = CalculateGcRound(LeaderRound(i)))'
  BY <1>2, <1>5 DEF IInv, LeaderRound
<1> QED BY <1>2, <1>3, <1>4, <1>6, <1>7 DEF IInv

(* The GC round is a natural number. *)
LEMMA GcRoundType ==
  ASSUME NEW r \in Nat
  PROVE  CalculateGcRound(r) \in Nat
BY FinalizerAssumption DEF CalculateGcRound

(* A commit is processed: what is popped is finalized in the order of the  *)
(* commits, and collection goes no further than that.                      *)
LEMMA ProcessCommitStep ==
  ASSUME IInv, processed < Len(dag.commits),
         NEW decided \in DecidedAs(processed + 1), ProcessCommit(processed + 1, decided)
  PROVE  IInv'
<1> USE Zenon
<1> DEFINE from == Done
           last == processed + 1
           r == ProcessedCommit(last, decided.local)
           out == Len(r.popped)
           left == Len(r.left)
           u == Len(dag.commits)
<1>1. dag \in Dags /\ u \in Nat /\ processed \in Nat /\ Len(pending_commits) \in Nat
      /\ from \in Nat /\ last \in 1 .. u
  BY SMT, DagFacts DEF IInv, Done, Queue
<1>2. decided.local \in BOOLEAN /\ decided.seen \in SUBSET Block
  BY <1>1, DecidedFacts
<1>3. Outcome(r, from, last)
  BY <1>2, ProcessedFacts
<1>4. /\ dag' = dag /\ voted' = voted /\ restarts' = restarts /\ processed' = last
      /\ pending_commits' = r.left /\ blocks' = r.blocks
      /\ gc' = RunGc(r.popped, last)
      /\ output' = output \cup {[index |-> c.index, rejected |-> c.rejected_transactions] :
                                  c \in {r.popped[k] : k \in DOMAIN r.popped}}
  BY DEF ProcessCommit
<1>5. accepted' \subseteq Block /\ stored' \subseteq Block
  <2> DEFINE needed == Rejecting(dag.commits[last].blocks
                                   \cup UNION {dag.history[b] : b \in decided.seen})
  <2>1. dag.history \in [Block -> SUBSET Block] /\ dag.commits[last].blocks \in SUBSET Block
    BY <1>1, DagFacts, FinalizerAssumption
  <2>2. needed \in SUBSET Block
    BY SMT, <1>2, <2>1 DEF Rejecting
  <2>3. /\ accepted' = accepted \cup needed
        /\ stored' = stored \/ stored' = stored \cup accepted \cup needed
    BY DEF ProcessCommit
  <2> HIDE DEF needed
  <2> QED BY <2>2, <2>3 DEF IInv, TypeOK
<1> HIDE DEF r
<1>6. /\ Queue(r.popped, from) /\ Queue(r.left, from + out) /\ r.blocks = BlocksOf(r.left)
      /\ from + out + left = last
      /\ left # 0 => LeaderRound(last) < LeaderRound(from + out + 1) + INDIRECT_REJECT_DEPTH
  BY <1>3 DEF Outcome
<1>7. out \in Nat /\ left \in Nat /\ DOMAIN r.popped = 1 .. out /\ DOMAIN r.left = 1 .. left
      /\ (\A k \in 1 .. out : r.popped[k].index = from + k)
      /\ (\A k \in 1 .. left : r.left[k].index = from + out + k)
  BY SMT, <1>6 DEF Queue
<1>8. Done' = from + out /\ Len(pending_commits') = left
  <2>1. Done' = last - left /\ Len(pending_commits') = left
    BY <1>4 DEF Done
  <2>2. from + out + left = last /\ from \in Nat /\ out \in Nat /\ left \in Nat
    BY <1>1, <1>6, <1>7
  <2> HIDE DEF from, last, out, left
  <2>3. last - left = from + out
    BY SMT, <2>2
  <2> QED BY <2>1, <2>3
<1>9. processed' \in 0 .. Len(dag'.commits) /\ Len(pending_commits') <= processed'
  <2> HIDE DEF from, out, left, u
  <2>1. last \in 0 .. u /\ left <= last
    <3> HIDE DEF last
    <3> QED BY SMT, <1>1, <1>6, <1>7
  <2> HIDE DEF last
  <2> QED BY <1>4, <1>8, <2>1 DEF u
<1>10. Queue(pending_commits', Done')
  BY <1>4, <1>6, <1>8
<1>11. \A i \in 1 .. Done' : \E p \in output' : p.index = i
  <2> HIDE DEF from, last, left, u
  <2>1. ASSUME NEW i \in 1 .. from PROVE \E p \in output' : p.index = i
    <3>1. \E p \in output : p.index = i
      BY DEF IInv, TypeOK, Done, from
    <3> QED BY <1>4, <3>1
  <2>2. ASSUME NEW k \in 1 .. out PROVE \E p \in output' : p.index = from + k
    <3> DEFINE o == [index |-> r.popped[k].index, rejected |-> r.popped[k].rejected_transactions]
    <3>1. o \in output' /\ o.index = from + k
      BY <1>4, <1>7
    <3> QED BY <3>1
  <2> HIDE DEF out
  <2>3. ASSUME NEW i \in 1 .. from + out
        PROVE  \E p \in output' : p.index = i
    <3>0. from \in Nat /\ out \in Nat
      BY <1>1, <1>7
    <3>1. CASE i <= from
      <4>1. i \in 1 .. from
        BY SMT, <3>0, <3>1
      <4> QED BY <2>1, <4>1
    <3>2. CASE ~(i <= from)
      <4>1. i - from \in 1 .. out /\ from + (i - from) = i
        BY SMT, <3>0, <3>2
      <4> QED BY <2>2, <4>1
    <3> QED BY <3>1, <3>2
  <2> QED BY <1>8, <2>3
<1>12. ASSUME NEW o \in output'
       PROVE  /\ o.index \in 1 .. Len(dag'.commits)
              /\ \A i \in 1 .. o.index : \E p \in output' : p.index = i
  <2>1. CASE o \in output
    BY <1>4, <2>1 DEF IInv
  <2>2. CASE o \notin output
    <3>1. PICK k \in 1 .. out : o.index = r.popped[k].index
      BY SMT, <1>4, <1>7, <2>2
    <3>2. o.index = from + k
      BY <1>7, <3>1
    <3> HIDE DEF from, last, out, left, u
    <3>3. from + k \in 1 .. u /\ 1 .. from + k \subseteq 1 .. from + out
      <4>1. /\ from \in Nat /\ out \in Nat /\ left \in Nat /\ u \in Nat
            /\ last \in 1 .. u /\ from + out + left = last
        BY <1>1, <1>6, <1>7
      <4> QED BY SMT, <4>1
    <3>4. o.index \in 1 .. Len(dag'.commits)
      BY <1>4, <3>2, <3>3 DEF u
    <3>5. \A i \in 1 .. o.index : i \in 1 .. Done'
      BY <1>8, <3>2, <3>3
    <3> QED BY <1>11, <3>4, <3>5
  <2> QED BY <2>1, <2>2
<1>13. gc' = 0 \/ \E i \in 1 .. Done' : gc' = CalculateGcRound(LeaderRound(i)')
  <2>0. \A i : LeaderRound(i)' = LeaderRound(i)
    BY <1>4 DEF LeaderRound
  <2>1. CASE r.popped = << >>
    <3>1. gc' = gc
      BY <1>4, <2>1 DEF RunGc
    <3>2. gc = 0 \/ \E i \in 1 .. from : gc = CalculateGcRound(LeaderRound(i))
      BY DEF IInv
    <3> HIDE DEF from, out
    <3>3. 1 .. from \subseteq 1 .. Done'
      BY SMT, <1>1, <1>7, <1>8
    <3> QED BY <2>0, <3>1, <3>2, <3>3
  <2>2. CASE r.popped # << >>
    <3>1. out # 0
      BY SMT, <1>6, <2>2 DEF Queue
    <3>2. gc' = CalculateGcRound(LeaderRound(r.popped[out].index))
      BY <1>4, <2>2 DEF RunGc
    <3> HIDE DEF from, out
    <3>3. out \in 1 .. out
      BY SMT, <1>7, <3>1
    <3>4. r.popped[out].index = from + out
      BY <1>7, <3>3
    <3>5. from + out \in 1 .. Done'
      BY SMT, <1>1, <1>7, <1>8, <3>1
    <3> QED BY <2>0, <3>2, <3>4, <3>5
  <2> QED BY <2>1, <2>2
<1>14. gc' \in Nat
  <2>1. CASE gc' = 0
    BY <2>1
  <2>2. ASSUME NEW i \in 1 .. Done', gc' = CalculateGcRound(LeaderRound(i)') PROVE gc' \in Nat
    <3>1. LeaderRound(i)' = LeaderRound(i)
      BY <1>4 DEF LeaderRound
    <3> HIDE DEF from, out, left, last, u
    <3>2. i \in 1 .. u
      <4>1. /\ from \in Nat /\ out \in Nat /\ left \in Nat /\ u \in Nat
            /\ last \in 1 .. u /\ from + out + left = last /\ i \in 1 .. from + out
        BY <1>1, <1>6, <1>7, <1>8
      <4> QED BY SMT, <4>1
    <3>3. LeaderRound(i) \in Nat
      BY <1>1, <3>2, DagFacts DEF u
    <3> QED BY <2>2, <3>1, <3>3, GcRoundType
  <2> QED BY <1>13, <2>1, <2>2
<1>15. NoneOverdue'
  <2>0. \A i : LeaderRound(i)' = LeaderRound(i)
    BY SMT, <1>4 DEF LeaderRound
  <2>1. ASSUME NEW k \in 1 .. left
        PROVE  LeaderRound(last) < LeaderRound(r.left[k].index) + INDIRECT_REJECT_DEPTH
    <3> DEFINE x == from + out + 1
               y == from + out + k
    <3>1. r.left[k].index = y
      BY <1>7
    <3> HIDE DEF from, out, left, last, u
    <3>2. left # 0
      BY SMT, <1>7
    <3>3. x \in 1 .. u /\ y \in 1 .. u /\ (x = y \/ x \in 1 .. y - 1)
      <4>1. /\ from \in Nat /\ out \in Nat /\ left \in Nat /\ u \in Nat
            /\ last \in 1 .. u /\ from + out + left = last
        BY <1>1, <1>6, <1>7
      <4> QED BY SMT, <4>1
    <3>4. LeaderRound(last) < LeaderRound(x) + INDIRECT_REJECT_DEPTH
      BY <1>6, <3>2
    <3> HIDE DEF x, y
    <3>5. LeaderRound(x) \in Nat /\ LeaderRound(y) \in Nat /\ LeaderRound(last) \in Nat
          /\ LeaderRound(x) <= LeaderRound(y)
      <4>1. /\ LeaderRound(x) \in Nat /\ LeaderRound(y) \in Nat /\ LeaderRound(last) \in Nat
            /\ x = y \/ LeaderRound(x) < LeaderRound(y)
        BY <1>1, <3>3, DagFacts DEF u
      <4> QED BY SMT, <4>1
    <3>6. LeaderRound(last) < LeaderRound(y) + INDIRECT_REJECT_DEPTH
      BY SMT, <3>4, <3>5 DEF INDIRECT_REJECT_DEPTH
    <3> QED BY <3>1, <3>6
  <2>2. DOMAIN pending_commits' = 1 .. left /\ processed' = last /\ pending_commits' = r.left
    BY <1>4, <1>7
  <2> HIDE DEF left, last
  <2> QED BY <2>0, <2>1, <2>2 DEF NoneOverdue
<1>16. TypeOK'
  <2>1. blocks' = BlocksOf(pending_commits)'
    BY SMT, <1>4, <1>6 DEF BlocksOf
  <2>2. \A k \in DOMAIN pending_commits' : pending_commits'[k].index = Done' + k
    BY <1>4, <1>7, <1>8
  <2>3. restarts' \in 0 .. MaxRestarts /\ voted' \subseteq Block
    BY <1>4 DEF IInv, TypeOK
  <2>4. Done' = processed' - Len(pending_commits')
    BY DEF Done
  <2> QED BY <1>5, <1>11, <1>14, <2>1, <2>2, <2>3, <2>4 DEF TypeOK
<1>17. dag' \in Dags
  BY <1>1, <1>4
<1> QED BY <1>9, <1>10, <1>12, <1>13, <1>15, <1>16, <1>17 DEF IInv

(* After a crash the commits beyond those the consumer has handled are     *)
(* pending no more, and those before are all finalized.                    *)
LEMMA RestartStep ==
  ASSUME IInv, restarts < MaxRestarts, NEW k \in 0 .. LastFinalized,
         NEW last \in LastFinalized .. processed,
         NEW kept \in SUBSET (voted \cup stored \cup accepted), Restart(k, last, kept)
  PROVE  IInv'
<1> USE Zenon
<1> DEFINE u == Len(dag.commits)
<1>1. dag \in Dags /\ u \in Nat /\ LastFinalized \in 0 .. u
      /\ \A i \in 1 .. LastFinalized : \E p \in output : p.index = i
  BY LastFacts, DagFacts DEF IInv
<1>2. /\ dag' = dag /\ output' = output /\ processed' = k /\ pending_commits' = << >>
      /\ blocks' = {} /\ accepted' = kept /\ stored' = kept /\ restarts' = restarts + 1
      /\ voted' = {b \in kept : Round[b] > gc'}
      /\ gc' = IF k = 0 THEN 0 ELSE CalculateGcRound(LeaderRound(k))
  BY DEF Restart
<1>3. k \in 0 .. u /\ k \in Nat
  <2> HIDE DEF u
  <2> QED BY SMT, <1>1
<1>4. Len(<< >>) = 0 /\ << >> \in Seq(CommitState) /\ DOMAIN << >> = {}
  <2>1. Len(<< >>) = 0 /\ << >> \in Seq(CommitState)
    BY SMT
  <2>2. DOMAIN << >> = 1 .. 0 /\ 1 .. 0 = {}
    BY SMT, <2>1
  <2> QED BY <2>1, <2>2
<1>5. Len(pending_commits') = 0 /\ Done' = k
  <2>1. Len(pending_commits') = 0
    BY <1>2, <1>4
  <2>2. Done' = k - 0
    BY <1>2, <2>1 DEF Done
  <2> QED BY SMT, <1>3, <2>1, <2>2
<1>6. Queue(pending_commits', Done')
  BY SMT, <1>2, <1>4, <1>5 DEF Queue
<1>7. processed' \in 0 .. Len(dag'.commits) /\ Len(pending_commits') <= processed'
  BY SMT, <1>2, <1>3, <1>5
<1>8. \A i : LeaderRound(i)' = LeaderRound(i)
  BY <1>2 DEF LeaderRound
<1>9. gc' = 0 \/ \E i \in 1 .. Done' : gc' = CalculateGcRound(LeaderRound(i)')
  <2>1. CASE k = 0
    BY <1>2, <2>1
  <2>2. CASE k # 0
    <3>1. k \in 1 .. Done'
      BY SMT, <1>3, <1>5, <2>2
    <3>2. gc' = CalculateGcRound(LeaderRound(k))
      BY <1>2, <2>2
    <3> QED BY <1>8, <3>1, <3>2
  <2> QED BY <2>1, <2>2
<1>10. gc' \in Nat
  <2>1. CASE k = 0
    BY <1>2, <2>1
  <2>2. CASE k # 0
    <3>1. k \in 1 .. u
      BY SMT, <1>3, <2>2
    <3>2. LeaderRound(k) \in Nat
      BY <1>1, <3>1, DagFacts
    <3> QED BY <1>2, <2>2, <3>2, GcRoundType
  <2> QED BY <2>1, <2>2
<1>11. TypeOK'
  <2>1. kept \subseteq Block
    BY DEF IInv, TypeOK
  <2>2. restarts' \in 0 .. MaxRestarts
    BY SMT, <1>2, FinalizerAssumption DEF IInv, TypeOK
  <2>3. BlocksOf(pending_commits)' = {}
    BY <1>2, <1>4 DEF BlocksOf
  <2>4. Done' = processed' - Len(pending_commits')
    BY DEF Done
  <2>5. \A i \in 1 .. Done' : \E p \in output' : p.index = i
    BY SMT, <1>1, <1>2, <1>5
  <2>6. DOMAIN pending_commits' = {}
    BY <1>2, <1>4
  <2> QED BY <1>2, <1>10, <2>1, <2>2, <2>3, <2>4, <2>5, <2>6 DEF TypeOK
<1>12. NoneOverdue'
  BY <1>2, <1>4 DEF NoneOverdue
<1>13. ASSUME NEW o \in output'
       PROVE  /\ o.index \in 1 .. Len(dag'.commits)
              /\ \A i \in 1 .. o.index : \E p \in output' : p.index = i
  BY <1>2 DEF IInv
<1> QED BY <1>1, <1>2, <1>6, <1>7, <1>9, <1>11, <1>12, <1>13 DEF IInv

(* Every step preserves the invariant. *)
LEMMA NextStep ==
  ASSUME IInv, [Next]_vars
  PROVE  IInv'
<1> USE Zenon
<1>1. CASE \E b \in Rejecting(Block) : AddVotedBlock(b)
  BY <1>1, AddVotedBlockStep
<1>2. ASSUME processed < Len(dag.commits), NEW decided \in DecidedAs(processed + 1),
             ProcessCommit(processed + 1, decided)
      PROVE  IInv'
  BY <1>2, ProcessCommitStep
<1>3. ASSUME restarts < MaxRestarts, NEW k \in 0 .. LastFinalized,
             NEW last \in LastFinalized .. processed,
             NEW kept \in SUBSET (voted \cup stored \cup accepted), Restart(k, last, kept)
      PROVE  IInv'
  BY <1>3, RestartStep
<1>4. CASE UNCHANGED vars
  <2>1. UNCHANGED <<dag, voted, gc, accepted, stored, pending_commits, blocks, processed,
                    output, restarts>>
    BY <1>4 DEF vars
  <2>2. TypeOK'
    <3>1. TypeOK
      BY DEF IInv
    <3>2. BlocksOf(pending_commits)' = BlocksOf(pending_commits)
      BY SMT, <2>1 DEF BlocksOf
    <3> QED BY <2>1, <3>1, <3>2 DEF TypeOK
  <2>3. NoneOverdue'
    BY <2>1 DEF IInv, NoneOverdue, LeaderRound
  <2>4. Done' = Done
    BY <2>1 DEF Done
  <2>5. Queue(pending_commits, Done)'
    BY <2>1, <2>4 DEF IInv, Queue
  <2>6. (gc = 0 \/ \E i \in 1 .. Done : gc = CalculateGcRound(LeaderRound(i)))'
    BY <2>1, <2>4 DEF IInv, LeaderRound
  <2> QED BY <2>1, <2>2, <2>3, <2>5, <2>6 DEF IInv
<1> QED BY <1>1, <1>2, <1>3, <1>4 DEF Next

(* No block of a commit that is not finalized is at or below the GC round. *)
LEMMA VotesKeptFromIInv == IInv => VotesKept
<1> SUFFICES ASSUME IInv, NEW i \in DOMAIN dag.commits, i > Done,
                    NEW b \in dag.commits[i].blocks
             PROVE  Round[b] > gc
  BY Zenon DEF VotesKept, Done
<1>1. dag \in Dags /\ i \in 1 .. Len(dag.commits) /\ Len(dag.commits) \in Nat
  BY Zenon, DagFacts DEF IInv
<1>2. CASE gc = 0
  <2>1. b \in Block
    BY Zenon, <1>1, DagFacts
  <2> QED BY <1>2, <2>1, FinalizerAssumption
<1>3. ASSUME NEW j \in 1 .. Done, gc = CalculateGcRound(LeaderRound(j)) PROVE Round[b] > gc
  <2>1. Done \in Nat
    BY DEF IInv, Done, Queue
  <2>2. j \in 1 .. i - 1
    BY <1>1, <2>1
  <2> QED BY Zenon, <1>1, <1>3, <2>2, DagFacts
<1> QED BY Zenon, <1>2, <1>3 DEF IInv

-----------------------------------------------------------------------------
(* The inductive invariant holds in every reachable state: the commits are *)
(* popped in their order and none is left out, whatever is voted and       *)
(* whenever the validator crashes.                                         *)
THEOREM Invariance == Spec => []IInv
<1>1. IInv /\ [Next]_vars => IInv'
  BY NextStep
<1> QED BY InitStep, <1>1, PTL DEF Spec

(* The finalized commits and the pending ones are exactly the processed    *)
(* ones, in their order, and the links are those of the pending ones       *)
(* (pop_finalized_commits, recover_and_send_commits).                      *)
THEOREM FinalizedInOrder == Spec => []TypeOK
<1>1. IInv => TypeOK
  BY DEF IInv
<1> QED BY Invariance, <1>1, PTL

(* get_reject_votes never finds a block of a pending or later commit       *)
(* collected, for every GC depth: run_gc follows the last finalized commit *)
(* and a restart the last one handled.                                     *)
THEOREM VotesKeptAlways == Spec => []VotesKept
BY Invariance, VotesKeptFromIInv, PTL

(* No commit stays in the queue once a commit a wave above it has been     *)
(* processed (try_indirect_finalize_first_commit), so the queue is bounded *)
(* by the commits of three rounds.                                         *)
THEOREM NoCommitOverdue == Spec => []NoneOverdue
<1>1. IInv => NoneOverdue
  BY DEF IInv
<1> QED BY Invariance, <1>1, PTL

-----------------------------------------------------------------------------
(* Stake.                                                                  *)

(* The stake of a set is a number, and that of a larger set is no less.    *)
LEMMA StakeFacts ==
  ASSUME NEW T \in SUBSET DOMAIN Stake, NEW S \in SUBSET T
  PROVE  /\ StakeOf(S) \in Nat /\ StakeOf(T) \in Nat /\ StakeOf(T \ S) \in Nat
         /\ StakeOf(T) = StakeOf(S) + StakeOf(T \ S)
         /\ StakeOf(S) <= StakeOf(T)
<1>1. S \in SUBSET DOMAIN Stake /\ T \ S \in SUBSET DOMAIN Stake
      /\ S \cap (T \ S) = {} /\ S \cup (T \ S) = T
  BY Zenon
<1>2. \A U \in SUBSET DOMAIN Stake : StakeOf(U) \in Nat
  BY Zenon, CommitteeAssumption DEF StakeOf
<1>3. StakeOf(T) = StakeOf(S) + StakeOf(T \ S)
  BY Zenon, <1>1, CommitteeAssumption
<1>4. StakeOf(S) \in Nat /\ StakeOf(T) \in Nat /\ StakeOf(T \ S) \in Nat
  BY Zenon, <1>1, <1>2
<1> QED BY <1>3, <1>4

(* More authorities than a quorum are a quorum. *)
LEMMA QuorumGrows ==
  ASSUME NEW T \in SUBSET DOMAIN Stake, NEW S \in SUBSET T, ReachedQuorum(S)
  PROVE  ReachedQuorum(T)
<1> DEFINE s == StakeOf(S)
           t == StakeOf(T)
<1>1. s \in Nat /\ t \in Nat /\ s <= t
  BY Zenon, StakeFacts
<1>2. s >= QuorumThreshold /\ QuorumThreshold \in Nat
  BY Zenon, CommitteeAssumption DEF ReachedQuorum
<1> HIDE DEF s, t
<1>3. t >= QuorumThreshold
  BY <1>1, <1>2
<1> QED BY Zenon, <1>3 DEF ReachedQuorum, t

(* Two quorums share an authority that is not faulty. *)
LEMMA QuorumsIntersect ==
  ASSUME NEW S \in SUBSET DOMAIN Stake, NEW T \in SUBSET DOMAIN Stake,
         ReachedQuorum(S), ReachedQuorum(T)
  PROVE  \E a \in S \cap T : a \notin Faulty
<1> USE Zenon
<1> SUFFICES ASSUME S \cap T \in SUBSET Faulty PROVE FALSE
  OBVIOUS
<1> DEFINE U == S \cup T
           s == StakeOf(S)
           t == StakeOf(T)
           u == StakeOf(U)
           v == StakeOf(S \cap T)
           w == StakeOf(T \ (S \cap T))
           all == StakeOf(DOMAIN Stake)
           f == StakeOf(Faulty)
<1>1. Faulty \in SUBSET DOMAIN Stake
  BY CommitteeAssumption
<1>2. s \in Nat /\ u \in Nat /\ u = s + StakeOf(U \ S)
  <2>1. U \in SUBSET DOMAIN Stake /\ S \in SUBSET U
    OBVIOUS
  <2> QED BY <2>1, StakeFacts
<1>3. U \ S = T \ (S \cap T)
  OBVIOUS
<1>4. t \in Nat /\ v \in Nat /\ w \in Nat /\ t = v + w
  <2>1. S \cap T \in SUBSET T
    OBVIOUS
  <2> QED BY <2>1, StakeFacts
<1>5. all \in Nat /\ u <= all
  <2>1. U \in SUBSET DOMAIN Stake /\ DOMAIN Stake \in SUBSET DOMAIN Stake
    OBVIOUS
  <2> QED BY <2>1, StakeFacts
<1>6. f \in Nat /\ v <= f
  BY <1>1, StakeFacts
<1>7. s >= QuorumThreshold /\ t >= QuorumThreshold /\ QuorumThreshold \in Nat
      /\ 2 * QuorumThreshold > all + f
  BY CommitteeAssumption DEF ReachedQuorum
<1>8. u = s + w
  BY <1>2, <1>3
<1> HIDE DEF s, t, u, v, w, all, f
<1> QED BY SMT, <1>2, <1>4, <1>5, <1>6, <1>7, <1>8

(* A quorum remains when the stake that is taken away leaves one. *)
LEMMA QuorumRemains ==
  ASSUME NEW S \in SUBSET DOMAIN Stake, NEW T \in SUBSET DOMAIN Stake,
         StakeOf(S) - StakeOf(T) >= QuorumThreshold
  PROVE  ReachedQuorum(S \ T)
<1> USE Zenon
<1> DEFINE s == StakeOf(S)
           t == StakeOf(T)
           v == StakeOf(S \cap T)
           w == StakeOf(S \ T)
<1>1. v \in Nat /\ s \in Nat /\ w \in Nat /\ s = v + w
  <2>1. S \cap T \in SUBSET S /\ S \ (S \cap T) = S \ T
    OBVIOUS
  <2> QED BY <2>1, StakeFacts
<1>2. t \in Nat /\ v <= t
  <2>1. S \cap T \in SUBSET T
    OBVIOUS
  <2> QED BY <2>1, StakeFacts
<1>3. QuorumThreshold \in Nat /\ s - t >= QuorumThreshold
  BY CommitteeAssumption
<1> HIDE DEF s, t, v, w
<1>4. w >= QuorumThreshold
  BY SMT, <1>1, <1>2, <1>3
<1> QED BY <1>4 DEF ReachedQuorum, w

(* The authors of blocks are authorities. *)
LEMMA AuthorsType ==
  ASSUME NEW S \in SUBSET Block
  PROVE  Authors(S) \in SUBSET DOMAIN Stake
<1>1. \A b \in S : Author[b] \in DOMAIN Stake
  BY Zenon, CommitteeAssumption
<1> QED BY Zenon, <1>1 DEF Authors

-----------------------------------------------------------------------------
(* Causal histories.                                                       *)

(* What holds of a block when it holds of all blocks of earlier rounds     *)
(* holds of all blocks.                                                    *)
LEMMA RoundInduction ==
  ASSUME NEW G \in SUBSET Block,
         \A b \in Block : (\A p \in Block : Round[p] < Round[b] => p \in G) => b \in G
  PROVE  \A b \in Block : b \in G
<1> USE Zenon
<1> SUFFICES ASSUME NEW x \in Block, x \notin G PROVE FALSE
  OBVIOUS
<1> DEFINE R == {Round[b] : b \in Block \ G}
<1>1. \A b \in Block : Round[b] \in Nat
  BY FinalizerAssumption
<1>2. R \in SUBSET Nat /\ R # {}
  <2>1. R \in SUBSET Nat
    BY SMT, <1>1
  <2>2. Round[x] \in R
    OBVIOUS
  <2> QED BY <2>1, <2>2
<1>3. PICK m \in R : \A k \in R : m <= k
  <2> HIDE DEF R
  <2> QED BY <1>2, MinExists
<1>4. PICK y \in Block \ G : m = Round[y]
  OBVIOUS
<1>5. ASSUME NEW p \in Block, Round[p] < Round[y] PROVE p \in G
  <2>1. SUFFICES ASSUME p \notin G PROVE FALSE
    OBVIOUS
  <2>2. Round[p] \in R
    BY <2>1
  <2>3. Round[y] <= Round[p]
    BY <1>3, <1>4, <2>2
  <2> QED BY SMT, <1>1, <1>4, <1>5, <2>3
<1> QED BY <1>4, <1>5

(* The ancestors of a block are of earlier rounds, and its history is what *)
(* it reaches through them.                                                *)
LEMMA AncestorFacts ==
  ASSUME dag \in Dags, NEW b \in Block
  PROVE  /\ Round[b] \in Nat \ {0}
         /\ dag.ancestors[b] \in SUBSET Block /\ dag.history[b] \in SUBSET Block
         /\ dag.rejects[b] \in SUBSET Block
         /\ b \in dag.history[b]
         /\ \A p \in dag.ancestors[b] : Round[p] < Round[b] /\ dag.history[p] \subseteq dag.history[b]
         /\ \A x \in dag.history[b] : x = b \/ \E p \in dag.ancestors[b] : x \in dag.history[p]
<1> USE Zenon
<1>1. Round[b] \in Nat \ {0}
  BY FinalizerAssumption
<1>2. dag.ancestors[b] \in SUBSET Block /\ dag.history[b] \in SUBSET Block
      /\ dag.rejects[b] \in SUBSET Block
  <2>1. dag.ancestors \in [Block -> SUBSET Block] /\ dag.history \in [Block -> SUBSET Block]
        /\ dag.rejects \in [Block -> SUBSET Block]
    BY FinalizerAssumption
  <2> QED BY <2>1
<1>3. /\ \A p \in dag.ancestors[b] : Round[p] < Round[b]
      /\ dag.history[b] = {b} \cup UNION {dag.history[p] : p \in dag.ancestors[b]}
  BY DagsAssumption DEF Linked
<1>4. \A x : x \in dag.history[b] <=> x = b \/ \E p \in dag.ancestors[b] : x \in dag.history[p]
  BY <1>3
<1> QED BY <1>1, <1>2, <1>3, <1>4

(* A history has the histories of its blocks, all of earlier rounds. *)
LEMMA HistoryFacts ==
  ASSUME dag \in Dags
  PROVE  \A b \in Block : \A x \in dag.history[b] :
           /\ x \in Block /\ dag.history[x] \subseteq dag.history[b]
           /\ x = b \/ Round[x] < Round[b]
<1> USE Zenon
<1> DEFINE Good(b) == \A x \in dag.history[b] :
                        /\ x \in Block /\ dag.history[x] \subseteq dag.history[b]
                        /\ x = b \/ Round[x] < Round[b]
           G == {b \in Block : Good(b)}
<1>1. ASSUME NEW b \in Block, \A p \in Block : Round[p] < Round[b] => p \in G PROVE b \in G
  <2>1. ASSUME NEW x \in dag.history[b]
        PROVE  /\ x \in Block /\ dag.history[x] \subseteq dag.history[b]
               /\ x = b \/ Round[x] < Round[b]
    <3>1. CASE x = b
      BY <3>1
    <3>2. ASSUME NEW p \in dag.ancestors[b], x \in dag.history[p]
          PROVE  /\ x \in Block /\ dag.history[x] \subseteq dag.history[b]
                 /\ x = b \/ Round[x] < Round[b]
      <4>1. p \in Block /\ Round[p] < Round[b] /\ dag.history[p] \subseteq dag.history[b]
        BY AncestorFacts
      <4>2. Good(p)
        BY <1>1, <4>1
      <4>3. x \in Block /\ dag.history[x] \subseteq dag.history[p] /\ (x = p \/ Round[x] < Round[p])
        BY <3>2, <4>2
      <4>4. Round[x] \in Nat /\ Round[p] \in Nat /\ Round[b] \in Nat
        BY <4>1, <4>3, FinalizerAssumption
      <4>5. Round[x] < Round[b]
        BY SMT, <4>1, <4>3, <4>4
      <4> QED BY <4>1, <4>3, <4>5
    <3> QED BY <3>1, <3>2, AncestorFacts
  <2> QED BY <2>1
<1>2. G \in SUBSET Block
  OBVIOUS
<1> HIDE DEF G
<1>3. \A b \in Block : b \in G
  BY <1>1, <1>2, RoundInduction
<1> QED BY <1>3 DEF G

(* The history of a block has a quorum of blocks of every earlier round. *)
LEMMA HistoryQuorum ==
  ASSUME dag \in Dags, NEW r \in Nat \ {0}
  PROVE  \A b \in Block :
           Round[b] > r => ReachedQuorum(Authors({x \in dag.history[b] : Round[x] = r}))
<1> USE Zenon
<1> DEFINE At(b) == {x \in dag.history[b] : Round[x] = r}
           G == {b \in Block : Round[b] > r => ReachedQuorum(Authors(At(b)))}
<1>0. \A b \in Block : At(b) \in SUBSET Block /\ Authors(At(b)) \in SUBSET DOMAIN Stake
  <2>1. \A b \in Block : At(b) \in SUBSET Block
    BY AncestorFacts
  <2> HIDE DEF At
  <2> QED BY <2>1, AuthorsType
<1>1. ASSUME NEW b \in Block, \A p \in Block : Round[p] < Round[b] => p \in G PROVE b \in G
  <2>1. SUFFICES ASSUME Round[b] > r PROVE ReachedQuorum(Authors(At(b)))
    OBVIOUS
  <2> DEFINE P == {p \in dag.ancestors[b] : Round[p] = Round[b] - 1}
  <2>2. P \in SUBSET Block /\ Authors(P) \in SUBSET DOMAIN Stake
    <3>1. P \in SUBSET Block
      BY AncestorFacts
    <3> HIDE DEF P
    <3> QED BY <3>1, AuthorsType
  <2>3. Round[b] \in Nat \ {0} /\ Round[b] > 1
    BY SMT, <2>1, FinalizerAssumption
  <2>4. ReachedQuorum(Authors(P))
    BY <2>3, DagsAssumption DEF Linked
  <2>5. CASE Round[b] = r + 1
    <3>1. \A p \in P : p \in At(b)
      <4>1. \A p \in P : Round[p] = r
        BY SMT, <2>5
      <4>2. \A p \in P : p \in dag.history[b]
        BY AncestorFacts
      <4> QED BY <4>1, <4>2
    <3>2. Authors(P) \in SUBSET Authors(At(b))
      <4> HIDE DEF P, At
      <4> QED BY <3>1 DEF Authors
    <3> HIDE DEF P, At
    <3> QED BY <1>0, <2>4, <3>2, QuorumGrows
  <2>6. CASE Round[b] # r + 1
    <3>1. PICK p \in P : TRUE
      <4>1. PICK a \in Authors(P) \cap Authors(P) : a \notin Faulty
        BY <2>2, <2>4, QuorumsIntersect
      <4> HIDE DEF P
      <4> QED BY <4>1 DEF Authors
    <3>2. p \in Block /\ Round[p] = Round[b] - 1 /\ dag.history[p] \subseteq dag.history[b]
      BY AncestorFacts
    <3>3. Round[p] < Round[b] /\ Round[p] > r
      BY SMT, <2>1, <2>3, <2>6, <3>2
    <3>4. ReachedQuorum(Authors(At(p)))
      BY <1>1, <3>2, <3>3
    <3>5. At(p) \in SUBSET At(b)
      BY <3>2
    <3>6. Authors(At(p)) \in SUBSET Authors(At(b))
      <4> HIDE DEF At
      <4> QED BY <3>5 DEF Authors
    <3> HIDE DEF At
    <3> QED BY <1>0, <3>2, <3>4, <3>6, QuorumGrows
  <2> QED BY <2>5, <2>6
<1>2. G \in SUBSET Block
  OBVIOUS
<1> HIDE DEF G
<1>3. \A b \in Block : b \in G
  BY <1>1, <1>2, RoundInduction
<1> QED BY <1>3 DEF G

(* Blocks of one round from a quorum, but for the faulty authorities, are  *)
(* met by the history of every block above.                                *)
LEMMA QuorumMet ==
  ASSUME dag \in Dags, NEW r \in Nat \ {0}, NEW b \in Block, Round[b] > r,
         NEW X \in SUBSET Block, \A x \in X : Round[x] = r,
         NEW F \in SUBSET DOMAIN Stake, ReachedQuorum(F), F \subseteq Faulty \cup Authors(X)
  PROVE  \E x \in X : x \in dag.history[b]
<1> USE Zenon
<1> DEFINE H == {x \in dag.history[b] : Round[x] = r}
<1>1. ReachedQuorum(Authors(H))
  BY HistoryQuorum
<1>2. \A x \in H : x \in Block /\ x \in dag.history[b] /\ Round[x] = r
  BY AncestorFacts
<1> HIDE DEF H
<1>3. H \in SUBSET Block
  BY <1>2
<1>4. PICK a \in Authors(H) \cap F : a \notin Faulty
  <2>1. Authors(H) \in SUBSET DOMAIN Stake
    BY <1>3, AuthorsType
  <2> QED BY <1>1, <2>1, QuorumsIntersect
<1>5. PICK y \in H : Author[y] = a
  BY <1>4 DEF Authors
<1>6. PICK x \in X : Author[x] = a
  BY <1>4 DEF Authors
<1>7. x \in Block /\ y \in Block /\ Author[x] = Author[y] /\ Author[x] \notin Faulty /\ Round[x] = Round[y]
  BY <1>2, <1>4, <1>5, <1>6
<1>8. HonestlyVoted(dag)
  BY DagsAssumption
<1>9. x = y
  <2>1. Author[x] = Author[y] /\ Author[x] \notin Faulty => (Round[x] = Round[y] => x = y)
    BY <1>7, <1>8 DEF HonestlyVoted
  <2> QED BY <1>7, <2>1
<1> QED BY <1>2, <1>9

-----------------------------------------------------------------------------
(* The blocks from which a transaction is reached.                         *)

(* What Reached returns: t, and each linked block with a parent in it. *)
LEMMA ReachedFacts ==
  ASSUME dag \in Dags, NEW linked \in SUBSET Block, NEW t \in Block,
         NEW top \in Nat, \A b \in linked : Round[b] <= top
  PROVE  /\ Reached(linked, t) \in SUBSET Block /\ t \in Reached(linked, t)
         /\ \A b \in Reached(linked, t) \ {t} :
              b \in linked /\ Round[b] > Round[t] /\ dag.ancestors[b] \cap Reached(linked, t) # {}
         /\ \A b \in Reached(linked, t) : t \in dag.history[b]
         /\ \A b \in linked : \A p \in dag.ancestors[b] :
              p \in Reached(linked, t) => b \in Reached(linked, t) \ {t}
<1> USE Zenon
<1> DEFINE
      (* With t, every linked block above it with a parent in U is in U. *)
      Closed(U) == /\ t \in U
                   /\ \A b \in linked :
                        Round[b] > Round[t] /\ dag.ancestors[b] \cap U # {} => b \in U
      (* The least set that is closed, and its blocks up to a round. *)
      Least == {x \in linked \cup {t} : \A U \in SUBSET Block : Closed(U) => x \in U}
      Upto(r) == {x \in Least : x = t \/ Round[x] <= r}
      (* One round of the computation, over the blocks of the round before. *)
      Layer(r, below) ==
        IF r <= Round[t] THEN {t}
        ELSE below \cup {b \in linked : Round[b] = r /\ dag.ancestors[b] \cap below # {}}
      R == Reached(linked, t)
<1> HIDE DEF Closed, Least, Upto, Layer, R
<1>1. /\ Least \in SUBSET Block /\ Closed(Least)
      /\ \A b \in Least \ {t} :
           b \in linked /\ Round[b] > Round[t] /\ dag.ancestors[b] \cap Least # {}
  <2>1. \A x : x \in Least <=> /\ x \in linked \cup {t}
                            /\ \A U \in SUBSET Block : Closed(U) => x \in U
    BY DEF Least
  <2>2. Least \in SUBSET Block
    BY <2>1
  <2>3. t \in Least
    BY <2>1 DEF Closed
  <2>4. ASSUME NEW b \in linked, Round[b] > Round[t], dag.ancestors[b] \cap Least # {} PROVE b \in Least
    <3>1. ASSUME NEW U \in SUBSET Block, Closed(U) PROVE b \in U
      <4>1. dag.ancestors[b] \cap U # {}
        BY <2>1, <2>4, <3>1
      <4> QED BY <2>4, <3>1, <4>1 DEF Closed
    <3> QED BY <2>1, <3>1
  <2>5. Closed(Least)
    BY <2>3, <2>4 DEF Closed
  <2>6. ASSUME NEW x \in Least \ {t}, ~(Round[x] > Round[t] /\ dag.ancestors[x] \cap Least # {}) PROVE FALSE
    <3> DEFINE V == Least \ {x}
    <3>1. V \in SUBSET Block /\ t \in V
      BY <2>2, <2>3
    <3>2. ASSUME NEW b \in linked, Round[b] > Round[t], dag.ancestors[b] \cap V # {} PROVE b \in V
      <4>1. dag.ancestors[b] \cap Least # {}
        BY <3>2
      <4>2. b \in Least /\ b # x
        BY <2>4, <2>6, <3>2, <4>1
      <4> QED BY <4>2
    <3>3. x \notin V
      OBVIOUS
    <3> HIDE DEF V
    <3>4. Closed(V)
      BY <3>1, <3>2 DEF Closed
    <3> QED BY <2>1, <3>1, <3>3, <3>4
  <2>7. \A b \in Least \ {t} : b \in linked
    BY <2>1
  <2> QED BY <2>2, <2>5, <2>6, <2>7
<1>2. ASSUME NEW r \in Nat PROVE Upto(r) = Layer(r, Upto(r - 1))
  <2> DEFINE B == Upto(r - 1)
             N == {b \in linked : Round[b] = r /\ dag.ancestors[b] \cap B # {}}
  <2>1. /\ Least \in SUBSET Block /\ t \in Least
        /\ \A b \in linked : Round[b] > Round[t] /\ dag.ancestors[b] \cap Least # {} => b \in Least
        /\ \A b \in Least \ {t} : b \in linked /\ Round[b] > Round[t] /\ dag.ancestors[b] \cap Least # {}
    BY <1>1 DEF Closed
  <2>2. \A x : x \in Upto(r) <=> x \in Least /\ (x = t \/ Round[x] <= r)
    BY DEF Upto
  <2>3. \A x : x \in B <=> x \in Least /\ (x = t \/ Round[x] <= r - 1)
    BY DEF Upto
  <2>4. \A x \in Block : Round[x] \in Nat
    BY FinalizerAssumption
  <2> HIDE DEF B
  <2>5. CASE r <= Round[t]
    <3>1. \A x \in Least \ {t} : ~(Round[x] <= r)
      BY SMT, <2>1, <2>4, <2>5
    <3>2. Upto(r) = {t}
      BY <2>1, <2>2, <3>1
    <3> QED BY <2>5, <3>2 DEF Layer
  <2>6. CASE ~(r <= Round[t])
    <3>1. ASSUME NEW x \in B PROVE x \in Upto(r)
      <4>1. x \in Least /\ (x = t \/ Round[x] <= r - 1) /\ Round[x] \in Nat
        BY <2>1, <2>3, <2>4
      <4>2. x = t \/ Round[x] <= r
        BY SMT, <4>1
      <4> QED BY <2>2, <4>1, <4>2
    <3>2. ASSUME NEW x \in N PROVE x \in Upto(r)
      <4>1. x \in linked /\ Round[x] = r /\ dag.ancestors[x] \cap Least # {}
        BY <2>3
      <4>2. Round[x] > Round[t] /\ Round[x] <= r
        BY SMT, <2>4, <2>6, <4>1
      <4> QED BY <2>1, <2>2, <4>1, <4>2
    <3>3. ASSUME NEW x \in Upto(r), x \notin B PROVE x \in N
      <4>1. x \in Least \ {t} /\ Round[x] <= r /\ ~(Round[x] <= r - 1) /\ x \in Block /\ x \in linked
        BY <2>1, <2>2, <2>3, <3>3
      <4>2. Round[x] = r
        BY SMT, <2>4, <4>1
      <4>3. PICK p \in dag.ancestors[x] : p \in Least
        BY <2>1, <4>1
      <4>4. p \in Block /\ Round[p] < Round[x]
        BY <2>1, <4>1, <4>3, AncestorFacts
      <4>5. Round[p] <= r - 1
        BY SMT, <2>4, <4>2, <4>4
      <4>6. p \in B
        BY <2>3, <4>3, <4>5
      <4> QED BY <4>1, <4>2, <4>3, <4>6
    <3> HIDE DEF N
    <3>4. Upto(r) = B \cup N
      BY <3>1, <3>2, <3>3
    <3> QED BY <2>6, <3>4 DEF Layer, B, N
  <2> QED BY <2>5, <2>6 DEF B
<1>3. R = Least
  <2> DEFINE Sol(f) == f = [r \in Nat |-> IF r <= Round[t] THEN {t}
                              ELSE LET below == f[r - 1] IN
                                   below \cup {b \in linked :
                                     Round[b] = r /\ dag.ancestors[b] \cap below # {}}]
             up == CHOOSE f : Sol(f)
             S == {Round[t]} \cup {Round[b] : b \in linked}
             g == [r \in Nat |-> Upto(r)]
  <2>1. R = up[Max(S)]
    BY DEF Reached, R
  <2>2. \A f : Sol(f) <=> f = [r \in Nat |-> Layer(r, f[r - 1])]
    BY DEF Layer
  <2> HIDE DEF Sol
  <2>3. Sol(g)
    <3>1. ASSUME NEW r \in Nat PROVE Upto(r) = Layer(r, g[r - 1])
      <4>1. CASE r <= Round[t]
        <5>1. \A X : Layer(r, X) = {t}
          BY <4>1 DEF Layer
        <5> QED BY <5>1, <1>2
      <4>2. CASE ~(r <= Round[t])
        <5>1. Round[t] \in Nat
          BY FinalizerAssumption
        <5>2. r - 1 \in Nat
          BY SMT, <4>2, <5>1
        <5>3. g[r - 1] = Upto(r - 1)
          BY <5>2
        <5> QED BY <5>3, <1>2
      <4> QED BY <4>1, <4>2
    <3>2. g = [r \in Nat |-> Layer(r, g[r - 1])]
      BY <3>1
    <3> QED BY <2>2, <3>2
  <2>4. Sol(up)
    BY <2>3
  <2> HIDE DEF up, g
  <2>5. \A r \in Nat : up[r] = Layer(r, up[r - 1])
    BY <2>2, <2>4
  <2>6. ASSUME NEW r \in Nat PROVE up[r] = Upto(r)
    <3> DEFINE Bad == {k \in Nat : up[k] # Upto(k)}
    <3>1. SUFFICES ASSUME Bad # {} PROVE FALSE
      OBVIOUS
    <3>2. PICK m \in Bad : \A k \in Bad : m <= k
      <4>1. Bad \in SUBSET Nat
        OBVIOUS
      <4> HIDE DEF Bad
      <4> QED BY <3>1, <4>1, MinExists
    <3>3. m \in Nat /\ up[m] # Upto(m)
      OBVIOUS
    <3>4. CASE m <= Round[t]
      <4>1. \A X : Layer(m, X) = {t}
        BY <3>4 DEF Layer
      <4>2. up[m] = {t}
        BY <2>5, <3>3, <4>1
      <4>3. Upto(m) = Layer(m, Upto(m - 1))
        BY <3>3, <1>2
      <4> QED BY <3>3, <4>1, <4>2, <4>3
    <3>5. CASE ~(m <= Round[t])
      <4>1. Round[t] \in Nat
        BY FinalizerAssumption
      <4>2. m - 1 \in Nat /\ ~(m <= m - 1)
        BY SMT, <3>3, <3>5, <4>1
      <4>3. up[m - 1] = Upto(m - 1)
        BY <3>2, <4>2
      <4> QED BY <2>5, <3>3, <4>3, <1>2
    <3> QED BY <3>4, <3>5
  <2>7. Max(S) \in Nat /\ \A b \in linked : Round[b] <= Max(S)
    <3>1. \A b \in Block : Round[b] \in Nat
      BY FinalizerAssumption
    <3> DEFINE u == top + Round[t]
    <3>2. u \in Nat /\ S \in SUBSET (0 .. u)
      <4>1. u \in Nat /\ Round[t] \in 0 .. u /\ \A b \in linked : Round[b] \in 0 .. u
        BY SMT, <3>1
      <4> HIDE DEF u
      <4> QED BY <4>1
    <3>3. S # {} /\ \A b \in linked : Round[b] \in S
      OBVIOUS
    <3> HIDE DEF S, u
    <3>4. Max(S) \in S /\ \A m \in S : m <= Max(S)
      BY <3>2, <3>3, MaxFacts
    <3>5. Max(S) \in Nat
      <4>1. Max(S) \in 0 .. u
        BY <3>2, <3>4
      <4>2. \A m \in 0 .. u : m \in Nat
        BY SMT, <3>2
      <4> QED BY <4>1, <4>2
    <3> QED BY <3>3, <3>4, <3>5
  <2> HIDE DEF S
  <2>8. R = Upto(Max(S))
    BY <2>1, <2>6, <2>7
  <2>9. \A x \in Least : x = t \/ Round[x] <= Max(S)
    BY <2>7 DEF Least
  <2>10. Upto(Max(S)) = Least
    BY <2>9 DEF Upto
  <2> QED BY <2>8, <2>10
<1>4. /\ R \in SUBSET Block /\ t \in R
      /\ \A b \in linked : Round[b] > Round[t] /\ dag.ancestors[b] \cap R # {} => b \in R
      /\ \A b \in R \ {t} : b \in linked /\ Round[b] > Round[t] /\ dag.ancestors[b] \cap R # {}
  BY <1>3, <1>1 DEF Closed
<1>5. ASSUME NEW b \in linked, NEW p \in dag.ancestors[b], p \in R PROVE b \in R \ {t}
  <2>1. b \in Block /\ p \in Block /\ Round[p] < Round[b]
    BY <1>4, <1>5, AncestorFacts
  <2>2. p = t \/ Round[p] > Round[t]
    BY <1>4, <1>5
  <2>3. Round[b] > Round[t] /\ b # t
    <3>1. Round[b] \in Nat /\ Round[p] \in Nat /\ Round[t] \in Nat
      BY <2>1, FinalizerAssumption
    <3> QED BY SMT, <2>1, <2>2, <3>1
  <2> QED BY <1>4, <1>5, <2>3
<1>6. \A b \in R : t \in dag.history[b]
  <2> DEFINE G == {b \in Block : b \in R => t \in dag.history[b]}
  <2>1. ASSUME NEW b \in Block, \A p \in Block : Round[p] < Round[b] => p \in G PROVE b \in G
    <3>1. ASSUME b \in R PROVE t \in dag.history[b]
      <4>1. CASE b = t
        BY <4>1, AncestorFacts
      <4>2. CASE b # t
        <5>1. PICK p \in dag.ancestors[b] : p \in R
          BY <1>4, <3>1, <4>2
        <5>2. p \in Block /\ Round[p] < Round[b] /\ dag.history[p] \subseteq dag.history[b]
          BY <1>4, <5>1, AncestorFacts
        <5> QED BY <2>1, <5>1, <5>2
      <4> QED BY <4>1, <4>2
    <3> QED BY <3>1
  <2>2. G \in SUBSET Block
    OBVIOUS
  <2> HIDE DEF G
  <2>3. \A b \in Block : b \in G
    BY <2>1, <2>2, RoundInduction
  <2> QED BY <1>4, <2>3 DEF G
<1> QED BY <1>4, <1>5, <1>6 DEF R

-----------------------------------------------------------------------------
(* The blocks of commits.                                                  *)

Leader(i) == dag.commits[i].leader

(* The blocks of the commits from the i-th to the j-th. *)
Span(i, j) == UNION {dag.commits[k].blocks : k \in i .. j}

(* The leader of a commit, and what its blocks are. *)
LEMMA CommitFacts ==
  ASSUME dag \in Dags, NEW j \in 1 .. Len(dag.commits)
  PROVE  /\ Leader(j) \in Block /\ LeaderRound(j) = Round[Leader(j)] /\ LeaderRound(j) \in Nat \ {0}
         /\ dag.commits[j].blocks \in SUBSET dag.history[Leader(j)]
         /\ \A b \in Block :
              b \in dag.commits[j].blocks <=>
                /\ b \in dag.history[Leader(j)]
                /\ \A i \in 1 .. j - 1 :
                     b \notin dag.history[Leader(i)] /\ Round[b] > CalculateGcRound(LeaderRound(i))
         /\ \A b \in dag.commits[j].blocks : b \in Block /\ Round[b] <= LeaderRound(j)
<1> USE Zenon
<1>1. j \in DOMAIN dag.commits /\ dag.commits[j].blocks \in SUBSET Block
  BY DagFacts
<1>2. Leader(j) \in Block
  <2> DEFINE cs == dag.commits
             T == [leader : Block, blocks : SUBSET Block]
  <2>1. cs \in Seq(T)
    BY FinalizerAssumption
  <2>2. \A x \in T : x.leader \in Block
    OBVIOUS
  <2> HIDE DEF cs, T
  <2>3. \A k \in DOMAIN cs : cs[k] \in T
    BY SMT, <2>1
  <2>4. j \in DOMAIN cs
    BY <1>1 DEF cs
  <2> QED BY <2>2, <2>3, <2>4 DEF cs, Leader
<1>3. LeaderRound(j) = Round[Leader(j)]
  BY DEF Leader, LeaderRound
<1>4. Round[Leader(j)] \in Nat \ {0}
  BY <1>2, FinalizerAssumption
<1>5. \A b \in Block :
        b \in dag.commits[j].blocks <=>
          /\ b \in dag.history[Leader(j)]
          /\ \A i \in 1 .. j - 1 :
               b \notin dag.history[Leader(i)] /\ Round[b] > CalculateGcRound(LeaderRound(i))
  <2>1. Committed(dag)
    BY DagsAssumption
  <2> QED BY <1>1, <2>1 DEF Committed, Leader, LeaderRound
<1>6. ASSUME NEW b \in dag.commits[j].blocks
      PROVE  b \in Block /\ b \in dag.history[Leader(j)] /\ Round[b] <= LeaderRound(j)
  <2>1. b \in Block /\ b \in dag.history[Leader(j)]
    BY <1>1, <1>5
  <2>2. b = Leader(j) \/ Round[b] < Round[Leader(j)]
    BY <1>2, <2>1, HistoryFacts
  <2>3. Round[b] \in Nat
    BY <2>1, FinalizerAssumption
  <2>4. Round[b] <= Round[Leader(j)]
    BY SMT, <1>4, <2>2, <2>3
  <2> QED BY <1>3, <2>1, <2>4
<1> QED BY <1>2, <1>3, <1>4, <1>5, <1>6

(* The leader of a commit is one of its blocks. *)
LEMMA LeaderCommitted ==
  ASSUME dag \in Dags, NEW j \in 1 .. Len(dag.commits)
  PROVE  Leader(j) \in dag.commits[j].blocks
<1> USE Zenon
<1>1. Leader(j) \in Block /\ Leader(j) \in dag.history[Leader(j)] /\ LeaderRound(j) = Round[Leader(j)]
      /\ LeaderRound(j) \in Nat
  <2>1. Leader(j) \in Block /\ LeaderRound(j) = Round[Leader(j)]
    BY CommitFacts
  <2> QED BY <2>1, AncestorFacts, DagFacts
<1>2. ASSUME NEW i \in 1 .. j - 1
      PROVE  /\ Leader(j) \notin dag.history[Leader(i)]
             /\ Round[Leader(j)] > CalculateGcRound(LeaderRound(i))
  <2>1. i \in 1 .. Len(dag.commits)
    BY SMT, DagFacts
  <2>2. LeaderRound(i) \in Nat /\ LeaderRound(i) < LeaderRound(j) /\ LeaderRound(i) = Round[Leader(i)]
        /\ Leader(i) \in Block
    BY <2>1, DagFacts, CommitFacts
  <2>3. ~(LeaderRound(j) < LeaderRound(i)) /\ LeaderRound(j) # LeaderRound(i)
        /\ LeaderRound(j) > CalculateGcRound(LeaderRound(i))
    BY SMT, <1>1, <2>2, FinalizerAssumption DEF CalculateGcRound
  <2>4. Leader(j) \notin dag.history[Leader(i)]
    BY <1>1, <2>2, <2>3, HistoryFacts
  <2> QED BY <1>1, <2>3, <2>4
<1> QED BY <1>1, <1>2, CommitFacts

(* The blocks of a span are committed by one of its leaders, and so none   *)
(* is above the last one.                                                  *)
LEMMA SpanFacts ==
  ASSUME dag \in Dags, NEW i \in 1 .. Len(dag.commits), NEW j \in i .. Len(dag.commits)
  PROVE  /\ Span(i, j) \in SUBSET Block /\ j \in 1 .. Len(dag.commits)
         /\ LeaderRound(j) \in Nat
         /\ \A b \in Span(i, j) : Round[b] <= LeaderRound(j)
         /\ \A b : b \in Span(i, j) <=> \E k \in i .. j : b \in dag.commits[k].blocks
<1> USE Zenon
<1>1. /\ j \in 1 .. Len(dag.commits) /\ i .. j \subseteq 1 .. Len(dag.commits)
      /\ \A k \in i .. j : k = j \/ k \in 1 .. j - 1
  BY SMT, DagFacts
<1>2. \A b : b \in Span(i, j) <=> \E k \in i .. j : b \in dag.commits[k].blocks
  BY DEF Span
<1>3. ASSUME NEW k \in i .. j, NEW b \in dag.commits[k].blocks
      PROVE  b \in Block /\ Round[b] <= LeaderRound(j)
  <2>1. b \in Block /\ Round[b] <= LeaderRound(k) /\ LeaderRound(k) \in Nat /\ LeaderRound(j) \in Nat
    BY <1>1, CommitFacts, DagFacts
  <2>2. LeaderRound(k) = LeaderRound(j) \/ LeaderRound(k) < LeaderRound(j)
    BY <1>1, DagFacts
  <2>3. Round[b] \in Nat
    BY <2>1, FinalizerAssumption
  <2> QED BY SMT, <2>1, <2>2, <2>3
<1>4. LeaderRound(j) \in Nat
  BY <1>1, DagFacts
<1> QED BY <1>1, <1>2, <1>3, <1>4

(* What the j-th leader has in its history, with t in its own, is          *)
(* committed with t or after it, unless it has been collected.             *)
LEMMA CommittedAbove ==
  ASSUME dag \in Dags, NEW i \in 1 .. Len(dag.commits), NEW j \in 1 .. Len(dag.commits),
         NEW t \in dag.commits[i].blocks,
         NEW y \in dag.history[Leader(j)], t \in dag.history[y],
         \A k \in 1 .. j - 1 : Round[y] > CalculateGcRound(LeaderRound(k))
  PROVE  i <= j /\ y \in Span(i, j)
<1> USE Zenon
<1> DEFINE K == {k \in 1 .. Len(dag.commits) : y \in dag.history[Leader(k)]}
<1>1. Len(dag.commits) \in Nat /\ Leader(j) \in Block /\ t \in Block
  BY DagFacts, CommitFacts
<1>2. y \in Block
  BY <1>1, HistoryFacts
<1>3. PICK m \in K : \A k \in K : m <= k
  <2>1. K \in SUBSET Nat
    BY SMT, <1>1
  <2>2. j \in K
    OBVIOUS
  <2> HIDE DEF K
  <2> QED BY <2>1, <2>2, MinExists
<1>4. m \in 1 .. Len(dag.commits) /\ y \in dag.history[Leader(m)] /\ m <= j
  BY <1>3
<1>5. i <= m
  <2>1. SUFFICES ASSUME m \in 1 .. i - 1 PROVE FALSE
    BY SMT, <1>1, <1>4
  <2>2. t \notin dag.history[Leader(m)]
    BY <1>1, <2>1, CommitFacts
  <2>3. Leader(m) \in Block
    BY <1>4, CommitFacts
  <2> QED BY <1>4, <2>2, <2>3, HistoryFacts
<1>6. ASSUME NEW k \in 1 .. m - 1
      PROVE  y \notin dag.history[Leader(k)] /\ Round[y] > CalculateGcRound(LeaderRound(k))
  <2>1. k \in 1 .. Len(dag.commits) /\ k \in 1 .. j - 1 /\ ~(m <= k)
    BY SMT, <1>1, <1>4
  <2> QED BY <1>3, <2>1
<1>7. y \in dag.commits[m].blocks
  BY <1>2, <1>4, <1>6, CommitFacts
<1>8. m \in i .. j /\ i <= j
  BY SMT, <1>1, <1>4, <1>5
<1> QED BY <1>7, <1>8 DEF Span

(* If none of them above t has been collected, t is reached from them. *)
LEMMA ReachedAbove ==
  ASSUME dag \in Dags, NEW i \in 1 .. Len(dag.commits), NEW last \in i .. Len(dag.commits),
         NEW j \in 1 .. last, NEW t \in dag.commits[i].blocks,
         \A k \in 1 .. j - 1 : CalculateGcRound(LeaderRound(k)) <= Round[t],
         NEW y \in dag.history[Leader(j)], t \in dag.history[y]
  PROVE  y \in Reached(Span(i, last), t)
<1> USE Zenon
<1> DEFINE linked == Span(i, last)
           R == Reached(linked, t)
           G == {x \in Block : x \in dag.history[Leader(j)] /\ t \in dag.history[x] => x \in R}
<1>1. Len(dag.commits) \in Nat /\ last \in 1 .. Len(dag.commits) /\ j \in 1 .. Len(dag.commits)
      /\ i .. j \subseteq i .. last
  BY SMT, DagFacts
<1>2. linked \in SUBSET Block /\ LeaderRound(last) \in Nat
      /\ \A b \in linked : Round[b] <= LeaderRound(last)
  BY SpanFacts
<1>3. t \in Block /\ Leader(j) \in Block
  BY <1>1, CommitFacts
<1> HIDE DEF linked
<1>4. /\ t \in R
      /\ \A b \in linked : \A p \in dag.ancestors[b] : p \in R => b \in R
  BY <1>2, <1>3, ReachedFacts
<1> HIDE DEF R
<1>5. ASSUME NEW x \in Block, \A p \in Block : Round[p] < Round[x] => p \in G PROVE x \in G
  <2>1. SUFFICES ASSUME x \in dag.history[Leader(j)], t \in dag.history[x], x # t PROVE x \in R
    BY <1>4
  <2>2. Round[t] < Round[x]
    BY <2>1, HistoryFacts
  <2>3. ASSUME NEW k \in 1 .. j - 1 PROVE Round[x] > CalculateGcRound(LeaderRound(k))
    <3>1. k \in 1 .. Len(dag.commits)
      BY SMT, <1>1
    <3>2. CalculateGcRound(LeaderRound(k)) \in Nat /\ CalculateGcRound(LeaderRound(k)) <= Round[t]
      BY <3>1, DagFacts, GcRoundType
    <3>3. Round[x] \in Nat /\ Round[t] \in Nat
      BY <1>3, FinalizerAssumption
    <3> QED BY SMT, <2>2, <3>2, <3>3
  <2>4. i <= j /\ x \in Span(i, j)
    BY <1>1, <2>1, <2>3, CommittedAbove
  <2>5. x \in linked
    BY <1>1, <2>4 DEF Span, linked
  <2>6. PICK p \in dag.ancestors[x] : t \in dag.history[p]
    BY <2>1, AncestorFacts
  <2>7. p \in Block /\ Round[p] < Round[x] /\ p \in dag.history[x]
    BY AncestorFacts
  <2>8. p \in dag.history[Leader(j)]
    BY <1>3, <2>1, <2>7, HistoryFacts
  <2>9. p \in R
    BY <1>5, <2>6, <2>7, <2>8
  <2> QED BY <1>4, <2>5, <2>9
<1>6. G \in SUBSET Block
  OBVIOUS
<1> HIDE DEF G
<1>7. \A x \in Block : x \in G
  BY <1>5, <1>6, RoundInduction
<1>8. y \in Block
  BY <1>3, HistoryFacts
<1> QED BY <1>7, <1>8 DEF G, R, linked

-----------------------------------------------------------------------------
(* The commit a wave above.                                                *)

FirstAnchor(i) == Min(Anchors(i))

(* The first anchor is above the commit, and all leaders between are less  *)
(* than a wave above; a certificate is in its history.                     *)
LEMMA AnchorFacts ==
  ASSUME dag \in Dags, NEW i \in 1 .. Len(dag.commits), Anchors(i) # {}
  PROVE  /\ FirstAnchor(i) \in i .. Len(dag.commits) /\ FirstAnchor(i) \in 1 .. Len(dag.commits)
         /\ i \in 1 .. FirstAnchor(i) - 1
         /\ LeaderRound(FirstAnchor(i)) >= LeaderRound(i) + 3
         /\ \A k \in 1 .. FirstAnchor(i) - 1 : LeaderRound(k) < LeaderRound(i) + 3
         /\ \A k \in 1 .. Len(dag.commits) :
              LeaderRound(k) >= LeaderRound(i) + 3 => FirstAnchor(i) <= k
         /\ CommittedFrom(i) = Span(i, FirstAnchor(i))
         /\ \E c \in Certificates(Leader(i)) : c \in dag.history[Leader(FirstAnchor(i))]
<1> USE Zenon
<1> DEFINE A == FirstAnchor(i)
           S == Anchors(i)
<1>1. Len(dag.commits) \in Nat /\ DOMAIN dag.commits = 1 .. Len(dag.commits)
  BY DagFacts
<1>2. \A k : k \in S <=> k \in 1 .. Len(dag.commits) /\ LeaderRound(k) >= LeaderRound(i) + 3
  BY <1>1 DEF Anchors, DEFAULT_WAVE_LENGTH
<1>3. A \in S /\ \A k \in S : A <= k
  <2> HIDE DEF S
  <2>1. S \in SUBSET Nat
    BY SMT, <1>1, <1>2
  <2>2. \E m \in S : \A k \in S : m <= k
    BY <2>1, MinExists DEF S
  <2> QED BY <2>2 DEF Min, FirstAnchor, S
<1> HIDE DEF A, S
<1>4. A \in 1 .. Len(dag.commits) /\ LeaderRound(A) >= LeaderRound(i) + 3
  BY <1>2, <1>3
<1>5. LeaderRound(A) \in Nat /\ LeaderRound(i) \in Nat
  BY <1>4, DagFacts
<1>6. i \in 1 .. A - 1 /\ A \in i .. Len(dag.commits)
  <2>1. ~(A \in 1 .. i - 1)
    <3>1. A \in 1 .. i - 1 => LeaderRound(A) < LeaderRound(i)
      BY DagFacts
    <3> QED BY SMT, <1>4, <1>5, <3>1
  <2>2. A # i
    BY SMT, <1>4, <1>5
  <2> QED BY SMT, <1>1, <1>4, <2>1, <2>2
<1>7. ASSUME NEW k \in 1 .. A - 1 PROVE LeaderRound(k) < LeaderRound(i) + 3
  <2>1. k \in 1 .. Len(dag.commits) /\ ~(A <= k)
    BY SMT, <1>1, <1>4
  <2>2. LeaderRound(k) \in Nat /\ ~(LeaderRound(k) >= LeaderRound(i) + 3)
    BY <1>2, <1>3, <2>1, DagFacts
  <2> QED BY SMT, <1>5, <2>2
<1>8. CommittedFrom(i) = Span(i, A)
  BY DEF CommittedFrom, Span, A, FirstAnchor
<1>9. \E c \in Certificates(Leader(i)) : c \in dag.history[Leader(A)]
  <2>1. Committed(dag) /\ A \in DOMAIN dag.commits
    BY <1>1, <1>4, DagsAssumption
  <2>2. /\ Round[Leader(A)] >= Round[Leader(i)] + DEFAULT_WAVE_LENGTH
        /\ \A k \in 1 .. A - 1 : Round[Leader(k)] < Round[Leader(i)] + DEFAULT_WAVE_LENGTH
    BY <1>4, <1>7 DEF LeaderRound, Leader, DEFAULT_WAVE_LENGTH
  <2>3. \E c \in dag.history[Leader(A)] : IsCertificate(dag, c, Leader(i))
    BY <1>6, <2>1, <2>2 DEF Committed, Leader
  <2>4. dag.history[Leader(A)] \in SUBSET Block
    BY <1>4, CommitFacts, AncestorFacts
  <2> QED BY <2>3, <2>4 DEF Certificates
<1>10. \A k \in 1 .. Len(dag.commits) : LeaderRound(k) >= LeaderRound(i) + 3 => A <= k
  BY <1>2, <1>3
<1> QED BY <1>4, <1>6, <1>7, <1>8, <1>9, <1>10 DEF A

(* What is collected is two rounds below the leader, and no less for a     *)
(* lower leader.                                                           *)
LEMMA GcRoundBound ==
  ASSUME NEW r \in Nat, NEW n \in Nat, r <= n + 2
  PROVE  CalculateGcRound(r) <= n
BY FinalizerAssumption DEF CalculateGcRound

LEMMA GcRoundGrows ==
  ASSUME NEW r \in Nat, NEW n \in Nat, r <= n
  PROVE  CalculateGcRound(r) <= CalculateGcRound(n)
BY FinalizerAssumption DEF CalculateGcRound

-----------------------------------------------------------------------------
(* Accepting and rejecting votes.                                          *)

(* The voters are authorities, each with a block that reaches t first. *)
LEMMA VoterFacts ==
  ASSUME dag \in Dags, NEW linked \in SUBSET Block, NEW t \in Block,
         NEW top \in Nat, \A b \in linked : Round[b] <= top
  PROVE  /\ AcceptVoters(linked, t) \in SUBSET DOMAIN Stake
         /\ \A a \in AcceptVoters(linked, t) :
              \E b \in Reached(linked, t) \ {t} :
                /\ Author[b] = a /\ t \notin dag.rejects[b]
                /\ \A z \in dag.ancestors[b] :
                     z \in Reached(linked, t) \ {t} => Author[z] # a
<1> USE Zenon
<1> DEFINE D == Reached(linked, t) \ {t}
           V == {b \in D : /\ Author[b] \notin Authors(dag.ancestors[b] \cap D)
                           /\ t \notin dag.rejects[b]}
<1>1. AcceptVoters(linked, t) = Authors(V)
  <2>1. \A b : b \in V <=> b \in {x \in {y \in D : Author[y] \notin Authors(dag.ancestors[y] \cap D)} :
                                   t \notin dag.rejects[x]}
    OBVIOUS
  <2>2. V = {x \in {y \in D : Author[y] \notin Authors(dag.ancestors[y] \cap D)} :
               t \notin dag.rejects[x]}
    BY <2>1
  <2> QED BY <2>2 DEF AcceptVoters
<1>2. V \in SUBSET Block
  BY ReachedFacts
<1>3. ASSUME NEW b \in V
      PROVE  /\ b \in D /\ t \notin dag.rejects[b]
             /\ \A z \in dag.ancestors[b] : z \in D => Author[z] # Author[b]
  BY DEF Authors
<1> HIDE DEF V, D
<1>4. Authors(V) \in SUBSET DOMAIN Stake
  BY <1>2, AuthorsType
<1>5. \A a \in Authors(V) : \E b \in V : Author[b] = a
  BY DEF Authors
<1>6. \A a \in Authors(V) :
        \E b \in D : /\ Author[b] = a /\ t \notin dag.rejects[b]
                     /\ \A z \in dag.ancestors[b] : z \in D => Author[z] # a
  BY <1>3, <1>5
<1>7. ASSUME NEW a \in AcceptVoters(linked, t)
      PROVE  \E b \in Reached(linked, t) \ {t} :
               /\ Author[b] = a /\ t \notin dag.rejects[b]
               /\ \A z \in dag.ancestors[b] : z \in Reached(linked, t) \ {t} => Author[z] # a
  <2>1. a \in Authors(V)
    BY <1>1
  <2> QED BY <1>6, <2>1 DEF D
<1> QED BY <1>1, <1>4, <1>7

(* Who accepts t in the commits up to one does so in the commits up to a   *)
(* later one.                                                              *)
LEMMA AcceptanceStays ==
  ASSUME dag \in Dags, NEW i \in 1 .. Len(dag.commits), NEW last \in i .. Len(dag.commits),
         NEW far \in last .. Len(dag.commits), NEW t \in dag.commits[i].blocks,
         ReachedQuorum(AcceptVoters(Span(i, last), t))
  PROVE  ReachedQuorum(AcceptVoters(Span(i, far), t))
<1> USE Zenon
<1> DEFINE near == Span(i, last)
           wide == Span(i, far)
           N == Reached(near, t)
           W == Reached(wide, t)
<1>1. Len(dag.commits) \in Nat /\ far \in i .. Len(dag.commits) /\ i .. last \subseteq i .. far
      /\ far \in 1 .. Len(dag.commits) /\ \A j \in 1 .. last : j \in 1 .. Len(dag.commits)
  BY SMT, DagFacts
<1>2. /\ near \in SUBSET Block /\ LeaderRound(last) \in Nat
      /\ \A b \in near : Round[b] <= LeaderRound(last)
  BY SpanFacts
<1>3. /\ wide \in SUBSET Block /\ LeaderRound(far) \in Nat
      /\ \A b \in wide : Round[b] <= LeaderRound(far)
  BY <1>1, SpanFacts
<1>4. t \in Block
  BY CommitFacts
<1>5. near \subseteq wide
  BY <1>1 DEF Span
<1>6. \A x \in wide : \A j \in 1 .. last : x \in dag.history[Leader(j)] => x \in near
  <2> SUFFICES ASSUME NEW x \in wide, NEW j \in 1 .. last, x \in dag.history[Leader(j)]
               PROVE  x \in near
    OBVIOUS
  <2>1. PICK k \in i .. far : x \in dag.commits[k].blocks
    BY DEF Span
  <2>2. k \in 1 .. Len(dag.commits) /\ (k \in i .. last \/ j \in 1 .. k - 1)
    BY SMT, <1>1
  <2>3. x \in Block /\ ~(j \in 1 .. k - 1)
    BY <2>1, <2>2, CommitFacts
  <2> QED BY <2>1, <2>2, <2>3 DEF Span
<1> HIDE DEF near, wide
<1>7. /\ N \in SUBSET Block /\ t \in N
      /\ \A b \in N \ {t} : b \in near /\ dag.ancestors[b] \cap N # {}
      /\ \A b \in near : \A p \in dag.ancestors[b] : p \in N => b \in N
  BY <1>2, <1>4, ReachedFacts
<1>8. /\ W \in SUBSET Block /\ t \in W
      /\ \A b \in W \ {t} : b \in wide /\ dag.ancestors[b] \cap W # {}
      /\ \A b \in wide : \A p \in dag.ancestors[b] : p \in W => b \in W
  BY <1>3, <1>4, ReachedFacts
<1> HIDE DEF N, W
<1>9. \A x \in N : x \in W
  <2> DEFINE G == {x \in Block : x \in N => x \in W}
  <2>1. ASSUME NEW x \in Block, \A p \in Block : Round[p] < Round[x] => p \in G PROVE x \in G
    <3>1. SUFFICES ASSUME x \in N \ {t} PROVE x \in W
      BY <1>8
    <3>2. PICK p \in dag.ancestors[x] : p \in N
      BY <1>7, <3>1
    <3>3. p \in Block /\ Round[p] < Round[x]
      BY <3>2, AncestorFacts
    <3>4. p \in W
      BY <2>1, <3>2, <3>3
    <3> QED BY <1>5, <1>7, <1>8, <3>1, <3>2, <3>4
  <2>2. G \in SUBSET Block
    OBVIOUS
  <2> HIDE DEF G
  <2>3. \A b \in Block : b \in G
    BY <2>1, <2>2, RoundInduction
  <2> QED BY <1>7, <2>3 DEF G
<1>10. ASSUME NEW j \in 1 .. last PROVE \A x \in dag.history[Leader(j)] : x \in W => x \in N
  <2> DEFINE G == {x \in Block : x \in dag.history[Leader(j)] /\ x \in W => x \in N}
  <2>0. Leader(j) \in Block
    BY <1>1, CommitFacts
  <2>1. ASSUME NEW x \in Block, \A p \in Block : Round[p] < Round[x] => p \in G PROVE x \in G
    <3>1. SUFFICES ASSUME x \in dag.history[Leader(j)], x \in W \ {t} PROVE x \in N
      BY <1>7
    <3>2. PICK p \in dag.ancestors[x] : p \in W
      BY <1>8, <3>1
    <3>3. p \in Block /\ Round[p] < Round[x] /\ p \in dag.history[x]
      BY <3>2, AncestorFacts
    <3>4. p \in dag.history[Leader(j)]
      BY <2>0, <3>1, <3>3, HistoryFacts
    <3>5. p \in N
      BY <2>1, <3>2, <3>3, <3>4
    <3>6. x \in near
      BY <1>6, <1>8, <3>1
    <3> QED BY <1>7, <3>2, <3>5, <3>6
  <2>2. G \in SUBSET Block
    OBVIOUS
  <2> HIDE DEF G
  <2>3. \A b \in Block : b \in G
    BY <2>1, <2>2, RoundInduction
  <2> QED BY <1>8, <2>3 DEF G
<1>11. ASSUME NEW a \in AcceptVoters(near, t) PROVE a \in AcceptVoters(wide, t)
  <2>1. \A x \in AcceptVoters(near, t) :
          \E b \in N \ {t} : /\ Author[b] = x /\ t \notin dag.rejects[b]
                             /\ \A z \in dag.ancestors[b] : z \in N \ {t} => Author[z] # x
    BY <1>2, <1>4, VoterFacts DEF N
  <2>2. PICK b \in N \ {t} : /\ Author[b] = a /\ t \notin dag.rejects[b]
                             /\ \A z \in dag.ancestors[b] : z \in N \ {t} => Author[z] # a
    BY <2>1
  <2>3. PICK j \in i .. last : b \in dag.commits[j].blocks
    BY <1>7 DEF near, Span
  <2>4. j \in 1 .. last /\ j \in 1 .. Len(dag.commits)
    BY SMT, <1>1
  <2>5. b \in Block /\ b \in dag.history[Leader(j)] /\ Leader(j) \in Block
    BY <2>3, <2>4, CommitFacts
  <2>6. ASSUME NEW z \in dag.ancestors[b] \cap (W \ {t}) PROVE Author[z] # Author[b]
    <3>1. z \in dag.history[b]
      BY <2>5, AncestorFacts
    <3>2. z \in dag.history[Leader(j)]
      BY <2>5, <3>1, HistoryFacts
    <3>3. z \in N
      BY <1>10, <2>4, <3>2
    <3> QED BY <2>2, <3>3
  <2>7. b \in W \ {t} /\ Author[b] \notin Authors(dag.ancestors[b] \cap (W \ {t}))
    BY <1>9, <2>6 DEF Authors
  <2> DEFINE D == W \ {t}
  <2>8. /\ b \in {x \in D : Author[x] \notin Authors(dag.ancestors[x] \cap D)}
        /\ Author[b] = a /\ t \notin dag.rejects[b]
    <3> HIDE DEF D
    <3> QED BY <2>2, <2>7 DEF D
  <2> QED BY <2>8 DEF AcceptVoters, Authors, W
<1>12. AcceptVoters(wide, t) \in SUBSET DOMAIN Stake
  BY <1>3, <1>4, VoterFacts
<1>13. AcceptVoters(near, t) \in SUBSET AcceptVoters(wide, t) /\ ReachedQuorum(AcceptVoters(near, t))
  BY <1>11 DEF near
<1> QED BY <1>12, <1>13, QuorumGrows DEF wide

(* A transaction is accepted by the committed votes when none of the       *)
(* blocks below a committed certificate of the leader rejects it.          *)
LEMMA UnopposedAccepted ==
  ASSUME dag \in Dags, NEW i \in 1 .. Len(dag.commits), Anchors(i) # {},
         NEW c \in Certificates(Leader(i)), c \in dag.history[Leader(FirstAnchor(i))],
         NEW t \in dag.commits[i].blocks,
         \A b \in dag.history[c] \cap CommittedFrom(i) : t \notin dag.rejects[b]
  PROVE  ReachedQuorum(AcceptVoters(CommittedFrom(i), t))
<1> USE Zenon
<1> DEFINE A == FirstAnchor(i)
           linked == Span(i, A)
           R == Reached(linked, t)
           P == {p \in dag.ancestors[c] : Leader(i) \in dag.ancestors[p]}
<1>1. A \in i .. Len(dag.commits) /\ A \in 1 .. Len(dag.commits) /\ CommittedFrom(i) = linked
  BY AnchorFacts
<1>2. linked \in SUBSET Block /\ LeaderRound(A) \in Nat
      /\ \A b \in linked : Round[b] <= LeaderRound(A)
  BY <1>1, SpanFacts
<1>3. c \in Block /\ Round[c] = Round[Leader(i)] + 2 /\ ReachedQuorum(Authors(P))
  BY DEF Certificates, IsCertificate
<1>4. t \in Block /\ t \in dag.history[Leader(i)] /\ Leader(i) \in Block /\ Leader(A) \in Block
      /\ LeaderRound(i) = Round[Leader(i)] /\ LeaderRound(i) \in Nat
  BY <1>1, CommitFacts, DagFacts
<1>5. /\ R \in SUBSET Block
      /\ \A b \in R \ {t} : b \in linked
      /\ \A b \in linked : \A p \in dag.ancestors[b] : p \in R => b \in R \ {t}
  <2> HIDE DEF A, linked
  <2>1. t \in Block
    BY <1>4
  <2> QED BY <1>2, <2>1, ReachedFacts
<1>6. Leader(i) \in R
  <2>1. ASSUME NEW k \in 1 .. i - 1 PROVE CalculateGcRound(LeaderRound(k)) <= Round[t]
    <3>1. k \in 1 .. Len(dag.commits)
      BY SMT, DagFacts
    <3>2. CalculateGcRound(LeaderRound(k)) \in Nat
      BY <3>1, DagFacts, GcRoundType
    <3>3. Round[t] > CalculateGcRound(LeaderRound(k))
      BY <1>4, CommitFacts
    <3>4. Round[t] \in Nat
      BY <1>4, FinalizerAssumption
    <3> QED BY SMT, <3>2, <3>3, <3>4
  <2>2. i \in 1 .. A
    BY SMT, <1>1, DagFacts
  <2>3. Leader(i) \in dag.history[Leader(i)]
    BY <1>4, AncestorFacts
  <2> QED BY <1>1, <1>4, <2>1, <2>2, <2>3, ReachedAbove
<1> HIDE DEF A
(* Before the first anchor a collected block is below the leader. *)
<1>7. ASSUME NEW k \in 1 .. A - 1
      PROVE  CalculateGcRound(LeaderRound(k)) \in Nat /\ CalculateGcRound(LeaderRound(k)) <= LeaderRound(i)
  <2>1. A \in 1 .. Len(dag.commits) /\ LeaderRound(k) < LeaderRound(i) + 3
    BY AnchorFacts DEF A
  <2>2. k \in 1 .. Len(dag.commits)
    BY SMT, <2>1, DagFacts
  <2>3. LeaderRound(k) \in Nat /\ LeaderRound(i) \in Nat
    BY <2>2, DagFacts
  <2>4. LeaderRound(k) <= LeaderRound(i) + 2
    BY SMT, <2>1, <2>3
  <2> QED BY <2>3, <2>4, GcRoundBound, GcRoundType
(* An author with a block above t has one that votes, in the history of    *)
(* that block.                                                             *)
<1>8. ASSUME NEW p \in R \ {t}
      PROVE  \E q \in R \ {t} :
               /\ q \in dag.history[p]
               /\ t \notin dag.rejects[q] => Author[p] \in AcceptVoters(linked, t)
  <2> HIDE DEF linked
  <2> DEFINE D == R \ {t}
             X == {x \in D : x \in dag.history[p] /\ Author[x] = Author[p]}
             Z == {Round[x] : x \in X}
  <2>1. D \in SUBSET Block /\ X \in SUBSET Block
    <3> HIDE DEF R
    <3> QED BY <1>5
  <2>2. p \in X /\ p \in Block
    BY <2>1, AncestorFacts
  <2>3. PICK m \in Z : \A k \in Z : m <= k
    <3>1. \A b \in Block : Round[b] \in Nat
      BY FinalizerAssumption
    <3>2. Z \in SUBSET Nat /\ Round[p] \in Z
      <4> HIDE DEF X
      <4> QED BY <2>1, <2>2, <3>1
    <3> HIDE DEF Z
    <3> QED BY <3>2, MinExists
  <2>4. PICK q \in X : m = Round[q]
    OBVIOUS
  <2>5. q \in D /\ q \in Block /\ q \in dag.history[p] /\ Author[q] = Author[p]
    BY <2>1
  <2>6. ASSUME NEW z \in dag.ancestors[q] \cap D, Author[z] = Author[q] PROVE FALSE
    <3>1. z \in Block /\ Round[z] < Round[q] /\ z \in dag.history[q]
      BY <2>5, AncestorFacts
    <3>2. z \in dag.history[p]
      BY <2>2, <2>5, <3>1, HistoryFacts
    <3>3. z \in X
      BY <2>5, <2>6, <3>2
    <3>4. Round[q] <= Round[z]
      <4> HIDE DEF X
      <4> QED BY <2>3, <2>4, <3>3
    <3>5. Round[z] \in Nat /\ Round[q] \in Nat
      BY <2>5, <3>1, FinalizerAssumption
    <3> QED BY SMT, <3>1, <3>4, <3>5
  <2>7. Author[q] \notin Authors(dag.ancestors[q] \cap D)
    <3> HIDE DEF D
    <3> QED BY <2>6 DEF Authors
  <2>8. t \notin dag.rejects[q] => Author[q] \in AcceptVoters(linked, t)
    BY <2>5, <2>7 DEF AcceptVoters, Authors
  <2> HIDE DEF X
  <2> QED BY <2>5, <2>8
<1>9. ASSUME NEW p \in P PROVE Author[p] \in AcceptVoters(linked, t)
  <2>1. p \in Block /\ p \in dag.history[c] /\ Leader(i) \in dag.ancestors[p]
    BY <1>3, AncestorFacts
  <2>2. Round[Leader(i)] < Round[p] /\ t \in dag.history[p] /\ Round[p] \in Nat
    BY <1>4, <2>1, AncestorFacts
  <2>3. p \in dag.history[Leader(A)]
    BY <1>4, <2>1, HistoryFacts DEF A
  <2>4. ASSUME NEW k \in 1 .. A - 1 PROVE Round[p] > CalculateGcRound(LeaderRound(k))
    <3>1. CalculateGcRound(LeaderRound(k)) \in Nat
          /\ CalculateGcRound(LeaderRound(k)) <= LeaderRound(i)
      BY <1>7
    <3> QED BY SMT, <1>4, <2>2, <3>1
  <2>5. p \in linked
    BY <1>1, <2>2, <2>3, <2>4, CommittedAbove
  <2> HIDE DEF linked
  <2>6. p \in R \ {t}
    BY <1>5, <1>6, <2>1, <2>5
  <2>7. PICK q \in R \ {t} :
          /\ q \in dag.history[p]
          /\ t \notin dag.rejects[q] => Author[p] \in AcceptVoters(linked, t)
    BY <1>8, <2>6
  <2>8. q \in linked
    BY <1>5
  <2>9. q \in dag.history[c]
    BY <1>3, <2>1, <2>7, HistoryFacts
  <2>10. t \notin dag.rejects[q]
    BY <1>1, <2>8, <2>9 DEF linked
  <2> QED BY <2>7, <2>10
<1>10. AcceptVoters(linked, t) \in SUBSET DOMAIN Stake
  <2> HIDE DEF linked
  <2> QED BY <1>2, <1>4, VoterFacts
<1>11. Authors(P) \in SUBSET AcceptVoters(linked, t)
  <2> HIDE DEF P, linked
  <2> QED BY <1>9 DEF Authors
<1> HIDE DEF P, linked
<1> QED BY <1>1, <1>3, <1>10, <1>11, QuorumGrows

(* A block of an honest authority above t is the one that rejects it, or   *)
(* links to one of its own above t.                                        *)
LEMMA RejectsFirst ==
  ASSUME dag \in Dags, NEW t \in Block, NEW r \in Block, t \in dag.rejects[r],
         Author[r] \notin Faulty
  PROVE  \A x \in Block : Author[x] = Author[r] /\ t \in dag.history[x] =>
           \/ x = r
           \/ \E z \in dag.ancestors[x] :
                Author[z] = Author[x] /\ t \in dag.history[z] /\ Round[z] > Round[t]
<1> USE Zenon
<1> SUFFICES ASSUME NEW x \in Block, Author[x] = Author[r], t \in dag.history[x]
             PROVE  \/ x = r
                    \/ \E z \in dag.ancestors[x] :
                         Author[z] = Author[x] /\ t \in dag.history[z] /\ Round[z] > Round[t]
  OBVIOUS
<1>1. HonestlyVoted(dag)
  BY DagsAssumption
<1>2. t \in dag.history[r] /\ t # r
  BY <1>1 DEF HonestlyVoted
<1>3. \A z \in dag.ancestors[r] : z \in Block /\ (Author[z] = Author[r] => t \notin dag.history[z])
  <2>1. \A z \in dag.ancestors[r] : z \in Block
    BY AncestorFacts
  <2> QED BY <1>1, <2>1 DEF HonestlyVoted
<1>4. Round[x] \in Nat /\ Round[r] \in Nat /\ Round[t] \in Nat /\ Round[t] < Round[r]
  <2>1. Round[t] < Round[r]
    BY <1>2, HistoryFacts
  <2> QED BY <2>1, FinalizerAssumption
<1>5. CASE Round[x] = Round[r]
  BY <1>1, <1>5 DEF HonestlyVoted
<1>6. CASE Round[x] < Round[r]
  <2>1. PICK z \in dag.ancestors[r] : Author[z] = Author[x] /\ x \in dag.history[z]
    BY <1>1, <1>6 DEF HonestlyVoted
  <2>2. t \in dag.history[z]
    BY <1>3, <2>1, HistoryFacts
  <2> QED BY <1>3, <2>1, <2>2
<1>7. CASE Round[r] < Round[x]
  <2>1. PICK z \in dag.ancestors[x] : Author[z] = Author[r] /\ r \in dag.history[z]
    BY <1>1, <1>7 DEF HonestlyVoted
  <2>2. z \in Block
    BY AncestorFacts
  <2>3. t \in dag.history[z] /\ (r = z \/ Round[r] < Round[z])
    BY <1>2, <2>1, <2>2, HistoryFacts
  <2>4. Round[z] > Round[t]
    <3>1. Round[z] \in Nat
      BY <2>2, FinalizerAssumption
    <3> QED BY SMT, <1>4, <2>3, <3>1
  <2> QED BY <2>1, <2>3, <2>4
<1>8. Round[x] = Round[r] \/ Round[x] < Round[r] \/ Round[r] < Round[x]
  BY SMT, <1>4
<1> QED BY <1>5, <1>6, <1>7, <1>8

(* The authors of blocks that reject t. *)
LEMMA RejectVoterFacts ==
  ASSUME dag \in Dags, NEW t, NEW known \in SUBSET Block
  PROVE  /\ RejectVoters(known, t) \in SUBSET DOMAIN Stake
         /\ RejectVoters(known, t) \in SUBSET RejectVoters(Block, t)
         /\ \A a : a \in RejectVoters(known, t)
                     <=> \E r \in known : t \in dag.rejects[r] /\ Author[r] = a
<1> USE Zenon
<1>1. \A K, a : a \in RejectVoters(K, t) <=> \E r \in K : t \in dag.rejects[r] /\ Author[r] = a
  BY DEF RejectVoters, Authors
<1>2. \A b \in Block : Author[b] \in DOMAIN Stake
  BY CommitteeAssumption
<1>3. \A a \in RejectVoters(known, t) : a \in DOMAIN Stake /\ a \in RejectVoters(Block, t)
  BY <1>1, <1>2
<1> QED BY <1>1, <1>3

(* A transaction that a quorum rejects is not accepted by the committed    *)
(* votes, if it was not linked late.                                       *)
LEMMA QuorumRejects ==
  ASSUME dag \in Dags, NEW i \in 1 .. Len(dag.commits), Anchors(i) # {},
         NEW t \in dag.commits[i].blocks, t \notin LateLinked(i),
         ReachedQuorum(RejectVoters(Block, t))
  PROVE  ~ReachedQuorum(AcceptVoters(CommittedFrom(i), t))
<1> USE Zenon
<1> DEFINE A == FirstAnchor(i)
           linked == Span(i, A)
           D == Reached(linked, t) \ {t}
<1> SUFFICES ASSUME ReachedQuorum(AcceptVoters(CommittedFrom(i), t)) PROVE FALSE
  OBVIOUS
<1>1. A \in i .. Len(dag.commits) /\ A \in 1 .. Len(dag.commits) /\ CommittedFrom(i) = linked
      /\ i \in 1 .. A - 1
  BY AnchorFacts
<1>2. linked \in SUBSET Block /\ LeaderRound(A) \in Nat
      /\ (\A b \in linked : Round[b] <= LeaderRound(A))
      /\ (\A b \in linked : \E k \in i .. A : b \in dag.commits[k].blocks)
  BY <1>1, SpanFacts
<1>3. t \in Block
  BY CommitFacts
<1>4. ASSUME NEW k \in 1 .. A - 1 PROVE CalculateGcRound(LeaderRound(k)) <= Round[t]
  <2>1. A - 1 \in 1 .. Len(dag.commits) /\ k \in 1 .. Len(dag.commits)
        /\ (k = A - 1 \/ k \in 1 .. (A - 1) - 1)
    BY SMT, <1>1, DagFacts
  <2>2. LeaderRound(k) \in Nat /\ LeaderRound(A - 1) \in Nat
        /\ (LeaderRound(k) = LeaderRound(A - 1) \/ LeaderRound(k) < LeaderRound(A - 1))
    BY <2>1, DagFacts
  <2>3. LeaderRound(k) <= LeaderRound(A - 1)
    BY SMT, <2>2
  <2>4. CalculateGcRound(LeaderRound(k)) <= CalculateGcRound(LeaderRound(A - 1))
        /\ CalculateGcRound(LeaderRound(k)) \in Nat /\ CalculateGcRound(LeaderRound(A - 1)) \in Nat
    BY <2>2, <2>3, GcRoundGrows, GcRoundType
  <2>5. ~(Round[t] < CalculateGcRound(LeaderRound(A - 1)))
    BY DEF LateLinked, FirstAnchor
  <2>6. Round[t] \in Nat
    BY <1>3, FinalizerAssumption
  <2> QED BY SMT, <2>4, <2>5, <2>6
<1> HIDE DEF A
<1>5. RejectVoters(Block, t) \in SUBSET DOMAIN Stake
      /\ \A a \in RejectVoters(Block, t) : \E r \in Block : t \in dag.rejects[r] /\ Author[r] = a
  <2>1. Block \in SUBSET Block
    OBVIOUS
  <2>2. /\ RejectVoters(Block, t) \in SUBSET DOMAIN Stake
        /\ \A a : a \in RejectVoters(Block, t)
                   <=> \E r \in Block : t \in dag.rejects[r] /\ Author[r] = a
    BY <2>1, RejectVoterFacts
  <2> QED BY <2>2
<1>6. /\ AcceptVoters(linked, t) \in SUBSET DOMAIN Stake
      /\ \A a \in AcceptVoters(linked, t) :
           \E b \in D : /\ Author[b] = a /\ t \notin dag.rejects[b]
                        /\ \A z \in dag.ancestors[b] : z \in D => Author[z] # a
  <2> HIDE DEF linked
  <2> QED BY <1>2, <1>3, VoterFacts
<1>7. PICK a \in RejectVoters(Block, t) \cap AcceptVoters(linked, t) : a \notin Faulty
  BY <1>1, <1>5, <1>6, QuorumsIntersect
<1>8. PICK r \in Block : t \in dag.rejects[r] /\ Author[r] = a
  BY <1>5
<1>9. PICK b \in D : /\ Author[b] = a /\ t \notin dag.rejects[b]
                     /\ \A z \in dag.ancestors[b] : z \in D => Author[z] # a
  BY <1>6, <1>7
<1>10. b \in linked /\ t \in dag.history[b]
  <2> HIDE DEF linked
  <2> QED BY <1>2, <1>3, ReachedFacts
<1>11. PICK j \in i .. A : b \in dag.commits[j].blocks
  BY <1>2, <1>10
<1>12. j \in 1 .. A /\ j \in 1 .. Len(dag.commits)
       /\ (\A k \in 1 .. j - 1 : k \in 1 .. A - 1)
  <2>1. A \in 1 .. Len(dag.commits) /\ i \in 1 .. Len(dag.commits) /\ Len(dag.commits) \in Nat
        /\ j \in i .. A
    BY <1>1, DagFacts
  <2> QED BY SMT, <2>1
<1>13. b \in Block /\ b \in dag.history[Leader(j)] /\ Leader(j) \in Block
  BY <1>11, <1>12, CommitFacts
<1>14. PICK z \in dag.ancestors[b] :
         Author[z] = Author[b] /\ t \in dag.history[z] /\ Round[z] > Round[t]
  <2>1. b # r /\ Author[b] = Author[r] /\ Author[r] \notin Faulty
    BY <1>7, <1>8, <1>9
  <2>2. t \in dag.rejects[r] /\ t \in dag.history[b]
    BY <1>8, <1>10
  <2>3. \A x \in Block : Author[x] = Author[r] /\ t \in dag.history[x] =>
          \/ x = r
          \/ \E z \in dag.ancestors[x] :
               Author[z] = Author[x] /\ t \in dag.history[z] /\ Round[z] > Round[t]
    BY <1>3, <2>1, <2>2, RejectsFirst
  <2> QED BY <1>13, <2>1, <2>2, <2>3
<1>15. z \in dag.history[b]
  BY <1>13, AncestorFacts
<1>16. z \in dag.history[Leader(j)]
  BY <1>13, <1>15, HistoryFacts
<1>17. z \in Reached(linked, t)
  BY <1>1, <1>4, <1>12, <1>14, <1>16, ReachedAbove
<1>18. z # t
  <2>1. Round[t] \in Nat
    BY <1>3, FinalizerAssumption
  <2>2. Round[z] > Round[t]
    BY <1>14
  <2> QED BY SMT, <2>1, <2>2
<1> QED BY <1>9, <1>14, <1>17, <1>18

-----------------------------------------------------------------------------
(* The fast path.                                                          *)

(* What certifies t: parents of a quorum that do not reject it. *)
LEMMA CertifiesFacts ==
  ASSUME dag \in Dags, NEW t \in Block, NEW b \in Block, Certifies(b, t)
  PROVE  \E V \in SUBSET DOMAIN Stake :
           /\ ReachedQuorum(V) /\ Round[b] = Round[t] + 2
           /\ \A a \in V : a \notin RejectVoters(dag.history[b], t)
           /\ \A a \in V : \E p \in dag.ancestors[b] :
                Author[p] = a /\ t \in dag.ancestors[p] /\ p \in Block /\ Round[p] = Round[t] + 1
<1> USE Zenon
<1> DEFINE P == {p \in dag.ancestors[b] : t \in dag.ancestors[p]}
           accept == Authors(P)
           reject == RejectVoters(dag.history[b], t)
<1>1. Round[b] = Round[t] + 2 /\ StakeOf(accept) - StakeOf(reject) >= QuorumThreshold
  BY DEF Certifies
<1>2. P \in SUBSET Block /\ dag.history[b] \in SUBSET Block
  BY AncestorFacts
<1>3. accept \in SUBSET DOMAIN Stake
  <2> HIDE DEF P
  <2> QED BY <1>2, AuthorsType
<1>4. reject \in SUBSET DOMAIN Stake
  BY <1>2, RejectVoterFacts
<1>5. \A p \in P : p \in dag.ancestors[b] /\ t \in dag.ancestors[p] /\ p \in Block
                   /\ Round[p] = Round[t] + 1
  <2> SUFFICES ASSUME NEW p \in P PROVE Round[p] = Round[t] + 1
    BY <1>2
  <2>1. Round[p] < Round[b] /\ Round[t] < Round[p]
    BY <1>2, AncestorFacts
  <2>2. Round[p] \in Nat /\ Round[t] \in Nat
    BY <1>2, AncestorFacts
  <2> QED BY SMT, <1>1, <2>1, <2>2
<1> HIDE DEF P
<1>6. \A a \in accept : \E p \in P : Author[p] = a
  BY DEF Authors
<1> HIDE DEF accept, reject
<1>7. ReachedQuorum(accept \ reject) /\ accept \ reject \in SUBSET DOMAIN Stake
  BY <1>1, <1>3, <1>4, QuorumRemains
<1>8. \A a \in accept \ reject : \E p \in dag.ancestors[b] :
        Author[p] = a /\ t \in dag.ancestors[p] /\ p \in Block /\ Round[p] = Round[t] + 1
  BY <1>5, <1>6
<1>9. \A a \in accept \ reject : a \notin reject
  OBVIOUS
<1> QED BY <1>1, <1>7, <1>8, <1>9 DEF reject

(* What is certified for the fast path is not rejected by a quorum: the    *)
(* honest authorities among those that accept it in the round above have   *)
(* voted.                                                                  *)
LEMMA CertifiedNotRejected ==
  ASSUME dag \in Dags, NEW t \in Block, NEW b \in Block, Certifies(b, t)
  PROVE  ~ReachedQuorum(RejectVoters(Block, t))
<1> USE Zenon
<1> SUFFICES ASSUME ReachedQuorum(RejectVoters(Block, t)) PROVE FALSE
  OBVIOUS
<1>1. PICK V \in SUBSET DOMAIN Stake :
        /\ ReachedQuorum(V) /\ Round[b] = Round[t] + 2
        /\ \A a \in V : a \notin RejectVoters(dag.history[b], t)
        /\ \A a \in V : \E p \in dag.ancestors[b] :
             Author[p] = a /\ t \in dag.ancestors[p] /\ p \in Block /\ Round[p] = Round[t] + 1
  BY CertifiesFacts
<1>2. /\ RejectVoters(Block, t) \in SUBSET DOMAIN Stake
      /\ \A a : a \in RejectVoters(Block, t)
                  <=> \E r \in Block : t \in dag.rejects[r] /\ Author[r] = a
  <2>1. Block \in SUBSET Block
    OBVIOUS
  <2> QED BY <2>1, RejectVoterFacts
<1>3. PICK a \in RejectVoters(Block, t) \cap V : a \notin Faulty
  BY <1>1, <1>2, QuorumsIntersect
<1>4. PICK r \in Block : t \in dag.rejects[r] /\ Author[r] = a
  BY <1>2
<1>5. PICK p \in dag.ancestors[b] :
        Author[p] = a /\ t \in dag.ancestors[p] /\ p \in Block /\ Round[p] = Round[t] + 1
  BY <1>1
<1>6. t \in dag.history[p] /\ p \in dag.history[b]
  <2>1. t \in dag.history[p]
    BY <1>5, AncestorFacts
  <2>2. p \in dag.history[b]
    BY <1>5, AncestorFacts
  <2> QED BY <2>1, <2>2
<1>7. \A x \in Block : Author[x] = Author[r] /\ t \in dag.history[x] =>
        \/ x = r
        \/ \E z \in dag.ancestors[x] :
             Author[z] = Author[x] /\ t \in dag.history[z] /\ Round[z] > Round[t]
  <2>1. Author[r] \notin Faulty /\ t \in dag.rejects[r]
    BY <1>3, <1>4
  <2> QED BY <2>1, RejectsFirst
<1>8. p # r
  <2>1. dag.history[b] \in SUBSET Block
    BY AncestorFacts
  <2>2. \A x : x \in RejectVoters(dag.history[b], t)
                 <=> \E y \in dag.history[b] : t \in dag.rejects[y] /\ Author[y] = x
    BY <2>1, RejectVoterFacts
  <2>3. a \notin RejectVoters(dag.history[b], t)
    BY <1>1, <1>3
  <2> QED BY <1>4, <1>6, <2>2, <2>3
<1>9. PICK z \in dag.ancestors[p] : Round[z] > Round[t]
  BY <1>4, <1>5, <1>6, <1>7, <1>8
<1>10. z \in Block /\ Round[z] < Round[p]
  BY <1>5, AncestorFacts
<1>11. Round[z] \in Nat /\ Round[t] \in Nat
  BY <1>10, FinalizerAssumption
<1> QED BY SMT, <1>5, <1>9, <1>10, <1>11

(* What a quorum has certified for the fast path is accepted by the        *)
(* committed votes.                                                        *)
LEMMA CertifiedAccepted ==
  ASSUME dag \in Dags, NEW i \in 1 .. Len(dag.commits), Anchors(i) # {},
         NEW t \in dag.commits[i].blocks,
         ReachedQuorum(Faulty \cup Authors({b \in Block : Certifies(b, t)}))
  PROVE  ReachedQuorum(AcceptVoters(CommittedFrom(i), t))
<1> USE Zenon
<1> DEFINE A == FirstAnchor(i)
           linked == Span(i, A)
           R == Reached(linked, t)
           C == {b \in Block : Certifies(b, t)}
           K == {k \in 1 .. Len(dag.commits) : LeaderRound(k) >= Round[t] + 3}
<1>1. A \in i .. Len(dag.commits) /\ A \in 1 .. Len(dag.commits) /\ CommittedFrom(i) = linked
      /\ LeaderRound(A) >= LeaderRound(i) + 3
  BY AnchorFacts
<1>2. linked \in SUBSET Block /\ LeaderRound(A) \in Nat
      /\ \A b \in linked : Round[b] <= LeaderRound(A)
  BY <1>1, SpanFacts
<1>3. t \in Block /\ Round[t] <= LeaderRound(i) /\ LeaderRound(i) \in Nat /\ Round[t] \in Nat
  <2>1. t \in Block /\ Round[t] <= LeaderRound(i)
    BY CommitFacts
  <2>2. Round[t] \in Nat
    BY <2>1, FinalizerAssumption
  <2> QED BY <2>1, <2>2, DagFacts
<1>4. PICK j \in K : \A k \in K : j <= k
  <2>1. K \in SUBSET Nat
    BY SMT, DagFacts
  <2>2. LeaderRound(A) >= Round[t] + 3
    BY SMT, <1>1, <1>2, <1>3
  <2>3. A \in K
    BY <1>1, <2>2
  <2> HIDE DEF K
  <2> QED BY <2>1, <2>3, MinExists
<1>5. j \in 1 .. Len(dag.commits) /\ LeaderRound(j) >= Round[t] + 3 /\ j \in 1 .. A
  <2>1. LeaderRound(A) >= Round[t] + 3
    BY SMT, <1>1, <1>2, <1>3
  <2>2. A \in K /\ j \in 1 .. Len(dag.commits) /\ LeaderRound(j) >= Round[t] + 3
    BY <1>1, <2>1
  <2>3. j <= A
    BY <1>4, <2>2
  <2>4. j \in 1 .. A
    BY SMT, <1>1, <2>2, <2>3, DagFacts
  <2> QED BY <2>2, <2>4
<1>6. ASSUME NEW k \in 1 .. j - 1 PROVE CalculateGcRound(LeaderRound(k)) <= Round[t]
  <2>1. k \in 1 .. Len(dag.commits) /\ ~(j <= k)
    BY SMT, <1>5, DagFacts
  <2>2. LeaderRound(k) \in Nat /\ ~(LeaderRound(k) >= Round[t] + 3)
    BY <1>4, <2>1, DagFacts
  <2>3. LeaderRound(k) <= Round[t] + 2
    BY SMT, <1>3, <2>2
  <2> QED BY <1>3, <2>2, <2>3, GcRoundBound
<1> HIDE DEF K, A
<1>7. Leader(j) \in Block /\ LeaderRound(j) = Round[Leader(j)] /\ LeaderRound(j) \in Nat
  BY <1>5, CommitFacts, DagFacts
<1>8. PICK b \in dag.history[Leader(j)] : Certifies(b, t)
  <2> DEFINE n == Round[t] + 2
             F == Faulty \cup Authors(C)
  <2>1. n \in Nat \ {0} /\ Round[Leader(j)] > n
    <3>1. Round[t] \in Nat /\ Round[Leader(j)] \in Nat /\ Round[Leader(j)] >= Round[t] + 3
      BY <1>3, <1>5, <1>7
    <3> QED BY SMT, <3>1
  <2>2. C \in SUBSET Block /\ \A x \in C : Certifies(x, t) /\ Round[x] = n
    BY DEF Certifies
  <2>3. ReachedQuorum(F)
    OBVIOUS
  <2> HIDE DEF C, n
  <2>4. F \in SUBSET DOMAIN Stake
    BY <2>2, AuthorsType, CommitteeAssumption
  <2>5. PICK x \in C : x \in dag.history[Leader(j)]
    <3>1. F \subseteq Faulty \cup Authors(C)
      OBVIOUS
    <3> HIDE DEF F
    <3> QED BY <1>7, <2>1, <2>2, <2>3, <2>4, <3>1, QuorumMet
  <2> QED BY <2>2, <2>5
<1>9. b \in Block
  BY <1>7, HistoryFacts
<1>10. PICK V \in SUBSET DOMAIN Stake :
        /\ ReachedQuorum(V) /\ Round[b] = Round[t] + 2
        /\ \A a \in V : a \notin RejectVoters(dag.history[b], t)
        /\ \A a \in V : \E p \in dag.ancestors[b] :
             Author[p] = a /\ t \in dag.ancestors[p] /\ p \in Block /\ Round[p] = Round[t] + 1
  BY <1>3, <1>8, <1>9, CertifiesFacts
<1>11. ASSUME NEW a \in V PROVE a \in AcceptVoters(linked, t)
  <2>1. PICK p \in dag.ancestors[b] :
          Author[p] = a /\ t \in dag.ancestors[p] /\ p \in Block /\ Round[p] = Round[t] + 1
    BY <1>10
  <2>2. t \in dag.history[p] /\ p \in dag.history[b]
    <3>1. t \in dag.history[p]
      BY <2>1, AncestorFacts
    <3>2. p \in dag.history[b]
      BY <1>9, <2>1, AncestorFacts
    <3> QED BY <3>1, <3>2
  <2>3. p \in dag.history[Leader(j)]
    BY <1>7, <1>8, <2>2, HistoryFacts
  <2>4. p \in R
    BY <1>1, <1>5, <1>6, <2>2, <2>3, ReachedAbove DEF A
  <2>5. p # t
    BY SMT, <1>3, <2>1
  <2> HIDE DEF linked
  <2>6. ASSUME NEW z \in dag.ancestors[p], z \in R \ {t} PROVE FALSE
    <3>1. Round[z] > Round[t]
      BY <1>2, <1>3, <2>6, ReachedFacts
    <3>2. z \in Block /\ Round[z] < Round[p]
      BY <2>1, AncestorFacts
    <3>3. Round[z] \in Nat
      BY <3>2, FinalizerAssumption
    <3> QED BY SMT, <1>3, <2>1, <3>1, <3>2, <3>3
  <2>7. t \notin dag.rejects[p]
    <3>1. dag.history[b] \in SUBSET Block
      BY <1>9, AncestorFacts
    <3>2. \A x : x \in RejectVoters(dag.history[b], t)
                   <=> \E y \in dag.history[b] : t \in dag.rejects[y] /\ Author[y] = x
      BY <3>1, RejectVoterFacts
    <3> QED BY <1>10, <2>1, <2>2, <3>2
  <2>8. Author[p] \notin Authors(dag.ancestors[p] \cap (R \ {t}))
    <3> HIDE DEF R
    <3> QED BY <2>6 DEF Authors
  <2> QED BY <2>1, <2>4, <2>5, <2>7, <2>8 DEF AcceptVoters, Authors
<1>12. AcceptVoters(linked, t) \in SUBSET DOMAIN Stake
  <2> HIDE DEF linked
  <2> QED BY <1>2, <1>3, VoterFacts
<1>13. V \in SUBSET AcceptVoters(linked, t) /\ ReachedQuorum(V)
  BY <1>10, <1>11
<1> HIDE DEF linked
<1> QED BY <1>1, <1>12, <1>13, QuorumGrows

-----------------------------------------------------------------------------
(* What justifies a verdict.                                               *)

(* With the reject votes of S a validator misses none that would speak     *)
(* against a transaction of the i-th commit below some certificate of its  *)
(* leader.                                                                 *)
Informed(i, S) ==
  Anchors(i) # {} =>
    \E c \in Certificates(Leader(i)) :
      /\ c \in dag.history[Leader(FirstAnchor(i))]
      /\ Rejecting(dag.history[c] \cap CommittedFrom(i)) \subseteq S

(* What is rejected is rejected by a quorum, or by the committed blocks;   *)
(* what these reject is rejected, or pending still.                        *)
Justified(i, rejected, pending) ==
  /\ \A t \in rejected :
       /\ t \in dag.commits[i].blocks
       /\ ReachedQuorum(RejectVoters(Block, t)) \/ (Anchors(i) # {} /\ t \in CommittedVerdict(i))
  /\ Anchors(i) # {} => CommittedVerdict(i) \subseteq rejected \cup pending

(* A commit of the queue, before and after the direct attempt. *)
Judged(c, S) ==
  /\ c.decided_with_local_blocks \/ c.pending_blocks = {} => Informed(c.index, S)
  /\ c.pending_blocks # {} => c.pending_blocks = dag.commits[c.index].blocks
  /\ c.pending_blocks = {} =>
       /\ c.pending_transactions \subseteq dag.commits[c.index].blocks
       /\ Justified(c.index, c.rejected_transactions, c.pending_transactions)

(* More votes inform no less. *)
LEMMA InformedGrows ==
  ASSUME NEW i, NEW S, NEW T, Informed(i, S), S \subseteq T
  PROVE  Informed(i, T)
BY Zenon DEF Informed

(* The same of a commit of the queue. *)
LEMMA JudgedGrows ==
  ASSUME NEW c, NEW S, NEW T, Judged(c, S), S \subseteq T
  PROVE  Judged(c, T)
<1>1. Informed(c.index, S) => Informed(c.index, T)
  BY Zenon, InformedGrows
<1> QED BY Zenon, <1>1 DEF Judged

(* A finalized commit. *)
LEMMA FinalizedJudged ==
  ASSUME NEW c, NEW S, Judged(c, S), Finalized(c)
  PROVE  Informed(c.index, S) /\ Justified(c.index, c.rejected_transactions, {})
BY Zenon DEF Judged, Finalized

(* The reject votes of all commits up to one that is a wave above inform.  *)
LEMMA SpanInforms ==
  ASSUME dag \in Dags, NEW i \in 1 .. Len(dag.commits), NEW last \in 1 .. Len(dag.commits),
         LeaderRound(i) + 3 <= LeaderRound(last),
         NEW S, Rejecting(Span(1, last)) \subseteq S
  PROVE  Informed(i, S)
<1> USE Zenon
<1> SUFFICES ASSUME Anchors(i) # {} PROVE Informed(i, S)
  BY DEF Informed
<1>1. /\ FirstAnchor(i) \in 1 .. Len(dag.commits)
      /\ (\A k \in 1 .. Len(dag.commits) :
            LeaderRound(k) >= LeaderRound(i) + 3 => FirstAnchor(i) <= k)
      /\ CommittedFrom(i) = Span(i, FirstAnchor(i))
  BY AnchorFacts
<1>2. PICK c \in Certificates(Leader(i)) : c \in dag.history[Leader(FirstAnchor(i))]
  BY AnchorFacts
<1>3. LeaderRound(last) >= LeaderRound(i) + 3
  <2>1. LeaderRound(last) \in Nat /\ LeaderRound(i) \in Nat
    BY DagFacts
  <2> QED BY <2>1
<1>4. FirstAnchor(i) <= last
  BY <1>1, <1>3
<1>5. i .. FirstAnchor(i) \subseteq 1 .. last
  BY SMT, <1>1, <1>4
<1>6. Span(i, FirstAnchor(i)) \subseteq Span(1, last)
  BY <1>5 DEF Span
<1>7. Rejecting(dag.history[c] \cap CommittedFrom(i)) \subseteq S
  BY <1>1, <1>6 DEF Rejecting
<1> QED BY <1>2, <1>7 DEF Informed

(* The blocks seen when a leader was decided here inform, too. *)
LEMMA EvidenceInforms ==
  ASSUME dag \in Dags, NEW i \in 1 .. Len(dag.commits), NEW seen \in Evidence(i),
         NEW S, Rejecting(dag.commits[i].blocks \cup UNION {dag.history[b] : b \in seen}) \subseteq S
  PROVE  Informed(i, S)
<1> USE Zenon
<1> SUFFICES ASSUME Anchors(i) # {} PROVE Informed(i, S)
  BY DEF Informed
<1>1. PICK c \in Certificates(Leader(i)) :
        /\ c \in dag.history[Leader(FirstAnchor(i))]
        /\ \E s \in seen : dag.history[c] \subseteq dag.history[s]
  <2> DEFINE A == FirstAnchor(i)
             L == Leader(i)
  <2>1. \/ seen \in SUBSET Certificates(L) /\ ReachedQuorum(Authors(seen))
        \/ seen = {Leader(A)}
    BY DEF Evidence, FirstAnchor, Leader
  <2>2. A \in 1 .. Len(dag.commits) /\ LeaderRound(A) >= LeaderRound(i) + 3
    BY AnchorFacts
  <2>3. /\ Leader(A) \in Block /\ LeaderRound(A) = Round[Leader(A)] /\ LeaderRound(A) \in Nat
        /\ L \in Block /\ LeaderRound(i) = Round[L] /\ LeaderRound(i) \in Nat
    BY <2>2, CommitFacts, DagFacts
  <2>4. CASE seen = {Leader(A)}
    <3>1. PICK c \in Certificates(L) : c \in dag.history[Leader(A)]
      BY AnchorFacts
    <3>2. dag.history[c] \subseteq dag.history[Leader(A)]
      BY <2>3, <3>1, HistoryFacts
    <3> QED BY <2>4, <3>1, <3>2
  <2>5. CASE seen \in SUBSET Certificates(L) /\ ReachedQuorum(Authors(seen))
    <3> DEFINE n == Round[L] + 2
    <3>1. n \in Nat \ {0} /\ Round[Leader(A)] > n
      <4>1. Round[L] \in Nat /\ Round[Leader(A)] \in Nat /\ Round[Leader(A)] >= Round[L] + 3
        BY <2>2, <2>3
      <4> HIDE DEF A, L
      <4> QED BY SMT, <4>1
    <3>2. seen \in SUBSET Block /\ \A c \in seen : c \in Certificates(L) /\ Round[c] = n
      BY <2>5 DEF Certificates, IsCertificate
    <3>3. Authors(seen) \in SUBSET DOMAIN Stake
      BY <3>2, AuthorsType
    <3> HIDE DEF n
    <3>4. PICK c \in seen : c \in dag.history[Leader(A)]
      <4> DEFINE F == Authors(seen)
      <4>1. F \in SUBSET DOMAIN Stake /\ ReachedQuorum(F) /\ F \subseteq Faulty \cup Authors(seen)
        BY <2>5, <3>3
      <4> HIDE DEF F
      <4> QED BY <2>3, <3>1, <3>2, <4>1, QuorumMet
    <3> QED BY <3>2, <3>4
  <2> QED BY <2>1, <2>4, <2>5
<1>2. Rejecting(dag.history[c] \cap CommittedFrom(i)) \subseteq S
  BY <1>1 DEF Rejecting
<1> QED BY <1>1, <1>2 DEF Informed

(* The direct attempt: what no counted vote opposes is accepted by the     *)
(* committed blocks, and what a quorum of the counted votes rejects a      *)
(* quorum rejects.                                                         *)
LEMMA DirectJudged ==
  ASSUME dag \in Dags, voted \in SUBSET Block, NEW i \in 1 .. Len(dag.commits),
         NEW c \in CommitState, c.index = i, c.pending_blocks = dag.commits[i].blocks,
         NEW S, Informed(i, S),
         \A j \in i .. Len(dag.commits) : S \cap dag.commits[j].blocks \subseteq voted
  PROVE  Judged(TryDirectFinalizeCommit(c), S)
<1> USE Zenon
<1> DEFINE B == dag.commits[i].blocks
           pending == {b \in c.pending_blocks : RejectVoters(voted, b) # {}}
           rejected == {b \in pending : ReachedQuorum(RejectVoters(voted, b))}
           d == [c EXCEPT !.pending_blocks = {},
                          !.pending_transactions = pending \ rejected,
                          !.rejected_transactions = rejected]
<1>1. TryDirectFinalizeCommit(c) = d
  BY DEF TryDirectFinalizeCommit
<1>2. B \in SUBSET Block
  BY DagFacts
<1>3. \A t : t \in pending <=> t \in B /\ RejectVoters(voted, t) # {}
  OBVIOUS
<1>4. \A t : t \in rejected <=> t \in pending /\ ReachedQuorum(RejectVoters(voted, t))
  OBVIOUS
<1> HIDE DEF pending, rejected
<1>5. /\ d.index = i /\ d.pending_blocks = {}
      /\ d.pending_transactions = pending \ rejected /\ d.rejected_transactions = rejected
  BY DEF CommitState
<1> HIDE DEF d, B
<1>6. ASSUME NEW t \in rejected PROVE t \in B /\ ReachedQuorum(RejectVoters(Block, t))
  <2>1. t \in B /\ ReachedQuorum(RejectVoters(voted, t))
    BY <1>3, <1>4
  <2>2. Block \in SUBSET Block
    OBVIOUS
  <2>3. RejectVoters(Block, t) \in SUBSET DOMAIN Stake
    BY <2>2, RejectVoterFacts
  <2>4. RejectVoters(voted, t) \in SUBSET RejectVoters(Block, t)
    BY RejectVoterFacts
  <2> QED BY <2>1, <2>3, <2>4, QuorumGrows
<1>7. ASSUME Anchors(i) # {}, NEW t \in CommittedVerdict(i) PROVE t \in pending
  <2>1. t \in B /\ ~ReachedQuorum(AcceptVoters(CommittedFrom(i), t))
    BY DEF CommittedVerdict, B
  <2>2. SUFFICES ASSUME t \notin pending PROVE FALSE
    OBVIOUS
  <2>3. RejectVoters(voted, t) = {}
    BY <1>3, <2>1, <2>2
  <2>4. PICK x \in Certificates(Leader(i)) :
          /\ x \in dag.history[Leader(FirstAnchor(i))]
          /\ Rejecting(dag.history[x] \cap CommittedFrom(i)) \subseteq S
    BY <1>7 DEF Informed
  <2>5. ASSUME NEW b \in dag.history[x] \cap CommittedFrom(i), t \in dag.rejects[b] PROVE FALSE
    <3>1. b \in S
      BY <2>4, <2>5 DEF Rejecting
    <3>2. CommittedFrom(i) = Span(i, FirstAnchor(i)) /\ FirstAnchor(i) \in 1 .. Len(dag.commits)
      BY <1>7, AnchorFacts
    <3>3. PICK j \in i .. FirstAnchor(i) : b \in dag.commits[j].blocks
      BY <3>2 DEF Span
    <3>4. j \in i .. Len(dag.commits)
      BY SMT, <3>2, DagFacts
    <3>5. b \in voted
      BY <3>1, <3>3, <3>4
    <3>6. Author[b] \in RejectVoters(voted, t)
      BY <2>5, <3>5, RejectVoterFacts
    <3> QED BY <2>3, <3>6
  <2>6. \A b \in dag.history[x] \cap CommittedFrom(i) : t \notin dag.rejects[b]
    BY <2>5
  <2>7. ReachedQuorum(AcceptVoters(CommittedFrom(i), t))
    BY <1>7, <2>1, <2>4, <2>6, UnopposedAccepted DEF B
  <2> QED BY <2>1, <2>7
<1>8. Justified(i, rejected, pending \ rejected)
  <2>1. ASSUME Anchors(i) # {}
        PROVE  CommittedVerdict(i) \subseteq rejected \cup (pending \ rejected)
    BY <1>7, <2>1
  <2> QED BY <1>6, <2>1 DEF Justified, B
<1>9. pending \ rejected \subseteq B
  BY <1>3
<1> QED BY <1>1, <1>5, <1>8, <1>9 DEF Judged, B

(* The indirect attempt: what the committed blocks accept so far they      *)
(* accept at the end, and what is left at the end they reject.             *)
LEMMA IndirectJudged ==
  ASSUME dag \in Dags, voted \in SUBSET Block, NEW i \in 1 .. Len(dag.commits),
         NEW n \in i .. Len(dag.commits),
         \A k \in 1 .. n - 1 : LeaderRound(k) < LeaderRound(i) + 3,
         NEW c \in CommitState, c.index = i, c.pending_blocks = {}, NEW last, last.index = n,
         NEW S, Judged(c, S)
  PROVE  Judged(TryIndirectFinalize(c, last, Span(i, n)), S)
<1> USE Zenon
<1> DEFINE B == dag.commits[i].blocks
           P == c.pending_transactions
           late == {t \in P : ReachedQuorum(RejectVoters(voted, t))}
           finalized == {t \in P \ late : ReachedQuorum(AcceptVoters(Span(i, n), t))}
           rest == P \ (late \cup finalized)
           deep == LeaderRound(i) + INDIRECT_REJECT_DEPTH <= LeaderRound(n)
           more == late \cup (IF deep THEN rest ELSE {})
           left == IF deep THEN {} ELSE rest
           d == [c EXCEPT !.pending_transactions = left,
                          !.rejected_transactions = @ \cup late \cup (IF deep THEN rest ELSE {})]
           e == [c EXCEPT !.pending_transactions = left, !.rejected_transactions = @ \cup more]
           R == c.rejected_transactions \cup more
<1>1. TryIndirectFinalize(c, last, Span(i, n)) = d
  BY DEF TryIndirectFinalize
<1>2. d = e
  <2> DEFINE r == c.rejected_transactions
  <2>1. \A x, y, z : (x \cup y) \cup z = x \cup (y \cup z)
    OBVIOUS
  <2>2. (r \cup late) \cup (IF deep THEN rest ELSE {}) = r \cup more
    BY <2>1
  <2> QED BY <2>2
<1>3. Informed(i, S) /\ P \subseteq B /\ Justified(i, c.rejected_transactions, P)
  BY DEF Judged
<1>4. \A t : t \in late <=> t \in P /\ ReachedQuorum(RejectVoters(voted, t))
  OBVIOUS
<1>5. \A t : t \in rest <=> t \in P /\ t \notin late /\ ~ReachedQuorum(AcceptVoters(Span(i, n), t))
  OBVIOUS
<1> HIDE DEF late, finalized, rest
<1>6. \A t : t \in more <=> t \in late \/ (deep /\ t \in rest)
  OBVIOUS
<1>7. \A t : t \in left <=> ~deep /\ t \in rest
  OBVIOUS
<1> HIDE DEF left, more, deep
<1>8. /\ e.index = i /\ e.pending_blocks = {} /\ e.pending_transactions = left
      /\ e.rejected_transactions = R
  BY DEF CommitState
<1> HIDE DEF d, e, B, P
<1>9. n \in 1 .. Len(dag.commits) /\ i <= n /\ n \in Nat
  BY SMT, DagFacts
<1>10. ASSUME Anchors(i) # {} PROVE FirstAnchor(i) \in n .. Len(dag.commits)
  <2>1. FirstAnchor(i) \in 1 .. Len(dag.commits)
        /\ LeaderRound(FirstAnchor(i)) >= LeaderRound(i) + 3
    BY <1>10, AnchorFacts
  <2>2. LeaderRound(FirstAnchor(i)) \in Nat /\ LeaderRound(i) \in Nat /\ Len(dag.commits) \in Nat
    BY <2>1, DagFacts
  <2>3. FirstAnchor(i) \notin 1 .. n - 1
    <3>1. ~(LeaderRound(FirstAnchor(i)) < LeaderRound(i) + 3)
      BY SMT, <2>1, <2>2
    <3> QED BY <3>1
  <2> QED BY SMT, <1>9, <2>1, <2>2, <2>3
<1>11. ASSUME deep PROVE Anchors(i) # {} /\ FirstAnchor(i) = n
  <2>1. LeaderRound(n) \in Nat /\ LeaderRound(i) \in Nat /\ DOMAIN dag.commits = 1 .. Len(dag.commits)
    BY <1>9, DagFacts
  <2>2. LeaderRound(n) >= LeaderRound(i) + 3
    BY <1>11, <2>1 DEF deep, INDIRECT_REJECT_DEPTH
  <2>3. LeaderRound(n) >= LeaderRound(i) + DEFAULT_WAVE_LENGTH
    BY <2>2 DEF DEFAULT_WAVE_LENGTH
  <2>4. n \in Anchors(i)
    BY <1>9, <2>1, <2>3 DEF Anchors
  <2>5. FirstAnchor(i) <= n
    BY <1>9, <2>2, <2>4, AnchorFacts
  <2>6. FirstAnchor(i) \in n .. Len(dag.commits)
    BY <1>10, <2>4
  <2>7. FirstAnchor(i) = n
    BY SMT, <1>9, <2>5, <2>6
  <2> QED BY <2>4, <2>7
<1>12. ASSUME NEW t \in late PROVE t \in B /\ ReachedQuorum(RejectVoters(Block, t))
  <2>1. t \in B /\ ReachedQuorum(RejectVoters(voted, t))
    BY <1>3, <1>4
  <2>2. Block \in SUBSET Block
    OBVIOUS
  <2>3. RejectVoters(Block, t) \in SUBSET DOMAIN Stake
    BY <2>2, RejectVoterFacts
  <2>4. RejectVoters(voted, t) \in SUBSET RejectVoters(Block, t)
    BY RejectVoterFacts
  <2> QED BY <2>1, <2>3, <2>4, QuorumGrows
<1>13. ASSUME deep, NEW t \in rest PROVE t \in B /\ Anchors(i) # {} /\ t \in CommittedVerdict(i)
  <2>1. t \in B /\ ~ReachedQuorum(AcceptVoters(Span(i, n), t))
    BY <1>3, <1>5
  <2>2. Anchors(i) # {} /\ CommittedFrom(i) = Span(i, n)
    <3>1. Anchors(i) # {} /\ FirstAnchor(i) = n
      BY <1>11, <1>13
    <3>2. CommittedFrom(i) = Span(i, FirstAnchor(i))
      BY <3>1, AnchorFacts
    <3> QED BY <3>1, <3>2
  <2> QED BY <2>1, <2>2 DEF CommittedVerdict, B
<1>14. ASSUME Anchors(i) # {}, NEW t \in CommittedVerdict(i), t \in P
       PROVE  t \in more \cup left
  <2>1. t \in B /\ ~ReachedQuorum(AcceptVoters(CommittedFrom(i), t))
    BY DEF CommittedVerdict, B
  <2>2. ASSUME ReachedQuorum(AcceptVoters(Span(i, n), t)) PROVE FALSE
    <3>1. FirstAnchor(i) \in n .. Len(dag.commits)
      BY <1>10, <1>14
    <3>2. ReachedQuorum(AcceptVoters(Span(i, FirstAnchor(i)), t))
      BY <2>1, <2>2, <3>1, AcceptanceStays DEF B
    <3>3. CommittedFrom(i) = Span(i, FirstAnchor(i))
      BY <1>14, AnchorFacts
    <3> QED BY <2>1, <3>2, <3>3
  <2>3. t \in late \/ t \in rest
    BY <1>5, <1>14, <2>2
  <2> QED BY <1>6, <1>7, <2>3
<1>15. Justified(i, R, left)
  <2>1. ASSUME NEW t \in R
        PROVE  /\ t \in B
               /\ \/ ReachedQuorum(RejectVoters(Block, t))
                  \/ Anchors(i) # {} /\ t \in CommittedVerdict(i)
    <3>1. CASE t \in c.rejected_transactions
      BY <1>3, <3>1 DEF Justified, B
    <3>2. CASE t \in late
      BY <1>12, <3>2
    <3>3. CASE deep /\ t \in rest
      BY <1>13, <3>3
    <3> QED BY <1>6, <3>1, <3>2, <3>3
  <2>2. ASSUME Anchors(i) # {}, NEW t \in CommittedVerdict(i) PROVE t \in R \cup left
    <3>1. t \in c.rejected_transactions \/ t \in P
      BY <1>3, <2>2 DEF Justified
    <3> QED BY <1>14, <2>2, <3>1
  <2> HIDE DEF R
  <2> QED BY <2>1, <2>2 DEF Justified, B
<1>16. left \subseteq B
  BY <1>3, <1>5, <1>7
<1> HIDE DEF R
<1> QED BY <1>1, <1>2, <1>3, <1>8, <1>15, <1>16 DEF Judged, B

-----------------------------------------------------------------------------
(* The queue.                                                              *)

(* The direct attempts are made only on commits whose votes are all known. *)
LEMMA DirectQueueJudged ==
  ASSUME dag \in Dags, voted \in SUBSET Block, NEW from \in Nat, NEW cs, Queue(cs, from),
         from + Len(cs) <= Len(dag.commits),
         NEW S, Rejecting(Span(1, from + Len(cs))) \subseteq S,
         \A j \in from + 1 .. Len(dag.commits) : S \cap dag.commits[j].blocks \subseteq voted,
         \A k \in 1 .. Len(cs) : Judged(cs[k], S)
  PROVE  \A k \in 1 .. Len(cs) : Judged(DirectFinalize(cs)[k], S)
<1> USE Zenon
<1> SUFFICES ASSUME NEW k \in 1 .. Len(cs) PROVE Judged(DirectFinalize(cs)[k], S)
  OBVIOUS
<1> DEFINE i == from + k
           n == from + Len(cs)
<1>1. /\ Len(cs) \in Nat /\ cs[k] \in CommitState /\ cs[k].index = i
      /\ Len(cs) \in 1 .. Len(cs) /\ cs[Len(cs)].index = n
  BY SMT DEF Queue
<1>2. Len(dag.commits) \in Nat
  BY DagFacts
<1>3. /\ i \in 1 .. Len(dag.commits) /\ n \in 1 .. Len(dag.commits)
      /\ i .. Len(dag.commits) \subseteq from + 1 .. Len(dag.commits)
  BY SMT, <1>1, <1>2
<1>4. \/ DirectFinalize(cs)[k] = cs[k]
      \/ /\ MayDirectFinalize(cs, k) /\ cs[k].pending_blocks # {}
         /\ DirectFinalize(cs)[k] = TryDirectFinalizeCommit(cs[k])
  <2>1. DirectStep(cs, k)
    BY DirectFacts
  <2> QED BY <2>1 DEF DirectStep
<1>5. CASE DirectFinalize(cs)[k] = cs[k]
  BY <1>5
<1>6. ASSUME MayDirectFinalize(cs, k), cs[k].pending_blocks # {}
      PROVE  Judged(TryDirectFinalizeCommit(cs[k]), S)
  <2>1. cs[k].pending_blocks = dag.commits[i].blocks
    BY <1>1, <1>6 DEF Judged
  <2>2. Informed(i, S)
    <3>1. CASE cs[k].decided_with_local_blocks
      BY <1>1, <3>1 DEF Judged
    <3>2. CASE LeaderRound(i) + DEFAULT_WAVE_LENGTH <= LeaderRound(n)
      <4> HIDE DEF i, n
      <4>1. LeaderRound(i) + 3 <= LeaderRound(n)
        BY <3>2 DEF DEFAULT_WAVE_LENGTH
      <4>2. Rejecting(Span(1, n)) \subseteq S
        BY DEF n
      <4> QED BY <1>3, <4>1, <4>2, SpanInforms
    <3> QED BY <1>1, <1>6, <3>1, <3>2 DEF MayDirectFinalize
  <2>3. \A j \in i .. Len(dag.commits) : S \cap dag.commits[j].blocks \subseteq voted
    BY <1>3
  <2> HIDE DEF i
  <2> QED BY <1>1, <1>3, <2>1, <2>2, <2>3, DirectJudged
<1> QED BY <1>4, <1>5, <1>6

(* The k-th place of the queue of the commits f + 1 to n. *)
Place(from, f, len, u, k, n) ==
  /\ f + k \in 1 .. u /\ n \in f + k .. u /\ f + k \in from + 1 .. n - 1
  /\ k - 1 \in 0 .. len /\ (k - 1) + 1 = k /\ len \in 1 .. len
  /\ f + (k - 1) \in Nat /\ (f + (k - 1)) + 1 = f + k /\ (f + (k - 1)) + (len - (k - 1)) = n
  /\ f + k .. n \subseteq f + 1 .. f + len

(* Every place but the last is one. *)
LEMMA PlaceFacts ==
  ASSUME NEW from \in Nat, NEW f \in Nat, f >= from, NEW len \in Nat, NEW u \in Nat,
         f + len <= u, NEW k \in 1 .. len, k < len, NEW n, n = f + len
  PROVE  Place(from, f, len, u, k, n)
BY DEF Place

(* The indirect attempts see the links of the commits from the one they    *)
(* are made on to the last.                                                *)
LEMMA IndirectQueueJudged ==
  ASSUME dag \in Dags, voted \in SUBSET Block, NEW from \in Nat, NEW direct, Direct(direct, from),
         NEW S, \A c \in Elements(direct.left) : Judged(c, S),
         NEW n, n = from + Len(direct.popped) + Len(direct.left),
         \A i \in from + 1 .. n - 1 : \A k \in 1 .. n - 1 : LeaderRound(k) < LeaderRound(i) + 3,
         NEW c, Attempted(c, direct)
  PROVE  Judged(c, S)
<1> USE Zenon
<1> DEFINE cs == direct.left
           f == from + Len(direct.popped)
           len == Len(cs)
           linked(k) == direct.blocks \cap BlocksOf(SubSeq(cs, k, Len(cs)))
<1>1. Queue(direct.popped, from) /\ Queue(cs, f) /\ direct.blocks = BlocksOf(cs)
      /\ f + len <= Len(dag.commits)
  BY DEF Direct
<1>2. Len(direct.popped) \in Nat /\ len \in Nat /\ f \in Nat /\ f >= from /\ n = f + len
      /\ cs \in Seq(CommitState) /\ DOMAIN cs = 1 .. len
      /\ \A k \in 1 .. len : cs[k] \in CommitState /\ cs[k].index = f + k
  BY SMT, <1>1 DEF Queue
<1>3. PICK k \in 1 .. len :
        \/ c = cs[k]
        \/ k < len /\ cs[k].pending_blocks = {} /\ c = TryIndirectFinalize(cs[k], cs[len], linked(k))
  BY DEF Attempted
<1>4. Judged(cs[k], S)
  BY <1>2, <1>3 DEF Elements
<1>5. CASE c = cs[k]
  BY <1>4, <1>5
<1> HIDE DEF cs, f, len, linked
<1>6. CASE k < len /\ cs[k].pending_blocks = {} /\ c = TryIndirectFinalize(cs[k], cs[len], linked(k))
  <2> DEFINE i == f + k
  <2>1. Len(dag.commits) \in Nat
    BY DagFacts
  <2>2. /\ i \in 1 .. Len(dag.commits) /\ n \in i .. Len(dag.commits) /\ i \in from + 1 .. n - 1
        /\ k - 1 \in 0 .. len /\ (k - 1) + 1 = k /\ len \in 1 .. len
        /\ f + (k - 1) \in Nat /\ (f + (k - 1)) + 1 = i /\ (f + (k - 1)) + (len - (k - 1)) = n
        /\ i .. n \subseteq f + 1 .. f + len
    <3>1. f + len <= Len(dag.commits) /\ len \in Nat /\ f \in Nat /\ f >= from /\ n = f + len
          /\ k < len
      BY <1>1, <1>2, <1>6
    <3>2. Place(from, f, len, Len(dag.commits), k, n)
      BY <1>3, <2>1, <3>1, PlaceFacts
    <3> QED BY <3>2 DEF Place
  <2>3. cs[k] \in CommitState /\ cs[k].index = i /\ cs[len].index = n
    BY <1>2, <2>2
  <2>4. linked(k) = Span(i, n)
    <3> DEFINE s == SubSeq(cs, k, Len(cs))
               g == f + (k - 1)
    <3>1. /\ Queue(SubSeq(cs, (k - 1) + 1, Len(cs)), f + (k - 1))
          /\ Len(SubSeq(cs, (k - 1) + 1, Len(cs))) = Len(cs) - (k - 1)
      <4>1. k - 1 \in 0 .. Len(cs)
        BY <2>2 DEF len
      <4>2. f \in Nat /\ Queue(cs, f)
        BY <1>1, <1>2
      <4> DEFINE m == k - 1
      <4>3. m \in 0 .. Len(cs)
        BY <4>1
      <4> HIDE DEF i, m
      <4>4. /\ Queue(SubSeq(cs, m + 1, Len(cs)), f + m)
            /\ Len(SubSeq(cs, m + 1, Len(cs))) = Len(cs) - m
        BY <4>2, <4>3, QueueSplit
      <4> QED BY <4>4 DEF m
    <3>2. Queue(s, g) /\ Len(s) = len - (k - 1)
      BY <2>2, <3>1 DEF len
    <3>3. g \in Nat /\ g + 1 = i /\ g + (len - (k - 1)) = n
      BY <2>2
    <3> HIDE DEF s, g, i
    <3>4. BlocksOf(s) = UNION {dag.commits[j].blocks : j \in g + 1 .. g + Len(s)}
      BY <3>2, <3>3, BlocksOfQueue
    <3>5. BlocksOf(s) = Span(i, n)
      BY <3>2, <3>3, <3>4 DEF Span
    <3>6. BlocksOf(cs) = UNION {dag.commits[j].blocks : j \in f + 1 .. f + len}
      BY <1>1, <1>2, BlocksOfQueue DEF len
    <3>7. Span(i, n) \subseteq BlocksOf(cs)
      BY <2>2, <3>6 DEF Span, i
    <3>8. linked(k) = BlocksOf(cs) \cap BlocksOf(s)
      BY <1>1 DEF linked, s
    <3> QED BY <3>5, <3>7, <3>8
  <2>5. \A j \in 1 .. n - 1 : LeaderRound(j) < LeaderRound(i) + 3
    BY <2>2
  <2> HIDE DEF i
  <2>6. Judged(TryIndirectFinalize(cs[k], cs[len], Span(i, n)), S)
    BY <1>4, <1>6, <2>2, <2>3, <2>5, IndirectJudged
  <2> QED BY <1>6, <2>4, <2>6
<1> QED BY <1>3, <1>5, <1>6

(* What process_commit leaves in the queue and what it pops. *)
LEMMA ProcessedJudged ==
  ASSUME IInv, processed < Len(dag.commits), NEW local \in BOOLEAN,
         NEW S, \A c \in Elements(pending_commits) : Judged(c, S),
         local => Informed(processed + 1, S),
         Rejecting(Span(1, processed + 1)) \subseteq S,
         \A j \in Done + 1 .. Len(dag.commits) : S \cap dag.commits[j].blocks \subseteq voted
  PROVE  LET r == ProcessedCommit(processed + 1, local) IN
         /\ \A c \in Elements(r.popped) : Finalized(c) /\ Judged(c, S)
         /\ \A c \in Elements(r.left) : Judged(c, S)
<1> USE Zenon
<1> DEFINE n == processed + 1
           from == Done
           arrived == Arrived(n, local)
           tried == DirectFinalize(arrived)
           direct == Directly(n, local)
           r == IndirectFinalize(direct)
<1>1. ProcessedCommit(n, local) = r
  BY DEF ProcessedCommit, Directly, Arrived
<1>2. dag \in Dags /\ voted \in SUBSET Block /\ processed \in Nat /\ Len(pending_commits) \in Nat
      /\ NoneOverdue /\ Queue(pending_commits, from) /\ from = processed - Len(pending_commits)
      /\ Len(pending_commits) <= processed
  BY SMT DEF IInv, TypeOK, Queue, Done
<1>3. /\ Queue(arrived, from) /\ Len(arrived) = Len(pending_commits) + 1
      /\ from \in Nat /\ from + Len(arrived) = n
      /\ from + Len(arrived) <= Len(dag.commits)
      /\ \A k \in 1 .. Len(pending_commits) : arrived[k] = pending_commits[k]
      /\ arrived[Len(arrived)] =
           [index |-> n, decided_with_local_blocks |-> local,
            pending_blocks |-> dag.commits[n].blocks,
            pending_transactions |-> {}, rejected_transactions |-> {}]
  BY ArrivedFacts
<1>4. /\ Direct(direct, from)
      /\ from + Len(direct.popped) + Len(direct.left) = n
      /\ \A c \in Elements(direct.popped) : c \in Elements(tried) /\ Finalized(c)
      /\ Elements(direct.left) \subseteq Elements(tried)
  BY DirectlyFacts
<1>5. n \in 1 .. Len(dag.commits) /\ Len(dag.commits) \in Nat /\ n - 1 = processed
  BY SMT, <1>2, DagFacts
<1>6. ASSUME NEW k \in 1 .. Len(arrived) PROVE Judged(arrived[k], S)
  <2>1. CASE k \in 1 .. Len(pending_commits)
    <3>1. DOMAIN pending_commits = 1 .. Len(pending_commits)
      BY SMT, <1>2 DEF Queue
    <3>2. arrived[k] \in Elements(pending_commits)
      BY <1>3, <2>1, <3>1 DEF Elements
    <3> QED BY <3>2
  <2>2. CASE k = Len(arrived)
    <3> DEFINE c == arrived[k]
    <3>1. /\ c.index = n /\ c.decided_with_local_blocks = local
          /\ c.pending_blocks = dag.commits[n].blocks
      <4> HIDE DEF n, arrived
      <4>1. c = [index |-> n, decided_with_local_blocks |-> local,
                 pending_blocks |-> dag.commits[n].blocks,
                 pending_transactions |-> {}, rejected_transactions |-> {}]
        BY <1>3, <2>2
      <4> HIDE DEF c
      <4> QED BY <4>1
    <3>2. dag.commits[n].blocks # {}
      <4> HIDE DEF n
      <4> QED BY <1>2, <1>5, LeaderCommitted
    <3> HIDE DEF c, n
    <3>3. Judged(c, S)
      BY <3>1, <3>2 DEF Judged, n
    <3> QED BY <3>3 DEF c
  <2>3. k \in 1 .. Len(pending_commits) \/ k = Len(arrived)
    <3>1. Len(arrived) = Len(pending_commits) + 1 /\ Len(pending_commits) \in Nat
      BY <1>2, <1>3
    <3>2. k \in 1 .. Len(arrived)
      OBVIOUS
    <3> HIDE DEF n, arrived
    <3> QED BY SMT, <3>1, <3>2
  <2> QED BY <2>1, <2>2, <2>3
<1> HIDE DEF arrived, direct, from
<1>7. ASSUME NEW c \in Elements(tried) PROVE Judged(c, S)
  <2>1. \A k \in 1 .. Len(arrived) : Judged(tried[k], S)
    <3>1. Rejecting(Span(1, from + Len(arrived))) \subseteq S
      BY <1>3
    <3>2. \A j \in from + 1 .. Len(dag.commits) : S \cap dag.commits[j].blocks \subseteq voted
      BY DEF from
    <3> QED BY <1>2, <1>3, <1>6, <3>1, <3>2, DirectQueueJudged
  <2>2. Queue(tried, from) /\ Len(tried) = Len(arrived)
    BY <1>2, <1>3, DirectFacts
  <2> HIDE DEF tried
  <2>3. DOMAIN tried = 1 .. Len(arrived)
    BY SMT, <2>2 DEF Queue
  <2> QED BY <2>1, <2>3 DEF Elements
<1> HIDE DEF tried
<1>8. ASSUME NEW i \in from + 1 .. n - 1, NEW k \in 1 .. n - 1
      PROVE  LeaderRound(k) < LeaderRound(i) + 3
  <2>1. i - from \in 1 .. Len(pending_commits) /\ from + (i - from) = i
        /\ i \in 1 .. Len(dag.commits) /\ k \in 1 .. Len(dag.commits)
        /\ (k = processed \/ k \in 1 .. processed - 1)
        /\ processed \in 1 .. Len(dag.commits)
    <3>1. /\ from = processed - Len(pending_commits) /\ Len(pending_commits) \in Nat
          /\ processed \in Nat /\ from \in Nat /\ n \in 1 .. Len(dag.commits)
          /\ Len(dag.commits) \in Nat /\ n - 1 = processed
      BY <1>2, <1>3, <1>5
    <3> HIDE DEF n
    <3>2. i \in from + 1 .. processed /\ k \in 1 .. processed
      BY <3>1
    <3>3. i \in Nat /\ from + 1 <= i /\ i <= processed /\ k \in Nat /\ 1 <= k /\ k <= processed
          /\ processed < Len(dag.commits)
      BY SMT, <3>1, <3>2
    <3>4. i - from \in 1 .. Len(pending_commits) /\ from + (i - from) = i
      BY SMT, <3>1, <3>3
    <3>5. i \in 1 .. Len(dag.commits) /\ k \in 1 .. Len(dag.commits)
          /\ processed \in 1 .. Len(dag.commits)
      BY SMT, <3>1, <3>3
    <3>6. k = processed \/ k \in 1 .. processed - 1
      BY SMT, <3>1, <3>3
    <3> QED BY <3>4, <3>5, <3>6
  <2>2. i - from \in DOMAIN pending_commits /\ pending_commits[i - from].index = i
    <3>1. DOMAIN pending_commits = 1 .. Len(pending_commits)
      BY SMT, <1>2 DEF Queue
    <3>2. \A q \in 1 .. Len(pending_commits) : pending_commits[q].index = from + q
      BY <1>2 DEF Queue
    <3> QED BY <2>1, <3>1, <3>2
  <2>3. LeaderRound(processed) < LeaderRound(i) + INDIRECT_REJECT_DEPTH
    BY <1>2, <2>2 DEF NoneOverdue
  <2>4. LeaderRound(i) \in Nat /\ LeaderRound(k) \in Nat /\ LeaderRound(processed) \in Nat
    BY <1>2, <2>1, DagFacts
  <2>5. k = processed \/ LeaderRound(k) < LeaderRound(processed)
    BY <1>2, <2>1, DagFacts
  <2> HIDE DEF n
  <2> QED BY SMT, <2>3, <2>4, <2>5 DEF INDIRECT_REJECT_DEPTH
<1>9. /\ \A c \in Elements(r.popped) :
           c \in Elements(direct.popped) \/ (Finalized(c) /\ Attempted(c, direct))
      /\ \A c \in Elements(r.left) : Attempted(c, direct)
  BY <1>2, <1>3, <1>4, IndirectFacts
<1>10. ASSUME NEW c, Attempted(c, direct) PROVE Judged(c, S)
  <2>1. \A x \in Elements(direct.left) : Judged(x, S)
    BY <1>4, <1>7
  <2>2. n = from + Len(direct.popped) + Len(direct.left)
    BY <1>4
  <2> HIDE DEF n
  <2> QED BY <1>2, <1>3, <1>4, <1>8, <1>10, <2>1, <2>2, IndirectQueueJudged
<1>11. /\ \A c \in Elements(r.popped) : Finalized(c) /\ Judged(c, S)
       /\ \A c \in Elements(r.left) : Judged(c, S)
  BY <1>4, <1>7, <1>9, <1>10
<1> QED BY <1>1, <1>11

-----------------------------------------------------------------------------
(* The invariant behind the verdicts.                                      *)

(* The votes that are needed are accepted, counted unless collected, and   *)
(* stored before a verdict is sent; every verdict is justified.            *)
VInv ==
  /\ stored \subseteq accepted /\ {b \in accepted : Round[b] > gc} \subseteq voted
  /\ Rejecting(Span(1, processed)) \subseteq accepted
  /\ \A c \in Elements(pending_commits) : Judged(c, accepted)
  /\ \A o \in output : Informed(o.index, stored) /\ Justified(o.index, o.rejected, {})

(* What depends on the DAG alone. *)
LEMMA SameDag ==
  ASSUME dag' = dag
  PROVE  /\ \A i, S : Informed(i, S)' <=> Informed(i, S)
         /\ \A i, R, P : Justified(i, R, P)' <=> Justified(i, R, P)
         /\ \A c, S : Judged(c, S)' <=> Judged(c, S)
         /\ \A i, j : Span(i, j)' = Span(i, j)
         /\ \A S : Rejecting(S)' = Rejecting(S)
         /\ \A i : LeaderRound(i)' = LeaderRound(i)
<1> USE Zenon
<1>1. \A i : Anchors(i)' = Anchors(i)
  BY DEF Anchors, LeaderRound
<1>2. \A i : FirstAnchor(i)' = FirstAnchor(i)
  BY <1>1 DEF FirstAnchor
<1>3. \A i : Leader(i)' = Leader(i)
  BY DEF Leader
<1>4. \A i : Certificates(Leader(i))' = Certificates(Leader(i))
  BY DEF Certificates, IsCertificate, Leader
<1>5. \A i : CommittedFrom(i)' = CommittedFrom(i)
  <2> SUFFICES ASSUME NEW i PROVE CommittedFrom(i)' = CommittedFrom(i)
    OBVIOUS
  <2>1. Min(Anchors(i))' = Min(Anchors(i))
    BY <1>1
  <2> QED BY <2>1 DEF CommittedFrom
<1>6. \A i : CommittedVerdict(i)' = CommittedVerdict(i)
  BY SMT DEF Reached, CommittedVerdict, AcceptVoters, Anchors, LeaderRound, Authors, CommittedFrom
<1>7. \A S : Rejecting(S)' = Rejecting(S)
  BY DEF Rejecting
<1>8. \A t : RejectVoters(Block, t)' = RejectVoters(Block, t)
  BY DEF RejectVoters
<1>9. ASSUME NEW i, NEW S PROVE Informed(i, S)' <=> Informed(i, S)
  BY <1>1, <1>2, <1>3, <1>4, <1>5 DEF Informed, Rejecting
<1>10. ASSUME NEW i, NEW R, NEW P PROVE Justified(i, R, P)' <=> Justified(i, R, P)
  BY <1>1, <1>6, <1>8 DEF Justified
<1>11. ASSUME NEW c, NEW S PROVE Judged(c, S)' <=> Judged(c, S)
  <2>1. Informed(c.index, S)' <=> Informed(c.index, S)
    BY <1>9
  <2>2. Justified(c.index, c.rejected_transactions, c.pending_transactions)'
          <=> Justified(c.index, c.rejected_transactions, c.pending_transactions)
    BY <1>10
  <2> QED BY <2>1, <2>2 DEF Judged
<1>12. \A i, j : Span(i, j)' = Span(i, j)
  BY DEF Span
<1>13. \A i : LeaderRound(i)' = LeaderRound(i)
  BY DEF LeaderRound
<1> QED BY <1>7, <1>9, <1>10, <1>11, <1>12, <1>13

(* Nothing is known and nothing decided at the start. *)
LEMMA VerdictInit == Init => VInv
<1> SUFFICES ASSUME Init PROVE VInv
  BY Zenon
<1>1. /\ voted = {} /\ accepted = {} /\ stored = {} /\ output = {} /\ processed = 0
      /\ pending_commits = << >>
  BY Zenon DEF Init
<1>2. Elements(pending_commits) = {}
  <2>1. Len(<< >>) = 0 /\ << >> \in Seq(CommitState)
    OBVIOUS
  <2>2. DOMAIN << >> = 1 .. 0 /\ 1 .. 0 = {}
    BY <2>1
  <2> QED BY Zenon, <1>1, <2>2 DEF Elements
<1>3. Span(1, processed) = {}
  <2>1. 1 .. 0 = {}
    OBVIOUS
  <2> QED BY Zenon, <1>1, <2>1 DEF Span
<1>4. Rejecting(Span(1, processed)) = {}
  BY Zenon, <1>3 DEF Rejecting
<1> QED BY Zenon, <1>1, <1>2, <1>4 DEF VInv

(* A step that leaves all but the votes alone, and takes none away. *)
LEMMA VerdictKept ==
  ASSUME VInv, voted \subseteq voted',
         UNCHANGED <<dag, gc, accepted, stored, pending_commits, processed, output>>
  PROVE  VInv'
<1> USE Zenon
<1>1. /\ dag' = dag /\ gc' = gc /\ accepted' = accepted /\ stored' = stored
      /\ pending_commits' = pending_commits /\ processed' = processed /\ output' = output
  OBVIOUS
<1>2. stored' \subseteq accepted' /\ {b \in accepted' : Round[b] > gc'} \subseteq voted'
  BY <1>1 DEF VInv
<1>3. (Rejecting(Span(1, processed)) \subseteq accepted)'
  BY <1>1 DEF VInv, Rejecting, Span
<1>4. ASSUME NEW c \in Elements(pending_commits)' PROVE Judged(c, accepted)'
  <2>1. c \in Elements(pending_commits) /\ Judged(c, accepted)
    BY <1>1 DEF VInv, Elements
  <2> QED BY <1>1, <2>1, SameDag
<1>5. ASSUME NEW o \in output'
      PROVE  Informed(o.index, stored)' /\ Justified(o.index, o.rejected, {})'
  <2>1. Informed(o.index, stored) /\ Justified(o.index, o.rejected, {})
    BY <1>1 DEF VInv
  <2> QED BY <1>1, <2>1, SameDag
<1> QED BY <1>2, <1>3, <1>4, <1>5 DEF VInv

(* After a crash all that was stored is counted again. *)
LEMMA VerdictRestart ==
  ASSUME IInv, VInv, NEW k \in 0 .. LastFinalized, NEW last \in LastFinalized .. processed,
         NEW kept \in SUBSET (voted \cup stored \cup accepted), Restart(k, last, kept)
  PROVE  VInv'
<1> USE Zenon
<1>1. /\ dag' = dag /\ output' = output /\ processed' = k /\ pending_commits' = << >>
      /\ accepted' = kept /\ stored' = kept /\ voted' = {b \in kept : Round[b] > gc'}
  BY DEF Restart
<1>2. stored \subseteq kept
      /\ Rejecting(UNION {dag.commits[i].blocks : i \in 1 .. last}) \subseteq kept
  BY DEF Restart
<1>3. stored' \subseteq accepted' /\ {b \in accepted' : Round[b] > gc'} \subseteq voted'
  BY <1>1
<1>4. (Rejecting(Span(1, processed)) \subseteq accepted)'
  <2>1. LastFinalized \in 0 .. Len(dag.commits) /\ Len(dag.commits) \in Nat
    BY LastFacts, DagFacts DEF IInv
  <2>2. 1 .. k \subseteq 1 .. last
    BY SMT, <2>1
  <2>3. Rejecting(Span(1, k)) \subseteq kept
    BY <1>2, <2>2 DEF Rejecting, Span
  <2> QED BY <1>1, <2>3, SameDag DEF Rejecting, Span
<1>5. Elements(pending_commits)' = {}
  <2>1. Len(<< >>) = 0 /\ << >> \in Seq(CommitState)
    BY SMT
  <2>2. DOMAIN << >> = 1 .. 0 /\ 1 .. 0 = {}
    BY SMT, <2>1
  <2> QED BY <1>1, <2>2 DEF Elements
<1>6. ASSUME NEW o \in output'
      PROVE  Informed(o.index, stored)' /\ Justified(o.index, o.rejected, {})'
  <2>1. Informed(o.index, stored) /\ Justified(o.index, o.rejected, {})
    BY <1>1 DEF VInv
  <2>2. Informed(o.index, kept)
    BY <1>2, <2>1, InformedGrows
  <2> QED BY <1>1, <2>1, <2>2, SameDag
<1> QED BY <1>3, <1>4, <1>5, <1>6 DEF VInv

(* A commit counts as local only with the votes that inform about it. *)
LEMMA LocalInformed ==
  ASSUME IInv, VInv, NEW i \in 1 .. Len(dag.commits), NEW decided \in DecidedAs(i), decided.local,
         NEW S, accepted \subseteq S,
         Rejecting(dag.commits[i].blocks \cup UNION {dag.history[b] : b \in decided.seen}) \subseteq S
  PROVE  Informed(i, S)
<1> USE Zenon
<1>1. CASE i <= recovered
  <2>1. decided = [local |-> i <= LastFinalized, seen |-> {}]
    BY <1>1 DEF DecidedAs
  <2>2. i <= LastFinalized
    BY <2>1
  <2>3. LastFinalized \in 0 .. Len(dag.commits) /\ Len(dag.commits) \in Nat
    BY LastFacts, DagFacts DEF IInv
  <2>4. i \in 1 .. LastFinalized
    BY SMT, <2>2, <2>3
  <2>5. PICK o \in output : o.index = i
    BY <2>4, LastFacts
  <2>6. Informed(i, stored) /\ stored \subseteq S
    BY <2>5 DEF VInv
  <2> QED BY <2>6, InformedGrows
<1>2. CASE ~(i <= recovered)
  <2>1. \/ \E T \in Evidence(i) : decided = [local |-> TRUE, seen |-> T]
        \/ decided = [local |-> FALSE, seen |-> {}]
    BY <1>2 DEF DecidedAs
  <2>2. PICK T \in Evidence(i) : decided.seen = T
    BY SMT, <2>1
  <2>3. dag \in Dags
    BY DEF IInv
  <2> QED BY <2>2, <2>3, EvidenceInforms
<1> QED BY <1>1, <1>2

(* Collection never goes back. *)
LEMMA GcAdvances ==
  ASSUME IInv, processed < Len(dag.commits), NEW local \in BOOLEAN
  PROVE  LET g == RunGc(ProcessedCommit(processed + 1, local).popped, processed + 1)
         IN  g \in Nat /\ gc \in Nat /\ gc <= g
<1> USE Zenon
<1> DEFINE i == processed + 1
           p == ProcessedCommit(i, local).popped
           left == ProcessedCommit(i, local).left
           g == RunGc(p, i)
<1>1. dag \in Dags /\ gc \in Nat /\ Len(dag.commits) \in Nat /\ processed \in Nat
      /\ (gc = 0 \/ \E j \in 1 .. Done : gc = CalculateGcRound(LeaderRound(j)))
  BY SMT, DagFacts DEF IInv, TypeOK
<1>2. Outcome(ProcessedCommit(i, local), Done, i) /\ Done \in Nat
  BY ProcessedFacts, ArrivedFacts
<1>3. Queue(p, Done) /\ Queue(left, Done + Len(p)) /\ Done + Len(p) + Len(left) = i
  BY <1>2 DEF Outcome
<1>4. Len(p) \in Nat /\ Len(left) \in Nat /\ \A k \in 1 .. Len(p) : p[k].index = Done + k
  <2> HIDE DEF p, left
  <2> QED BY SMT, <1>3 DEF Queue
<1> DEFINE z == Done + Len(p)
<1>5. i \in 1 .. Len(dag.commits)
  BY SMT, <1>1
<1> HIDE DEF p, left, i
<1>6. CASE p = << >>
  <2>1. g = gc
    BY <1>6 DEF RunGc
  <2>2. gc \in Nat /\ gc <= gc
    <3>1. gc \in Nat
      BY <1>1
    <3> QED BY SMT, <3>1
  <2>3. g \in Nat /\ gc \in Nat /\ gc <= g
    <3> HIDE DEF g
    <3> QED BY <2>1, <2>2
  <2> QED BY <2>3 DEF p, i
<1>7. CASE p # << >>
  <2>1. Len(p) # 0
    BY SMT, <1>3, <1>7 DEF Queue
  <2>2. g = CalculateGcRound(LeaderRound(p[Len(p)].index))
    BY <1>7 DEF RunGc
  <2>3. Len(p) \in 1 .. Len(p) /\ z \in 1 .. Len(dag.commits) /\ z \in Nat
    <3>1. Done \in Nat /\ Done + Len(p) + Len(left) = i
      BY <1>2, <1>3
    <3> QED BY SMT, <1>1, <1>4, <1>5, <2>1, <3>1
  <2>4. p[Len(p)].index = z
    BY <1>4, <2>3
  <2>5. LeaderRound(z) \in Nat /\ g = CalculateGcRound(LeaderRound(z))
    BY <1>1, <2>2, <2>3, <2>4, DagFacts
  <2>6. g \in Nat
    BY <2>5, GcRoundType
  <2>7. ASSUME NEW j \in 1 .. Done, gc = CalculateGcRound(LeaderRound(j)) PROVE gc <= g
    <3>1. j \in 1 .. Len(dag.commits) /\ (j = z \/ j \in 1 .. z - 1)
      BY SMT, <1>1, <1>2, <1>4, <2>3
    <3> HIDE DEF z, g
    <3>2. LeaderRound(j) \in Nat /\ (j = z \/ LeaderRound(j) < LeaderRound(z))
      BY <1>1, <2>3, <3>1, DagFacts
    <3>3. LeaderRound(j) <= LeaderRound(z)
      BY SMT, <2>5, <3>2
    <3> QED BY <2>5, <2>7, <3>2, <3>3, GcRoundGrows
  <2>8. gc = 0 => gc <= g
    <3> HIDE DEF g
    <3> QED BY SMT, <2>6
  <2>9. gc <= g
    BY <1>1, <2>7, <2>8
  <2> QED BY <1>1, <2>6, <2>9 DEF p, i
<1> QED BY <1>6, <1>7

(* A commit is processed. *)
LEMMA VerdictProcess ==
  ASSUME IInv, VInv, processed < Len(dag.commits),
         NEW decided \in DecidedAs(processed + 1), ProcessCommit(processed + 1, decided)
  PROVE  VInv'
<1> USE Zenon
<1> DEFINE i == processed + 1
           needed == Rejecting(dag.commits[i].blocks \cup UNION {dag.history[b] : b \in decided.seen})
           r == ProcessedCommit(i, decided.local)
           S == accepted \cup needed
<1>1. dag \in Dags /\ Len(dag.commits) \in Nat /\ processed \in Nat /\ i \in 1 .. Len(dag.commits)
      /\ Done \in Nat /\ VotesKept /\ gc \in Nat
  <2>1. dag \in Dags /\ VotesKept
    BY VotesKeptFromIInv DEF IInv
  <2>2. Len(dag.commits) \in Nat /\ processed \in Nat /\ Len(pending_commits) \in Nat
        /\ Len(pending_commits) <= processed /\ gc \in Nat
    BY SMT, DagFacts DEF IInv, Queue, TypeOK
  <2> QED BY SMT, <2>1, <2>2 DEF Done
<1>2. decided.local \in BOOLEAN /\ decided.seen \in SUBSET Block
  BY <1>1, DecidedFacts
<1>3. /\ dag' = dag /\ voted' = voted /\ processed' = i /\ accepted' = S
      /\ pending_commits' = r.left /\ gc' = RunGc(r.popped, i)
      /\ {b \in needed : Round[b] > gc} \subseteq voted
  BY DEF ProcessCommit
<1>4. /\ output' = output \cup {[index |-> c.index, rejected |-> c.rejected_transactions] :
                                  c \in Elements(r.popped)}
      /\ stored' = IF r.popped = << >> THEN stored ELSE stored \cup accepted \cup needed
  BY DEF ProcessCommit, Elements
<1>5. gc' \in Nat /\ gc <= gc'
  BY <1>2, <1>3, GcAdvances
<1>6. S \in SUBSET Block
  <2>1. dag.commits[i].blocks \in SUBSET Block /\ accepted \in SUBSET Block
    BY <1>1, DagFacts DEF IInv, TypeOK
  <2>2. \A b \in decided.seen : dag.history[b] \in SUBSET Block
    BY <1>1, <1>2, AncestorFacts
  <2>3. needed \in SUBSET Block
    BY <2>1, <2>2 DEF Rejecting
  <2> HIDE DEF needed
  <2> QED BY <2>1, <2>3
<1>7. ASSUME NEW b \in S, Round[b] > gc PROVE b \in voted
  <2> HIDE DEF needed
  <2> QED BY <1>3, <1>7 DEF VInv
<1>8. Rejecting(Span(1, i)) \subseteq S
  <2>1. \A j \in 1 .. i : j = i \/ j \in 1 .. processed
    BY SMT, <1>1
  <2>2. Span(1, i) \subseteq Span(1, processed) \cup dag.commits[i].blocks
    <3> HIDE DEF i
    <3> QED BY <2>1 DEF Span
  <2>3. Rejecting(Span(1, processed)) \subseteq accepted
    BY DEF VInv
  <2> HIDE DEF i
  <2> QED BY <2>2, <2>3 DEF Rejecting
<1>9. decided.local => Informed(i, S)
  <2>1. accepted \subseteq S /\ needed \subseteq S
    <3> HIDE DEF needed
    <3> QED OBVIOUS
  <2> HIDE DEF S
  <2> QED BY <1>1, <2>1, LocalInformed
<1> HIDE DEF needed
<1>10. \A c \in Elements(pending_commits) : Judged(c, S)
  <2>1. \A c \in Elements(pending_commits) : Judged(c, accepted)
    BY DEF VInv
  <2>2. accepted \subseteq S
    OBVIOUS
  <2> HIDE DEF S
  <2> QED BY <2>1, <2>2, JudgedGrows
<1>11. ASSUME NEW j \in Done + 1 .. Len(dag.commits), NEW b \in S \cap dag.commits[j].blocks
       PROVE  b \in voted
  <2>1. j \in 1 .. Len(dag.commits) /\ j > processed - Len(pending_commits)
    BY SMT, <1>1 DEF Done
  <2>2. j \in DOMAIN dag.commits
    BY <1>1, <2>1, DagFacts
  <2>3. Round[b] > gc
    BY <1>1, <2>1, <2>2 DEF VotesKept
  <2> QED BY <1>7, <2>3
<1>12. /\ \A c \in Elements(r.popped) : Finalized(c) /\ Judged(c, S)
       /\ \A c \in Elements(r.left) : Judged(c, S)
  <2>1. \A j \in Done + 1 .. Len(dag.commits) : S \cap dag.commits[j].blocks \subseteq voted
    BY <1>11
  <2> HIDE DEF S
  <2> QED BY <1>2, <1>8, <1>9, <1>10, <2>1, ProcessedJudged
<1> HIDE DEF r, i
<1>13. stored' \subseteq accepted' /\ stored \subseteq stored'
  <2>1. stored \subseteq accepted
    BY DEF VInv
  <2>2. stored' = stored \/ stored' = stored \cup accepted \cup needed
    BY <1>4
  <2> QED BY <1>3, <2>1, <2>2
<1>14. {b \in accepted' : Round[b] > gc'} \subseteq voted'
  <2>1. ASSUME NEW b \in S, Round[b] > gc' PROVE b \in voted
    <3>1. Round[b] \in Nat
      BY <1>6, FinalizerAssumption
    <3>2. Round[b] > gc
      BY SMT, <1>1, <1>5, <2>1, <3>1
    <3> QED BY <1>7, <3>2
  <2> HIDE DEF S
  <2> QED BY <1>3, <2>1
<1>15. (Rejecting(Span(1, processed)) \subseteq accepted)'
  <2> HIDE DEF S
  <2> QED BY <1>3, <1>8 DEF Rejecting, Span
<1>16. ASSUME NEW c \in Elements(pending_commits)' PROVE Judged(c, accepted)'
  <2>1. c \in Elements(r.left)
    BY <1>3 DEF Elements
  <2>2. Judged(c, S)
    BY <1>12, <2>1
  <2> QED BY <1>3, <2>2, SameDag
<1>17. ASSUME NEW o \in output'
       PROVE  Informed(o.index, stored)' /\ Justified(o.index, o.rejected, {})'
  <2>1. CASE o \in output
    <3>1. Informed(o.index, stored) /\ Justified(o.index, o.rejected, {})
      BY <2>1 DEF VInv
    <3>2. Informed(o.index, stored')
      BY <1>13, <3>1, InformedGrows
    <3> QED BY <1>3, <3>1, <3>2, SameDag
  <2>2. CASE o \notin output
    <3>1. PICK c \in Elements(r.popped) :
            o = [index |-> c.index, rejected |-> c.rejected_transactions]
      BY <1>4, <2>2
    <3>2. o.index = c.index /\ o.rejected = c.rejected_transactions
      BY <3>1
    <3>3. Informed(c.index, S) /\ Justified(c.index, c.rejected_transactions, {})
      <4> HIDE DEF S
      <4> QED BY <1>12, FinalizedJudged
    <3>4. r.popped # << >>
      <4> SUFFICES ASSUME r.popped = << >> PROVE FALSE
        OBVIOUS
      <4>1. Len(<< >>) = 0 /\ << >> \in Seq(CommitState)
        BY SMT
      <4>2. DOMAIN << >> = 1 .. 0 /\ 1 .. 0 = {}
        BY SMT, <4>1
      <4> QED BY <4>2 DEF Elements
    <3>5. S \subseteq stored'
      BY <1>4, <3>4
    <3>6. Informed(c.index, stored')
      <4> HIDE DEF S
      <4> QED BY <3>3, <3>5, InformedGrows
    <3> QED BY <1>3, <3>2, <3>3, <3>6, SameDag
  <2> QED BY <2>1, <2>2
<1> QED BY <1>13, <1>14, <1>15, <1>16, <1>17 DEF VInv

(* Every step preserves the invariant. *)
LEMMA VerdictStep ==
  ASSUME IInv, VInv, [Next]_vars
  PROVE  VInv'
<1> USE Zenon
<1>1. ASSUME NEW b \in Rejecting(Block), AddVotedBlock(b) PROVE VInv'
  <2>1. /\ voted' = voted \cup {b}
        /\ UNCHANGED <<dag, gc, accepted, stored, pending_commits, processed, output>>
    BY <1>1 DEF AddVotedBlock
  <2>2. voted \subseteq voted'
    BY <2>1
  <2> QED BY <2>1, <2>2, VerdictKept
<1>2. ASSUME processed < Len(dag.commits), NEW decided \in DecidedAs(processed + 1),
             ProcessCommit(processed + 1, decided)
      PROVE  VInv'
  BY <1>2, VerdictProcess
<1>3. ASSUME NEW k \in 0 .. LastFinalized, NEW last \in LastFinalized .. processed,
             NEW kept \in SUBSET (voted \cup stored \cup accepted), Restart(k, last, kept)
      PROVE  VInv'
  BY <1>3, VerdictRestart
<1>4. CASE UNCHANGED vars
  <2>1. /\ voted \subseteq voted'
        /\ UNCHANGED <<dag, gc, accepted, stored, pending_commits, processed, output>>
    BY <1>4 DEF vars
  <2> QED BY <2>1, VerdictKept
<1> QED BY <1>1, <1>2, <1>3, <1>4 DEF Next

(* What is justified is what the committed blocks decide. *)
LEMMA JustifiedAgrees == IInv /\ VInv => VerdictsAgree
<1> USE Zenon
<1> SUFFICES ASSUME IInv, VInv, NEW o \in output, Anchors(o.index) # {}
             PROVE  /\ CommittedVerdict(o.index) \subseteq o.rejected
                    /\ o.rejected \subseteq CommittedVerdict(o.index) \cup LateLinked(o.index)
  BY DEF VerdictsAgree
<1> DEFINE i == o.index
<1>1. dag \in Dags /\ i \in 1 .. Len(dag.commits)
  BY DEF IInv
<1>2. Justified(i, o.rejected, {})
  BY DEF VInv
<1>3. CommittedVerdict(i) \subseteq o.rejected
  BY <1>2 DEF Justified
<1>4. ASSUME NEW t \in o.rejected, t \notin LateLinked(i) PROVE t \in CommittedVerdict(i)
  <2>1. t \in dag.commits[i].blocks
        /\ (ReachedQuorum(RejectVoters(Block, t)) \/ t \in CommittedVerdict(i))
    BY <1>2 DEF Justified
  <2>2. ASSUME ReachedQuorum(RejectVoters(Block, t)) PROVE t \in CommittedVerdict(i)
    <3> HIDE DEF i
    <3>1. ~ReachedQuorum(AcceptVoters(CommittedFrom(i), t))
      <4>1. Anchors(i) # {}
        BY DEF i
      <4> QED BY <1>1, <1>4, <2>1, <2>2, <4>1, QuorumRejects
    <3> QED BY <2>1, <3>1 DEF CommittedVerdict
  <2> QED BY <2>1, <2>2
<1> QED BY <1>3, <1>4

(* What is justified does not go against the fast path. *)
LEMMA JustifiedHonours == IInv /\ VInv => FastpathHonoured
<1> USE Zenon
<1> SUFFICES ASSUME IInv, VInv, NEW o \in output, NEW t \in o.rejected,
                    ReachedQuorum(Faulty \cup Authors({b \in Block : Certifies(b, t)}))
             PROVE  FALSE
  BY DEF FastpathHonoured
<1> DEFINE i == o.index
           C == {b \in Block : Certifies(b, t)}
<1>1. dag \in Dags /\ i \in 1 .. Len(dag.commits)
  BY DEF IInv
<1>2. /\ t \in dag.commits[i].blocks
      /\ ReachedQuorum(RejectVoters(Block, t)) \/ (Anchors(i) # {} /\ t \in CommittedVerdict(i))
  BY DEF VInv, Justified
<1>3. t \in Block
  BY <1>1, <1>2, DagFacts
<1>4. PICK b \in Block : Certifies(b, t)
  <2>1. SUFFICES ASSUME C = {} PROVE FALSE
    OBVIOUS
  <2>2. Faulty \cup Authors(C) = Faulty
    <3>1. Authors(C) = {}
      <4> HIDE DEF C
      <4> QED BY <2>1 DEF Authors
    <3> QED BY <3>1
  <2>3. Faulty \in SUBSET DOMAIN Stake /\ ReachedQuorum(Faulty)
    BY <2>2, CommitteeAssumption
  <2> QED BY <2>3, QuorumsIntersect
<1>5. ~ReachedQuorum(RejectVoters(Block, t))
  BY <1>1, <1>3, <1>4, CertifiedNotRejected
<1>6. Anchors(i) # {} /\ ~ReachedQuorum(AcceptVoters(CommittedFrom(i), t))
  BY <1>2, <1>5 DEF CommittedVerdict
<1>7. ReachedQuorum(AcceptVoters(CommittedFrom(i), t))
  <2> HIDE DEF i
  <2> QED BY <1>1, <1>2, <1>6, CertifiedAccepted
<1> QED BY <1>6, <1>7

-----------------------------------------------------------------------------
(* Every verdict is justified in every reachable state: the validator has  *)
(* counted the votes it needs whenever it makes the direct attempt, and    *)
(* they are in the store before the verdict is out.                        *)
THEOREM VerdictInvariance == Spec => []VInv
<1>1. IInv /\ VInv /\ [Next]_vars => VInv'
  BY VerdictStep
<1> QED BY Invariance, VerdictInit, <1>1, PTL DEF Spec

(* Direct, late and indirect finalization (try_direct_finalize_commit,     *)
(* try_indirect_finalize_first_commit) come to the verdict that follows    *)
(* from the committed blocks, on every validator and again after a crash,  *)
(* for every committee, GC depth, DAG and number of crashes.               *)
THEOREM VerdictsAlwaysAgree == Spec => []VerdictsAgree
BY Invariance, VerdictInvariance, JustifiedAgrees, PTL

(* No finalizer rejects what a quorum has certified for the fast path      *)
(* (take_certified_output), whatever the faulty authorities claim.         *)
THEOREM FastpathAlwaysHonoured == Spec => []FastpathHonoured
BY Invariance, VerdictInvariance, JustifiedHonours, PTL
=============================================================================
