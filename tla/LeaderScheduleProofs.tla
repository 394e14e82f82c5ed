------------------------ MODULE LeaderScheduleProofs ------------------------
(***************************************************************************)
(* The committed leaders and the commits to be scored, for every           *)
(* committee, number of commits in a schedule, swap table, outcome of the  *)
(* commit rule, batching of the decisions and number of crashes.           *)
(***************************************************************************)
EXTENDS LeaderSchedule, FiniteSetTheorems, SequenceTheorems, WellFoundedInduction, TLAPS

(* A non-empty set of naturals has a least element. *)
LEMMA MinExists ==
  ASSUME NEW S \in SUBSET Nat, S # {}
  PROVE  \E m \in S : \A k \in S : m <= k
<1> DEFINE R == OpToRel(<, Nat)
<1>1. IsWellFoundedOn(R, Nat)
  BY Zenon, NatLessThanWellFounded
<1>2. PICK m \in S : \A k \in S : ~(<<k, m>> \in R)
  <2> HIDE DEF R
  <2> QED BY Zenon, <1>1, WFMin
<1>3. \A k \in S : ~(k < m)
  BY Zenon, <1>2 DEF OpToRel
<1> HIDE DEF R
<1> QED BY <1>3

(* The commits that the validators agree on, and what follows from the     *)
(* first i of them: the round, the table and the commit info.              *)
Chain == Agreed[outcomes]

RoundAt(i) == IF i = 0 THEN 0 ELSE Chain[i].leader.round

TableAt(i) ==
  IF i = 0 THEN NoTable
  ELSE [seed |-> i, scores |-> SubSeq(Chain, i - CommitsPerSchedule + 1, i)]

InfoAt(i) ==
  IF i = 0 THEN NoInfo
  ELSE [index |-> i, scores |-> SubSeq(Chain, i - CommitsPerSchedule + 1, i)]

(* A change of schedule, at most a schedule before the commit n. *)
ChangeBefore(i, n) ==
  i \in 0 .. n /\ i % CommitsPerSchedule = 0 /\ n - i <= CommitsPerSchedule

(* The inductive invariant.  Of the commits: they are the agreed ones, and *)
(* the table and the unscored commits meet at the last change of schedule. *)
ChainInv ==
  /\ outcomes \in Outcomes
  /\ Len(commits) \in 0 .. Len(Chain) /\ commits = SubSeq(Chain, 1, Len(commits))
  /\ ChangeBefore(leader_swap_table.seed, Len(commits))
  /\ leader_swap_table = TableAt(leader_swap_table.seed)
  /\ scoring_subdag = SubSeq(Chain, leader_swap_table.seed + 1, Len(commits))

(* Of the decisions: the slots from the last commit up to the last decided *)
(* one are skipped, and there are none of them when the schedule is        *)
(* exhausted, since they would be elected anew.                            *)
DecidedInv ==
  /\ last_decided_leader \in Nat /\ RoundAt(Len(commits)) <= last_decided_leader
  /\ Len(commits) - leader_swap_table.seed = CommitsPerSchedule
       => last_decided_leader = RoundAt(Len(commits))
  /\ \A r \in RoundAt(Len(commits)) + 1 .. last_decided_leader :
       LeaderSlot(leader_swap_table, r) \notin outcomes

(* Of the disk: the stored commit info is of a change of schedule at most  *)
(* a schedule before the last stored commit, and the one in memory, or     *)
(* else the stored one, is what the table was made from.                   *)
StoreInv ==
  /\ store.commits \in 0 .. Len(commits)
  /\ ChangeBefore(store.info.index, store.commits)
  /\ store.info = InfoAt(store.info.index)
  /\ \/ commit_info = NoInfo /\ store.info.index = leader_swap_table.seed
     \/ commit_info = InfoAt(leader_swap_table.seed) /\ commit_info # NoInfo

IInv == ChainInv /\ DecidedInv /\ StoreInv

-----------------------------------------------------------------------------
(* Arithmetic of schedules.                                                *)

(* The next change of schedule. *)
LEMMA NextChange ==
  ASSUME NEW n \in Nat \ {0}, NEW a \in Nat, a % n = 0
  PROVE  (a + n) % n = 0
<1> DEFINE d == a \div n
           e == (a + n) \div n
           r == (a + n) % n
<1>1. d \in Nat /\ e \in Nat /\ r \in 0 .. n - 1 /\ a = n * d /\ a + n = n * e + r
  OBVIOUS
<1> HIDE DEF d, e, r
<1>2. n * (e - (d + 1)) + r = 0
  BY <1>1
<1>3. ~(e >= d + 2)
  <2>1. e - (d + 1) >= 1 => n * (e - (d + 1)) >= n
    BY <1>1
  <2> QED BY <1>1, <1>2, <2>1
<1>4. ~(e <= d)
  <2>1. e - (d + 1) <= -1 => n * (e - (d + 1)) <= -n
    BY <1>1
  <2> QED BY <1>1, <1>2, <2>1
<1>5. e = d + 1
  BY <1>1, <1>3, <1>4
<1>6. r = 0
  BY <1>1, <1>5
<1> QED BY Zenon, <1>6 DEF r

(* Less than a schedule after a change, the last change is that one. *)
LEMMA SameSchedule ==
  ASSUME NEW n \in Nat \ {0}, NEW a \in Nat, a % n = 0, NEW i \in a .. a + n - 1
  PROVE  i - (i % n) = a
<1>1. i - a \in 0 .. n - 1 /\ a + (i - a) = i
  OBVIOUS
<1>2. ASSUME NEW x \in 0 .. n - 1 PROVE (a + x) % n = x
  OBVIOUS
<1>3. i % n = i - a
  BY Zenon, <1>1, <1>2
<1> QED BY <1>3

-----------------------------------------------------------------------------
(* The agreed commits.                                                     *)

(* Their sequence, and its first commits. *)
LEMMA ChainFacts ==
  ASSUME outcomes \in Outcomes
  PROVE  /\ Chain \in Seq(Commit) /\ Len(Chain) \in Nat
         /\ \A i \in 1 .. Len(Chain) : /\ Chain[i].index = i
                                      /\ Chain[i].leader \in Slot
                                      /\ Chain[i] = [index |-> i, leader |-> Chain[i].leader]
         /\ \A i \in 0 .. Len(Chain) : RoundAt(i) \in Nat
<1>1. Chain \in Seq(Commit) /\ \A i \in 1 .. Len(Chain) : Chain[i].index = i
  BY Zenon, ScheduleAssumption DEF Chain
<1>2. Len(Chain) \in Nat /\ \A i \in 1 .. Len(Chain) : Chain[i] \in Commit
  BY <1>1
<1>3. \A i \in 1 .. Len(Chain) : Chain[i].leader \in Slot
  BY Zenon, <1>2 DEF Commit
<1>4. \A i \in 1 .. Len(Chain) : Chain[i] = [index |-> i, leader |-> Chain[i].leader]
  BY Zenon, <1>1, <1>2 DEF Commit
<1>5. \A i \in 0 .. Len(Chain) : RoundAt(i) \in Nat
  BY <1>2, <1>3, ScheduleAssumption DEF RoundAt, Slot
<1> QED BY Zenon, <1>1, <1>2, <1>3, <1>4, <1>5

(* A part of the agreed commits. *)
LEMMA PartFacts ==
  ASSUME outcomes \in Outcomes, NEW n \in 0 .. Len(Chain), NEW m \in 0 .. n
  PROVE  /\ SubSeq(Chain, m + 1, n) \in Seq(Commit)
         /\ Len(SubSeq(Chain, m + 1, n)) = n - m
         /\ \A i \in 1 .. n - m : SubSeq(Chain, m + 1, n)[i] = Chain[m + i]
<1>1. Chain \in Seq(Commit) /\ Len(Chain) \in Nat
  BY Zenon, ChainFacts
<1>2. \A i \in m + 1 .. n : Chain[i] \in Commit
  BY <1>1
<1> DEFINE part == SubSeq(Chain, m + 1, n)
<1>3. /\ part \in Seq(Commit)
      /\ Len(part) = IF m + 1 <= n THEN n - (m + 1) + 1 ELSE 0
      /\ \A i \in 1 .. n - (m + 1) + 1 : part[i] = Chain[m + 1 + i - 1]
  BY <1>1, <1>2, SubSeqProperties
<1> HIDE DEF part
<1>4. Len(part) = n - m /\ \A i \in 1 .. n - m : part[i] = Chain[m + i]
  BY <1>1, <1>3
<1> QED BY Zenon, <1>3, <1>4 DEF part

(* The round of the first i agreed commits, and the schedule after them.   *)
LEMMA FirstFacts ==
  ASSUME outcomes \in Outcomes, NEW i \in 0 .. Len(Chain)
  PROVE  /\ SubSeq(Chain, 1, i) \in Seq(Commit) /\ Len(SubSeq(Chain, 1, i)) = i
         /\ RoundOf(SubSeq(Chain, 1, i)) = RoundAt(i)
         /\ ScheduleAfter(SubSeq(Chain, 1, i)) = TableAt(i - (i % CommitsPerSchedule))
<1> DEFINE cs == SubSeq(Chain, 1, i)
           last == i - (i % CommitsPerSchedule)
<1>1. Chain \in Seq(Commit) /\ Len(Chain) \in Nat /\ i \in Nat
  BY ChainFacts
<1>2. /\ cs \in Seq(Commit) /\ Len(cs) = i
      /\ \A k \in 1 .. i : cs[k] = Chain[k]
  <2>1. 0 \in 0 .. i /\ 0 + 1 = 1 /\ i - 0 = i /\ \A k \in 1 .. i : 0 + k = k
    BY <1>1
  <2> QED BY SMTT(30), <2>1, PartFacts
<1> HIDE DEF cs
<1>3. RoundOf(cs) = RoundAt(i)
  <2>1. cs = << >> <=> i = 0
    BY <1>1, <1>2
  <2> QED BY <1>1, <1>2, <2>1 DEF RoundOf, RoundAt
<1>4. CommitsPerSchedule \in Nat \ {0}
  BY Zenon, ScheduleAssumption
<1>5. i % CommitsPerSchedule \in Nat /\ last \in 0 .. i /\ (last = 0 \/ last >= CommitsPerSchedule)
  <2> DEFINE d == i \div CommitsPerSchedule
  <2>1. /\ i % CommitsPerSchedule \in Nat /\ i % CommitsPerSchedule <= i
        /\ d \in Nat /\ i = CommitsPerSchedule * d + (i % CommitsPerSchedule)
    BY <1>1, <1>4
  <2> HIDE DEF d
  <2>2. d = 0 \/ CommitsPerSchedule * d >= CommitsPerSchedule
    BY <1>4, <2>1
  <2>3. last = CommitsPerSchedule * d
    BY <1>1, <1>4, <2>1
  <2> QED BY <1>1, <1>4, <2>1, <2>2, <2>3
<1> HIDE DEF last
<1>6. ASSUME last # 0
      PROVE  SubSeq(cs, last - CommitsPerSchedule + 1, last)
               = SubSeq(Chain, last - CommitsPerSchedule + 1, last)
  <2> DEFINE m == last - CommitsPerSchedule + 1
  <2>1. /\ 1 \in 1 .. Len(Chain) /\ i \in 1 .. Len(Chain)
        /\ m \in 1 .. i - 1 + 1 /\ last \in 1 .. i - 1 + 1
        /\ 1 + m - 1 = m /\ 1 + last - 1 = last
    BY <1>1, <1>4, <1>5, <1>6
  <2> HIDE DEF m
  <2>2. SubSeq(SubSeq(Chain, 1, i), m, last) = SubSeq(Chain, 1 + m - 1, 1 + last - 1)
    BY <1>1, <2>1, SubSeqOfSubSeq
  <2> QED BY Zenon, <2>1, <2>2 DEF m, cs
<1>7. ScheduleAfter(cs) = TableAt(last)
  BY Zenon, <1>2, <1>6 DEF ScheduleAfter, TableAt, last
<1> QED BY Zenon, <1>2, <1>3, <1>7 DEF cs, last

(* The first slot after i commits whose leader is committed is the next    *)
(* agreed commit.                                                          *)
LEMMA NextCommit ==
  ASSUME outcomes \in Outcomes, NEW i \in 0 .. Len(Chain),
         NEW table, table = TableAt(i - (i % CommitsPerSchedule)),
         NEW r \in RoundAt(i) + 1 .. MaxRound, LeaderSlot(table, r) \in outcomes,
         \A q \in RoundAt(i) + 1 .. r - 1 : LeaderSlot(table, q) \notin outcomes
  PROVE  i + 1 \in 1 .. Len(Chain) /\ Chain[i + 1].leader = LeaderSlot(table, r)
<1> USE Zenon
<1> DEFINE R == RoundAt(i)
           slots == {LeaderSlot(table, q) : q \in R + 1 .. MaxRound} \cap outcomes
           next == {s \in slots : \A t \in slots : s.round <= t.round}
<1>1. R \in Nat /\ MaxRound \in Nat /\ i \in Nat /\ Len(Chain) \in Nat
  BY SMT, ChainFacts, ScheduleAssumption
<1>2. NextLeaders(outcomes, SubSeq(Chain, 1, i)) = next
  BY FirstFacts DEF NextLeaders
<1>3. \A q \in R + 1 .. MaxRound : LeaderSlot(table, q).round = q
  BY DEF LeaderSlot
<1> HIDE DEF R
<1>4. r \in R + 1 .. MaxRound /\ \A q \in R + 1 .. r - 1 : LeaderSlot(table, q) \notin outcomes
  BY DEF R
<1>5. \A q \in R + 1 .. MaxRound : LeaderSlot(table, q) \in outcomes => r <= q
  BY SMT, <1>1, <1>4
<1>6. LeaderSlot(table, r) \in next
  BY SMT, <1>1, <1>3, <1>4, <1>5
<1>7. ASSUME NEW s \in next PROVE s = LeaderSlot(table, r)
  <2>1. PICK q \in R + 1 .. MaxRound : s = LeaderSlot(table, q) /\ s \in outcomes
    OBVIOUS
  <2>2. s.round <= LeaderSlot(table, r).round
    BY <1>4
  <2>3. q <= r /\ r <= q
    BY <1>3, <1>4, <1>5, <2>1, <2>2
  <2> QED BY SMT, <1>1, <2>1, <2>3
<1> HIDE DEF next
<1>8. i # Len(Chain)
  <2>1. NextLeaders(outcomes, Chain) = {}
    BY ScheduleAssumption DEF Chain
  <2>2. SubSeq(Chain, 1, Len(Chain)) = Chain
    BY ChainFacts, SubSeqFull
  <2> QED BY <1>2, <1>6, <2>1, <2>2
<1>9. i + 1 \in 1 .. Len(Chain) /\ i + 1 - 1 = i
  BY SMT, <1>1, <1>8
<1>10. Chain[i + 1].leader \in NextLeaders(outcomes, SubSeq(Chain, 1, i + 1 - 1))
  BY SMT, <1>9, ScheduleAssumption DEF Chain
<1> QED BY <1>2, <1>7, <1>9, <1>10

-----------------------------------------------------------------------------
(* Counting commits among decisions.                                       *)

(* The number of elements of K up to m, as Sequenced counts them. *)
UpTo(K, m) == Cardinality({i \in K : i <= m})

(* One decision more is one commit more, or none. *)
LEMMA CountStep ==
  ASSUME NEW n \in Nat, NEW K \in SUBSET (1 .. n)
  PROVE  /\ UpTo(K, 0) = 0 /\ UpTo(K, n) = Cardinality(K)
         /\ \A m \in 0 .. n : UpTo(K, m) \in Nat
         /\ \A m \in 0 .. n - 1 :
              UpTo(K, m + 1) = IF m + 1 \in K THEN UpTo(K, m) + 1 ELSE UpTo(K, m)
<1> USE Zenon
<1>1. IsFiniteSet(1 .. n)
  BY SMT, FS_Interval
<1>2. \A i \in K : i \in Nat /\ 1 <= i /\ i <= n
  BY SMT
<1>3. ASSUME NEW m \in 0 .. n
      PROVE  IsFiniteSet({i \in K : i <= m}) /\ UpTo(K, m) \in Nat
  <2>1. {i \in K : i <= m} \subseteq 1 .. n
    OBVIOUS
  <2>2. IsFiniteSet({i \in K : i <= m})
    BY <1>1, <2>1, FS_Subset
  <2> QED BY <2>2, FS_CardinalityType DEF UpTo
<1>4. UpTo(K, 0) = 0
  <2>1. \A i \in K : ~(i <= 0)
    BY SMT, <1>2
  <2>2. {i \in K : i <= 0} = {}
    BY <2>1
  <2> QED BY <2>2, FS_EmptySet DEF UpTo
<1>5. UpTo(K, n) = Cardinality(K)
  <2>1. {i \in K : i <= n} = K
    BY <1>2
  <2> QED BY <2>1 DEF UpTo
<1>6. ASSUME NEW m \in 0 .. n - 1
      PROVE  UpTo(K, m + 1) = IF m + 1 \in K THEN UpTo(K, m) + 1 ELSE UpTo(K, m)
  <2> DEFINE below == {i \in K : i <= m}
  <2>1. CASE m + 1 \in K
    <3>1. {i \in K : i <= m + 1} = below \cup {m + 1} /\ m + 1 \notin below
      <4>1. \A i \in K : i <= m + 1 <=> i <= m \/ i = m + 1
        BY SMT, <1>2
      <4>2. m + 1 \notin below
        BY SMT
      <4> QED BY <2>1, <4>1, <4>2
    <3>2. IsFiniteSet(below)
      BY SMT, <1>3
    <3> HIDE DEF below
    <3>3. Cardinality(below \cup {m + 1}) = Cardinality(below) + 1
      BY <3>1, <3>2, FS_AddElement
    <3> QED BY <2>1, <3>1, <3>3 DEF UpTo, below
  <2>2. CASE m + 1 \notin K
    <3>1. {i \in K : i <= m + 1} = below
      <4>1. \A i \in K : i <= m + 1 <=> i <= m
        BY SMT, <1>2, <2>2
      <4> QED BY <4>1
    <3> QED BY <2>2, <3>1 DEF UpTo
  <2> QED BY <2>1, <2>2
<1> QED BY <1>3, <1>4, <1>5, <1>6

(* Every count up to the number of commits is reached at one of them. *)
LEMMA CountReached ==
  ASSUME NEW n \in Nat, NEW K \in SUBSET (1 .. n), NEW j \in 1 .. Cardinality(K)
  PROVE  \E k \in K : UpTo(K, k) = j
<1> DEFINE S == {m \in 0 .. n : UpTo(K, m) >= j}
<1>1. /\ UpTo(K, 0) = 0 /\ UpTo(K, n) = Cardinality(K) /\ \A m \in 0 .. n : UpTo(K, m) \in Nat
      /\ \A m \in 0 .. n - 1 :
           UpTo(K, m + 1) = IF m + 1 \in K THEN UpTo(K, m) + 1 ELSE UpTo(K, m)
  <2>1. UpTo(K, 0) = 0 /\ UpTo(K, n) = Cardinality(K)
    BY Zenon, CountStep
  <2>2. \A m \in 0 .. n : UpTo(K, m) \in Nat
    BY Zenon, CountStep
  <2>3. ASSUME NEW m \in 0 .. n - 1
        PROVE  UpTo(K, m + 1) = IF m + 1 \in K THEN UpTo(K, m) + 1 ELSE UpTo(K, m)
    BY CountStep
  <2> QED BY Zenon, <2>1, <2>2, <2>3
<1>2. n \in 0 .. n
  OBVIOUS
<1>3. j \in Nat /\ j > 0 /\ j <= Cardinality(K) /\ Cardinality(K) \in Nat
  <2>1. Cardinality(K) \in Nat
    BY Zenon, <1>1, <1>2
  <2> QED BY <2>1
<1>4. S \in SUBSET Nat /\ S # {}
  BY <1>1, <1>2, <1>3
<1>5. PICK m \in S : \A k \in S : m <= k
  <2> HIDE DEF S
  <2> QED BY Zenon, <1>4, MinExists
<1>6. m \in 0 .. n /\ UpTo(K, m) >= j /\ UpTo(K, m) \in Nat
  BY Zenon, <1>1
<1>7. m # 0
  BY <1>1, <1>3, <1>6
<1>8. m - 1 \in 0 .. n - 1 /\ m - 1 \in 0 .. n /\ (m - 1) + 1 = m
  BY <1>6, <1>7
<1>9. UpTo(K, m - 1) \in Nat /\ UpTo(K, m - 1) < j
  <2>1. m - 1 \notin S
    BY <1>5, <1>6
  <2>2. UpTo(K, m - 1) \in Nat
    BY Zenon, <1>1, <1>8
  <2> QED BY <1>3, <1>8, <2>1, <2>2
<1>10. UpTo(K, m) = IF m \in K THEN UpTo(K, m - 1) + 1 ELSE UpTo(K, m - 1)
  BY Zenon, <1>1, <1>8
<1> QED BY <1>3, <1>6, <1>9, <1>10

(* If all decisions are commits, the last one is. *)
LEMMA FullCount ==
  ASSUME NEW n \in Nat \ {0}, NEW K \in SUBSET (1 .. n), Cardinality(K) = n
  PROVE  n \in K
<1> SUFFICES ASSUME n \notin K PROVE FALSE
  BY Zenon
<1>1. K \subseteq 1 .. n - 1
  OBVIOUS
<1>2. IsFiniteSet(1 .. n - 1) /\ Cardinality(1 .. n - 1) = n - 1
  <2>1. n - 1 \in Int /\ 1 \in Int
    OBVIOUS
  <2>2. Cardinality(1 .. n - 1) = IF 1 > n - 1 THEN 0 ELSE (n - 1) - 1 + 1
    BY Zenon, <2>1, FS_Interval
  <2> QED BY <2>1, <2>2, FS_Interval
<1>3. Cardinality(K) <= Cardinality(1 .. n - 1)
  BY Zenon, <1>1, <1>2, FS_Subset
<1> QED BY <1>2, <1>3

-----------------------------------------------------------------------------
(* Deciding.                                                               *)

(* n decisions from last_decided_leader on, as Truncate leaves them. *)
Decisions(decided, n) ==
  /\ n \in Nat \ {0} /\ last_decided_leader + n <= MaxRound
  /\ DOMAIN decided = 1 .. n /\ Len(decided) = n
  /\ \A k \in 1 .. n :
       LET slot == LeaderSlot(leader_swap_table, last_decided_leader + k) IN
       decided[k] = [slot |-> slot, commit |-> slot \in outcomes]

(* The decided leaders are those of the next rounds, and not more than the *)
(* schedule allows.                                                        *)
LEMMA TruncatedDecisions ==
  ASSUME last_decided_leader \in Nat, CommitsUntilUpdate \in Nat \ {0},
         NEW round \in 1 .. MaxRound, round > last_decided_leader
  PROVE  LET decided == Truncate(Decided(leader_swap_table, last_decided_leader + 1, round)) IN
         \E n \in 1 .. CommitsUntilUpdate : Decisions(decided, n)
<1> DEFINE all == Decided(leader_swap_table, last_decided_leader + 1, round)
           len == round - last_decided_leader
           Decision == {all[k] : k \in 1 .. len}
<1>1. len \in Nat \ {0} /\ round - (last_decided_leader + 1) + 1 = len
      /\ last_decided_leader + len <= MaxRound
      /\ \A k \in 1 .. len : last_decided_leader + 1 + k - 1 = last_decided_leader + k
  BY ScheduleAssumption
<1>2. /\ DOMAIN all = 1 .. len
      /\ \A k \in 1 .. len :
           LET slot == LeaderSlot(leader_swap_table, last_decided_leader + k) IN
           all[k] = [slot |-> slot, commit |-> slot \in outcomes]
  BY Zenon, <1>1 DEF Decided
<1>3. all \in Seq(Decision) /\ Len(all) = len
  <2>1. all = [k \in 1 .. len |-> all[k]]
    BY Zenon, <1>1 DEF Decided
  <2>2. \A k \in 1 .. len : all[k] \in Decision
    BY Zenon
  <2> HIDE DEF all, len, Decision
  <2>3. all \in [1 .. len -> Decision]
    BY Zenon, <2>1, <2>2
  <2> QED BY <1>1, <1>2, <2>3
<1> DEFINE cut == SubSeq(all, 1, CommitsUntilUpdate)
<1> HIDE DEF all, len
<1>4. CASE len >= CommitsUntilUpdate
  <2>1. Truncate(all) = cut
    BY Zenon, <1>3, <1>4 DEF Truncate
  <2>2. \A k \in 1 .. CommitsUntilUpdate : k \in 1 .. len /\ all[k] \in Decision
    <3> HIDE DEF Decision
    <3> QED BY <1>1, <1>3, <1>4
  <2>3. /\ cut \in Seq(Decision) /\ Len(cut) = CommitsUntilUpdate
        /\ \A k \in 1 .. CommitsUntilUpdate : cut[k] = all[k]
    <3> HIDE DEF Decision
    <3>1. /\ cut \in Seq(Decision)
          /\ Len(cut) = IF 1 <= CommitsUntilUpdate THEN CommitsUntilUpdate - 1 + 1 ELSE 0
          /\ \A k \in 1 .. CommitsUntilUpdate - 1 + 1 : cut[k] = all[1 + k - 1]
      BY <2>2, SubSeqProperties
    <3> HIDE DEF cut
    <3> QED BY <3>1
  <2>4. DOMAIN cut = 1 .. CommitsUntilUpdate
    <3> HIDE DEF Decision, cut
    <3> QED BY <2>3
  <2>5. last_decided_leader + CommitsUntilUpdate <= MaxRound
    BY <1>1, <1>4, ScheduleAssumption
  <2> HIDE DEF cut
  <2>6. Decisions(cut, CommitsUntilUpdate)
    BY Zenon, <1>2, <2>2, <2>3, <2>4, <2>5 DEF Decisions
  <2> QED BY <2>1, <2>6 DEF all
<1>5. CASE ~(len >= CommitsUntilUpdate)
  <2>1. Truncate(all) = all
    BY Zenon, <1>3, <1>5 DEF Truncate
  <2>2. Decisions(all, len) /\ len \in 1 .. CommitsUntilUpdate
    BY <1>1, <1>2, <1>3, <1>5 DEF Decisions
  <2> QED BY Zenon, <2>1, <2>2 DEF all
<1> QED BY Zenon, <1>4, <1>5

(* Where the state stands in the schedule. *)
LEMMA StateFacts ==
  ASSUME ChainInv
  PROVE  /\ Len(commits) \in Nat /\ leader_swap_table.seed \in Nat
         /\ leader_swap_table.seed <= Len(commits)
         /\ Len(scoring_subdag) = Len(commits) - leader_swap_table.seed
         /\ CommitsPerSchedule \in Nat \ {0}
         /\ CommitsUntilUpdate \in Nat
         /\ CommitsUntilUpdate = leader_swap_table.seed + CommitsPerSchedule - Len(commits)
<1>1. Len(Chain) \in Nat /\ CommitsPerSchedule \in Nat \ {0}
  BY Zenon, ChainFacts, ScheduleAssumption DEF ChainInv
<1>2. /\ Len(commits) \in 0 .. Len(Chain) /\ leader_swap_table.seed \in 0 .. Len(commits)
      /\ Len(commits) - leader_swap_table.seed <= CommitsPerSchedule
  BY Zenon DEF ChainInv, ChangeBefore
<1>3. Len(scoring_subdag) = Len(commits) - leader_swap_table.seed
  BY Zenon, <1>2, PartFacts DEF ChainInv
<1> QED BY <1>1, <1>2, <1>3 DEF CommitsUntilUpdate

(* Within a schedule, all its commits have the table of the validator. *)
LEMMA SameTable ==
  ASSUME ChainInv, NEW i \in Len(commits) .. leader_swap_table.seed + CommitsPerSchedule - 1
  PROVE  leader_swap_table = TableAt(i - (i % CommitsPerSchedule))
<1> DEFINE seed == leader_swap_table.seed
<1>1. seed \in Nat /\ CommitsPerSchedule \in Nat \ {0} /\ Len(commits) \in Nat /\ seed <= Len(commits)
  BY Zenon, StateFacts
<1>2. seed % CommitsPerSchedule = 0 /\ leader_swap_table = TableAt(seed)
  BY Zenon DEF ChainInv, ChangeBefore
<1> HIDE DEF seed
<1>3. i \in seed .. seed + CommitsPerSchedule - 1
  BY <1>1 DEF seed
<1>4. i - (i % CommitsPerSchedule) = seed
  BY Zenon, <1>1, <1>2, <1>3, SameSchedule
<1> QED BY Zenon, <1>2, <1>4

(* After m decisions, with K those that are commits: the commits among     *)
(* them are the agreed ones, and the slots after the last of these are     *)
(* skipped.                                                                *)
Caught(K, m) ==
  LET c == Len(commits) + UpTo(K, m) IN
  /\ c <= Len(Chain) /\ UpTo(K, m) <= m
  /\ RoundAt(c) <= last_decided_leader + m
  /\ \A r \in RoundAt(c) + 1 .. last_decided_leader + m :
       LeaderSlot(leader_swap_table, r) \notin outcomes
  /\ m \in K => Chain[c].leader = LeaderSlot(leader_swap_table, last_decided_leader + m)

(* One decision more. *)
LEMMA CaughtStep ==
  ASSUME ChainInv, last_decided_leader \in Nat,
         NEW n \in 1 .. CommitsUntilUpdate, last_decided_leader + n <= MaxRound,
         NEW K \in SUBSET (1 .. n),
         \A k \in 1 .. n :
           k \in K <=> LeaderSlot(leader_swap_table, last_decided_leader + k) \in outcomes,
         NEW m \in 0 .. n - 1, Caught(K, m)
  PROVE  Caught(K, m + 1)
<1> USE Zenon
<1> DEFINE c == Len(commits) + UpTo(K, m)
           L == last_decided_leader
           slot(r) == LeaderSlot(leader_swap_table, r)
<1>1. /\ Len(commits) \in Nat /\ leader_swap_table.seed \in Nat /\ CommitsPerSchedule \in Nat
      /\ CommitsUntilUpdate = leader_swap_table.seed + CommitsPerSchedule - Len(commits)
      /\ CommitsUntilUpdate \in Nat /\ outcomes \in Outcomes /\ MaxRound \in Nat
  BY StateFacts, ScheduleAssumption DEF ChainInv
<1>2. n \in Nat /\ m \in Nat /\ m + 1 \in 1 .. n /\ m < CommitsUntilUpdate /\ m \in 0 .. n
      /\ L + m + 1 <= MaxRound /\ L + (m + 1) = L + m + 1
  BY SMT, <1>1
<1>3. \A i \in 0 .. n - 1 : UpTo(K, i + 1) = IF i + 1 \in K THEN UpTo(K, i) + 1 ELSE UpTo(K, i)
  BY <1>2, CountStep
<1>4. /\ UpTo(K, m) \in Nat
      /\ UpTo(K, m + 1) = IF m + 1 \in K THEN UpTo(K, m) + 1 ELSE UpTo(K, m)
  <2>1. UpTo(K, m) \in Nat
    BY <1>2, CountStep
  <2> QED BY <1>3, <2>1
<1>5. /\ c <= Len(Chain) /\ UpTo(K, m) <= m /\ RoundAt(c) <= L + m
      /\ \A r \in RoundAt(c) + 1 .. L + m : slot(r) \notin outcomes
  BY DEF Caught
<1>6. c \in 0 .. Len(Chain) /\ RoundAt(c) \in Nat /\ Len(Chain) \in Nat
  <2>1. c \in Nat /\ Len(Chain) \in Nat
    <3>1. Len(commits) \in Nat /\ UpTo(K, m) \in Nat /\ Len(Chain) \in Nat
      BY <1>1, <1>4, ChainFacts
    <3> QED BY SMT, <3>1
  <2>2. c \in 0 .. Len(Chain)
    BY SMT, <1>5, <2>1
  <2> QED BY <1>1, <2>1, <2>2, ChainFacts
<1>7. m + 1 \in K <=> slot(L + m + 1) \in outcomes
  BY <1>2
<1>8. CASE m + 1 \in K
  <2>1. c \in Len(commits) .. leader_swap_table.seed + CommitsPerSchedule - 1
    <3> DEFINE u == UpTo(K, m)
    <3>1. u \in Nat /\ u <= m /\ c = Len(commits) + u
      BY <1>4, <1>5
    <3>2. /\ Len(commits) \in Nat /\ leader_swap_table.seed \in Nat /\ CommitsPerSchedule \in Nat
          /\ m \in Nat /\ m < leader_swap_table.seed + CommitsPerSchedule - Len(commits)
      BY <1>1, <1>2
    <3> HIDE DEF u, c
    <3> QED BY SMT, <3>1, <3>2
  <2>2. leader_swap_table = TableAt(c - (c % CommitsPerSchedule))
    BY <2>1, SameTable
  <2>3. L + m + 1 \in RoundAt(c) + 1 .. MaxRound /\ (L + m + 1) - 1 = L + m
    BY SMT, <1>1, <1>2, <1>5, <1>6
  <2> HIDE DEF c
  <2>4. c + 1 \in 1 .. Len(Chain) /\ Chain[c + 1].leader = slot(L + m + 1)
    <3>1. \A q \in RoundAt(c) + 1 .. (L + m + 1) - 1 : slot(q) \notin outcomes
      BY <1>5, <2>3
    <3>2. slot(L + m + 1) \in outcomes
      BY <1>7, <1>8
    <3> DEFINE x == L + m + 1
    <3>3. /\ c \in 0 .. Len(Chain) /\ outcomes \in Outcomes /\ x \in RoundAt(c) + 1 .. MaxRound
          /\ leader_swap_table = TableAt(c - (c % CommitsPerSchedule))
          /\ slot(x) \in outcomes /\ \A q \in RoundAt(c) + 1 .. x - 1 : slot(q) \notin outcomes
      BY <1>1, <1>6, <2>2, <2>3, <3>1, <3>2
    <3> HIDE DEF x, L
    <3> QED BY <3>3, NextCommit DEF x
  <2>5. Len(commits) + UpTo(K, m + 1) = c + 1 /\ UpTo(K, m + 1) <= m + 1
    <3> DEFINE u == UpTo(K, m)
    <3>1. u \in Nat /\ u <= m /\ c = Len(commits) + u /\ UpTo(K, m + 1) = u + 1
      BY <1>4, <1>5, <1>8 DEF c
    <3>2. Len(commits) \in Nat /\ m \in Nat
      BY <1>1, <1>2
    <3> HIDE DEF u
    <3>3. Len(commits) + (u + 1) = c + 1 /\ u + 1 <= m + 1
      BY SMT, <3>1, <3>2
    <3> QED BY <3>1, <3>3
  <2>6. RoundAt(c + 1) = L + m + 1
    BY SMT, <1>6, <2>4 DEF RoundAt, LeaderSlot
  <2>7. \A r \in RoundAt(c + 1) + 1 .. L + (m + 1) : FALSE
    BY SMT, <1>2, <2>6
  <2>8. RoundAt(c + 1) <= L + (m + 1) /\ c + 1 <= Len(Chain)
    BY SMT, <1>2, <1>6, <2>4, <2>6
  <2> QED BY <1>2, <2>4, <2>5, <2>7, <2>8 DEF Caught
<1>9. CASE m + 1 \notin K
  <2>1. Len(commits) + UpTo(K, m + 1) = c /\ UpTo(K, m + 1) <= m + 1
    BY SMT, <1>1, <1>2, <1>4, <1>5, <1>9
  <2> HIDE DEF c
  <2>2. \A r \in RoundAt(c) + 1 .. L + (m + 1) : slot(r) \notin outcomes
    <3>1. \A r \in RoundAt(c) + 1 .. L + (m + 1) : r \in RoundAt(c) + 1 .. L + m \/ r = L + m + 1
      BY SMT, <1>2, <1>6
    <3> QED BY <1>5, <1>7, <1>9, <3>1
  <2>3. RoundAt(c) <= L + (m + 1)
    BY SMT, <1>2, <1>5, <1>6
  <2> QED BY <1>5, <1>9, <2>1, <2>2, <2>3 DEF Caught
<1> QED BY <1>8, <1>9

(* All decisions. *)
LEMMA CaughtAll ==
  ASSUME ChainInv, DecidedInv,
         NEW n \in 1 .. CommitsUntilUpdate, last_decided_leader + n <= MaxRound,
         NEW K \in SUBSET (1 .. n),
         \A k \in 1 .. n :
           k \in K <=> LeaderSlot(leader_swap_table, last_decided_leader + k) \in outcomes
  PROVE  \A m \in 0 .. n : Caught(K, m)
<1>1. n \in Nat /\ last_decided_leader \in Nat /\ Len(commits) \in Nat
  BY StateFacts DEF DecidedInv
<1>2. Caught(K, 0)
  <2>1. UpTo(K, 0) = 0
    BY Zenon, <1>1, CountStep
  <2>2. 0 \notin K /\ Len(commits) + 0 = Len(commits) /\ last_decided_leader + 0 = last_decided_leader
    BY <1>1
  <2>3. Len(commits) <= Len(Chain)
    BY ChainFacts DEF ChainInv
  <2> QED BY <2>1, <2>2, <2>3 DEF Caught, DecidedInv
<1>3. ASSUME NEW m \in 0 .. n - 1, Caught(K, m) PROVE Caught(K, m + 1)
  BY Zenon, <1>1, <1>3, CaughtStep
<1> DEFINE S == {m \in 0 .. n : ~Caught(K, m)}
<1>4. S = {}
  <2> SUFFICES ASSUME S # {} PROVE FALSE
    BY Zenon
  <2>1. S \in SUBSET Nat
    OBVIOUS
  <2>2. PICK m \in S : \A k \in S : m <= k
    <3> HIDE DEF S
    <3> QED BY Zenon, <2>1, MinExists
  <2>3. m \in 0 .. n /\ ~Caught(K, m) /\ m # 0
    BY Zenon, <1>2
  <2>4. m - 1 \in 0 .. n - 1 /\ m - 1 \in 0 .. n /\ (m - 1) + 1 = m /\ ~(m <= m - 1)
    BY <1>1, <2>3
  <2>5. Caught(K, m - 1)
    BY Zenon, <2>2, <2>4
  <2> QED BY Zenon, <1>3, <2>3, <2>4, <2>5
<1> QED BY Zenon, <1>4

-----------------------------------------------------------------------------
(* Committing.                                                             *)

(* Handling the next agreed leaders appends the next agreed commits. *)
LEMMA HandleStep ==
  ASSUME ChainInv, NEW n \in Nat, Len(commits) + n <= Len(Chain),
         NEW slots, DOMAIN slots = 1 .. n,
         \A j \in 1 .. n : slots[j] = Chain[Len(commits) + j].leader,
         HandleCommit(slots)
  PROVE  /\ commits' = SubSeq(Chain, 1, Len(commits) + n)
         /\ scoring_subdag' = SubSeq(Chain, leader_swap_table.seed + 1, Len(commits) + n)
         /\ Len(commits)' = Len(commits) + n
<1> USE Zenon
<1> DEFINE L == Len(commits)
           seed == leader_swap_table.seed
           new == [k \in DOMAIN slots |-> [index |-> L + k, leader |-> slots[k]]]
           part == SubSeq(Chain, L + 1, L + n)
<1>1. /\ L \in Nat /\ seed \in Nat /\ seed <= L /\ outcomes \in Outcomes
      /\ Chain \in Seq(Commit) /\ Len(Chain) \in Nat /\ L + n \in 0 .. Len(Chain)
      /\ commits = SubSeq(Chain, 1, L) /\ scoring_subdag = SubSeq(Chain, seed + 1, L)
  <2>1. /\ outcomes \in Outcomes
        /\ commits = SubSeq(Chain, 1, L) /\ scoring_subdag = SubSeq(Chain, seed + 1, L)
    BY DEF ChainInv
  <2>2. L \in Nat /\ seed \in Nat /\ seed <= L
    BY StateFacts
  <2>3. Chain \in Seq(Commit) /\ Len(Chain) \in Nat
    BY <2>1, ChainFacts
  <2>4. L + n \in 0 .. Len(Chain)
    BY SMT, <2>2, <2>3
  <2> QED BY <2>1, <2>2, <2>3, <2>4
<1>2. commits' = commits \o new /\ scoring_subdag' = scoring_subdag \o new
  BY DEF HandleCommit
<1>3. part \in Seq(Commit) /\ Len(part) = n /\ \A i \in 1 .. n : part[i] = Chain[L + i]
  <2>1. L \in 0 .. L + n /\ (L + n) - L = n
    BY SMT, <1>1
  <2> HIDE DEF L
  <2> QED BY <1>1, <2>1, PartFacts
<1>4. ASSUME NEW i \in 1 .. n PROVE new[i] = Chain[L + i]
  <2>1. L + i \in 1 .. Len(Chain)
    BY SMT, <1>1
  <2>2. Chain[L + i] = [index |-> L + i, leader |-> Chain[L + i].leader]
    BY <1>1, <2>1, ChainFacts
  <2> QED BY <2>2
<1>5. DOMAIN new = 1 .. n
  OBVIOUS
<1>6. new = part
  <2>1. new = [i \in 1 .. n |-> new[i]]
    OBVIOUS
  <2> HIDE DEF new
  <2>2. part = [i \in 1 .. n |-> part[i]]
    <3> HIDE DEF part
    <3> QED BY SMT, <1>3
  <2> HIDE DEF part
  <2> QED BY SMT, <1>3, <1>4, <2>1, <2>2
<1> HIDE DEF new
<1>7. commits' = SubSeq(Chain, 1, L + n)
  <2>1. 1 \in 1 .. Len(Chain) + 1 /\ L \in 1 - 1 .. Len(Chain) /\ L + n \in L .. Len(Chain)
    BY SMT, <1>1
  <2> HIDE DEF L
  <2>2. SubSeq(Chain, 1, L) \o SubSeq(Chain, L + 1, L + n) = SubSeq(Chain, 1, L + n)
    BY <1>1, <2>1, ConcatAdjacentSubSeq
  <2> QED BY <1>1, <1>2, <1>6, <2>2
<1>8. scoring_subdag' = SubSeq(Chain, seed + 1, L + n)
  <2>1. /\ seed + 1 \in 1 .. Len(Chain) + 1 /\ L \in (seed + 1) - 1 .. Len(Chain)
        /\ L + n \in L .. Len(Chain)
    BY SMT, <1>1
  <2> HIDE DEF L, seed
  <2>2. SubSeq(Chain, seed + 1, L) \o SubSeq(Chain, L + 1, L + n) = SubSeq(Chain, seed + 1, L + n)
    BY <1>1, <2>1, ConcatAdjacentSubSeq
  <2> QED BY <1>1, <1>2, <1>6, <2>2
<1>9. Len(SubSeq(Chain, 1, L + n)) = L + n
  BY <1>1, FirstFacts
<1> QED BY <1>7, <1>8, <1>9

(* What is said of the agreed commits does not change with the state. *)
LEMMA SameChain ==
  ASSUME outcomes' = outcomes
  PROVE  /\ Chain' = Chain
         /\ \A i : RoundAt(i)' = RoundAt(i) /\ TableAt(i)' = TableAt(i) /\ InfoAt(i)' = InfoAt(i)
<1>1. Chain' = Chain
  BY Zenon DEF Chain
<1> QED BY Zenon, <1>1 DEF RoundAt, TableAt, InfoAt

(* Commits that fit into the schedule keep what is said of the commits and *)
(* of the disk.                                                            *)
LEMMA CommitStep ==
  ASSUME ChainInv, StoreInv, NEW n \in 0 .. CommitsUntilUpdate, Len(commits) + n <= Len(Chain),
         NEW slots, DOMAIN slots = 1 .. n,
         \A j \in 1 .. n : slots[j] = Chain[Len(commits) + j].leader,
         HandleCommit(slots),
         UNCHANGED <<outcomes, leader_swap_table, commit_info, store>>
  PROVE  ChainInv' /\ StoreInv' /\ Len(commits') = Len(commits) + n
<1> USE Zenon
<1>1. /\ Len(commits) \in Nat /\ leader_swap_table.seed \in Nat
      /\ leader_swap_table.seed <= Len(commits)
      /\ CommitsPerSchedule \in Nat \ {0} /\ CommitsUntilUpdate \in Nat
      /\ CommitsUntilUpdate = leader_swap_table.seed + CommitsPerSchedule - Len(commits)
  BY StateFacts
<1>2. n \in Nat /\ Len(Chain) \in Nat
  BY SMT, <1>1, ChainFacts DEF ChainInv
<1>3. /\ commits' = SubSeq(Chain, 1, Len(commits) + n)
      /\ scoring_subdag' = SubSeq(Chain, leader_swap_table.seed + 1, Len(commits) + n)
      /\ Len(commits') = Len(commits) + n
  BY <1>2, HandleStep
<1>4. /\ Chain' = Chain
      /\ \A i : TableAt(i)' = TableAt(i) /\ InfoAt(i)' = InfoAt(i)
  BY SameChain
<1>5. Len(commits') \in 0 .. Len(Chain') /\ ChangeBefore(leader_swap_table.seed, Len(commits'))
  <2>1. leader_swap_table.seed % CommitsPerSchedule = 0
    BY DEF ChainInv, ChangeBefore
  <2>2. leader_swap_table.seed \in 0 .. Len(commits) + n
        /\ Len(commits) + n - leader_swap_table.seed <= CommitsPerSchedule
    BY SMT, <1>1, <1>2
  <2>3. Len(commits) + n \in 0 .. Len(Chain)
    BY SMT, <1>1, <1>2
  <2>4. ChangeBefore(leader_swap_table.seed, Len(commits) + n)
    BY SMT, <2>1, <2>2 DEF ChangeBefore
  <2>5. Len(commits') = Len(commits) + n /\ Chain' = Chain
    BY <1>3, <1>4
  <2> QED BY <2>3, <2>4, <2>5
<1>6. ChainInv'
  BY <1>3, <1>4, <1>5 DEF ChainInv, ChangeBefore
<1>7. store.commits \in 0 .. Len(commits')
  BY SMT, <1>1, <1>2, <1>3 DEF StoreInv
<1>8. StoreInv'
  BY <1>4, <1>7 DEF StoreInv, ChangeBefore
<1> QED BY <1>3, <1>6, <1>8

(* Deciding and committing. *)
LEMMA TryCommitStep ==
  ASSUME IInv, NEW round \in 1 .. MaxRound, TryCommit(round)
  PROVE  IInv'
<1> USE Zenon
<1> DEFINE decided == Truncate(Decided(leader_swap_table, last_decided_leader + 1, round))
           L == last_decided_leader
<1>1. /\ CommitsUntilUpdate > 0 /\ round > L
      /\ L' = decided[Len(decided)].slot.round
      /\ HandleCommit(Sequenced(decided))
      /\ UNCHANGED <<outcomes, leader_swap_table, commit_info, store>>
  BY DEF TryCommit
<1>2. ChainInv /\ DecidedInv /\ StoreInv /\ L \in Nat
  BY DEF IInv, DecidedInv
<1>3. /\ Len(commits) \in Nat /\ leader_swap_table.seed \in Nat
      /\ CommitsPerSchedule \in Nat /\ CommitsUntilUpdate \in Nat \ {0}
      /\ CommitsUntilUpdate = leader_swap_table.seed + CommitsPerSchedule - Len(commits)
  BY SMT, <1>1, <1>2, StateFacts
<1>4. PICK n \in 1 .. CommitsUntilUpdate : Decisions(decided, n)
  BY <1>1, <1>2, <1>3, TruncatedDecisions
<1> HIDE DEF decided
<1> DEFINE K == {k \in DOMAIN decided : decided[k].commit}
<1>5. /\ n \in Nat /\ L + n <= MaxRound /\ DOMAIN decided = 1 .. n /\ Len(decided) = n
      /\ \A k \in 1 .. n : /\ decided[k].slot = LeaderSlot(leader_swap_table, L + k)
                           /\ decided[k].commit <=> LeaderSlot(leader_swap_table, L + k) \in outcomes
  <2>1. n \in Nat /\ L + n <= MaxRound /\ DOMAIN decided = 1 .. n /\ Len(decided) = n
    BY <1>4 DEF Decisions
  <2>2. ASSUME NEW k \in 1 .. n
        PROVE  /\ decided[k].slot = LeaderSlot(leader_swap_table, L + k)
               /\ decided[k].commit <=> LeaderSlot(leader_swap_table, L + k) \in outcomes
    <3> DEFINE s == LeaderSlot(leader_swap_table, L + k)
               b == s \in outcomes
    <3>1. decided[k] = [slot |-> s, commit |-> b]
      BY <1>4 DEF Decisions
    <3> HIDE DEF s, b
    <3>2. decided[k].slot = s /\ decided[k].commit = b
      BY SMT, <3>1
    <3> QED BY <3>2 DEF s, b
  <2> QED BY <2>1, <2>2
<1>6. /\ K \in SUBSET (1 .. n)
      /\ \A k \in 1 .. n : k \in K <=> LeaderSlot(leader_swap_table, L + k) \in outcomes
  BY <1>5
<1>7. \A j \in 1 .. Cardinality(K) :
        Sequenced(decided)[j] = decided[CHOOSE k \in K : UpTo(K, k) = j].slot
  BY DEF Sequenced, UpTo
<1>8. DOMAIN Sequenced(decided) = 1 .. Cardinality(K)
  BY DEF Sequenced
<1> HIDE DEF K
<1>9. \A m \in 0 .. n : Caught(K, m)
  BY <1>2, <1>4, <1>5, <1>6, CaughtAll
<1>10. UpTo(K, n) = Cardinality(K) /\ Cardinality(K) \in Nat /\ n \in 0 .. n
  <2>1. n \in 0 .. n
    BY SMT, <1>5
  <2> QED BY SMT, <1>5, <1>6, <2>1, CountStep
<1> DEFINE c == Cardinality(K)
<1>11. /\ Len(commits) + c <= Len(Chain) /\ c <= n
       /\ RoundAt(Len(commits) + c) <= L + n
       /\ \A r \in RoundAt(Len(commits) + c) + 1 .. L + n :
            LeaderSlot(leader_swap_table, r) \notin outcomes
       /\ n \in K => Chain[Len(commits) + c].leader = LeaderSlot(leader_swap_table, L + n)
  BY <1>9, <1>10 DEF Caught
<1>12. \A j \in 1 .. c : Sequenced(decided)[j] = Chain[Len(commits) + j].leader
  <2> TAKE j \in 1 .. c
  <2>1. \E k \in K : UpTo(K, k) = j
    BY <1>5, <1>6, CountReached
  <2> DEFINE k == CHOOSE k \in K : UpTo(K, k) = j
  <2>2. k \in K /\ UpTo(K, k) = j
    BY <2>1
  <2>3. Sequenced(decided)[j] = decided[k].slot
    BY <1>7
  <2> HIDE DEF k
  <2>4. k \in 1 .. n /\ k \in 0 .. n
    BY SMT, <1>6, <2>2
  <2> QED BY <1>5, <1>9, <2>2, <2>3, <2>4 DEF Caught
<1>13. c \in 0 .. CommitsUntilUpdate
  BY SMT, <1>3, <1>10, <1>11
<1>14. ChainInv' /\ StoreInv' /\ Len(commits') = Len(commits) + c
  <2> HIDE DEF c
  <2> QED BY <1>1, <1>2, <1>8, <1>11, <1>12, <1>13, CommitStep DEF c
<1>15. L' = L + n
  <2>1. decided[n].slot = LeaderSlot(leader_swap_table, L + n)
    BY SMT, <1>4, <1>5
  <2> QED BY SMT, <1>1, <1>5, <2>1 DEF LeaderSlot
<1>16. DecidedInv'
  <2>1. \A i : RoundAt(i)' = RoundAt(i)
    BY <1>1, SameChain
  <2>2. RoundAt(Len(commits))' = RoundAt(Len(commits) + c)
    BY <1>14, <2>1
  <2>3. ASSUME Len(commits') - leader_swap_table.seed = CommitsPerSchedule
        PROVE  L' = RoundAt(Len(commits) + c)
    <3>1. c = n
      <4> DEFINE l == Len(commits)
                 sd == leader_swap_table.seed
      <4>1. /\ l \in Nat /\ sd \in Nat /\ CommitsPerSchedule \in Nat /\ n \in 1 .. CommitsUntilUpdate
            /\ CommitsUntilUpdate = sd + CommitsPerSchedule - l
            /\ (l + c) - sd = CommitsPerSchedule /\ c \in Nat /\ c <= n
        BY <1>3, <1>10, <1>11, <1>14, <2>3
      <4> HIDE DEF l, sd, c
      <4> QED BY SMT, <4>1
    <3>2. n \in K
      BY SMT, <1>5, <1>6, <1>10, <3>1, FullCount
    <3>3. Chain[Len(commits) + c].leader.round = L + n /\ Len(commits) + c # 0
      BY SMT, <1>3, <1>4, <1>11, <3>1, <3>2 DEF LeaderSlot
    <3> QED BY <1>15, <3>3 DEF RoundAt
  <2>4. \A r : LeaderSlot(leader_swap_table, r)' = LeaderSlot(leader_swap_table, r)
    BY <1>1
  <2>5. L' \in Nat
    BY SMT, <1>2, <1>5, <1>15
  <2> QED BY <1>1, <1>11, <1>15, <2>2, <2>3, <2>4, <2>5 DEF DecidedInv
<1> QED BY <1>14, <1>16 DEF IInv

(* Committing what the commit syncer has fetched. *)
LEMMA TryCommitCertifiedStep ==
  ASSUME IInv, NEW n \in 1 .. MaxRound, TryCommitCertified(n)
  PROVE  IInv'
<1> USE Zenon
<1> DEFINE L == Len(commits)
           k == SelectCertified(n)
           certified == SubSeq(Chain, L + 1, L + k)
           slots == [j \in DOMAIN certified |-> certified[j].leader]
<1>1. /\ CommitsUntilUpdate > 0 /\ L + n <= Len(Chain)
      /\ last_decided_leader' = certified[Len(certified)].leader.round
      /\ HandleCommit(slots)
      /\ UNCHANGED <<outcomes, leader_swap_table, commit_info, store>>
  BY DEF TryCommitCertified, Chain
<1>2. ChainInv /\ DecidedInv /\ StoreInv /\ outcomes \in Outcomes
  BY DEF IInv, ChainInv
<1>3. L \in Nat /\ CommitsUntilUpdate \in Nat /\ Len(Chain) \in Nat /\ MaxRound \in Nat
  BY <1>2, StateFacts, ChainFacts, ScheduleAssumption
<1>4. k \in 1 .. n /\ k \in 0 .. CommitsUntilUpdate /\ k \in Nat /\ L + k <= Len(Chain)
      /\ L + k \in 0 .. Len(Chain) /\ L \in 0 .. L + k /\ (L + k) - L = k
  <2>1. k = IF n >= CommitsUntilUpdate THEN CommitsUntilUpdate ELSE n
    BY DEF SelectCertified
  <2>2. n \in Nat /\ n >= 1 /\ CommitsUntilUpdate > 0 /\ L + n <= Len(Chain)
    BY SMT, <1>1, <1>3
  <2> HIDE DEF L, k
  <2>3. k \in 1 .. n /\ k \in 0 .. CommitsUntilUpdate /\ k \in Nat
    BY SMT, <1>3, <2>1, <2>2
  <2> QED BY SMT, <1>3, <2>2, <2>3
<1> HIDE DEF L, k
<1>5. /\ certified \in Seq(Commit) /\ Len(certified) = k
      /\ \A i \in 1 .. k : certified[i] = Chain[L + i]
  BY <1>2, <1>4, PartFacts
<1> HIDE DEF certified
<1>6. DOMAIN certified = 1 .. k
  BY SMT, <1>5
<1>7. DOMAIN slots = 1 .. k /\ \A j \in 1 .. k : slots[j] = Chain[L + j].leader
  BY <1>5, <1>6
<1> HIDE DEF slots
<1>8. ChainInv' /\ StoreInv' /\ Len(commits') = L + k
  BY <1>1, <1>2, <1>4, <1>7, CommitStep DEF L
<1>9. last_decided_leader' = RoundAt(L + k) /\ RoundAt(L + k) \in Nat
  <2>1. k \in 1 .. k /\ L + k # 0
    BY SMT, <1>3, <1>4
  <2>2. RoundAt(L + k) \in Nat
    BY <1>2, <1>4, ChainFacts
  <2> QED BY <1>1, <1>5, <2>1, <2>2 DEF RoundAt
<1>10. RoundAt(Len(commits))' = RoundAt(L + k)
  BY <1>1, <1>8, SameChain
<1>11. \A r \in RoundAt(L + k) + 1 .. last_decided_leader' : FALSE
  BY SMT, <1>9
<1>12. DecidedInv'
  BY SMT, <1>9, <1>10, <1>11 DEF DecidedInv
<1> QED BY <1>8, <1>12 DEF IInv

(* A change of schedule. *)
LEMMA UpdateStep ==
  ASSUME IInv, UpdateLeaderSchedule
  PROVE  IInv'
<1> USE Zenon
<1> DEFINE L == Len(commits)
           seed == leader_swap_table.seed
           N == CommitsPerSchedule
<1>1. /\ CommitsUntilUpdate = 0
      /\ leader_swap_table' = [seed |-> scoring_subdag[Len(scoring_subdag)].index,
                               scores |-> scoring_subdag]
      /\ commit_info' = [index |-> L, scores |-> scoring_subdag]
      /\ scoring_subdag' = << >>
      /\ UNCHANGED <<outcomes, commits, last_decided_leader, store>>
  BY DEF UpdateLeaderSchedule
<1>2. ChainInv /\ DecidedInv /\ StoreInv /\ outcomes \in Outcomes
      /\ scoring_subdag = SubSeq(Chain, seed + 1, L) /\ seed % N = 0 /\ L \in 0 .. Len(Chain)
  BY DEF IInv, ChainInv, ChangeBefore
<1>3. /\ L \in Nat /\ seed \in Nat /\ N \in Nat \ {0} /\ Len(Chain) \in Nat
      /\ L = seed + N /\ L - seed = N /\ seed \in 0 .. L /\ Len(scoring_subdag) = N
  <2>1. L \in Nat /\ seed \in Nat /\ N \in Nat \ {0} /\ seed <= L
        /\ 0 = seed + N - L /\ Len(scoring_subdag) = L - seed
    BY <1>1, <1>2, StateFacts
  <2>2. Len(Chain) \in Nat
    BY <1>2, ChainFacts
  <2> QED BY SMT, <2>1, <2>2
<1> HIDE DEF L, seed, N
<1>4. scoring_subdag[N].index = L
  <2>1. scoring_subdag[N] = Chain[seed + N]
    BY SMT, <1>2, <1>3, PartFacts
  <2>2. L \in 1 .. Len(Chain)
    BY SMT, <1>2, <1>3
  <2> QED BY <1>2, <1>3, <2>1, <2>2, ChainFacts
<1>5. L # 0 /\ L - N + 1 = seed + 1
  BY SMT, <1>3
<1>6. leader_swap_table' = TableAt(L) /\ leader_swap_table'.seed = L
  BY <1>1, <1>2, <1>3, <1>4, <1>5 DEF TableAt, N
<1>7. commit_info' = InfoAt(L) /\ commit_info' # NoInfo
  <2>1. commit_info'.index = L
    BY <1>1
  <2> QED BY <1>1, <1>2, <1>5, <2>1 DEF InfoAt, NoInfo, N
<1>8. /\ Chain' = Chain
      /\ \A i : RoundAt(i)' = RoundAt(i) /\ TableAt(i)' = TableAt(i) /\ InfoAt(i)' = InfoAt(i)
  BY <1>1, SameChain
<1>9. ChainInv'
  <2>1. L % N = 0
    BY <1>2, <1>3, NextChange
  <2>2. ChangeBefore(L, L)
    BY SMT, <1>3, <2>1 DEF ChangeBefore, N
  <2>3. SubSeq(Chain, L + 1, L) = << >>
    BY SMT, <1>3, SubSeqEmpty
  <2> QED BY <1>1, <1>2, <1>6, <1>8, <2>2, <2>3 DEF ChainInv, ChangeBefore, L
<1>10. DecidedInv'
  <2>1. last_decided_leader = RoundAt(L) /\ last_decided_leader \in Nat
    BY <1>2, <1>3 DEF DecidedInv, L, seed, N
  <2>2. \A r \in RoundAt(L) + 1 .. last_decided_leader : FALSE
    BY SMT, <2>1
  <2>3. L - L # N /\ RoundAt(L) <= last_decided_leader
    BY SMT, <1>3, <2>1
  <2> QED BY <1>1, <1>6, <1>8, <2>1, <2>2, <2>3 DEF DecidedInv, L, N
<1>11. StoreInv'
  BY <1>1, <1>2, <1>6, <1>7, <1>8 DEF StoreInv, ChangeBefore, L
<1> QED BY <1>9, <1>10, <1>11 DEF IInv

(* A flush. *)
LEMMA FlushStep ==
  ASSUME IInv, Flush
  PROVE  IInv'
<1> USE Zenon
<1> DEFINE seed == leader_swap_table.seed
           info == IF commit_info = NoInfo THEN store.info ELSE commit_info
<1>1. /\ store' = [commits |-> Len(commits), info |-> info] /\ commit_info' = NoInfo
      /\ UNCHANGED <<outcomes, commits, last_decided_leader, scoring_subdag, leader_swap_table>>
  BY DEF Flush
<1>2. /\ Chain' = Chain
      /\ \A i : RoundAt(i)' = RoundAt(i) /\ TableAt(i)' = TableAt(i) /\ InfoAt(i)' = InfoAt(i)
  BY <1>1, SameChain
<1>3. ChainInv' /\ DecidedInv'
  BY <1>1, <1>2 DEF IInv, ChainInv, DecidedInv, ChangeBefore, LeaderSlot
<1>4. InfoAt(seed).index = seed
  BY DEF InfoAt, NoInfo
<1>5. info = InfoAt(seed) /\ info.index = seed
  BY <1>4 DEF IInv, StoreInv
<1> HIDE DEF info
<1>6. store'.commits = Len(commits) /\ store'.info = InfoAt(seed) /\ store'.info.index = seed
  BY <1>1, <1>5
<1>7. ChangeBefore(seed, Len(commits)) /\ Len(commits) \in 0 .. Len(commits)
  BY SMT, StateFacts DEF IInv, ChainInv
<1>8. StoreInv'
  BY <1>1, <1>2, <1>6, <1>7 DEF StoreInv, ChangeBefore
<1> QED BY <1>3, <1>8 DEF IInv

(* A part of the commits is that part of the agreed ones. *)
LEMMA CommitsPart ==
  ASSUME ChainInv, NEW n \in 0 .. Len(commits), NEW m \in 0 .. n
  PROVE  SubSeq(commits, m + 1, n) = SubSeq(Chain, m + 1, n)
<1> DEFINE L == Len(commits)
<1>1. /\ L \in Nat /\ L \in 0 .. Len(Chain) /\ Len(Chain) \in Nat
      /\ Chain \in Seq(Commit) /\ commits = SubSeq(Chain, 1, L)
  BY Zenon, StateFacts, ChainFacts DEF ChainInv
<1> HIDE DEF L
<1>2. m \in Nat /\ n \in Nat /\ n <= L
  BY <1>1 DEF L
<1>3. CASE m = n
  <2>1. n < m + 1
    BY <1>2, <1>3
  <2> QED BY <1>2, <2>1, SubSeqEmpty
<1>4. CASE m # n
  <2>1. /\ 1 \in 1 .. Len(Chain) /\ L \in 1 .. Len(Chain)
        /\ m + 1 \in 1 .. L - 1 + 1 /\ n \in 1 .. L - 1 + 1
        /\ 1 + (m + 1) - 1 = m + 1 /\ 1 + n - 1 = n
    BY <1>1, <1>2, <1>4
  <2>2. SubSeq(SubSeq(Chain, 1, L), m + 1, n) = SubSeq(Chain, 1 + (m + 1) - 1, 1 + n - 1)
    BY <1>1, <2>1, SubSeqOfSubSeq
  <2> QED BY Zenon, <1>1, <2>1, <2>2
<1> QED BY Zenon, <1>3, <1>4

(* A crash and a restart. *)
LEMMA RestartStep ==
  ASSUME IInv, Restart
  PROVE  IInv'
<1> USE Zenon
<1> DEFINE n == store.commits
           i == store.info.index
<1>1. /\ commits' = SubSeq(commits, 1, n) /\ scoring_subdag' = SubSeq(commits, i + 1, n)
      /\ leader_swap_table' = FromStore(store.info)
      /\ last_decided_leader' = RoundOf(commits') /\ commit_info' = NoInfo
      /\ UNCHANGED <<outcomes, store>>
  BY DEF Restart, UnscoredCommits
<1>2. /\ ChainInv /\ StoreInv /\ outcomes \in Outcomes /\ n \in 0 .. Len(commits)
      /\ i \in 0 .. n /\ ChangeBefore(i, n) /\ store.info = InfoAt(i)
      /\ Len(commits) \in 0 .. Len(Chain)
  BY DEF IInv, ChainInv, StoreInv, ChangeBefore
<1>3. Len(commits) \in Nat /\ Len(Chain) \in Nat /\ CommitsPerSchedule \in Nat \ {0}
  BY <1>2, StateFacts, ChainFacts
<1> HIDE DEF n, i
<1>4. n \in Nat /\ i \in Nat /\ n \in 0 .. Len(Chain) /\ n \in 0 .. n /\ 0 \in 0 .. n
  BY SMT, <1>2, <1>3
<1>5. commits' = SubSeq(Chain, 1, n) /\ scoring_subdag' = SubSeq(Chain, i + 1, n)
  <2>1. SubSeq(commits, 0 + 1, n) = SubSeq(Chain, 0 + 1, n)
    BY <1>2, <1>4, CommitsPart
  <2>2. SubSeq(commits, i + 1, n) = SubSeq(Chain, i + 1, n)
    BY <1>2, CommitsPart
  <2>3. 0 + 1 = 1
    BY SMT
  <2> QED BY <1>1, <2>1, <2>2, <2>3
<1>6. Len(commits') = n /\ last_decided_leader' = RoundAt(n) /\ RoundAt(n) \in Nat
  BY <1>1, <1>2, <1>4, <1>5, FirstFacts, ChainFacts
<1>7. leader_swap_table' = TableAt(i) /\ leader_swap_table'.seed = i
  <2>1. CASE i = 0
    BY <1>1, <1>2, <2>1 DEF FromStore, InfoAt, TableAt, NoTable
  <2>2. CASE i # 0
    <3>1. store.info # NoInfo
      BY SMT, <2>2 DEF NoInfo, i
    <3> QED BY SMT, <1>1, <1>2, <2>2, <3>1 DEF FromStore, InfoAt, TableAt
  <2> QED BY <2>1, <2>2
<1>8. /\ Chain' = Chain
      /\ \A j : RoundAt(j)' = RoundAt(j) /\ TableAt(j)' = TableAt(j) /\ InfoAt(j)' = InfoAt(j)
  BY <1>1, SameChain
<1>9. ChainInv'
  BY <1>1, <1>2, <1>4, <1>5, <1>6, <1>7, <1>8 DEF ChainInv, ChangeBefore
<1>10. DecidedInv'
  <2>1. \A r \in RoundAt(n) + 1 .. last_decided_leader' : FALSE
    BY SMT, <1>6
  <2> QED BY SMT, <1>6, <1>8, <2>1 DEF DecidedInv
<1>11. StoreInv'
  BY <1>1, <1>2, <1>4, <1>6, <1>7, <1>8 DEF StoreInv, ChangeBefore, n, i
<1> QED BY SMT, <1>9, <1>10, <1>11 DEF IInv

-----------------------------------------------------------------------------
(* The initial state. *)
LEMMA InitIInv == Init => IInv
<1> SUFFICES ASSUME Init PROVE IInv
  BY Zenon
<1>1. /\ outcomes \in Outcomes /\ Len(commits) = 0 /\ leader_swap_table.seed = 0
      /\ store.commits = 0 /\ store.info = NoInfo /\ store.info.index = 0
      /\ leader_swap_table = NoTable /\ commit_info = NoInfo /\ last_decided_leader = 0
  BY Zenon DEF Init, NoTable, NoInfo
<1>2. TableAt(0) = NoTable /\ InfoAt(0) = NoInfo /\ RoundAt(0) = 0
  BY Zenon DEF TableAt, InfoAt, RoundAt
<1>3. Len(Chain) \in Nat /\ CommitsPerSchedule \in Nat \ {0}
  BY Zenon, <1>1, ChainFacts, ScheduleAssumption
<1>4. ChangeBefore(0, 0)
  <2>1. 0 % CommitsPerSchedule = 0
    BY <1>3
  <2> QED BY <1>3, <2>1 DEF ChangeBefore
<1>5. SubSeq(Chain, 1, 0) = << >> /\ SubSeq(Chain, 0 + 1, 0) = << >>
  BY SubSeqEmpty
<1>6. 0 \in 0 .. Len(Chain)
  BY <1>3
<1>7. ChainInv
  BY Zenon, <1>1, <1>2, <1>4, <1>5, <1>6 DEF ChainInv, Init
<1>8. DecidedInv
  BY <1>1, <1>2, <1>3 DEF DecidedInv
<1>9. StoreInv
  BY <1>1, <1>2, <1>4 DEF StoreInv
<1> QED BY Zenon, <1>7, <1>8, <1>9 DEF IInv

(* The inductive invariant. *)
THEOREM Invariance == Spec => []IInv
<1>1. IInv /\ [Next]_vars => IInv'
  <2> SUFFICES ASSUME IInv, [Next]_vars PROVE IInv'
    BY Zenon
  <2>1. CASE UNCHANGED vars
    BY Zenon, <2>1 DEF vars, IInv, ChainInv, DecidedInv, StoreInv, ChangeBefore, Chain, RoundAt,
                TableAt, InfoAt, LeaderSlot
  <2> QED BY Zenon, <2>1, UpdateStep, TryCommitStep, TryCommitCertifiedStep, FlushStep, RestartStep
        DEF Next
<1> QED BY InitIInv, <1>1, PTL DEF Spec

(* Validators commit the same leaders, each elected by the schedule that   *)
(* follows from the commits before it, for every length of a schedule,     *)
(* every swap table, and every batching of local and certified commits     *)
(* with crashes between flushes.                                           *)
THEOREM LeadersAgree == Spec => []CommitsAgree
<1>1. IInv => CommitsAgree
  <2> SUFFICES ASSUME ChainInv, NEW i \in 1 .. Len(commits)
               PROVE  commits[i].leader \in NextLeaders(outcomes, SubSeq(commits, 1, i - 1))
    BY Zenon DEF IInv, CommitsAgree
  <2>1. /\ outcomes \in Outcomes /\ Len(commits) \in Nat /\ Len(Chain) \in Nat
        /\ Len(commits) \in 0 .. Len(Chain) /\ commits = SubSeq(Chain, 1, Len(commits))
    BY Zenon, StateFacts, ChainFacts DEF ChainInv
  <2>2. /\ i \in 1 .. Len(Chain) /\ i - 1 \in 0 .. Len(commits) /\ 0 \in 0 .. i - 1
        /\ 0 \in 0 .. Len(commits) /\ Len(commits) - 0 = Len(commits) /\ 0 + i = i
    BY <2>1
  <2>3. commits[i] = Chain[i]
    <3>1. SubSeq(Chain, 0 + 1, Len(commits))[i] = Chain[0 + i]
      BY Zenon, <2>1, <2>2, PartFacts
    <3> QED BY <2>1, <2>2, <3>1
  <2>4. SubSeq(commits, 1, i - 1) = SubSeq(Chain, 1, i - 1)
    <3>1. SubSeq(commits, 0 + 1, i - 1) = SubSeq(Chain, 0 + 1, i - 1)
      BY Zenon, <2>2, CommitsPart
    <3> QED BY <3>1
  <2>5. Chain[i].leader \in NextLeaders(outcomes, SubSeq(Chain, 1, i - 1))
    BY Zenon, <2>1, <2>2, ScheduleAssumption DEF Chain
  <2> QED BY Zenon, <2>3, <2>4, <2>5
<1> QED BY <1>1, Invariance, PTL

(* The commits to be scored begin where the scores of the table end, and   *)
(* are never more than a schedule, after every restart and every change of *)
(* schedule.                                                               *)
THEOREM UnscoredMeetTable == Spec => []UnscoredExact
<1>1. IInv => UnscoredExact
  <2> SUFFICES ASSUME ChainInv PROVE UnscoredExact
    BY Zenon DEF IInv
  <2> DEFINE seed == leader_swap_table.seed
  <2>1. /\ outcomes \in Outcomes /\ Len(commits) \in Nat /\ seed \in Nat /\ seed <= Len(commits)
        /\ Len(scoring_subdag) = Len(commits) - seed
        /\ Chain \in Seq(Commit) /\ Len(Chain) \in Nat
    BY Zenon, StateFacts, ChainFacts DEF ChainInv
  <2>2. /\ Len(commits) \in 0 .. Len(Chain) /\ commits = SubSeq(Chain, 1, Len(commits))
        /\ seed % CommitsPerSchedule = 0 /\ Len(commits) - seed <= CommitsPerSchedule
        /\ scoring_subdag = SubSeq(Chain, seed + 1, Len(commits))
    BY Zenon DEF ChainInv, ChangeBefore
  <2> HIDE DEF seed
  <2>3. /\ seed \in 0 .. Len(commits) /\ 0 \in 0 .. seed /\ 1 \in 1 .. Len(Chain) + 1
        /\ seed \in 1 - 1 .. Len(Chain) /\ Len(commits) \in seed .. Len(Chain)
    <3> DEFINE L == Len(commits)
    <3>1. L \in Nat /\ seed \in Nat /\ seed <= L /\ Len(Chain) \in Nat /\ L \in 0 .. Len(Chain)
      BY Zenon, <2>1, <2>2
    <3> HIDE DEF L
    <3>2. /\ seed \in 0 .. L /\ 0 \in 0 .. seed /\ 1 \in 1 .. Len(Chain) + 1
          /\ seed \in 1 - 1 .. Len(Chain) /\ L \in seed .. Len(Chain)
      BY <3>1
    <3> QED BY Zenon, <3>2 DEF L
  <2>4. SubSeq(commits, 1, seed) = SubSeq(Chain, 1, seed)
    <3>1. SubSeq(commits, 0 + 1, seed) = SubSeq(Chain, 0 + 1, seed)
      BY Zenon, <2>3, CommitsPart
    <3>2. 0 + 1 = 1
      OBVIOUS
    <3> QED BY Zenon, <3>1, <3>2
  <2>5. SubSeq(Chain, 1, seed) \o SubSeq(Chain, seed + 1, Len(commits))
          = SubSeq(Chain, 1, Len(commits))
    BY Zenon, <2>1, <2>3, ConcatAdjacentSubSeq
  <2> QED BY Zenon, <2>1, <2>2, <2>4, <2>5 DEF UnscoredExact, seed
<1> QED BY <1>1, Invariance, PTL
=============================================================================
