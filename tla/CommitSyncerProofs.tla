-------------------------- MODULE CommitSyncerProofs --------------------------
(***************************************************************************)
(* Proofs about CommitSyncer for every committee, chain of commits, batch  *)
(* size, number of parallel fetches, answers of peers and number of        *)
(* crashes: the inductive invariant, what the helpers establish, and one   *)
(* lemma per step.                                                         *)
(***************************************************************************)
EXTENDS CommitSyncer, WellFoundedInduction, TLAPS

(* A non-empty set of naturals has a least element. *)
LEMMA MinExists ==
  ASSUME NEW S \in SUBSET Nat, S # {}
  PROVE  \E m \in S : \A k \in S : m <= k
<1> DEFINE R == OpToRel(<, Nat)
<1>1. IsWellFoundedOn(R, Nat)
  BY Zenon, NatLessThanWellFounded
<1>2. PICK m \in S : \A k \in S : ~(<<k, m>> \in R)
  <2> HIDE DEF R
  <2> QED BY Zenon, <1>1, WFMin
<1>3. \A k \in S : ~(k < m)
  BY Zenon, <1>2 DEF OpToRel
<1> HIDE DEF R
<1> QED BY <1>3

(* A set of naturals with an upper bound in Nat has a greatest element. *)
LEMMA MaxExists ==
  ASSUME NEW S \in SUBSET Nat, S # {}, NEW u \in Nat, \A k \in S : k <= u
  PROVE  \E m \in S : \A k \in S : k <= m
<1> DEFINE T == {u - k : k \in S}
<1>1. T \in SUBSET Nat /\ T # {}
  <2>1. \A k \in S : u - k \in Nat
    OBVIOUS
  <2> QED BY Zenon, <2>1
<1>2. PICK t \in T : \A j \in T : t <= j
  <2> HIDE DEF T
  <2> QED BY Zenon, <1>1, MinExists
<1>3. PICK m \in S : t = u - m
  BY Zenon
<1>4. \A k \in S : u - m <= u - k
  BY Zenon, <1>2, <1>3
<1> QED BY <1>4

(* The commits of a batch are consecutive commits of the committee. *)
Segment(e) ==
  /\ e \in Seq(Commit) /\ e # << >>
  /\ RangeOf(e) \in CommitRange
  /\ Len(e) = RangeOf(e).end - RangeOf(e).start + 1
  /\ \A k \in 1 .. Len(e) : e[k] = Main[RangeOf(e).start + k - 1]

(* The inductive invariant.  Of the scheduler: every range it holds lies   *)
(* below highest_scheduled_index, and the batch on its way to Core         *)
(* continues what is synced.                                               *)
SchedulerInv ==
  /\ pending \subseteq CommitRange /\ inflight \subseteq CommitRange
  /\ scheduled \in 0 .. MaxIndex
  /\ synced \in 0 .. MaxIndex
  /\ NothingLost /\ FetchedOnce /\ FetchAheadBounded
  /\ \A e \in Entries : Segment(e)
  /\ \A r \in Held : r.end <= scheduled
  /\ sending # << >> => /\ RangeOf(sending).start <= synced + 1
                        /\ RangeOf(sending).end > synced

(* Of Core and the handler, with the scheduler never ahead of Core. *)
CoreInv ==
  /\ voted \in [Authority -> 0 .. MaxIndex]
  /\ chain \in Seq(Commit) /\ Len(chain) <= MaxIndex
  /\ stored \in 0 .. Len(chain)
  /\ handled \in 0 .. stored
  /\ restarts \in 0 .. MaxRestarts
  /\ ChainAgrees

IInv == SchedulerInv /\ CoreInv /\ synced <= last_commit_index

-----------------------------------------------------------------------------
(* The votes of a quorum are for a commit of the committee: some of the    *)
(* voters are truthful.                                                    *)
LEMMA QuorumVotesForMain ==
  ASSUME NEW votes \in SUBSET Votes, NEW d \in Commit,
         ReachedQuorum(Voters(votes, d))
  PROVE  \E i \in 1 .. MaxIndex : d = Main[i]
<1> USE Zenon
<1>1. PICK Q \in Quorum : Q \subseteq Voters(votes, d)
  BY DEF ReachedQuorum
<1>2. PICK a \in Q : a \notin Faulty
  BY CertificatesAssumption
<1>3. <<a, d>> \in Votes
  BY <1>1, <1>2 DEF Voters
<1> QED BY <1>2, <1>3 DEF Votes

(* What verify_commits returns is a segment of the committee's chain that  *)
(* starts where the range starts: from the certified last commit the       *)
(* digests lead back along the chain.                                      *)
LEMMA VerifiedIsSegment ==
  ASSUME NEW r \in CommitRange,
         NEW answer \in [commits : Seq(Commit), votes : SUBSET Votes],
         Verifies(r, answer)
  PROVE  /\ Segment(Verified(r, answer))
         /\ RangeOf(Verified(r, answer)).start = r.start
         /\ RangeOf(Verified(r, answer)).end <= r.end
<1> USE Zenon
<1> DEFINE s == answer.commits
           n == Kept(r, s)
<1>1. s \in Seq(Commit) /\ s # << >> /\ Len(s) \in Nat /\ Len(s) >= 1
  BY SMT DEF Verifies
<1>2. r.start \in 1 .. MaxIndex /\ r.end \in 1 .. MaxIndex /\ r.start <= r.end
  BY DEF CommitRange
<1>3. MaxIndex \in Nat
  BY CertificatesAssumption
<1>4. n \in 1 .. Len(s) /\ n <= r.end - r.start + 1
  BY SMT, <1>1, <1>2, <1>3 DEF Kept, Size
<1>5. \A k \in 1 .. Len(s) : s[k] \in Commit /\ s[k].index \in Nat /\ s[k].digest \in Nat
                             /\ s[k].previous \in Nat
  BY SMTT(60), <1>1, CertificatesAssumption
<1>6. \A k \in 1 .. n : /\ k = 1 => s[k].index = r.start
                        /\ k # 1 => s[k].index = s[k - 1].index + 1 /\ s[k].previous = s[k - 1].digest
  <2> SUFFICES ASSUME NEW k \in 1 .. n
               PROVE  /\ k = 1 => s[k].index = r.start
                      /\ k # 1 => s[k].index = s[k - 1].index + 1 /\ s[k].previous = s[k - 1].digest
    OBVIOUS
  <2>1. Linked(r, s)
    BY DEF Verifies
  <2>2. k \in 1 .. Len(s) /\ k <= Size(r) + 1
    BY SMT, <1>1, <1>2, <1>3, <1>4 DEF Size
  <2> HIDE DEF s, n
  <2> QED BY <2>1, <2>2 DEF Linked
<1>7. PICK i \in 1 .. MaxIndex : s[n] = Main[i]
  <2>1. ReachedQuorum(Voters(answer.votes, s[n]))
    BY DEF Verifies
  <2>2. answer.votes \in SUBSET Votes
    OBVIOUS
  <2> HIDE DEF s, n
  <2> QED BY <1>4, <1>5, <2>1, <2>2, QuorumVotesForMain
<1>8. \A k \in 1 .. n : s[k].index = r.start + k - 1
  <2> DEFINE Wrong == {k \in 1 .. n : s[k].index # r.start + k - 1}
  <2>1. SUFFICES Wrong = {}
    OBVIOUS
  <2>2. SUFFICES ASSUME Wrong # {} PROVE FALSE
    OBVIOUS
  <2>3. Wrong \in SUBSET Nat
    BY SMT, <1>4
  <2>4. PICK k \in Wrong : \A j \in Wrong : k <= j
    <3> HIDE DEF Wrong
    <3> QED BY <2>2, <2>3, MinExists
  <2>5. k \in 1 .. n /\ s[k].index # r.start + k - 1
    BY <2>4
  <2>6. k # 1
    BY SMTT(60), <1>2, <1>3, <1>6, <2>5
  <2>7. k - 1 \in 1 .. n /\ k - 1 \notin Wrong
    <3> HIDE DEF Wrong, n, s
    <3> QED BY SMT, <1>1, <1>4, <2>3, <2>4, <2>5, <2>6
  <2>8. s[k - 1].index = r.start + (k - 1) - 1
    BY <2>7
  <2>9. s[k].index = s[k - 1].index + 1
    BY <1>6, <2>5, <2>6
  <2>10. k \in Int /\ r.start \in Int
    BY SMT, <1>1, <1>2, <1>3, <1>4, <2>5
  <2>11. s[k].index = (r.start + (k - 1) - 1) + 1
    BY <2>8, <2>9
  <2>12. s[k].index = r.start + k - 1
    <3> HIDE DEF Wrong, n, s
    <3> QED BY SMT, <2>10, <2>11
  <2> QED BY <2>5, <2>12
<1>9. i = r.start + n - 1
  <2>1. s[n].index = r.start + n - 1
    BY SMT, <1>4, <1>8
  <2> HIDE DEF n, s
  <2> QED BY <1>7, <2>1, CertificatesAssumption
<1>10. \A k \in 1 .. n : s[k] = Main[r.start + k - 1]
  <2> DEFINE Off == {k \in 1 .. n : s[k] # Main[r.start + k - 1]}
  <2>1. SUFFICES ASSUME Off # {} PROVE FALSE
    OBVIOUS
  <2>2. Off \in SUBSET Nat /\ \A k \in Off : k <= n
    BY SMT, <1>4
  <2>3. PICK k \in Off : \A j \in Off : j <= k
    <3> HIDE DEF Off
    <3>1. n \in Nat
      BY SMT, <1>1, <1>4
    <3> HIDE DEF n
    <3> QED BY <2>1, <2>2, <3>1, MaxExists
  <2>4. k \in 1 .. n /\ s[k] # Main[r.start + k - 1]
    BY <2>3
  <2>5. k # n
    BY <1>7, <1>9, <2>4
  <2>6. k + 1 \in 1 .. n /\ k + 1 \notin Off
    <3> HIDE DEF Off, n, s
    <3> QED BY SMT, <1>1, <1>4, <2>2, <2>3, <2>4, <2>5
  <2>7. s[k + 1] = Main[r.start + (k + 1) - 1] /\ s[k + 1].previous = s[(k + 1) - 1].digest
    BY SMT, <1>4, <1>6, <2>4, <2>6
  <2> HIDE DEF Off, n, s
  <2>8. k \in Nat /\ k >= 1 /\ k <= n /\ r.start \in Nat /\ r.start >= 1
    BY SMT, <1>1, <1>2, <1>3, <1>4, <2>4
  <2>9. /\ r.start + (k + 1) - 1 = r.start + k /\ (k + 1) - 1 = k
        /\ r.start + k \in 2 .. MaxIndex /\ (r.start + k) - 1 = r.start + k - 1
        /\ r.start + k - 1 \in 1 .. MaxIndex
    <3> DEFINE a == r.start
               b == r.end
    <3>1. /\ a \in Nat /\ b \in Nat /\ n \in Nat /\ k \in Nat /\ MaxIndex \in Nat /\ a >= 1 /\ k >= 1
          /\ b <= MaxIndex /\ n <= b - a + 1 /\ k + 1 <= n
      BY SMT, <1>1, <1>2, <1>3, <1>4, <2>6, <2>8
    <3> HIDE DEF a, b
    <3>2. /\ a + (k + 1) - 1 = a + k /\ (k + 1) - 1 = k /\ a + k \in 2 .. MaxIndex
          /\ (a + k) - 1 = a + k - 1 /\ a + k - 1 \in 1 .. MaxIndex
      BY SMT, <3>1
    <3> QED BY <3>2 DEF a
  <2>10. Main[r.start + k].previous = Main[r.start + k - 1].digest
    BY <2>9, CertificatesAssumption
  <2>11. s[k].digest = Main[r.start + k - 1].digest
    BY <2>7, <2>9, <2>10
  <2>12. s[k] \in Commit /\ Main[r.start + k - 1] \in Commit
    <3>1. k \in 1 .. Len(s)
      BY SMT, <1>1, <1>4, <2>8
    <3> QED BY <1>5, <2>9, <3>1, CertificatesAssumption
  <2>13. s[k] = Main[r.start + k - 1]
    BY <2>11, <2>12, CertificatesAssumption
  <2> QED BY <2>4, <2>13
<1> DEFINE t == SubSeq(s, 1, n)
<1>11. t \in Seq(Commit) /\ Len(t) = n /\ \A k \in 1 .. n : t[k] = s[k]
  <2> HIDE DEF n, s
  <2> QED BY SMT, <1>1, <1>4
<1>12. t[1] = Main[r.start] /\ t[n] = Main[r.start + n - 1]
  <2>1. 1 \in 1 .. n /\ n \in 1 .. n /\ r.start + 1 - 1 = r.start
    BY SMT, <1>1, <1>2, <1>3, <1>4
  <2> HIDE DEF n, s, t
  <2> QED BY <1>10, <1>11, <2>1
<1>13. r.start + n - 1 \in 1 .. MaxIndex /\ r.start + n - 1 <= r.end /\ r.start <= r.start + n - 1
       /\ n = (r.start + n - 1) - r.start + 1 /\ n # 0
  <2>1. Len(s) \in Nat
    BY <1>1
  <2> HIDE DEF n, s, t
  <2> QED BY SMT, <1>2, <1>3, <1>4, <2>1
<1> HIDE DEF n, s, t
<1>14. RangeOf(t) = [start |-> r.start, end |-> r.start + n - 1]
  BY <1>2, <1>11, <1>12, <1>13, CertificatesAssumption DEF RangeOf
<1>15. Segment(t)
  <2>1. t # << >>
    BY <1>11, <1>13
  <2>2. RangeOf(t) \in CommitRange
    BY SMT, <1>2, <1>13, <1>14 DEF CommitRange
  <2>3. Len(t) = RangeOf(t).end - RangeOf(t).start + 1
    BY SMT, <1>11, <1>13, <1>14
  <2>4. \A k \in 1 .. Len(t) : t[k] = Main[RangeOf(t).start + k - 1]
    BY SMTT(60), <1>10, <1>11, <1>14
  <2> QED BY <1>11, <2>1, <2>2, <2>3, <2>4 DEF Segment
<1>16. Verified(r, answer) = t
  BY DEF Verified, t, s, n
<1> QED BY SMT, <1>13, <1>14, <1>15, <1>16

(* The answer of a truthful peer has the type of an answer. *)
LEMMA TruthfulAnswerType ==
  ASSUME NEW r \in CommitRange, NEW last \in 0 .. MaxIndex, NEW votes \in PeerVotes
  PROVE  HandleFetchCommits(r, last, votes) \in [commits : Seq(Commit), votes : SUBSET Votes]
<1> DEFINE certified == {i \in r.start .. ServedEnd(r, last) :
                           ReachedQuorum({v[1] : v \in {w \in votes : w[2].index = i}})}
           end == CHOOSE i \in certified : \A j \in certified : j <= i
           served == [k \in 1 .. (end - r.start + 1) |-> Main[r.start + k - 1]]
<1>1. r.start \in 1 .. MaxIndex /\ r.end \in 1 .. MaxIndex /\ MaxIndex \in Nat
  BY Zenon, CertificatesAssumption DEF CommitRange
<1>2. votes \in SUBSET Votes
  BY Zenon, SyncerAssumption
<1>3. CASE certified = {}
  <2>1. HandleFetchCommits(r, last, votes) = [commits |-> << >>, votes |-> {}]
    BY Zenon, <1>3 DEF HandleFetchCommits
  <2> QED BY <2>1
<1>4. CASE certified # {}
  <2>1. ServedEnd(r, last) \in Int /\ ServedEnd(r, last) <= last
    <3>1. BatchSize \in Int /\ last \in Int /\ r.start \in Int /\ r.end \in Int
      BY <1>1, CertificatesAssumption
    <3> QED BY <3>1 DEF ServedEnd
  <2>2. certified \in SUBSET Nat /\ \A k \in certified : k <= MaxIndex
    BY <1>1, <2>1
  <2>3. \E i \in certified : \A j \in certified : j <= i
    <3> HIDE DEF certified
    <3> QED BY Zenon, <1>1, <1>4, <2>2, MaxExists
  <2>4. end \in certified
    <3> HIDE DEF certified
    <3> QED BY Zenon, <2>3
  <2>5. end \in r.start .. MaxIndex
    <3>1. end \in r.start .. ServedEnd(r, last)
      BY Zenon, <2>4
    <3> HIDE DEF end
    <3> QED BY <1>1, <2>1, <3>1
  <2>6. HandleFetchCommits(r, last, votes)
          = [commits |-> served, votes |-> {v \in votes : v[2].index = end}]
    BY Zenon, <1>4 DEF HandleFetchCommits
  <2>7. served \in Seq(Commit)
    <3> HIDE DEF certified, end
    <3>1. end - r.start + 1 \in Nat
      BY <1>1, <2>5
    <3>2. \A k \in 1 .. (end - r.start + 1) : r.start + k - 1 \in 1 .. MaxIndex
      BY <1>1, <2>5
    <3>3. \A k \in 1 .. (end - r.start + 1) : Main[r.start + k - 1] \in Commit
      BY Zenon, <3>2, CertificatesAssumption
    <3> QED BY <3>1, <3>3
  <2> HIDE DEF certified, end, served
  <2> QED BY <1>2, <2>6, <2>7
<1> HIDE DEF certified
<1> QED BY Zenon, <1>3, <1>4

(* A fetch returns a segment of the chain at the start of its range. *)
LEMMA ResultsAreSegments ==
  ASSUME NEW result \in Results
  PROVE  /\ result[1] \in CommitRange
         /\ Segment(result[2])
         /\ RangeOf(result[2]).start = result[1].start
         /\ RangeOf(result[2]).end <= result[1].end
<1> USE Zenon
<1> DEFINE Answer == [commits : Seq(Commit), votes : SUBSET Votes]
<1>0. PICK r \in CommitRange : \E x \in TruthfulAnswers(r) \cup BadAnswers :
        Verifies(r, x) /\ result = <<r, Verified(r, x)>>
  BY DEF Results, TruthfulResults, FetchResults
<1>1. PICK x \in TruthfulAnswers(r) \cup BadAnswers :
        Verifies(r, x) /\ result = <<r, Verified(r, x)>>
  BY <1>0
<1>2. x \in Answer
  <2>1. CASE x \in TruthfulAnswers(r)
    <3>1. PICK last \in 0 .. MaxIndex, votes \in PeerVotes : x = HandleFetchCommits(r, last, votes)
      BY SMT, <2>1 DEF TruthfulAnswers
    <3> QED BY <3>1, TruthfulAnswerType
  <2>2. CASE x \in BadAnswers
    BY <2>2, SyncerAssumption
  <2> QED BY <1>1, <2>1, <2>2
<1>3. /\ Segment(Verified(r, x))
      /\ RangeOf(Verified(r, x)).start = r.start
      /\ RangeOf(Verified(r, x)).end <= r.end
  BY <1>1, <1>2, VerifiedIsSegment
<1> QED BY <1>1, <1>3

(* quorum_commit_index is an index. *)
LEMMA QuorumIndexType == QuorumCommitIndex \in 0 .. MaxIndex
<1> USE Zenon
<1> DEFINE S == {i \in 0 .. MaxIndex : i = 0 \/ ReachedQuorum({a \in Authority : voted[a] >= i})}
<1>1. MaxIndex \in Nat
  BY CertificatesAssumption
<1>2. S \in SUBSET Nat /\ 0 \in S /\ \A k \in S : k <= MaxIndex
  BY SMT, <1>1
<1>3. PICK m \in S : \A k \in S : k <= m
  <2> HIDE DEF S
  <2> QED BY <1>1, <1>2, MaxExists
<1>4. \A j \in m + 1 .. MaxIndex : ~ ReachedQuorum({a \in Authority : voted[a] >= j})
  <2> SUFFICES ASSUME NEW j \in m + 1 .. MaxIndex, ReachedQuorum({a \in Authority : voted[a] >= j})
               PROVE  FALSE
    OBVIOUS
  <2>1. m \in 0 .. MaxIndex
    BY <1>3
  <2>2. j \in 0 .. MaxIndex /\ ~ (j <= m)
    BY SMT, <1>1, <2>1
  <2> QED BY <1>3, <2>2
<1>5. m \in 0 .. MaxIndex /\ (m = 0 \/ ReachedQuorum({a \in Authority : voted[a] >= m}))
  BY <1>3
<1> QED BY <1>4, <1>5 DEF QuorumCommitIndex

(* The ranges a tick adds are full batches one after the other, from the   *)
(* index after `after` to the end of the last one.                         *)
LEMMA NewRangesCover ==
  ASSUME NEW after \in 0 .. MaxIndex, NEW limit \in Int, limit <= MaxIndex
  PROVE  /\ \A r \in NewRanges(after, limit) :
              r \in CommitRange /\ r.start > after /\ r.end <= limit
         /\ \A r, q \in NewRanges(after, limit) : r # q => Apart(r, q)
         /\ \A r \in NewRanges(after, limit) : \A i \in after + 1 .. r.end :
              \E q \in NewRanges(after, limit) : i \in q.start .. q.end
<1> DEFINE E(k) == after + k * BatchSize
<1>1. MaxIndex \in Nat /\ BatchSize \in Nat /\ BatchSize >= 1 /\ after \in Nat
  BY CertificatesAssumption
<1>2. \A k \in Nat : E(k) \in Nat
  BY <1>1
<1>3. \A k \in Nat : k >= 1 => E(k) = E(k - 1) + BatchSize
  <2>1. \A k \in Nat : k >= 1 => k * BatchSize = (k - 1) * BatchSize + BatchSize
    BY <1>1
  <2> QED BY <1>1, <2>1
<1>4. E(0) = after
  BY <1>1
<1>5. \A j, k \in Nat : j < k => E(j) + BatchSize <= E(k)
  <2> SUFFICES ASSUME NEW j \in Nat, NEW k \in Nat, j < k
               PROVE  E(j) + BatchSize <= E(k)
    BY Zenon
  <2>1. (j + 1) * BatchSize <= k * BatchSize
    BY <1>1
  <2>2. (j + 1) * BatchSize = j * BatchSize + BatchSize
    BY <1>1
  <2>3. j * BatchSize \in Nat /\ k * BatchSize \in Nat
    BY <1>1
  <2> QED BY <1>1, <2>1, <2>2, <2>3
<1>6. \A r : r \in NewRanges(after, limit) <=>
        \E k \in 1 .. MaxIndex : E(k) <= limit /\ r = [start |-> E(k - 1) + 1, end |-> E(k)]
  BY Zenon DEF NewRanges
<1> HIDE DEF E
<1>7. \A r \in NewRanges(after, limit) : r \in CommitRange /\ r.start > after /\ r.end <= limit
  <2> SUFFICES ASSUME NEW r \in NewRanges(after, limit)
               PROVE  r \in CommitRange /\ r.start > after /\ r.end <= limit
    BY Zenon
  <2>1. PICK k \in 1 .. MaxIndex : E(k) <= limit /\ r = [start |-> E(k - 1) + 1, end |-> E(k)]
    BY Zenon, <1>6
  <2>2. k \in Nat /\ k - 1 \in Nat /\ k >= 1
    BY <1>1
  <2>3. E(k) = E(k - 1) + BatchSize /\ E(k) \in Nat /\ E(k - 1) \in Nat
    BY Zenon, <1>2, <1>3, <2>2
  <2>4. E(k - 1) >= after
    <3>1. CASE k - 1 = 0
      BY <1>1, <1>4, <3>1
    <3>2. CASE k - 1 # 0
      BY <1>1, <1>2, <1>4, <1>5, <2>2, <3>2
    <3> QED BY Zenon, <3>1, <3>2
  <2>5. E(k - 1) + 1 \in 1 .. MaxIndex /\ E(k) \in 1 .. MaxIndex /\ E(k - 1) + 1 <= E(k)
    BY <1>1, <2>1, <2>3
  <2> QED BY <1>1, <2>1, <2>3, <2>4, <2>5 DEF CommitRange
<1>8. \A r, q \in NewRanges(after, limit) : r # q => Apart(r, q)
  <2> SUFFICES ASSUME NEW r \in NewRanges(after, limit), NEW q \in NewRanges(after, limit), r # q
               PROVE  Apart(r, q)
    BY Zenon
  <2>1. PICK k \in 1 .. MaxIndex : r = [start |-> E(k - 1) + 1, end |-> E(k)]
    BY Zenon, <1>6
  <2>2. PICK j \in 1 .. MaxIndex : q = [start |-> E(j - 1) + 1, end |-> E(j)]
    BY Zenon, <1>6
  <2>3. k \in Nat /\ j \in Nat /\ k - 1 \in Nat /\ j - 1 \in Nat /\ k # j
    BY <1>1, <2>1, <2>2
  <2>4. E(k) \in Nat /\ E(j) \in Nat /\ E(k - 1) \in Nat /\ E(j - 1) \in Nat
    BY Zenon, <1>2, <2>3
  <2>5. CASE k < j
    <3>1. k = j - 1 \/ k < j - 1
      BY <2>3, <2>5
    <3>2. E(k) <= E(j - 1)
      BY <1>1, <1>5, <2>3, <2>4, <3>1
    <3> QED BY <2>1, <2>2, <2>4, <3>2 DEF Apart
  <2>6. CASE j < k
    <3>1. j = k - 1 \/ j < k - 1
      BY <2>3, <2>6
    <3>2. E(j) <= E(k - 1)
      BY SMTT(60), <1>1, <1>5, <2>3, <2>4, <3>1
    <3> QED BY <2>1, <2>2, <2>4, <3>2 DEF Apart
  <2> QED BY <2>3, <2>5, <2>6
<1>9. ASSUME NEW r \in NewRanges(after, limit), NEW i \in after + 1 .. r.end
      PROVE  \E q \in NewRanges(after, limit) : i \in q.start .. q.end
  <2>1. PICK n \in 1 .. MaxIndex : E(n) <= limit /\ r = [start |-> E(n - 1) + 1, end |-> E(n)]
    BY Zenon, <1>6
  <2> DEFINE S == {k \in Nat : i <= E(k)}
  <2>2. i \in Nat /\ n \in Nat /\ i <= E(n) /\ i > after
    BY <1>1, <1>2, <2>1
  <2>3. S \in SUBSET Nat /\ n \in S
    BY Zenon, <2>2
  <2>4. PICK k \in S : \A j \in S : k <= j
    <3> HIDE DEF S
    <3> QED BY Zenon, <2>3, MinExists
  <2>5. k \in Nat /\ i <= E(k) /\ k <= n
    BY Zenon, <2>3, <2>4
  <2>6. k # 0
    BY <1>1, <1>4, <2>2, <2>5
  <2>7. k - 1 \in Nat /\ k - 1 \notin S
    BY <2>4, <2>5, <2>6
  <2>8. E(k - 1) < i
    BY <1>2, <2>2, <2>7
  <2>9. E(k) <= E(n)
    <3>1. CASE k = n
      BY <1>2, <2>2, <3>1
    <3>2. CASE k # n
      <4>1. k < n
        BY SMTT(60), <2>2, <2>5, <3>2
      <4> QED BY SMTT(60), <1>1, <1>2, <1>5, <2>2, <2>5, <4>1
    <3> QED BY Zenon, <3>1, <3>2
  <2>10. k \in 1 .. MaxIndex /\ E(k) <= limit
    BY SMTT(60), <1>1, <1>2, <2>1, <2>2, <2>5, <2>6, <2>9
  <2>11. [start |-> E(k - 1) + 1, end |-> E(k)] \in NewRanges(after, limit)
    BY Zenon, <1>6, <2>10
  <2>12. i \in E(k - 1) + 1 .. E(k)
    BY <1>2, <2>2, <2>5, <2>7, <2>8
  <2> QED BY Zenon, <2>11, <2>12
<1> QED BY Zenon, <1>7, <1>8, <1>9

-----------------------------------------------------------------------------
(* try_start_fetches moves ranges from pending to inflight. *)
LEMMA StartFetchesMoves ==
  ASSUME NEW ranges, NEW running, NEW waiting,
         TryStartFetches(ranges, running, waiting)
  PROVE  /\ pending' \cup inflight' = ranges \cup running
         /\ pending' \subseteq ranges
         /\ pending' \cap running = {} => pending' \cap inflight' = {}
<1> DEFINE slots == TargetParallelFetches(Cardinality(waiting)) - Cardinality(running)
           next  == {r \in ranges : Cardinality({q \in ranges : Before(q, r)}) < slots}
<1>1. pending' = ranges \ next /\ inflight' = running \cup next
  BY Zenon DEF TryStartFetches
<1>2. next \subseteq ranges
  BY Zenon
<1> HIDE DEF next
<1> QED BY Zenon, <1>1, <1>2

(* What the loop of handle_fetch_result keeps: every entry that is not     *)
(* synced.  What it sends to Core continues what is synced.                *)
LEMMA ProcessKeeps ==
  ASSUME NEW ranges, NEW running, NEW entries, NEW index \in Nat,
         \A e \in entries : Segment(e),
         \A d, e \in entries : d # e => Apart(RangeOf(d), RangeOf(e)),
         ProcessFetched(ranges, running, entries, index)
  PROVE  /\ synced' = index
         /\ Entries' \subseteq entries
         /\ fetched' \subseteq entries
         /\ \A e \in entries : RangeOf(e).end > index => e \in Entries'
         /\ sending' # << >> => /\ sending' \in entries
                                /\ RangeOf(sending').start <= index + 1
                                /\ RangeOf(sending').end > index
         /\ sending' \in entries \cup {<< >>}
         /\ \/ pending' = ranges /\ inflight' = running
            \/ \E waiting : TryStartFetches(ranges, running, waiting)
<1> USE Zenon
<1> DEFINE first == FirstUnsynced(entries, index)
           left  == {e \in entries : \E f \in first : ~ Before(RangeOf(e), RangeOf(f))}
<1>1. \A e \in entries : /\ e # << >>
                         /\ RangeOf(e).start \in Nat /\ RangeOf(e).end \in Nat
                         /\ RangeOf(e).start <= RangeOf(e).end
  <2>1. MaxIndex \in Nat
    BY CertificatesAssumption
  <2>2. \A e \in entries : e # << >> /\ RangeOf(e) \in CommitRange
    BY DEF Segment
  <2> QED BY SMT, <2>1, <2>2 DEF CommitRange
<1>2. /\ synced' = index
      /\ IF \E f \in first : RangeOf(f).start <= index + 1
           THEN /\ sending' \in first
                /\ fetched' = left \ {sending'}
                /\ pending' = ranges /\ inflight' = running
           ELSE /\ sending' = << >>
                /\ fetched' = left
                /\ TryStartFetches(ranges, running, left)
  BY DEF ProcessFetched
<1>3. first \subseteq entries /\ left \subseteq entries
  BY DEF FirstUnsynced
<1>4. \A f \in first : RangeOf(f).end > index
                       /\ \A d \in entries : RangeOf(d).end > index => ~ Before(RangeOf(d), RangeOf(f))
  BY DEF FirstUnsynced
<1>5. \A f, g \in first : f = g
  <2> SUFFICES ASSUME NEW f \in first, NEW g \in first, f # g PROVE FALSE
    OBVIOUS
  <2>1. f \in entries /\ g \in entries
    BY <1>3
  <2>2. ~ Before(RangeOf(f), RangeOf(g)) /\ ~ Before(RangeOf(g), RangeOf(f))
    BY <1>4, <2>1
  <2>3. RangeOf(f).start = RangeOf(g).start
    BY SMT, <1>1, <2>1, <2>2 DEF Before
  <2>4. Apart(RangeOf(f), RangeOf(g))
    BY <2>1
  <2> QED BY SMT, <1>1, <2>1, <2>3, <2>4 DEF Apart
<1>6. ASSUME NEW e \in entries, RangeOf(e).end > index
      PROVE  first # {}
  <2> DEFINE U == {d \in entries : RangeOf(d).end > index}
             S == {RangeOf(d).start : d \in U}
  <2>1. S \in SUBSET Nat /\ S # {}
    BY <1>1, <1>6
  <2>2. PICK m \in S : \A k \in S : m <= k
    <3> HIDE DEF S
    <3> QED BY <2>1, MinExists
  <2>3. PICK d \in U : RangeOf(d).start = m
    BY <2>2
  <2>4. \A x \in entries : RangeOf(x).end > index => ~ Before(RangeOf(x), RangeOf(d))
    <3> SUFFICES ASSUME NEW x \in entries, RangeOf(x).end > index, Before(RangeOf(x), RangeOf(d))
                 PROVE  FALSE
      OBVIOUS
    <3>1. RangeOf(x).start \in S
      OBVIOUS
    <3>2. m <= RangeOf(x).start
      BY <2>2, <3>1
    <3>3. RangeOf(x).start = RangeOf(d).start /\ RangeOf(x).end < RangeOf(d).end
      BY SMTT(60), <1>1, <2>3, <3>2 DEF Before
    <3>4. x # d
      BY SMTT(60), <1>1, <3>3
    <3>5. Apart(RangeOf(x), RangeOf(d))
      BY <2>3, <3>4
    <3> QED BY SMTT(60), <1>1, <2>3, <3>3, <3>5 DEF Apart
  <2>5. d \in first
    BY <2>3, <2>4 DEF FirstUnsynced
  <2> QED BY <2>5
<1>7. ASSUME NEW e \in entries, RangeOf(e).end > index
      PROVE  e \in left
  <2>1. PICK f \in first : TRUE
    BY <1>6, <1>7
  <2>2. ~ Before(RangeOf(e), RangeOf(f))
    BY <1>4, <1>7, <2>1
  <2> QED BY <2>1, <2>2
<1>8. ASSUME NEW f \in first
      PROVE  f \in left
  BY <1>3, <1>4, <1>7, <1>8
<1> HIDE DEF first, left
<1>9. CASE \E f \in first : RangeOf(f).start <= index + 1
  <2>1. sending' \in first /\ fetched' = left \ {sending'} /\ pending' = ranges /\ inflight' = running
    BY <1>2, <1>9
  <2>2. sending' \in entries /\ sending' # << >> /\ RangeOf(sending').start <= index + 1
        /\ RangeOf(sending').end > index
    BY <1>1, <1>3, <1>4, <1>5, <1>9, <2>1
  <2>3. Entries' = left
    BY <1>8, <2>1, <2>2 DEF Entries
  <2> QED BY <1>2, <1>3, <1>7, <2>1, <2>2, <2>3
<1>10. CASE ~ \E f \in first : RangeOf(f).start <= index + 1
  <2>1. sending' = << >> /\ fetched' = left /\ TryStartFetches(ranges, running, left)
    BY <1>2, <1>10
  <2>2. Entries' = left
    BY <2>1 DEF Entries
  <2> QED BY <1>2, <1>3, <1>7, <2>1, <2>2
<1> QED BY <1>9, <1>10

(* What a step of the scheduler starts from: ranges that are pending or    *)
(* running and entries that have been fetched, apart from each other, up   *)
(* to `top`, within `bound`, with no index after `index` left out.         *)
Ready(ranges, running, entries, index, top, bound) ==
  /\ index \in 0 .. MaxIndex /\ top \in 0 .. MaxIndex
  /\ ranges \subseteq CommitRange /\ running \subseteq CommitRange
  /\ \A r, q \in ranges \cup running : r # q => Apart(r, q)
  /\ \A r \in ranges \cup running, e \in entries : Apart(r, RangeOf(e))
  /\ \A d, e \in entries : d # e => Apart(RangeOf(d), RangeOf(e))
  /\ \A e \in entries : Segment(e)
  /\ \A r \in ranges \cup running \cup {RangeOf(e) : e \in entries} : r.end <= top /\ r.end <= bound
  /\ \A i \in index + 1 .. top :
       \E r \in ranges \cup running \cup {RangeOf(e) : e \in entries} : i \in r.start .. r.end

(* What it ends with: the ranges moved, and the entries that are not       *)
(* synced kept.                                                            *)
Retained(ranges, running, entries, index) ==
  /\ synced' = index
  /\ Entries' \subseteq entries
  /\ \A e \in entries : RangeOf(e).end > index => e \in Entries'
  /\ sending' # << >> => RangeOf(sending').start <= index + 1 /\ RangeOf(sending').end > index
  /\ pending' \cup inflight' = ranges \cup running
  /\ pending' \cap inflight' = {}

(* Such a step keeps the invariant of the scheduler. *)
LEMMA SchedulerStep ==
  ASSUME NEW ranges, NEW running, NEW entries, NEW index,
         Ready(ranges, running, entries, index, scheduled', handled' + UnhandledCommitsThreshold),
         Retained(ranges, running, entries, index)
  PROVE  SchedulerInv'
<1> USE Zenon
<1> USE DEF Ready, Retained
<1>1. Held' = ranges \cup running \cup {RangeOf(e) : e \in Entries'}
  BY DEF Held, RangeOf
<1>2. pending' \subseteq CommitRange /\ inflight' \subseteq CommitRange
  OBVIOUS
<1>3. NothingLost'
  <2> SUFFICES ASSUME NEW i \in index + 1 .. scheduled'
               PROVE  \E r \in Held' : i \in r.start .. r.end
    BY DEF NothingLost
  <2>1. PICK r \in ranges \cup running \cup {RangeOf(e) : e \in entries} : i \in r.start .. r.end
    OBVIOUS
  <2>2. CASE r \in ranges \cup running
    BY <1>1, <2>1, <2>2
  <2>3. CASE r \in {RangeOf(e) : e \in entries}
    <3>1. PICK e \in entries : r = RangeOf(e)
      BY <2>3
    <3>2. RangeOf(e).end > index
      <4>1. RangeOf(e) \in CommitRange /\ MaxIndex \in Nat
        BY CertificatesAssumption DEF Segment
      <4> QED BY SMTT(60), <2>1, <3>1, <4>1 DEF CommitRange
    <3> QED BY <1>1, <2>1, <3>1, <3>2
  <2> QED BY <2>1, <2>2, <2>3
<1>4. FetchedOnce'
  <2>1. /\ \A r, q \in pending' \cup inflight' : r # q => Apart(r, q)
        /\ \A r \in pending' \cup inflight', e \in Entries' : Apart(r, RangeOf(e))
        /\ \A d, e \in Entries' : d # e => Apart(RangeOf(d), RangeOf(e))
    OBVIOUS
  <2> QED BY <2>1 DEF FetchedOnce, Apart, RangeOf
<1>5. \A r \in Held' : r.end <= scheduled' /\ r.end <= handled' + UnhandledCommitsThreshold
  BY <1>1
<1>6. FetchAheadBounded'
  BY <1>5 DEF FetchAheadBounded, UnhandledCommitsThreshold
<1>7. \A e \in Entries' : Segment(e)
  OBVIOUS
<1> QED BY <1>2, <1>3, <1>4, <1>5, <1>6, <1>7 DEF SchedulerInv, Segment, RangeOf

(* A step that leaves the scheduler alone keeps its invariant if the       *)
(* handler does not go back.                                               *)
LEMMA SchedulerIdle ==
  ASSUME SchedulerInv, UNCHANGED schedulerVars, handled \in Nat, handled' \in Nat, handled <= handled'
  PROVE  SchedulerInv' /\ synced' = synced
<1> USE Zenon
<1>1. /\ pending' = pending /\ inflight' = inflight /\ fetched' = fetched
      /\ scheduled' = scheduled /\ synced' = synced /\ sending' = sending
  BY DEF schedulerVars
<1>2. Entries' = Entries /\ Held' = Held
  BY <1>1 DEF Entries, Held, RangeOf
<1>3. NothingLost' /\ FetchedOnce'
  BY <1>1, <1>2 DEF SchedulerInv, NothingLost, FetchedOnce, Apart, RangeOf
<1>4. FetchAheadBounded'
  <2>1. \A r \in Held : r.end \in Int
    <3>1. MaxIndex \in Nat
      BY CertificatesAssumption
    <3>2. \A r \in Held : r \in CommitRange
      BY DEF SchedulerInv, Held, Segment
    <3> QED BY SMTT(60), <3>1, <3>2 DEF CommitRange
  <2>2. UnhandledCommitsThreshold \in Nat
    BY SMT, CertificatesAssumption, SyncerAssumption DEF UnhandledCommitsThreshold
  <2>3. \A r \in Held : r.end <= handled + UnhandledCommitsThreshold
    BY DEF SchedulerInv, FetchAheadBounded
  <2>4. \A r \in Held : r.end <= handled' + UnhandledCommitsThreshold
    BY SMTT(60), <2>1, <2>2, <2>3
  <2> QED BY <1>2, <2>4 DEF FetchAheadBounded, UnhandledCommitsThreshold
<1> QED BY <1>1, <1>2, <1>3, <1>4 DEF SchedulerInv, Segment, RangeOf

(* After the loop of handle_fetch_result the ranges are where they were or *)
(* have been moved by try_start_fetches.                                   *)
LEMMA ProcessStep ==
  ASSUME NEW ranges, NEW running, NEW entries, NEW index,
         Ready(ranges, running, entries, index, scheduled', handled' + UnhandledCommitsThreshold),
         ranges \cap running = {},
         ProcessFetched(ranges, running, entries, index)
  PROVE  SchedulerInv' /\ synced' = index
<1> USE Zenon
<1>1. /\ index \in Nat
      /\ \A e \in entries : Segment(e)
      /\ \A d, e \in entries : d # e => Apart(RangeOf(d), RangeOf(e))
  BY SMT, CertificatesAssumption DEF Ready
<1>2. /\ synced' = index
      /\ Entries' \subseteq entries
      /\ \A e \in entries : RangeOf(e).end > index => e \in Entries'
      /\ sending' # << >> => RangeOf(sending').start <= index + 1 /\ RangeOf(sending').end > index
  BY SMTT(60), <1>1, ProcessKeeps
<1>3. pending' \cup inflight' = ranges \cup running /\ pending' \cap inflight' = {}
  <2>1. \/ pending' = ranges /\ inflight' = running
        \/ \E waiting : TryStartFetches(ranges, running, waiting)
    BY <1>1, ProcessKeeps
  <2>2. CASE pending' = ranges /\ inflight' = running
    BY <2>2
  <2>3. CASE \E waiting : TryStartFetches(ranges, running, waiting)
    <3>1. PICK waiting : TryStartFetches(ranges, running, waiting)
      BY <2>3
    <3>2. pending' \cup inflight' = ranges \cup running /\ pending' \subseteq ranges
      BY <3>1, StartFetchesMoves
    <3>3. pending' \cap running = {}
      BY <3>2
    <3> QED BY <3>1, <3>2, <3>3, StartFetchesMoves
  <2> QED BY <2>1, <2>2, <2>3
<1>4. Retained(ranges, running, entries, index)
  BY <1>2, <1>3 DEF Retained
<1> QED BY <1>2, <1>4, SchedulerStep

(* What the invariant says about the ranges and indices, in one place. *)
LEMMA Facts ==
  ASSUME IInv
  PROVE  /\ MaxIndex \in Nat /\ UnhandledCommitsThreshold \in Nat
         /\ synced \in Nat /\ scheduled \in Nat /\ last_commit_index \in Nat /\ handled \in Nat
         /\ Larger(synced, last_commit_index) = last_commit_index
         /\ last_commit_index \in 0 .. MaxIndex
         /\ \A r \in Held : /\ r \in CommitRange /\ r.start \in Nat /\ r.end \in Nat
                            /\ r.start <= r.end /\ r.end <= scheduled
                            /\ r.end <= handled + UnhandledCommitsThreshold
<1>1. MaxIndex \in Nat /\ UnhandledCommitsThreshold \in Nat
  BY CertificatesAssumption, SyncerAssumption DEF UnhandledCommitsThreshold
<1>2. synced \in Nat /\ scheduled \in Nat /\ last_commit_index \in Nat /\ handled \in Nat
      /\ last_commit_index \in 0 .. MaxIndex
  BY <1>1 DEF IInv, SchedulerInv, CoreInv, last_commit_index
<1>3. Larger(synced, last_commit_index) = last_commit_index
  BY <1>2 DEF IInv, Larger
<1>4. \A r \in Held : r \in CommitRange
  BY Zenon DEF IInv, SchedulerInv, Held, Segment
<1>5. \A r \in Held : r.start \in Nat /\ r.end \in Nat /\ r.start <= r.end
  BY <1>1, <1>4 DEF CommitRange
<1>6. \A r \in Held : r.end <= scheduled /\ r.end <= handled + UnhandledCommitsThreshold
  BY Zenon DEF IInv, SchedulerInv, FetchAheadBounded
<1> QED BY Zenon, <1>1, <1>2, <1>3, <1>4, <1>5, <1>6

-----------------------------------------------------------------------------
(* A tick keeps the invariant of the scheduler. *)
LEMMA TickStep ==
  ASSUME IInv, Tick
  PROVE  SchedulerInv' /\ synced' <= last_commit_index
<1> USE Zenon
<1> DEFINE index == Larger(synced, last_commit_index)
           after == Larger(index, scheduled)
           limit == Smaller(QuorumCommitIndex, handled + UnhandledCommitsThreshold)
           new   == NewRanges(after, limit)
<1>1. /\ sending = << >> /\ sending' = << >> /\ fetched' = fetched /\ handled' = handled
      /\ synced' = index
      /\ scheduled' = IF new = {} THEN scheduled
                        ELSE CHOOSE i \in {r.end : r \in new} : \A r \in new : r.end <= i
      /\ TryStartFetches(pending \cup new, inflight, fetched)
  BY DEF Tick, Schedule
<1>2. /\ MaxIndex \in Nat /\ UnhandledCommitsThreshold \in Nat
      /\ synced \in Nat /\ scheduled \in Nat /\ last_commit_index \in Nat /\ handled \in Nat
      /\ index = last_commit_index /\ index \in 0 .. MaxIndex
      /\ \A r \in Held : /\ r \in CommitRange /\ r.start \in Nat /\ r.end \in Nat
                         /\ r.start <= r.end /\ r.end <= scheduled
                         /\ r.end <= handled + UnhandledCommitsThreshold
  BY Facts
<1>3. scheduled \in 0 .. MaxIndex /\ synced <= index
  BY <1>2 DEF IInv, SchedulerInv
<1>4. after \in 0 .. MaxIndex /\ after >= index /\ after >= scheduled /\ (after = index \/ after = scheduled)
  <2> HIDE DEF index
  <2> QED BY SMT, <1>2, <1>3 DEF Larger
<1>5. limit \in Int /\ limit <= MaxIndex /\ limit <= handled + UnhandledCommitsThreshold
  BY SMT, <1>2, QuorumIndexType DEF Smaller
<1> HIDE DEF index, after, limit
<1>6. /\ \A r \in new : r \in CommitRange /\ r.start > after /\ r.end <= limit
      /\ \A r, q \in new : r # q => Apart(r, q)
      /\ \A r \in new : \A i \in after + 1 .. r.end : \E q \in new : i \in q.start .. q.end
  BY <1>4, <1>5, NewRangesCover
<1> HIDE DEF new
<1>7. \A r \in new : /\ r.start \in Nat /\ r.end \in Nat /\ r.start <= r.end
                     /\ r.end <= MaxIndex /\ r.end <= handled + UnhandledCommitsThreshold
                     /\ r.start > scheduled
  <2>1. \A r \in new : r.start \in Nat /\ r.end \in Nat /\ r.start <= r.end
    BY SMT, <1>2, <1>6 DEF CommitRange
  <2> QED BY SMT, <1>2, <1>4, <1>5, <1>6, <2>1
<1>8. /\ scheduled' \in 0 .. MaxIndex /\ scheduled <= scheduled'
      /\ \A r \in new : r.end <= scheduled'
      /\ scheduled' # scheduled => \E r \in new : scheduled' = r.end
  <2>1. CASE new = {}
    BY SMTT(60), <1>1, <1>2, <1>3, <2>1
  <2>2. CASE new # {}
    <3> DEFINE S == {r.end : r \in new}
    <3>1. S \in SUBSET Nat /\ S # {} /\ \A k \in S : k <= MaxIndex
      BY <1>7, <2>2
    <3>2. \E m \in S : \A k \in S : k <= m
      <4> HIDE DEF S
      <4> QED BY <1>2, <3>1, MaxExists
    <3>3. \E m \in S : \A r \in new : r.end <= m
      BY <3>2
    <3>4. scheduled' \in S /\ \A r \in new : r.end <= scheduled'
      BY <1>1, <2>2, <3>3
    <3>5. PICK r \in new : scheduled' = r.end
      BY <3>4
    <3> DEFINE to == scheduled'
    <3>6. /\ to \in Nat /\ MaxIndex \in Nat /\ to <= MaxIndex
          /\ r.start \in Nat /\ r.start <= to /\ scheduled \in Nat /\ r.start > scheduled
      BY <1>2, <1>7, <3>5
    <3>7. to \in 0 .. MaxIndex /\ scheduled <= to
      <4> HIDE DEF to
      <4> QED BY SMT, <3>6
    <3> QED BY <3>4, <3>5, <3>7
  <2> QED BY <2>1, <2>2
<1>9. Entries = fetched /\ Entries' = fetched /\ Held = pending \cup inflight \cup {RangeOf(e) : e \in fetched}
  BY <1>1 DEF Entries, Held
<1>10. \A r \in new, q \in Held : Apart(r, q) /\ Apart(q, r)
  BY SMT, <1>2, <1>7 DEF Apart
<1>11. /\ pending \cap inflight = {}
       /\ \A r, q \in pending \cup inflight : r # q => Apart(r, q)
       /\ \A r \in pending \cup inflight, e \in fetched : Apart(r, RangeOf(e))
       /\ \A d, e \in fetched : d # e => Apart(RangeOf(d), RangeOf(e))
  BY <1>9 DEF IInv, SchedulerInv, FetchedOnce
<1>12. \A r, q \in (pending \cup new) \cup inflight : r # q => Apart(r, q)
  BY <1>6, <1>9, <1>10, <1>11
<1>13. \A r \in (pending \cup new) \cup inflight, e \in fetched : Apart(r, RangeOf(e))
  BY <1>9, <1>10, <1>11
<1>14. \A r \in (pending \cup new) \cup inflight \cup {RangeOf(e) : e \in fetched} :
         r.end <= scheduled' /\ r.end <= handled' + UnhandledCommitsThreshold
  <2>1. \A r \in Held : r.end <= scheduled' /\ r.end <= handled' + UnhandledCommitsThreshold
    BY SMT, <1>1, <1>2, <1>8
  <2>2. \A r \in new : r.end <= scheduled' /\ r.end <= handled' + UnhandledCommitsThreshold
    BY <1>1, <1>7, <1>8
  <2> QED BY <1>9, <2>1, <2>2
<1>15. \A i \in index + 1 .. scheduled' :
         \E r \in (pending \cup new) \cup inflight \cup {RangeOf(e) : e \in fetched} : i \in r.start .. r.end
  <2> SUFFICES ASSUME NEW i \in index + 1 .. scheduled'
               PROVE  \E r \in new \cup Held : i \in r.start .. r.end
    BY <1>9
  <2>1. i \in Nat /\ i > index /\ i <= scheduled'
    BY SMT, <1>2, <1>8
  <2>2. CASE i <= scheduled
    <3>1. i \in synced + 1 .. scheduled
      BY SMT, <1>2, <1>3, <2>1, <2>2
    <3> QED BY <3>1 DEF IInv, SchedulerInv, NothingLost
  <2>3. CASE ~ (i <= scheduled)
    <3>1. PICK r \in new : scheduled' = r.end
      BY <1>8, <2>1, <2>3
    <3>2. i \in after + 1 .. r.end
      BY SMTT(60), <1>2, <1>4, <1>7, <2>1, <2>3, <3>1
    <3> QED BY <1>6, <3>2
  <2> QED BY <2>2, <2>3
<1>16. pending' \cup inflight' = (pending \cup new) \cup inflight /\ pending' \subseteq pending \cup new
  BY <1>1, StartFetchesMoves
<1>17. (pending \cup new) \cap inflight = {}
  <2>1. \A r \in new : r \notin inflight
    BY SMT, <1>2, <1>7, <1>9
  <2> QED BY <1>11, <2>1
<1>18. pending' \cap inflight' = {}
  <2>1. pending' \cap inflight = {}
    BY <1>16, <1>17
  <2> QED BY <1>1, <2>1, StartFetchesMoves
<1>19. pending \cup new \subseteq CommitRange /\ inflight \subseteq CommitRange
  BY <1>6 DEF IInv, SchedulerInv
<1>20. \A e \in fetched : Segment(e)
  BY <1>9 DEF IInv, SchedulerInv
<1>21. Ready(pending \cup new, inflight, fetched, index, scheduled',
             handled' + UnhandledCommitsThreshold)
  BY <1>2, <1>8, <1>11, <1>12, <1>13, <1>14, <1>15, <1>19, <1>20 DEF Ready
<1>22. Retained(pending \cup new, inflight, fetched, index)
  BY <1>1, <1>9, <1>16, <1>18 DEF Retained
<1>23. SchedulerInv'
  BY <1>21, <1>22, SchedulerStep
<1> QED BY SMT, <1>1, <1>2, <1>23

(* An answer to a fetch keeps the invariant of the scheduler: what it      *)
(* brings and what is left of its range replace the range.                 *)
LEMMA FetchStep ==
  ASSUME IInv, NEW r \in inflight, FetchReturns(r)
  PROVE  SchedulerInv' /\ synced' <= last_commit_index
<1> USE Zenon
<1>1. PICK result \in Results : result[1] = r /\ HandleFetchResult(r, result[2])
  BY DEF FetchReturns
<1> DEFINE commits == result[2]
           got     == RangeOf(commits)
           rest    == IF got.end < r.end THEN {[start |-> got.end + 1, end |-> r.end]} ELSE {}
           index   == Larger(synced, last_commit_index)
           entries == IF index < got.end THEN fetched \cup {commits} ELSE fetched
           ranges  == pending \cup rest
           running == inflight \ {r}
<1>2. /\ sending = << >> /\ scheduled' = scheduled /\ handled' = handled
      /\ ProcessFetched(ranges, running, entries, index)
  BY <1>1 DEF HandleFetchResult
<1>3. Segment(commits) /\ got.start = r.start /\ got.end <= r.end /\ got \in CommitRange
  BY <1>1, ResultsAreSegments DEF Segment
<1>4. /\ MaxIndex \in Nat /\ UnhandledCommitsThreshold \in Nat
      /\ synced \in Nat /\ scheduled \in Nat /\ last_commit_index \in Nat /\ handled \in Nat
      /\ index = last_commit_index /\ index \in 0 .. MaxIndex
      /\ \A q \in Held : /\ q \in CommitRange /\ q.start \in Nat /\ q.end \in Nat
                         /\ q.start <= q.end /\ q.end <= scheduled
                         /\ q.end <= handled + UnhandledCommitsThreshold
  BY Facts
<1>5. scheduled \in 0 .. MaxIndex /\ synced <= index
  BY <1>4 DEF IInv, SchedulerInv
<1>6. Held = pending \cup inflight \cup {RangeOf(e) : e \in fetched} /\ Entries = fetched /\ r \in Held
  BY <1>2 DEF Entries, Held
<1>7. got.start \in Nat /\ got.end \in Nat /\ got.start <= got.end /\ r.end \in 1 .. MaxIndex
  <2>1. r \in CommitRange
    BY <1>4, <1>6
  <2> HIDE DEF got
  <2> QED BY SMT, <1>3, <1>4, <2>1 DEF CommitRange
<1>8. \A q \in rest : /\ q \in CommitRange /\ q.start = got.end + 1 /\ q.end = r.end
                      /\ q.start \in Nat /\ q.end \in Nat /\ q.start <= q.end
  <2>1. CASE got.end < r.end
    <3>1. got.end + 1 \in 1 .. MaxIndex /\ got.end + 1 <= r.end
      BY SMT, <1>4, <1>7, <2>1
    <3> QED BY SMTT(60), <1>7, <2>1, <3>1 DEF CommitRange
  <2>2. CASE ~ (got.end < r.end)
    BY <2>2
  <2> QED BY <2>1, <2>2
<1>9. /\ pending \cap inflight = {}
      /\ \A p, q \in pending \cup inflight : p # q => Apart(p, q)
      /\ \A q \in pending \cup inflight, e \in fetched : Apart(q, RangeOf(e))
      /\ \A d, e \in fetched : d # e => Apart(RangeOf(d), RangeOf(e))
      /\ \A e \in fetched : Segment(e)
  BY <1>6 DEF IInv, SchedulerInv, FetchedOnce
<1>10. /\ \A e \in entries : e \in fetched \/ e = commits
       /\ fetched \subseteq entries
       /\ index < got.end => commits \in entries
  OBVIOUS
<1>11. \A p, q \in rest : p = q
  OBVIOUS
<1>12. ASSUME NEW q \in Held, q # r, Apart(q, r)
       PROVE  /\ Apart(q, got) /\ Apart(got, q)
              /\ \A p \in rest : Apart(p, q) /\ Apart(q, p)
  BY SMTT(60), <1>3, <1>4, <1>6, <1>7, <1>8, <1>12 DEF Apart
<1>13. \A p \in rest : Apart(p, got)
  BY SMT, <1>7, <1>8 DEF Apart
<1>14. \A q \in pending \cup running : q \in Held /\ q # r /\ Apart(q, r)
  BY <1>6, <1>9
<1>15. \A e \in fetched : RangeOf(e) \in Held /\ RangeOf(e) # r /\ Apart(RangeOf(e), r)
  <2> SUFFICES ASSUME NEW e \in fetched
               PROVE  RangeOf(e) \in Held /\ RangeOf(e) # r /\ Apart(RangeOf(e), r)
    OBVIOUS
  <2>1. RangeOf(e) \in Held /\ Apart(r, RangeOf(e))
    BY <1>6, <1>9
  <2> QED BY SMT, <1>4, <1>6, <2>1 DEF Apart
<1> HIDE DEF rest, index, entries, got
<1>16. \A p, q \in ranges \cup running : p # q => Apart(p, q)
  BY <1>9, <1>11, <1>12, <1>14
<1>17. \A q \in ranges \cup running, e \in entries : Apart(q, RangeOf(e))
  <2> SUFFICES ASSUME NEW q \in ranges \cup running, NEW e \in entries
               PROVE  Apart(q, RangeOf(e))
    OBVIOUS
  <2>1. CASE e \in fetched
    BY <1>9, <1>12, <1>15, <2>1
  <2>2. CASE e = commits
    BY <1>12, <1>13, <1>14, <2>2 DEF got
  <2> QED BY <1>10, <2>1, <2>2
<1>18. \A d, e \in entries : d # e => Apart(RangeOf(d), RangeOf(e))
  BY <1>9, <1>10, <1>12, <1>15 DEF got
<1>19. \A e \in entries : Segment(e)
  BY <1>3, <1>9, <1>10
<1>20. ranges \subseteq CommitRange /\ running \subseteq CommitRange /\ ranges \cap running = {}
  <2>1. \A q \in rest : q \notin running
    <3> SUFFICES ASSUME NEW q \in rest, q \in running PROVE FALSE
      OBVIOUS
    <3>1. Apart(q, q)
      BY <1>12, <1>14
    <3> QED BY SMT, <1>8, <3>1 DEF Apart
  <2> QED BY <1>8, <1>9, <2>1 DEF IInv, SchedulerInv
<1>21. \A q \in ranges \cup running \cup {RangeOf(e) : e \in entries} :
         q.end <= scheduled' /\ q.end <= handled' + UnhandledCommitsThreshold
  <2> SUFFICES ASSUME NEW q \in ranges \cup running \cup {RangeOf(e) : e \in entries}
               PROVE  q.end <= scheduled /\ q.end <= handled + UnhandledCommitsThreshold
    BY <1>2
  <2>1. CASE q \in Held
    BY <1>4, <2>1
  <2>2. CASE q \in rest \/ q = got
    <3>1. q.end <= r.end /\ q.end \in Nat
      BY SMT, <1>3, <1>7, <1>8, <2>2
    <3> QED BY SMT, <1>4, <1>6, <3>1
  <2>3. q \in Held \/ q \in rest \/ q = got
    BY <1>6, <1>10 DEF got
  <2> QED BY <2>1, <2>2, <2>3
<1>22. \A i \in index + 1 .. scheduled' :
         \E q \in ranges \cup running \cup {RangeOf(e) : e \in entries} : i \in q.start .. q.end
  <2> SUFFICES ASSUME NEW i \in index + 1 .. scheduled
               PROVE  \E q \in ranges \cup running \cup {RangeOf(e) : e \in entries} : i \in q.start .. q.end
    BY <1>2
  <2>1. i \in synced + 1 .. scheduled /\ i \in Nat /\ i > index
    BY SMT, <1>4, <1>5
  <2>2. PICK q \in Held : i \in q.start .. q.end
    BY <2>1 DEF IInv, SchedulerInv, NothingLost
  <2>3. CASE q # r
    <3>1. q \in ranges \cup running \cup {RangeOf(e) : e \in entries}
      BY <1>6, <1>10, <2>3
    <3> QED BY <2>2, <3>1
  <2>4. CASE q = r /\ i <= got.end
    <3>1. commits \in entries
      BY SMTT(60), <1>4, <1>7, <1>10, <2>1, <2>4
    <3>2. i \in got.start .. got.end
      BY SMTT(60), <1>3, <1>7, <2>1, <2>2, <2>4
    <3> QED BY <3>1, <3>2 DEF got
  <2>5. CASE q = r /\ ~ (i <= got.end)
    <3>1. got.end < r.end
      BY SMTT(60), <1>7, <2>1, <2>2, <2>5
    <3>2. [start |-> got.end + 1, end |-> r.end] \in rest
      BY <3>1 DEF rest
    <3>3. i \in got.end + 1 .. r.end
      BY SMTT(60), <1>7, <2>1, <2>2, <2>5
    <3> QED BY SMTT(60), <3>2, <3>3
  <2> QED BY <2>3, <2>4, <2>5
<1> HIDE DEF ranges, running
<1>23. Ready(ranges, running, entries, index, scheduled', handled' + UnhandledCommitsThreshold)
  BY <1>2, <1>4, <1>5, <1>16, <1>17, <1>18, <1>19, <1>20, <1>21, <1>22 DEF Ready
<1>24. SchedulerInv' /\ synced' = index
  BY <1>2, <1>20, <1>23, ProcessStep
<1> QED BY SMT, <1>4, <1>24

(* A segment of the chain that starts no later than after its end extends  *)
(* it to the end of the segment.                                           *)
LEMMA SegmentExtends ==
  ASSUME CoreInv, NEW s, Segment(s), RangeOf(s).start <= last_commit_index + 1,
         chain' = chain \o NewCommits(s)
  PROVE  /\ chain' \in Seq(Commit) /\ Len(chain') <= MaxIndex
         /\ Len(chain) <= Len(chain') /\ RangeOf(s).end <= Len(chain')
         /\ ChainAgrees'
<1> DEFINE n == Len(chain)
           a == RangeOf(s).start
           b == RangeOf(s).end
           p == Larger(1, last_commit_index - s[1].index + 2)
           t == SubSeq(s, p, Len(s))
<1>1. chain \in Seq(Commit) /\ n \in Nat /\ n <= MaxIndex /\ \A i \in 1 .. n : chain[i] = Main[i]
  <2>1. chain \in Seq(Commit) /\ n <= MaxIndex /\ \A i \in 1 .. n : chain[i] = Main[i]
    BY Zenon DEF CoreInv, ChainAgrees
  <2>2. n \in Nat
    BY SMT, <2>1
  <2> QED BY Zenon, <2>1, <2>2
<1>2. s \in Seq(Commit) /\ MaxIndex \in Nat /\ a \in Nat /\ b \in Nat /\ 1 <= a /\ a <= b /\ b <= MaxIndex
      /\ Len(s) = b - a + 1 /\ a = s[1].index
      /\ \A k \in 1 .. Len(s) : s[k] = Main[a + k - 1]
  <2>1. s \in Seq(Commit) /\ RangeOf(s) \in CommitRange /\ Len(s) = b - a + 1
        /\ \A k \in 1 .. Len(s) : s[k] = Main[a + k - 1]
    BY Zenon DEF Segment
  <2>2. a = s[1].index
    BY Zenon DEF RangeOf
  <2>3. a \in 1 .. MaxIndex /\ b \in 1 .. MaxIndex /\ a <= b
    BY Zenon, <2>1 DEF CommitRange
  <2> HIDE DEF a, b
  <2>4. MaxIndex \in Nat /\ a \in Nat /\ b \in Nat /\ 1 <= a /\ b <= MaxIndex
    BY SMT, <2>3, CertificatesAssumption
  <2> QED BY Zenon, <2>1, <2>2, <2>3, <2>4
<1>3. a <= n + 1 /\ last_commit_index = n
  BY Zenon DEF last_commit_index
<1>4. p = n - a + 2 /\ p \in Nat /\ p >= 1
  <2>1. p = Larger(1, n - a + 2)
    BY Zenon, <1>2, <1>3
  <2>2. n - a + 2 \in Int /\ n - a + 2 >= 1
    <3>1. n \in Nat /\ a \in Nat /\ a <= n + 1
      BY Zenon, <1>1, <1>2, <1>3
    <3> HIDE DEF n, a
    <3> QED BY SMT, <3>1
  <2> HIDE DEF n, a, p
  <2> QED BY <2>1, <2>2 DEF Larger
<1>5. chain' = chain \o t
  BY Zenon DEF NewCommits
<1> HIDE DEF n, a, b, p
<1> DEFINE len == Len(s)
<1>8. /\ n \in Nat /\ a \in Nat /\ b \in Nat /\ p \in Nat /\ len \in Nat /\ MaxIndex \in Nat
      /\ p = n - a + 2 /\ p >= 1 /\ len = b - a + 1 /\ 1 <= a /\ a <= b /\ b <= MaxIndex /\ n <= MaxIndex
  BY <1>1, <1>2, <1>4
<1> HIDE DEF len
<1>6. CASE p > Len(s)
  <2>1. t = << >>
    <3>1. s \in Seq(Commit) /\ p \in Nat /\ p > Len(s)
      BY Zenon, <1>2, <1>4, <1>6
    <3> QED BY SMT, <3>1
  <2> HIDE DEF t
  <2>2. chain' = chain
    BY <1>1, <1>5, <2>1
  <2>3. b <= n
    <3>1. p > len
      BY Zenon, <1>6 DEF len
    <3> QED BY <1>8, <3>1
  <2> QED BY <1>1, <2>2, <2>3 DEF n, b, ChainAgrees
<1>7. CASE ~ (p > Len(s))
  <2>1. t \in Seq(Commit) /\ Len(t) = Len(s) - p + 1 /\ \A k \in 1 .. Len(t) : t[k] = s[p + k - 1]
    <3>1. s \in Seq(Commit) /\ p \in 1 .. Len(s) /\ Len(s) \in 1 .. Len(s)
      <4>1. ~ (p > len)
        BY Zenon, <1>7 DEF len
      <4>2. p \in 1 .. len /\ len \in 1 .. len
        BY <1>8, <4>1
      <4> QED BY Zenon, <1>2, <4>2 DEF len
    <3> QED BY <3>1
  <2> HIDE DEF t
  <2>2. Len(t) \in Nat /\ n + Len(t) = b
    <3>1. Len(t) = len - p + 1 /\ ~ (p > len)
      BY Zenon, <1>7, <2>1 DEF len
    <3> QED BY <1>8, <3>1
  <2>3. \A k \in 1 .. Len(t) : t[k] = Main[n + k]
    <3> SUFFICES ASSUME NEW k \in 1 .. Len(t) PROVE t[k] = Main[n + k]
      BY Zenon
    <3>1. p + k - 1 \in 1 .. Len(s) /\ a + (p + k - 1) - 1 = n + k
      <4>1. Len(t) = len - p + 1 /\ k \in Nat /\ 1 <= k /\ k <= Len(t)
        BY <2>1, <2>2 DEF len
      <4>2. p + k - 1 \in 1 .. len /\ a + (p + k - 1) - 1 = n + k
        BY <1>8, <2>2, <4>1
      <4> QED BY Zenon, <4>2 DEF len
    <3>2. s[p + k - 1] = Main[a + (p + k - 1) - 1]
      BY Zenon, <1>2, <3>1
    <3> QED BY Zenon, <2>1, <3>1, <3>2
  <2>4. /\ chain' \in Seq(Commit) /\ Len(chain') = n + Len(t)
        /\ \A i \in 1 .. n + Len(t) : chain'[i] = IF i <= n THEN chain[i] ELSE t[i - n]
    <3>1. chain \in Seq(Commit) /\ t \in Seq(Commit) /\ Len(chain) = n /\ chain' = chain \o t
      BY Zenon, <1>1, <1>5, <2>1 DEF n
    <3> QED BY <3>1
  <2>5. \A i \in 1 .. Len(chain') : chain'[i] = Main[i]
    <3> SUFFICES ASSUME NEW i \in 1 .. Len(chain') PROVE chain'[i] = Main[i]
      BY Zenon
    <3>1. CASE i <= n
      BY SMTT(60), <1>1, <2>2, <2>4, <3>1
    <3>2. CASE ~ (i <= n)
      <4>1. i - n \in 1 .. Len(t) /\ n + (i - n) = i
        BY <1>1, <2>2, <2>4, <3>2
      <4> QED BY Zenon, <2>3, <2>4, <3>2, <4>1
    <3> QED BY Zenon, <3>1, <3>2
  <2>6. ChainAgrees'
    BY Zenon, <2>5 DEF ChainAgrees
  <2>7. n <= n + Len(t)
    <3>1. n \in Nat /\ Len(t) \in Nat
      BY Zenon, <1>8, <2>2
    <3> QED BY SMT, <3>1
  <2>8. Len(chain') = b /\ b <= MaxIndex /\ b <= b /\ n <= Len(chain')
    <3>1. b <= b
      BY SMT, <1>8
    <3> QED BY Zenon, <1>8, <2>2, <2>4, <2>7, <3>1
  <2> QED BY Zenon, <2>4, <2>6, <2>8 DEF n, b
<1> QED BY Zenon, <1>6, <1>7

(* Core commits the batch it is given, and the scheduler goes on. *)
LEMMA AddStep ==
  ASSUME IInv, AddCertifiedCommits
  PROVE  SchedulerInv' /\ CoreInv' /\ synced' <= last_commit_index'
<1> USE Zenon
<1> DEFINE sent  == RangeOf(sending)
           index == Larger(synced, sent.end)
<1>1. /\ sending # << >> /\ chain' = chain \o NewCommits(sending)
      /\ ProcessFetched(pending, inflight, fetched, index)
      /\ voted' = voted /\ stored' = stored /\ handled' = handled
      /\ scheduled' = scheduled /\ restarts' = restarts
  BY DEF AddCertifiedCommits
<1>2. Entries = fetched \cup {sending} /\ Held = pending \cup inflight \cup {RangeOf(e) : e \in Entries}
  BY <1>1 DEF Entries, Held
<1>3. /\ MaxIndex \in Nat /\ UnhandledCommitsThreshold \in Nat
      /\ synced \in Nat /\ scheduled \in Nat /\ last_commit_index \in Nat /\ handled \in Nat
      /\ \A q \in Held : /\ q \in CommitRange /\ q.start \in Nat /\ q.end \in Nat
                         /\ q.start <= q.end /\ q.end <= scheduled
                         /\ q.end <= handled + UnhandledCommitsThreshold
  BY Facts
<1>4. /\ Segment(sending) /\ sent \in Held /\ sent.end \in Nat /\ sent.start \in Nat
      /\ sent.start <= synced + 1 /\ sent.end > synced
      /\ scheduled \in 0 .. MaxIndex /\ synced <= last_commit_index
  BY <1>1, <1>2, <1>3 DEF IInv, SchedulerInv
<1>5. index = sent.end /\ index \in 0 .. MaxIndex
  <2>1. sent.end <= MaxIndex
    BY SMT, <1>3, <1>4
  <2> HIDE DEF sent
  <2> QED BY SMT, <1>3, <1>4, <2>1 DEF Larger
<1>6. /\ pending \cap inflight = {}
      /\ \A p, q \in pending \cup inflight : p # q => Apart(p, q)
      /\ \A q \in pending \cup inflight, e \in fetched : Apart(q, RangeOf(e))
      /\ \A d, e \in fetched : d # e => Apart(RangeOf(d), RangeOf(e))
      /\ \A e \in fetched : Segment(e)
      /\ pending \subseteq CommitRange /\ inflight \subseteq CommitRange
  BY <1>2 DEF IInv, SchedulerInv, FetchedOnce
<1>7. \A q \in pending \cup inflight \cup {RangeOf(e) : e \in fetched} :
        q.end <= scheduled' /\ q.end <= handled' + UnhandledCommitsThreshold
  BY <1>1, <1>2, <1>3
<1>8. \A i \in index + 1 .. scheduled' :
        \E q \in pending \cup inflight \cup {RangeOf(e) : e \in fetched} : i \in q.start .. q.end
  <2> SUFFICES ASSUME NEW i \in index + 1 .. scheduled
               PROVE  \E q \in pending \cup inflight \cup {RangeOf(e) : e \in fetched} : i \in q.start .. q.end
    BY <1>1
  <2> HIDE DEF index, sent
  <2>1. i \in synced + 1 .. scheduled /\ i \in Nat /\ i > sent.end
    BY SMTT(60), <1>3, <1>4, <1>5
  <2>2. PICK q \in Held : i \in q.start .. q.end
    BY <2>1 DEF IInv, SchedulerInv, NothingLost
  <2>3. q # sent
    BY SMT, <1>4, <2>1, <2>2
  <2>4. q \in pending \cup inflight \cup {RangeOf(e) : e \in fetched}
    BY <1>2, <2>3 DEF sent
  <2> QED BY <2>2, <2>4
<1> HIDE DEF index
<1>9. Ready(pending, inflight, fetched, index, scheduled', handled' + UnhandledCommitsThreshold)
  BY <1>1, <1>4, <1>5, <1>6, <1>7, <1>8 DEF Ready
<1>10. SchedulerInv' /\ synced' = index
  BY <1>1, <1>6, <1>9, ProcessStep
<1>11. /\ chain' \in Seq(Commit) /\ Len(chain') <= MaxIndex
       /\ Len(chain) <= Len(chain') /\ sent.end <= Len(chain')
       /\ ChainAgrees'
  <2>1. sent.start <= last_commit_index + 1
    BY SMT, <1>3, <1>4
  <2> QED BY <1>1, <1>4, <2>1, SegmentExtends DEF IInv
<1>12. CoreInv'
  <2>1. stored' \in 0 .. Len(chain')
    <3>1. stored \in 0 .. Len(chain) /\ Len(chain) \in Nat /\ Len(chain') \in Nat
      BY SMT, <1>11 DEF IInv, CoreInv
    <3> QED BY SMT, <1>1, <1>11, <3>1
  <2> QED BY <1>1, <1>11, <2>1 DEF IInv, CoreInv
<1> QED BY <1>5, <1>10, <1>11, <1>12 DEF last_commit_index

-----------------------------------------------------------------------------
(* The invariant holds initially. *)
LEMMA InitInvariant == Init => IInv
<1> SUFFICES ASSUME Init PROVE IInv
  BY Zenon
<1>1. MaxIndex \in Nat /\ MaxRestarts \in Nat
  BY Zenon, CertificatesAssumption, SyncerAssumption
<1>2. Entries = {} /\ Held = {}
  BY Zenon DEF Init, Entries, Held
<1>3. SchedulerInv
  BY <1>1, <1>2 DEF Init, SchedulerInv, NothingLost, FetchedOnce, FetchAheadBounded
<1>4. Len(chain) = 0 /\ chain \in Seq(Commit)
  BY DEF Init
<1>5. CoreInv
  BY <1>1, <1>4 DEF Init, CoreInv, ChainAgrees
<1> QED BY <1>1, <1>3, <1>4, <1>5 DEF IInv, Init, last_commit_index

(* Every step keeps the invariant. *)
LEMMA StepInvariant == IInv /\ [Next]_vars => IInv'
<1> USE Zenon
<1> SUFFICES ASSUME IInv, [Next]_vars PROVE IInv'
  OBVIOUS
<1>1. /\ MaxIndex \in Nat /\ last_commit_index \in Nat /\ handled \in Nat /\ synced \in Nat
      /\ chain \in Seq(Commit) /\ Len(chain) \in Nat /\ Len(chain) <= MaxIndex
      /\ stored \in 0 .. Len(chain) /\ handled \in 0 .. stored
  BY Facts DEF IInv, CoreInv, last_commit_index
<1>2. CASE Tick
  <2>1. /\ voted' = voted /\ chain' = chain /\ stored' = stored /\ handled' = handled /\ restarts' = restarts
    BY <1>2 DEF Tick, Schedule
  <2>2. SchedulerInv' /\ synced' <= last_commit_index
    BY <1>2, TickStep
  <2>3. CoreInv'
    BY <2>1 DEF IInv, CoreInv, ChainAgrees
  <2> QED BY <2>1, <2>2, <2>3 DEF IInv, last_commit_index
<1>3. CASE \E r \in inflight : FetchReturns(r)
  <2>1. PICK r \in inflight : FetchReturns(r)
    BY <1>3
  <2>2. /\ voted' = voted /\ chain' = chain /\ stored' = stored /\ handled' = handled /\ restarts' = restarts
    BY <2>1 DEF FetchReturns, HandleFetchResult
  <2>3. SchedulerInv' /\ synced' <= last_commit_index
    BY <2>1, FetchStep
  <2>4. CoreInv'
    BY <2>2 DEF IInv, CoreInv, ChainAgrees
  <2> QED BY <2>2, <2>3, <2>4 DEF IInv, last_commit_index
<1>4. CASE AddCertifiedCommits
  BY <1>4, AddStep DEF IInv
<1>5. CASE \E a \in Authority, i \in VotedIndex : ObserveBlock(a, i)
  <2>1. PICK a \in Authority, i \in VotedIndex : ObserveBlock(a, i)
    BY <1>5
  <2>2. /\ voted' = [voted EXCEPT ![a] = i] /\ chain' = chain /\ stored' = stored
        /\ handled' = handled /\ restarts' = restarts /\ UNCHANGED schedulerVars
    BY <2>1 DEF ObserveBlock
  <2>3. voted' \in [Authority -> 0 .. MaxIndex]
    BY <2>2, SyncerAssumption DEF IInv, CoreInv
  <2>4. CoreInv'
    BY <2>2, <2>3 DEF IInv, CoreInv, ChainAgrees
  <2>5. SchedulerInv' /\ synced' = synced
    BY SMT, <1>1, <2>2, SchedulerIdle DEF IInv
  <2> QED BY <2>2, <2>4, <2>5 DEF IInv, last_commit_index
<1>6. CASE LocalCommit
  <2>1. /\ Len(chain) < MaxIndex /\ chain' = Append(chain, Main[Len(chain) + 1])
        /\ voted' = voted /\ stored' = stored /\ handled' = handled /\ restarts' = restarts
        /\ UNCHANGED schedulerVars
    <3>1. MaxLocal \in 0 .. MaxIndex
      BY SyncerAssumption
    <3> QED BY SMT, <1>1, <1>6, <3>1 DEF LocalCommit, last_commit_index
  <2>2. Main[Len(chain) + 1] \in Commit
    BY SMTT(60), <1>1, <2>1, CertificatesAssumption
  <2>3. /\ chain' \in Seq(Commit) /\ Len(chain') = Len(chain) + 1
        /\ \A i \in 1 .. Len(chain) + 1 : chain'[i] = IF i <= Len(chain) THEN chain[i] ELSE Main[Len(chain) + 1]
    BY SMTT(60), <1>1, <2>1, <2>2
  <2>4. \A i \in 1 .. Len(chain') : chain'[i] = Main[i]
    <3>1. \A i \in 1 .. Len(chain) : chain[i] = Main[i]
      BY DEF IInv, CoreInv, ChainAgrees
    <3> QED BY SMTT(60), <1>1, <2>3, <3>1
  <2>5. CoreInv'
    BY SMTT(60), <1>1, <2>1, <2>3, <2>4 DEF IInv, CoreInv, ChainAgrees
  <2>6. SchedulerInv' /\ synced' = synced
    BY SMT, <1>1, <2>1, SchedulerIdle DEF IInv
  <2>7. synced' <= last_commit_index'
    BY SMT, <1>1, <2>3, <2>6 DEF IInv, last_commit_index
  <2> QED BY <2>5, <2>6, <2>7 DEF IInv
<1>7. CASE Flush
  <2>1. /\ stored' = Len(chain) /\ voted' = voted /\ chain' = chain /\ handled' = handled
        /\ restarts' = restarts /\ UNCHANGED schedulerVars
    BY <1>7 DEF Flush, last_commit_index
  <2>2. CoreInv'
    BY SMT, <1>1, <2>1 DEF IInv, CoreInv, ChainAgrees
  <2>3. SchedulerInv' /\ synced' = synced
    BY SMT, <1>1, <2>1, SchedulerIdle DEF IInv
  <2> QED BY <2>1, <2>2, <2>3 DEF IInv, last_commit_index
<1>8. CASE HandleCommit
  <2>1. /\ handled < stored /\ handled' = handled + 1 /\ voted' = voted /\ chain' = chain
        /\ stored' = stored /\ restarts' = restarts /\ UNCHANGED schedulerVars
    BY <1>8 DEF HandleCommit
  <2>2. handled' \in 0 .. stored /\ handled' \in Nat /\ handled <= handled'
    BY SMT, <1>1, <2>1
  <2>3. CoreInv'
    BY <2>1, <2>2 DEF IInv, CoreInv, ChainAgrees
  <2>4. SchedulerInv' /\ synced' = synced
    BY <1>1, <2>1, <2>2, SchedulerIdle DEF IInv
  <2> QED BY <2>1, <2>3, <2>4 DEF IInv, last_commit_index
<1>9. CASE Restart
  <2>1. /\ restarts < MaxRestarts /\ restarts' = restarts + 1
        /\ voted' = [a \in Authority |-> 0] /\ chain' = SubSeq(chain, 1, stored)
        /\ handled' \in 0 .. handled /\ stored' = stored
        /\ pending' = {} /\ inflight' = {} /\ fetched' = {} /\ scheduled' = 0
        /\ synced' = stored /\ sending' = << >>
    BY <1>9 DEF Restart
  <2>2. Entries' = {} /\ Held' = {}
    BY <2>1 DEF Entries, Held
  <2>3. stored \in 0 .. MaxIndex /\ stored \in Nat /\ stored <= Len(chain)
    BY SMTT(60), <1>1
  <2>4. SchedulerInv'
    BY SMTT(60), <1>1, <2>1, <2>2, <2>3 DEF SchedulerInv, NothingLost, FetchedOnce, FetchAheadBounded
  <2>5. /\ chain' \in Seq(Commit) /\ Len(chain') = stored
        /\ \A i \in 1 .. stored : chain'[i] = chain[i]
    BY SMTT(60), <1>1, <2>1, <2>3
  <2>6. ChainAgrees'
    <3>1. \A i \in 1 .. Len(chain) : chain[i] = Main[i]
      BY SMT DEF IInv, CoreInv, ChainAgrees
    <3>2. \A i \in 1 .. stored : i \in 1 .. Len(chain)
      BY SMTT(60), <1>1, <2>3
    <3> QED BY <2>5, <3>1, <3>2 DEF ChainAgrees
  <2>7. restarts' \in 0 .. MaxRestarts /\ handled' \in 0 .. stored' /\ stored' \in 0 .. Len(chain')
        /\ Len(chain') <= MaxIndex
    BY SMTT(60), <1>1, <2>1, <2>3, <2>5, SyncerAssumption DEF IInv, CoreInv
  <2>8. voted' \in [Authority -> 0 .. MaxIndex]
    BY SMT, <1>1, <2>1
  <2>9. CoreInv'
    BY <2>5, <2>6, <2>7, <2>8 DEF CoreInv
  <2>10. synced' <= last_commit_index'
    BY SMT, <2>1, <2>3, <2>5 DEF last_commit_index
  <2> QED BY <2>4, <2>9, <2>10 DEF IInv
<1>10. CASE UNCHANGED vars
  <2>1. UNCHANGED <<voted, chain, stored, handled, schedulerVars, restarts>>
    BY <1>10 DEF vars
  <2>2. CoreInv'
    BY <2>1 DEF IInv, CoreInv, ChainAgrees
  <2>3. SchedulerInv' /\ synced' = synced
    BY SMT, <1>1, <2>1, SchedulerIdle DEF IInv
  <2> QED BY <2>1, <2>2, <2>3 DEF IInv, last_commit_index
<1> QED BY <1>2, <1>3, <1>4, <1>5, <1>6, <1>7, <1>8, <1>9, <1>10 DEF Next

(* The invariant holds in every behaviour. *)
LEMMA Invariance == Spec => []IInv
<1>1. Init => IInv
  BY Zenon, InitInvariant
<1>2. IInv /\ [Next]_vars => IInv'
  BY Zenon, StepInvariant
<1> QED BY <1>1, <1>2, PTL DEF Spec

(* Types hold, of everything the scheduler, Core and the handler keep. *)
THEOREM TypesHold == Spec => []TypeOK
<1>1. IInv => TypeOK
  <2> SUFFICES ASSUME IInv PROVE TypeOK
    BY Zenon
  <2>1. \A e \in fetched : e \in Seq(Commit) /\ e # << >> /\ RangeOf(e) \in CommitRange
    BY Zenon DEF IInv, SchedulerInv, Entries, Segment
  <2>2. sending \in Seq(Commit)
    <3>1. CASE sending = << >>
      BY <3>1
    <3>2. CASE sending # << >>
      BY Zenon, <3>2 DEF IInv, SchedulerInv, Entries, Segment
    <3> QED BY Zenon, <3>1, <3>2
  <2> QED BY Zenon, <2>1, <2>2 DEF IInv, SchedulerInv, CoreInv, TypeOK
<1> QED BY <1>1, Invariance, PTL

(* A scheduled commit is never lost, whatever part of its range each peer  *)
(* returns (commit_syncer.rs::handle_fetch_result).                        *)
THEOREM NothingEverLost == Spec => []NothingLost
<1>1. IInv => NothingLost
  BY Zenon DEF IInv, SchedulerInv
<1> QED BY <1>1, Invariance, PTL

(* No commit is asked for twice (commit_syncer.rs::try_schedule_once).     *)
THEOREM NothingFetchedTwice == Spec => []FetchedOnce
<1>1. IInv => FetchedOnce
  BY Zenon DEF IInv, SchedulerInv
<1> QED BY <1>1, Invariance, PTL

(* Core never finds a gap before the commits it is given, so               *)
(* core.rs::filter_new_commits never fails.                                *)
THEOREM CoreSeesNoGap == Spec => []NoGapAtCore
<1>1. IInv => NoGapAtCore
  <2> SUFFICES ASSUME IInv, sending # << >>
               PROVE  sending[1].index <= last_commit_index + 1
    BY Zenon DEF NoGapAtCore
  <2>1. RangeOf(sending).start <= synced + 1 /\ synced <= last_commit_index
    BY Zenon DEF IInv, SchedulerInv
  <2>2. RangeOf(sending) \in Held
    BY Zenon DEF Held, Entries
  <2>3. RangeOf(sending).start \in Nat /\ synced \in Nat /\ last_commit_index \in Nat
    BY Zenon, <2>2, Facts
  <2>4. RangeOf(sending).start <= last_commit_index + 1
    BY <2>1, <2>3
  <2> QED BY Zenon, <2>4 DEF RangeOf
<1> QED BY <1>1, Invariance, PTL

(* A validator that syncs holds the commits of the committee, given that   *)
(* every quorum has a truthful member and digests do not collide           *)
(* (commit_syncer.rs::verify_commits).                                     *)
THEOREM SyncedChainAgrees == Spec => []ChainAgrees
<1>1. IInv => ChainAgrees
  BY Zenon DEF IInv, CoreInv
<1> QED BY <1>1, Invariance, PTL

(* What is fetched ahead of the handler stays within                       *)
(* commit_syncer.rs::unhandled_commits_threshold.                          *)
THEOREM FetchAheadStaysBounded == Spec => []FetchAheadBounded
<1>1. IInv => FetchAheadBounded
  BY Zenon DEF IInv, SchedulerInv
<1> QED BY <1>1, Invariance, PTL
=============================================================================
