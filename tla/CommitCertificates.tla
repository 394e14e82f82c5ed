-------------------------- MODULE CommitCertificates --------------------------
(***************************************************************************)
(* How a range of commits is served to a lagging validator and verified by *)
(* it (authority_service.rs::handle_fetch_commits,                         *)
(* commit_syncer.rs::verify_commits in consensus/core/src).  Only the last *)
(* commit of an answer carries votes; the earlier ones are certified by    *)
(* the chain of digests.                                                   *)
(*                                                                         *)
(* A commit is its index, its digest and the digest of the commit before   *)
(* it; an answer is a sequence of commits and the votes of the blocks that *)
(* come with it, a set of pairs of an author and the commit voted for.     *)
(***************************************************************************)
EXTENDS StakeAggregator, Sequences

CONSTANTS
  Faulty,         \* the authorities whose votes need not be truthful
  MaxIndex,       \* bound: the number of commits of the committee
  Commit,         \* every commit a peer may send, on the chain or not
  Main,           \* Main[i]: the commit the committee agreed on at index i
  BatchSize       \* commit_sync_batch_size

ASSUME CertificatesAssumption ==
  /\ MaxIndex \in Nat
  /\ BatchSize \in Nat \ {0}
  /\ Commit \subseteq [index : Nat \ {0}, digest : Nat, previous : Nat]
  /\ Main \in [1 .. MaxIndex -> Commit]
  /\ \A i \in 1 .. MaxIndex : Main[i].index = i
  /\ \A i \in 2 .. MaxIndex : Main[i].previous = Main[i - 1].digest
  /\ \A x, y \in Commit : x.digest = y.digest => x = y
  /\ \A Q \in Quorum : ~ (Q \subseteq Faulty)

(* The ranges of indices, with inclusive bounds *)
CommitRange == {r \in [start : 1 .. MaxIndex, end : 1 .. MaxIndex] : r.start <= r.end}

Size(r) == r.end - r.start + 1

(* The order of CommitRange: by start, then by end *)
Before(r, q) == r.start < q.start \/ (r.start = q.start /\ r.end < q.end)

(* Blocks are signed: a vote of a truthful authority is for a commit the   *)
(* committee agreed on.                                                    *)
Votes == {v \in Authority \X Commit :
            v[1] \in Faulty \/ \E i \in 1 .. MaxIndex : v[2] = Main[i]}

Voters(votes, commit) == {a \in Authority : <<a, commit>> \in votes}

-----------------------------------------------------------------------------
(* handle_fetch_commits of a truthful peer whose store holds the first     *)
(* `last` commits and `votes`: the commits of the range up to the last one *)
(* that the votes certify.                                                 *)
ServedEnd(r, last) ==
  LET inclusive_end == IF r.end < r.start + BatchSize - 1
                         THEN r.end ELSE r.start + BatchSize - 1
  IN  IF last < inclusive_end THEN last ELSE inclusive_end

HandleFetchCommits(r, last, votes) ==
  LET certified == {i \in r.start .. ServedEnd(r, last) :
                      ReachedQuorum({v[1] : v \in {w \in votes : w[2].index = i}})}
      end == CHOOSE i \in certified : \A j \in certified : j <= i
  IN  IF certified = {}
        THEN [commits |-> << >>, votes |-> {}]
        ELSE [commits |-> [k \in 1 .. (end - r.start + 1) |-> Main[r.start + k - 1]],
              votes   |-> {v \in votes : v[2].index = end}]

-----------------------------------------------------------------------------
(* verify_commits.  Commits past the end of the range are dropped, the     *)
(* first of them only after its link has been checked.                     *)
Kept(r, commits) == IF Len(commits) < Size(r) THEN Len(commits) ELSE Size(r)

Linked(r, commits) ==
  \A k \in 1 .. Len(commits) : k <= Size(r) + 1 =>
    IF k = 1
      THEN commits[k].index = r.start
      ELSE /\ commits[k].index = commits[k - 1].index + 1
           /\ commits[k].previous = commits[k - 1].digest

(* Mutant: only the indices of the commits are compared. *)
VerifiesIndices(r, answer) ==
  /\ answer.commits # << >>
  /\ \A k \in 1 .. Kept(r, answer.commits) : answer.commits[k].index = r.start + k - 1
  /\ ReachedQuorum(Voters(answer.votes, answer.commits[Kept(r, answer.commits)]))

Verifies(r, answer) ==
  /\ answer.commits # << >>
  /\ Linked(r, answer.commits)
  /\ ReachedQuorum(Voters(answer.votes, answer.commits[Kept(r, answer.commits)]))

Verified(r, answer) == SubSeq(answer.commits, 1, Kept(r, answer.commits))
=============================================================================
