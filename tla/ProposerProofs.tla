---------------------------- MODULE ProposerProofs ----------------------------
(***************************************************************************)
(* Proofs about Proposer, for every committee in which no single authority *)
(* is a quorum, every number of rounds, GC depth, cache size and number of *)
(* crashes.                                                                *)
(***************************************************************************)
EXTENDS Proposer, WellFoundedInduction, TLAPS

(* A non-empty set of naturals has a least element. *)
LEMMA MinExists ==
  ASSUME NEW S \in SUBSET Nat, S # {}
  PROVE  \E m \in S : \A k \in S : m <= k
<1> DEFINE R == OpToRel(<, Nat)
<1>1. IsWellFoundedOn(R, Nat)
  BY Zenon, NatLessThanWellFounded
<1>2. PICK m \in S : \A k \in S : ~(<<k, m>> \in R)
  <2> HIDE DEF R
  <2> QED BY Zenon, <1>1, WFMin
<1>3. \A k \in S : ~(k < m)
  BY Zenon, <1>2 DEF OpToRel
<1> HIDE DEF R
<1> QED BY <1>3

(* A set of naturals with an upper bound in Nat has a greatest element. *)
LEMMA MaxExists ==
  ASSUME NEW S \in SUBSET Nat, S # {}, NEW u \in Nat, \A k \in S : k <= u
  PROVE  \E m \in S : \A k \in S : k <= m
<1> DEFINE T == {u - k : k \in S}
<1>1. T \in SUBSET Nat /\ T # {}
  <2>1. \A k \in S : u - k \in Nat
    OBVIOUS
  <2> QED BY Zenon, <2>1
<1>2. PICK t \in T : \A j \in T : t <= j
  <2> HIDE DEF T
  <2> QED BY Zenon, <1>1, MinExists
<1>3. PICK m \in S : t = u - m
  BY Zenon
<1>4. \A k \in S : u - m <= u - k
  BY Zenon, <1>2, <1>3
<1> QED BY <1>4

(* ThresholdClock::add_block leaves the vote of a single authority with a  *)
(* quorum in the aggregator; the proofs leave out such committees.         *)
NoDominantAuthority == \A a \in Authority : ~ReachedQuorum({a})

(* More authorities reach a quorum when fewer do. *)
LEMMA QuorumMonotone ==
  ASSUME NEW S, NEW T, S \subseteq T, ReachedQuorum(S)
  PROVE  ReachedQuorum(T)
BY Zenon DEF ReachedQuorum

(* A quorum of blocks in a round stays one when blocks are added. *)
LEMMA QuorumAtMonotone ==
  ASSUME NEW D, NEW E, D \subseteq E, NEW r, QuorumAt(D, r)
  PROVE  QuorumAt(E, r)
<1>1. AuthorsAt(D, r) \subseteq AuthorsAt(E, r)
  BY Zenon DEF AuthorsAt
<1> QED BY Zenon, <1>1, QuorumMonotone DEF QuorumAt

(* Nobody is not a quorum. *)
LEMMA EmptyNoQuorum == ~ReachedQuorum({})
BY Zenon, CommitteeAssumption DEF ReachedQuorum

(* What one block adds to the authors of a round. *)
LEMMA AuthorsAdd ==
  ASSUME NEW D \in SUBSET (Authority \X Rounds), NEW a \in Authority, NEW r \in Rounds, NEW s
  PROVE  /\ s = r => AuthorsAt(D \cup {<<a, r>>}, s) = AuthorsAt(D, s) \cup {a}
         /\ s # r => AuthorsAt(D \cup {<<a, r>>}, s) = AuthorsAt(D, s)
<1> USE Zenon
<1> DEFINE E == D \cup {<<a, r>>}
<1>1. {e \in E : e[2] = s} = {d \in D : d[2] = s} \cup {e \in {<<a, r>>} : e[2] = s}
  OBVIOUS
<1>2. s = r => {e \in {<<a, r>>} : e[2] = s} = {<<a, r>>}
  BY SMT
<1>3. s # r => {e \in {<<a, r>>} : e[2] = s} = {}
  BY SMT
<1>4. s = r => AuthorsAt(E, s) = AuthorsAt(D, s) \cup {a}
  <2> SUFFICES ASSUME s = r PROVE AuthorsAt(E, s) = AuthorsAt(D, s) \cup {a}
    OBVIOUS
  <2>1. {e \in E : e[2] = s} = {d \in D : d[2] = s} \cup {<<a, r>>}
    BY <1>1, <1>2
  <2>2. <<a, r>>[1] = a
    OBVIOUS
  <2>3. {e[1] : e \in {d \in D : d[2] = s} \cup {<<a, r>>}} = {e[1] : e \in {d \in D : d[2] = s}} \cup {a}
    BY <2>2, Zenon
  <2> QED BY <2>1, <2>3 DEF AuthorsAt
<1>5. s # r => AuthorsAt(E, s) = AuthorsAt(D, s)
  BY <1>1, <1>3 DEF AuthorsAt
<1> QED BY <1>4, <1>5

(* The last round of an authority bounds the rounds of its blocks, and is  *)
(* the round of one of them or 0.                                          *)
LEMMA LastRoundProperties ==
  ASSUME NEW D \in SUBSET (Authority \X Rounds), NEW a \in Authority
  PROVE  /\ LastRoundOf(a, D) \in Nat
         /\ \A b \in D : b[1] = a => b[2] <= LastRoundOf(a, D)
         /\ LastRoundOf(a, D) = 0 \/ <<a, LastRoundOf(a, D)>> \in D
<1> USE Zenon
<1> DEFINE S == {0} \cup {b[2] : b \in {c \in D : c[1] = a}}
<1>1. MaxRound \in Nat
  BY ProposerAssumption
<1>2. \A b \in D : b[1] \in Authority /\ b[2] \in Nat /\ b[2] <= MaxRound /\ b = <<b[1], b[2]>>
  BY SMT, <1>1 DEF Rounds
<1>3. S \in SUBSET Nat /\ S # {} /\ \A k \in S : k <= MaxRound
  BY SMT, <1>1, <1>2
<1>4. \E m \in S : \A k \in S : k <= m
  <2> HIDE DEF S
  <2> QED BY <1>1, <1>3, MaxExists
<1>5. LastRoundOf(a, D) = Max(S)
  BY DEF LastRoundOf
<1>6. Max(S) \in S /\ \A k \in S : k <= Max(S)
  <2> HIDE DEF S
  <2>1. \E m \in S : \A k \in S : m >= k
    BY <1>3, <1>4
  <2>2. Max(S) \in S /\ \A k \in S : Max(S) >= k
    BY <2>1 DEF Max
  <2> QED BY <1>3, <2>2
<1>7. Max(S) \in Nat
  BY <1>3, <1>6
<1>8. \A b \in D : b[1] = a => b[2] \in S
  OBVIOUS
<1>9. Max(S) = 0 \/ \E b \in D : b[1] = a /\ b[2] = Max(S)
  BY <1>6
<1> HIDE DEF S
<1>10. Max(S) = 0 \/ <<a, Max(S)>> \in D
  BY <1>2, <1>9
<1> QED BY <1>5, <1>6, <1>7, <1>8, <1>10

(* The clock stays exact when a block is added, whatever its round. *)
LEMMA ClockStep ==
  ASSUME NoDominantAuthority,
         NEW D \in SUBSET (Authority \X Rounds), NEW c \in Clocks, ExactFor(D, c),
         NEW a \in Authority, NEW r \in Rounds
  PROVE  /\ AddBlock(c, a, r) \in Clocks
         /\ ExactFor(D \cup {<<a, r>>}, AddBlock(c, a, r))
         /\ c.round <= AddBlock(c, a, r).round
<1> DEFINE E == D \cup {<<a, r>>}
           n == AddBlock(c, a, r)
<1> SUFFICES n \in Clocks /\ ExactFor(E, n) /\ c.round <= n.round
  BY Zenon
<1>1. r \in Nat /\ r >= 1 /\ c.round \in Nat /\ c.round >= 1 /\ c.votes \in SUBSET Authority
  BY ProposerAssumption DEF Rounds, Clocks
<1>2. \A b \in E : b \in D \/ b[2] = r
  OBVIOUS
<1>3. \A b \in D : b[2] \in Nat /\ b[2] <= c.round
  BY DEF ExactFor, Rounds
<1>4. AuthorsAt(E, r) = AuthorsAt(D, r) \cup {a} /\ \A s : s # r => AuthorsAt(E, s) = AuthorsAt(D, s)
  BY SMTT(60), AuthorsAdd
<1>5. \A s \in Nat : s > c.round => AuthorsAt(D, s) = {}
  BY <1>1, <1>3 DEF AuthorsAt
<1>6. \A s : QuorumAt(D, s) => QuorumAt(E, s)
  BY Zenon, QuorumAtMonotone
<1> HIDE DEF E, n
<1>7. CASE r < c.round
  <2>1. n = c
    BY <1>1, <1>7 DEF AddBlock, n
  <2>2. AuthorsAt(E, c.round) = AuthorsAt(D, c.round)
    BY <1>1, <1>4, <1>7
  <2>3. \A b \in E : b[2] <= c.round
    BY <1>1, <1>2, <1>3, <1>7
  <2> QED BY <1>1, <1>6, <2>1, <2>2, <2>3 DEF ExactFor, QuorumAt
<1>8. CASE r = c.round /\ ReachedQuorum(c.votes \cup {a})
  <2>1. n = [round |-> r + 1, votes |-> {}]
    BY <1>1, <1>8 DEF AddBlock, n
  <2>2. AuthorsAt(E, r + 1) = {}
    BY <1>1, <1>4, <1>5, <1>8
  <2>3. QuorumAt(E, r)
    <3>1. AuthorsAt(E, r) = c.votes \cup {a}
      BY Zenon, <1>4, <1>8 DEF ExactFor
    <3> QED BY Zenon, <3>1, <1>8 DEF QuorumAt
  <2>4. \A b \in E : b[2] <= r + 1
    BY <1>1, <1>2, <1>3, <1>8
  <2>5. n \in Clocks /\ n.round = r + 1 /\ n.votes = {} /\ (r + 1) - 1 = r
    BY <1>1, <2>1 DEF Clocks
  <2>6. ~QuorumAt(E, r + 1)
    BY Zenon, <2>2, EmptyNoQuorum DEF QuorumAt
  <2>7. c.round <= n.round
    BY <1>1, <1>8, <2>5
  <2> QED BY Zenon, <2>2, <2>3, <2>4, <2>5, <2>6, <2>7 DEF ExactFor
<1>9. CASE r = c.round /\ ~ReachedQuorum(c.votes \cup {a})
  <2>1. n = [c EXCEPT !.votes = @ \cup {a}]
    BY <1>1, <1>9 DEF AddBlock, n
  <2>2. n \in Clocks /\ n.round = r /\ n.votes = c.votes \cup {a}
    BY Zenon, <1>1, <1>9, <2>1 DEF Clocks
  <2>3. AuthorsAt(E, r) = c.votes \cup {a}
    BY Zenon, <1>4, <1>9 DEF ExactFor
  <2>4. \A b \in E : b[2] <= r
    BY <1>1, <1>2, <1>3, <1>9
  <2>5. AuthorsAt(E, r) # {}
    BY Zenon, <2>3
  <2> QED BY <1>1, <1>9, <2>2, <2>3, <2>4, <2>5 DEF ExactFor, QuorumAt
<1>10. CASE r > c.round
  <2>1. n = [round |-> r, votes |-> {a}]
    <3>1. ~ReachedQuorum({a}) /\ ~(r < c.round) /\ r # c.round
      BY <1>1, <1>10 DEF NoDominantAuthority
    <3> QED BY Zenon, <3>1 DEF AddBlock, n
  <2>2. n \in Clocks /\ n.round = r /\ n.votes = {a}
    BY <1>1, <2>1 DEF Clocks
  <2>3. AuthorsAt(E, r) = {a}
    BY Zenon, <1>1, <1>4, <1>5, <1>10
  <2>4. \A b \in E : b[2] <= r
    BY <1>1, <1>2, <1>3, <1>10
  <2> QED BY <1>1, <1>10, <2>2, <2>3, <2>4 DEF ExactFor, QuorumAt, NoDominantAuthority
<1> QED BY <1>1, <1>7, <1>8, <1>9, <1>10

-----------------------------------------------------------------------------
(* Every block comes with a quorum of parents. *)
Closed(blocks) == \A b \in blocks : b[2] = 1 \/ QuorumAt(blocks, b[2] - 1)

(* A block that is not loaded is at least two rounds below one that is. *)
Loaded(all, mem) == \A b \in all : b \in mem \/ \E c \in mem : c[2] >= b[2] + 2

(* Of every authority the last block is loaded. *)
Latest(all, mem) == \A b \in all : \E c \in mem : c[1] = b[1] /\ c[2] >= b[2]

Persisted ==
  /\ stage \in {"load", "recover", "flushed"} => dag \subseteq stored
  /\ stage \in {"created", "flushed"} => LastProposed # 0

(* The inductive invariant: the store and the DAG are causally closed, and *)
(* what a restart does not load is neither a parent of the current round   *)
(* nor an own last block.                                                  *)
IInv ==
  /\ TypeOK
  /\ ClockExact
  /\ Closed(stored)
  /\ Closed(dag \cup stored)
  /\ Loaded(dag \cup stored, dag \cup replay)
  /\ Latest(dag \cup stored, dag \cup replay)
  /\ Persisted
  /\ SentIsStored
  /\ NoEquivocation
(* Adding a block with its parents keeps a set of blocks closed. *)
LEMMA ClosedAdd ==
  ASSUME NEW D, NEW a, NEW r, Closed(D), r = 1 \/ QuorumAt(D, r - 1)
  PROVE  Closed(D \cup {<<a, r>>})
<1> DEFINE E == D \cup {<<a, r>>}
<1>1. \A s : QuorumAt(D, s) => QuorumAt(E, s)
  BY Zenon, QuorumAtMonotone
<1>2. \A b \in E : b \in D \/ b[2] = r
  OBVIOUS
<1> HIDE DEF E
<1>3. \A b \in E : b[2] = 1 \/ QuorumAt(E, b[2] - 1)
  BY Zenon, <1>1, <1>2 DEF Closed
<1>4. Closed(E)
  BY Zenon, <1>3 DEF Closed
<1> QED BY Zenon, <1>4 DEF E

(* A block that is accepted is in memory. *)
LEMMA LoadedAdd ==
  ASSUME NEW a \in Authority, NEW r \in Rounds, NEW all, NEW mem,
         Loaded(all, mem), Latest(all, mem)
  PROVE  /\ Loaded(all \cup {<<a, r>>}, mem \cup {<<a, r>>})
         /\ Latest(all \cup {<<a, r>>}, mem \cup {<<a, r>>})
<1>1. r \in Nat
  BY DEF Rounds
<1> QED BY <1>1 DEF Loaded, Latest

(* The lesser of two integers is neither above the one nor the other. *)
LEMMA MinOfTwo ==
  ASSUME NEW x \in Int, NEW y \in Int
  PROVE  Min({x, y}) \in Int /\ Min({x, y}) <= x /\ Min({x, y}) <= y
<1>1. \E m \in {x, y} : \A k \in {x, y} : m <= k
  OBVIOUS
<1>2. Min({x, y}) \in {x, y} /\ \A k \in {x, y} : Min({x, y}) <= k
  BY Zenon, <1>1 DEF Min
<1> QED BY Zenon, <1>2

(* What DagState::new loads after a restart is enough: parents of the last *)
(* rounds and the last block of every authority.                           *)
LEMMA ReloadProperties ==
  ASSUME NEW D \in SUBSET (Authority \X Rounds), NEW gc \in GcRounds(D)
  PROVE  /\ Unevicted(D, gc) \subseteq D
         /\ Loaded(D, Unevicted(D, gc))
         /\ Latest(D, Unevicted(D, gc))
<1> DEFINE ev(a) == Min({gc, LastRoundOf(a, D) - CachedRounds})
<1>1. /\ gc \in Nat /\ CachedRounds \in Nat /\ CachedRounds >= 1
      /\ GcDepth \in Nat /\ WaveLength \in Nat /\ WaveLength + GcDepth >= 3
  BY ProposerAssumption DEF GcRounds, Rounds
<1>2. \A b \in D : b[1] \in Authority /\ b[2] \in Nat /\ b[2] >= 1 /\ b = <<b[1], b[2]>>
  BY DEF Rounds
<1>3. \A a \in Authority : ev(a) \in Int /\ ev(a) <= gc /\ ev(a) <= LastRoundOf(a, D) - CachedRounds
  <2> SUFFICES ASSUME NEW a \in Authority
               PROVE  ev(a) \in Int /\ ev(a) <= gc /\ ev(a) <= LastRoundOf(a, D) - CachedRounds
    BY Zenon
  <2>1. LastRoundOf(a, D) \in Nat
    BY Zenon, LastRoundProperties
  <2>2. gc \in Int /\ LastRoundOf(a, D) - CachedRounds \in Int
    BY <1>1, <2>1
  <2> QED BY Zenon, <2>2, MinOfTwo
<1>4. \A b \in D : b \in Unevicted(D, gc) <=> b[2] > ev(b[1])
  BY Zenon DEF Unevicted
<1> HIDE DEF ev
<1>5. Loaded(D, Unevicted(D, gc))
  <2> SUFFICES ASSUME NEW b \in D, b \notin Unevicted(D, gc)
               PROVE  \E c \in Unevicted(D, gc) : c[2] >= b[2] + 2
    BY Zenon DEF Loaded
  <2>1. b[2] <= gc
    BY <1>1, <1>2, <1>3, <1>4
  <2>2. PICK c \in D : gc + GcDepth + WaveLength - 1 <= c[2]
    BY <1>1, <1>2, <2>1 DEF GcRounds
  <2>3. c[2] >= gc + 2
    BY <1>1, <1>2, <2>2
  <2>4. c[2] > ev(c[1])
    BY <1>1, <1>2, <1>3, <2>3
  <2> QED BY <1>1, <1>2, <1>4, <2>1, <2>3, <2>4
<1>6. Latest(D, Unevicted(D, gc))
  <2> SUFFICES ASSUME NEW b \in D
               PROVE  \E c \in Unevicted(D, gc) : c[1] = b[1] /\ c[2] >= b[2]
    BY Zenon DEF Latest
  <2> DEFINE l == LastRoundOf(b[1], D)
  <2>1. l \in Nat /\ l >= b[2] /\ (l = 0 \/ <<b[1], l>> \in D)
    BY Zenon, <1>2, LastRoundProperties
  <2>2. <<b[1], l>> \in D
    BY <1>2, <2>1
  <2>3. ev(b[1]) < l
    BY <1>1, <1>2, <1>3, <2>1
  <2> HIDE DEF l
  <2>4. <<b[1], l>> \in Unevicted(D, gc)
    BY Zenon, <1>4, <2>2, <2>3
  <2> QED BY Zenon, <2>1, <2>4
<1> QED BY Zenon, <1>5, <1>6 DEF Unevicted

(* The invariant puts a quorum of parents into memory. *)
LEMMA ParentsThere ==
  ASSUME IInv
  PROVE  ParentsInMemory
<1> USE Zenon
<1> SUFFICES ASSUME stage # "load", clock.round # 1
             PROVE  QuorumAt(dag, clock.round - 1)
  BY DEF ParentsInMemory
<1> DEFINE R == clock.round
<1>1. R \in Nat /\ R >= 1 /\ replay = {} /\ dag \cup replay = dag
  BY SMT DEF IInv, TypeOK, Clocks
<1>2. \A b \in dag : b[2] <= R
  BY DEF IInv, ClockExact, ExactFor
<1>3. \A b \in dag \cup stored : b \in Authority \X Rounds /\ b[2] \in Nat
  BY SMT DEF IInv, TypeOK, Rounds
<1>4. CASE AuthorsAt(dag, R) # {}
  <2>1. PICK b \in dag : b[2] = R
    BY <1>4 DEF AuthorsAt
  <2>2. QuorumAt(dag \cup stored, R - 1)
    BY <2>1 DEF IInv, Closed
  <2>3. \A c \in dag \cup stored : c[2] = R - 1 => c \in dag
    BY SMT, <1>1, <1>2, <1>3 DEF IInv, Loaded
  <2>4. AuthorsAt(dag \cup stored, R - 1) \subseteq AuthorsAt(dag, R - 1)
    BY <2>3 DEF AuthorsAt
  <2> QED BY <2>2, <2>4, QuorumMonotone DEF QuorumAt
<1> QED BY <1>4 DEF IInv, ClockExact, ExactFor

(* The invariant makes a restarted validator remember what it broadcast. *)
LEMMA SentThere ==
  ASSUME IInv
  PROVE  SentRemembered
<1> SUFFICES ASSUME stage # "load", losses = 0, NEW r \in sent
             PROVE  r <= LastProposed /\ r <= clock.round
  BY Zenon DEF SentRemembered
<1>1. r \in Nat /\ clock.round \in Nat /\ dag \cup replay = dag /\ dag \in SUBSET (Authority \X Rounds)
  BY DEF IInv, TypeOK, Clocks, Rounds
<1>2. <<Own, r>> \in stored
  BY Zenon DEF IInv, SentIsStored
<1>3. PICK c \in dag : c[1] = Own /\ c[2] >= r
  BY <1>1, <1>2 DEF IInv, Latest
<1>4. LastProposed \in Nat /\ c[2] <= LastProposed
  BY Zenon, <1>1, <1>3, LastRoundProperties, ProposerAssumption DEF LastProposed
<1>5. c[2] <= clock.round /\ c[2] \in Nat
  BY <1>1 DEF IInv, ClockExact, ExactFor, Rounds
<1> QED BY <1>1, <1>3, <1>4, <1>5
(* Steps that leave the blocks, the clock and the network alone and do not *)
(* get further in a proposal.                                              *)
LEMMA QuietSteps ==
  ASSUME IInv, TypeOK', UNCHANGED <<dag, stored, clock, replay, sent, losses>>,
         \/ stage' = stage
         \/ stage' \in {"idle", "propose"}
         \/ stage = "load" /\ stage' = "recover"
  PROVE  IInv'
<1> USE Zenon
<1>1. ClockExact' /\ Closed(stored)' /\ Closed(dag \cup stored)'
  BY DEF IInv, ClockExact
<1>2. Loaded(dag \cup stored, dag \cup replay)' /\ Latest(dag \cup stored, dag \cup replay)'
  BY DEF IInv
<1>3. SentIsStored'
  BY DEF IInv, SentIsStored
<1>4. LastProposed' = LastProposed
  BY DEF LastProposed
<1>5. Persisted' /\ NoEquivocation'
  BY <1>4 DEF IInv, Persisted, NoEquivocation
<1> QED BY <1>1, <1>2, <1>3, <1>5 DEF IInv

(* The parts of the invariant about blocks, when one that has its parents  *)
(* enters the DAG.                                                         *)
LEMMA BlockEnters ==
  ASSUME IInv, NoDominantAuthority, NEW a \in Authority, NEW r \in Rounds,
         r = 1 \/ QuorumAt(dag \cup stored, r - 1),
         dag' = dag \cup {<<a, r>>}, stored' = stored, replay' = replay,
         clock' = AddBlock(clock, a, r)
  PROVE  /\ ClockExact'
         /\ clock' \in Clocks
         /\ dag' \in SUBSET (Authority \X Rounds)
         /\ Closed(stored)'
         /\ Closed(dag \cup stored)'
         /\ Loaded(dag \cup stored, dag \cup replay)'
         /\ Latest(dag \cup stored, dag \cup replay)'
<1> USE Zenon
<1>1. dag \in SUBSET (Authority \X Rounds) /\ clock \in Clocks /\ ExactFor(dag, clock)
  BY DEF IInv, TypeOK, ClockExact
<1>2. clock' \in Clocks /\ ExactFor(dag', clock')
  BY <1>1, ClockStep
<1>3. dag' \cup stored' = (dag \cup stored) \cup {<<a, r>>} /\ dag' \cup replay' = (dag \cup replay) \cup {<<a, r>>}
  OBVIOUS
<1>4. Closed(dag' \cup stored')
  BY <1>3, ClosedAdd DEF IInv
<1>5. Loaded(dag' \cup stored', dag' \cup replay') /\ Latest(dag' \cup stored', dag' \cup replay')
  BY SMT, <1>3, LoadedAdd DEF IInv
<1>6. Closed(stored')
  BY DEF IInv
<1>7. dag' \in SUBSET (Authority \X Rounds)
  BY SMT, <1>1
<1>8. ClockExact'
  BY <1>2 DEF ClockExact
<1> QED BY <1>2, <1>4, <1>5, <1>6, <1>7, <1>8

(* Flushes write what is in memory. *)
LEMMA FlushSteps ==
  ASSUME IInv, TypeOK', stored' = stored \cup dag, UNCHANGED <<dag, clock, replay, sent, losses>>,
         stage' = stage \/ (stage = "created" /\ stage' = "flushed")
  PROVE  IInv'
<1> USE Zenon
<1>1. dag' \cup stored' = dag \cup stored /\ dag' \cup replay' = dag \cup replay /\ stored' = dag \cup stored
  OBVIOUS
<1>2. ClockExact'
  BY DEF IInv, ClockExact
<1>3. Closed(stored)' /\ Closed(dag \cup stored)'
  BY <1>1 DEF IInv, Closed
<1>4. Loaded(dag \cup stored, dag \cup replay)' /\ Latest(dag \cup stored, dag \cup replay)'
  BY <1>1 DEF IInv, Loaded, Latest
<1>5. LastProposed' = LastProposed
  BY DEF LastProposed
<1>6. Persisted' /\ NoEquivocation'
  BY <1>1, <1>5 DEF IInv, Persisted, NoEquivocation
<1>7. SentIsStored'
  <2>1. \A r : QuorumAt(stored, r) => QuorumAt(stored', r)
    BY <1>1, QuorumAtMonotone
  <2> QED BY <1>1, <2>1 DEF IInv, SentIsStored
<1> QED BY <1>2, <1>3, <1>4, <1>6, <1>7 DEF IInv

(* Broadcasts send the last own block, which is in the store. *)
LEMMA SendSteps ==
  ASSUME IInv, TypeOK', stage \in {"recover", "flushed"}, stage' = "idle",
         sent' = sent \cup ({LastProposed} \ {0}),
         UNCHANGED <<dag, stored, clock, replay, losses>>
  PROVE  IInv'
<1> USE Zenon
<1>1. ClockExact' /\ Closed(stored)' /\ Closed(dag \cup stored)'
  BY DEF IInv, ClockExact
<1>2. Loaded(dag \cup stored, dag \cup replay)' /\ Latest(dag \cup stored, dag \cup replay)'
  BY DEF IInv
<1>3. Persisted' /\ NoEquivocation'
  BY DEF Persisted, NoEquivocation
<1>4. SentIsStored'
  <2>1. dag \in SUBSET (Authority \X Rounds) /\ dag \subseteq stored
    BY DEF IInv, TypeOK, Persisted
  <2>2. LastProposed # 0 => <<Own, LastProposed>> \in stored
    BY <2>1, LastRoundProperties, ProposerAssumption DEF LastProposed
  <2>3. LastProposed # 0 => LastProposed = 1 \/ QuorumAt(stored, LastProposed - 1)
    BY <2>2 DEF IInv, Closed
  <2> QED BY <2>2, <2>3 DEF IInv, SentIsStored
<1> QED BY <1>1, <1>2, <1>3, <1>4 DEF IInv

(* The answers to the search are rounds. *)
LEMMA AnswerTypes ==
  ASSUME TypeOK
  PROVE  LET S == {0} \cup {answers[p] : p \in Answered}
         IN  S \in SUBSET Nat /\ S # {} /\ \A k \in S : k <= MaxRound
<1> USE Zenon
<1> DEFINE S == {0} \cup {answers[p] : p \in Answered}
<1>1. MaxRound \in Nat
  BY ProposerAssumption
<1>2. \A p \in Answered : answers[p] \in 0 .. MaxRound
  BY DEF TypeOK, Answered
<1>3. \A k \in S : k = 0 \/ k \in 0 .. MaxRound
  BY <1>2
<1>4. 0 \in S
  OBVIOUS
<1> HIDE DEF S
<1>5. \A k \in S : k \in Nat /\ k <= MaxRound
  BY SMT, <1>1, <1>3
<1>6. S \in SUBSET Nat /\ S # {} /\ \A k \in S : k <= MaxRound
  BY <1>4, <1>5
<1> QED BY <1>6 DEF S

(* A restart, on the store as it is or on an empty one. *)
LEMMA RestartSteps ==
  ASSUME IInv, TypeOK', NEW blocks \in SUBSET (Authority \X Rounds), NEW gc \in GcRounds(blocks),
         RestartOn(blocks, gc), Closed(blocks), (losses' = 0 => losses = 0 /\ blocks = stored)
  PROVE  IInv'
<1> USE Zenon
<1>1. /\ stored' = blocks /\ dag' = {} /\ replay' = Unevicted(blocks, gc)
      /\ clock' = NewClock /\ stage' = "load" /\ sent' = sent
  BY DEF RestartOn, network
<1>2. dag' \cup stored' = blocks /\ dag' \cup replay' = Unevicted(blocks, gc)
  BY <1>1
<1>3. ExactFor({}, NewClock)
  <2>1. \A r : AuthorsAt({}, r) = {}
    BY DEF AuthorsAt
  <2> QED BY <2>1, EmptyNoQuorum DEF ExactFor, QuorumAt, NewClock
<1>4. ClockExact'
  BY <1>1, <1>3 DEF ClockExact
<1>5. Closed(stored)' /\ Closed(dag \cup stored)'
  BY <1>1, <1>2 DEF Closed
<1>6. Loaded(blocks, Unevicted(blocks, gc)) /\ Latest(blocks, Unevicted(blocks, gc))
  BY ReloadProperties
<1>7. Loaded(dag \cup stored, dag \cup replay)' /\ Latest(dag \cup stored, dag \cup replay)'
  BY <1>2, <1>6 DEF Loaded, Latest
<1>8. Persisted' /\ NoEquivocation'
  BY <1>1 DEF Persisted, NoEquivocation
<1>9. SentIsStored'
  BY <1>1 DEF IInv, SentIsStored
<1> QED BY <1>4, <1>5, <1>7, <1>8, <1>9 DEF IInv

(* Types are kept by every step. *)
LEMMA TypesStep ==
  ASSUME IInv, NoDominantAuthority, [Next]_vars
  PROVE  TypeOK'
<1> USE Zenon
<1> USE DEF IInv, TypeOK, core, timeouts, network, faults
<1>1. MaxRound \in Nat /\ Own \in Authority
  BY ProposerAssumption
<1>2. LastProposed \in Nat /\ (LastProposed = 0 \/ LastProposed \in Rounds)
  <2>1. dag \in SUBSET (Authority \X Rounds)
    OBVIOUS
  <2>2. LastProposed \in Nat /\ (LastProposed = 0 \/ <<Own, LastProposed>> \in dag)
    BY <1>1, <2>1, LastRoundProperties DEF LastProposed
  <2> QED BY <2>1, <2>2
<1>3. \A S \in SUBSET Nat, u \in Nat : S # {} /\ (\A k \in S : k <= u) => Max(S) \in Nat
  <2> SUFFICES ASSUME NEW S \in SUBSET Nat, NEW u \in Nat, S # {}, \A k \in S : k <= u
               PROVE  Max(S) \in Nat
    OBVIOUS
  <2>1. \E m \in S : \A k \in S : k <= m
    BY MaxExists
  <2>2. \E m \in S : \A k \in S : m >= k
    BY <2>1
  <2>3. Max(S) \in S
    BY <2>2 DEF Max
  <2> QED BY <2>3
<1>4. SignalNewRound(clock) => signaled' \in Nat
  <2>1. clock.round \in Nat /\ signaled \in Nat
    BY DEF Clocks
  <2>2. {signaled, clock.round} \in SUBSET Nat /\ {signaled, clock.round} # {}
    BY <2>1
  <2>3. \A k \in {signaled, clock.round} : k <= signaled + clock.round
    BY SMTT(60), <2>1
  <2>4. signaled + clock.round \in Nat
    BY SMTT(60), <2>1
  <2>5. Max({signaled, clock.round}) \in Nat
    BY <1>3, <2>2, <2>3, <2>4
  <2> QED BY <2>5 DEF SignalNewRound
<1>5. \A b \in Authority \X Rounds : dag \cup {b} \in SUBSET (Authority \X Rounds) /\ AddBlock(clock, b[1], b[2]) \in Clocks
  BY ClockStep DEF ClockExact
<1>6. CASE LoadBlock
  <2>1. PICK b \in replay : replay' = replay \ {b} /\ dag' = dag \cup {b} /\ clock' = AddBlock(clock, b[1], b[2])
    BY <1>6 DEF LoadBlock
  <2>2. b \in Authority \X Rounds
    OBVIOUS
  <2>3. clock' \in Clocks /\ dag' \in SUBSET (Authority \X Rounds)
    BY <1>5, <2>1, <2>2
  <2> QED BY <1>6, <2>1, <2>3 DEF LoadBlock
<1>7. CASE StartCore
  BY <1>2, <1>7 DEF StartCore
<1>8. CASE Rebroadcast
  BY <1>2, <1>4, <1>8 DEF Rebroadcast
<1>9. ASSUME NEW a \in Authority, NEW r \in Rounds, AddBlocks(a, r)
      PROVE  TypeOK'
  <2>1. clock' \in Clocks /\ dag' \in SUBSET (Authority \X Rounds)
    BY SMTT(60), <1>5, <1>9 DEF AddBlocks
  <2>2. replay = {} /\ replay' = {}
    BY <1>9 DEF AddBlocks
  <2> QED BY <1>9, <2>1, <2>2 DEF AddBlocks
<1>10. CASE CreateBlock
  <2>1. clock.round \in Rounds
    BY SMT, <1>1, <1>10 DEF CreateBlock, Clocks, Rounds
  <2>2. clock' \in Clocks /\ dag' \in SUBSET (Authority \X Rounds)
    <3>1. <<Own, clock.round>> \in Authority \X Rounds
      BY <1>1, <2>1
    <3>2. <<Own, clock.round>>[1] = Own /\ <<Own, clock.round>>[2] = clock.round
      OBVIOUS
    <3>3. AddBlock(clock, Own, clock.round) \in Clocks /\ dag \cup {<<Own, clock.round>>} \in SUBSET (Authority \X Rounds)
      BY <1>5, <3>1, <3>2
    <3> QED BY <1>10, <3>3 DEF CreateBlock
  <2>3. replay = {} /\ replay' = {}
    BY <1>10 DEF CreateBlock
  <2> QED BY <1>10, <2>2, <2>3 DEF CreateBlock
<1>11. CASE SkipProposal
  BY <1>4, <1>11 DEF SkipProposal
<1>12. CASE FlushProposal
  BY <1>12 DEF FlushProposal
<1>13. CASE Broadcast
  <2>1. LastProposed \in Rounds
    BY <1>2, <1>13 DEF Broadcast, Persisted
  <2> QED BY <1>4, <1>13, <2>1 DEF Broadcast
<1>14. CASE FinalizerFlush
  BY <1>14 DEF FinalizerFlush
<1>15. CASE RunCommand
  BY <1>15 DEF RunCommand, NewBlock
<1>16. CASE SetSubscriberExists
  BY <1>16 DEF SetSubscriberExists, ProposeIfEnabled
<1>17. CASE SetPropagationDelay
  BY <1>17 DEF SetPropagationDelay, ProposeIfEnabled
<1>18. CASE SetLastKnownProposedRound
  <2> DEFINE S == {0} \cup {answers[p] : p \in Answered}
  <2>1. S \in SUBSET Nat /\ S # {} /\ \A k \in S : k <= MaxRound
    <3>1. TypeOK
      BY DEF IInv
    <3> QED BY <3>1, AnswerTypes
  <2>2. Max(S) \in Nat
    <3> HIDE DEF S
    <3> QED BY <1>1, <1>3, <2>1
  <2>3. known' \in Nat
    BY <1>18, <2>2 DEF SetLastKnownProposedRound
  <2>4. stage' \in {"idle", "propose"} /\ force' \in BOOLEAN /\ stage = "idle"
    BY <1>18 DEF SetLastKnownProposedRound, NewBlock
  <2>5. answers' \in [Peer -> 0 .. MaxRound \cup {None}]
    BY <1>18 DEF SetLastKnownProposedRound, NoAnswers
  <2> QED BY <1>18, <2>3, <2>4, <2>5 DEF SetLastKnownProposedRound
<1>19. ASSUME NEW p \in Peer, NEW r \in 0 .. MaxRound, PeerAnswers(p, r)
       PROVE  TypeOK'
  <2>1. answers' \in [Peer -> 0 .. MaxRound \cup {None}]
    BY <1>19 DEF PeerAnswers
  <2> QED BY <1>19, <2>1 DEF PeerAnswers
<1>20. CASE RetrySearch
  <2>1. answers' \in [Peer -> 0 .. MaxRound \cup {None}]
    BY <1>20 DEF RetrySearch, NoAnswers
  <2> QED BY <1>20, <2>1 DEF RetrySearch
<1>21. ASSUME NEW forced \in BOOLEAN, TimerExpires(forced)
       PROVE  TypeOK'
  <2>1. min_timed_out' \in BOOLEAN /\ max_timed_out' \in BOOLEAN
    BY <1>21 DEF TimerExpires
  <2>2. commands' \subseteq Nat \X BOOLEAN
    <3>1. <<leader_round, forced>> \in Nat \X BOOLEAN
      OBVIOUS
    <3> QED BY <1>21, <3>1 DEF TimerExpires
  <2> QED BY <1>21, <2>1, <2>2 DEF TimerExpires
<1>22. CASE NewRound
  BY <1>22 DEF NewRound
<1>23. ASSUME NEW p \in Truthful, NEW r \in Rounds, PeerStores(p, r)
       PROVE  TypeOK'
  <2>1. r \in 0 .. MaxRound
    BY SMT, <1>1 DEF Rounds
  <2>2. hold' \in [Truthful -> 0 .. MaxRound]
    BY <1>23, <2>1 DEF PeerStores
  <2> QED BY <1>23, <2>2 DEF PeerStores
<1>24. ASSUME NEW blocks \in SUBSET (Authority \X Rounds), NEW gc, RestartOn(blocks, gc),
              held' \in Nat, losses' \in Nat
       PROVE  TypeOK'
  <2>1. Unevicted(blocks, gc) \subseteq blocks
    BY DEF Unevicted
  <2>2. NewClock \in Clocks
    BY SMTT(60) DEF NewClock, Clocks
  <2>3. InitialLastKnown(blocks) \in Nat \cup {None}
    BY DEF InitialLastKnown, None
  <2>4. /\ dag' = {} /\ stored' = blocks /\ replay' = Unevicted(blocks, gc)
        /\ clock' \in Clocks /\ known' \in Nat \cup {None} /\ stage' = "load"
    BY <1>24, <2>2, <2>3 DEF RestartOn
  <2>5. /\ force' \in BOOLEAN /\ subscriber_exists' \in BOOLEAN /\ delayed' \in BOOLEAN
        /\ min_timed_out' \in BOOLEAN /\ max_timed_out' \in BOOLEAN
    BY <1>24 DEF RestartOn
  <2>6. /\ signaled' \in Nat /\ leader_round' \in Nat /\ restarts' \in Nat
        /\ commands' = {} /\ sent' = sent /\ hold' = hold
    BY SMT, <1>24 DEF RestartOn
  <2>7. answers' \in [Peer -> 0 .. MaxRound \cup {None}]
    BY <1>24 DEF RestartOn, NoAnswers
  <2> QED BY <1>24, <2>1, <2>4, <2>5, <2>6, <2>7
<1>25. CASE Restart
  <2>1. PICK gc : RestartOn(stored, gc)
    BY <1>25 DEF Restart
  <2> QED BY <1>24, <1>25, <2>1 DEF Restart
<1>26. CASE LoseStore
  <2> DEFINE S == {0} \cup {r \in sent : HeldByQuorum(r)}
  <2>1. S \in SUBSET Nat /\ S # {} /\ \A k \in S : k <= MaxRound
    <3>1. \A r \in sent : r \in Nat /\ r <= MaxRound
      BY SMT, <1>1 DEF Rounds
    <3>2. 0 \in S /\ \A k \in S : k = 0 \/ k \in sent
      OBVIOUS
    <3> HIDE DEF S
    <3>3. \A k \in S : k \in Nat /\ k <= MaxRound
      <4>1. MaxRound \in Nat
        BY <1>1
      <4>2. 0 \in Nat /\ 0 <= MaxRound
        BY SMT, <4>1
      <4> QED BY <3>1, <3>2, <4>2
    <3> QED BY <3>2, <3>3
  <2>2. Max(S) \in Nat
    <3> HIDE DEF S
    <3> QED BY <1>1, <1>3, <2>1
  <2>3. held' \in Nat /\ losses' \in Nat /\ RestartOn({}, 0)
    BY SMT, <1>26, <2>2 DEF LoseStore
  <2> QED BY <1>24, <2>3
<1>27. CASE UNCHANGED vars
  BY SMT, <1>27 DEF vars
<1> QED
  BY <1>6, <1>7, <1>8, <1>9, <1>10, <1>11, <1>12, <1>13, <1>14, <1>15, <1>16, <1>17, <1>18,
     <1>21, <1>22, <1>23, <1>25, <1>26, <1>27, <1>19, <1>20 DEF Next

(* IInv holds initially. *)
LEMMA InitInvariant == Init => IInv
<1> USE Zenon
<1> SUFFICES ASSUME Init PROVE IInv
  OBVIOUS
<1>1. \A r : AuthorsAt({}, r) = {}
  BY DEF AuthorsAt
<1>2. TypeOK
  <2>1. NewClock \in Clocks /\ InitialLastKnown({}) \in Nat \cup {None}
    BY SMT DEF NewClock, Clocks, InitialLastKnown
  <2>2. hold \in [Truthful -> 0 .. MaxRound]
    BY SMT, ProposerAssumption DEF Init
  <2>3. answers \in [Peer -> 0 .. MaxRound \cup {None}]
    BY DEF Init, NoAnswers
  <2> QED BY <2>1, <2>2, <2>3 DEF Init, TypeOK
<1>3. ClockExact
  BY <1>1, EmptyNoQuorum DEF Init, ClockExact, ExactFor, QuorumAt, NewClock
<1>4. Closed(stored) /\ Closed(dag \cup stored)
  BY DEF Init, Closed
<1>5. Loaded(dag \cup stored, dag \cup replay) /\ Latest(dag \cup stored, dag \cup replay)
  BY DEF Init, Loaded, Latest
<1>6. Persisted /\ SentIsStored /\ NoEquivocation
  BY DEF Init, Persisted, SentIsStored, NoEquivocation
<1> QED BY <1>2, <1>3, <1>4, <1>5, <1>6 DEF IInv

(* Every step keeps IInv. *)
LEMMA StepInvariant ==
  ASSUME NoDominantAuthority, IInv, [Next]_vars
  PROVE  IInv'
<1> USE Zenon
<1>1. TypeOK'
  BY TypesStep
<1> USE DEF core, timeouts, network, faults
<1>2. CASE LoadBlock
  <2>1. PICK b \in replay : replay' = replay \ {b} /\ dag' = dag \cup {b} /\ clock' = AddBlock(clock, b[1], b[2])
    BY <1>2 DEF LoadBlock
  <2>2. stage = "load" /\ stage' = stage /\ stored' = stored /\ sent' = sent /\ losses' = losses
    BY <1>2 DEF LoadBlock
  <2>3. b \in Authority \X Rounds /\ b \in stored
    BY DEF IInv, TypeOK
  <2>4. dag' \cup stored' = dag \cup stored /\ dag' \cup replay' = dag \cup replay
    BY <2>1, <2>2, <2>3
  <2>5. ClockExact'
    <3>1. dag \in SUBSET (Authority \X Rounds) /\ clock \in Clocks /\ ExactFor(dag, clock)
      BY DEF IInv, TypeOK, ClockExact
    <3>2. b = <<b[1], b[2]>> /\ b[1] \in Authority /\ b[2] \in Rounds
      BY SMT, <2>3
    <3>3. ExactFor(dag \cup {<<b[1], b[2]>>}, AddBlock(clock, b[1], b[2]))
      BY <3>1, <3>2, ClockStep
    <3>4. ExactFor(dag', clock')
      BY <2>1, <3>2, <3>3
    <3> QED BY <3>4 DEF ClockExact
  <2>6. Closed(stored)' /\ Closed(dag \cup stored)'
    BY <2>2, <2>4 DEF IInv
  <2>7. Loaded(dag \cup stored, dag \cup replay)' /\ Latest(dag \cup stored, dag \cup replay)'
    BY <2>4 DEF IInv
  <2>8. Persisted' /\ NoEquivocation'
    BY <2>1, <2>2, <2>3 DEF IInv, Persisted, NoEquivocation
  <2>9. SentIsStored'
    BY <2>2 DEF IInv, SentIsStored
  <2> QED BY <1>1, <2>5, <2>6, <2>7, <2>8, <2>9 DEF IInv
<1>3. ASSUME NEW a \in Authority, NEW r \in Rounds, AddBlocks(a, r)
      PROVE  IInv'
  <2>1. /\ dag' = dag \cup {<<a, r>>} /\ clock' = AddBlock(clock, a, r) /\ stage' = "propose"
        /\ UNCHANGED <<stored, replay, sent, losses>>
        /\ r = 1 \/ QuorumAt(dag \cup stored, r - 1)
    BY <1>3 DEF AddBlocks
  <2>2. /\ ClockExact' /\ Closed(stored)' /\ Closed(dag \cup stored)'
        /\ Loaded(dag \cup stored, dag \cup replay)' /\ Latest(dag \cup stored, dag \cup replay)'
    BY <2>1, BlockEnters
  <2>3. Persisted' /\ NoEquivocation' /\ SentIsStored'
    BY <2>1 DEF IInv, Persisted, NoEquivocation, SentIsStored
  <2> QED BY <1>1, <2>2, <2>3 DEF IInv
<1>4. CASE CreateBlock
  <2> DEFINE r == clock.round
  <2>1. /\ dag' = dag \cup {<<Own, r>>} /\ clock' = AddBlock(clock, Own, r) /\ stage' = "created"
        /\ UNCHANGED <<stored, replay, sent, losses>>
        /\ r > LastProposed /\ r <= MaxRound /\ stage # "load"
    BY <1>4 DEF CreateBlock
  <2>2. Own \in Authority /\ r \in Rounds /\ r \in Nat
    BY SMT, <2>1, ProposerAssumption DEF IInv, TypeOK, Clocks, Rounds
  <2>3. r = 1 \/ QuorumAt(dag \cup stored, r - 1)
    BY SMTT(60), <2>1, ParentsThere, QuorumAtMonotone DEF ParentsInMemory
  <2>4. /\ ClockExact' /\ Closed(stored)' /\ Closed(dag \cup stored)'
        /\ Loaded(dag \cup stored, dag \cup replay)' /\ Latest(dag \cup stored, dag \cup replay)'
    BY <2>1, <2>2, <2>3, BlockEnters
  <2>5. LastProposed' = r
    <3>1. dag \in SUBSET (Authority \X Rounds) /\ dag' \in SUBSET (Authority \X Rounds)
      BY <1>1 DEF IInv, TypeOK
    <3>2. /\ LastRoundOf(Own, dag') \in Nat
          /\ \A b \in dag' : b[1] = Own => b[2] <= LastRoundOf(Own, dag')
          /\ LastRoundOf(Own, dag') = 0 \/ <<Own, LastRoundOf(Own, dag')>> \in dag'
      BY <2>2, <3>1, LastRoundProperties
    <3>3. LastProposed \in Nat /\ \A b \in dag : b[1] = Own => b[2] <= LastProposed
      BY <2>2, <3>1, LastRoundProperties DEF LastProposed
    <3>4. r <= LastRoundOf(Own, dag')
      <4>1. <<Own, r>> \in dag' /\ <<Own, r>>[1] = Own /\ <<Own, r>>[2] = r
        BY <2>1
      <4> QED BY <3>2, <4>1
    <3>5. LastRoundOf(Own, dag') = 0 \/ LastRoundOf(Own, dag') = r \/ <<Own, LastRoundOf(Own, dag')>> \in dag
      BY <2>1, <3>2
    <3>6. <<Own, LastRoundOf(Own, dag')>> \in dag => LastRoundOf(Own, dag') <= LastProposed
      BY <3>3
    <3>7. LastRoundOf(Own, dag') = r
      BY SMT, <2>1, <2>2, <3>2, <3>3, <3>4, <3>5, <3>6 DEF Rounds
    <3> QED BY <3>7 DEF LastProposed
  <2>6. losses = 0 => r \notin sent
    <3>1. SentRemembered
      BY SentThere
    <3>2. LastProposed \in Nat
      BY <2>2, LastRoundProperties DEF LastProposed, IInv, TypeOK
    <3> QED BY SMT, <2>1, <2>2, <3>1, <3>2 DEF SentRemembered
  <2>7. Persisted' /\ NoEquivocation'
    BY SMT, <2>1, <2>2, <2>5, <2>6 DEF Persisted, NoEquivocation, Rounds
  <2>8. SentIsStored'
    BY <2>1 DEF IInv, SentIsStored
  <2> QED BY <1>1, <2>4, <2>7, <2>8 DEF IInv
<1>5. CASE FlushProposal
  BY <1>1, <1>5, FlushSteps DEF FlushProposal
<1>6. CASE FinalizerFlush
  BY <1>1, <1>6, FlushSteps DEF FinalizerFlush
<1>7. CASE Rebroadcast
  BY <1>1, <1>7, SendSteps DEF Rebroadcast
<1>8. CASE Broadcast
  <2>1. sent' = sent \cup ({LastProposed} \ {0})
    BY <1>8 DEF Broadcast, IInv, Persisted
  <2> QED BY <1>1, <1>8, <2>1, SendSteps DEF Broadcast
<1>9. CASE Restart
  <2>1. PICK gc \in GcRounds(stored) : RestartOn(stored, gc)
    BY <1>9 DEF Restart
  <2>2. losses' = losses /\ Closed(stored) /\ stored \in SUBSET (Authority \X Rounds)
    BY <1>9 DEF Restart, IInv, TypeOK
  <2> QED BY <1>1, <2>1, <2>2, RestartSteps
<1>10. CASE LoseStore
  <2>1. 0 \in GcRounds({}) /\ Closed({}) /\ RestartOn({}, 0) /\ losses' # 0
    BY SMTT(60), <1>10 DEF LoseStore, GcRounds, Closed, IInv, TypeOK
  <2> QED BY <1>1, <2>1, RestartSteps
<1>11. CASE StartCore \/ SkipProposal
  BY <1>1, <1>11, QuietSteps DEF StartCore, SkipProposal
<1>12. CASE RunCommand \/ SetSubscriberExists \/ SetPropagationDelay
  BY <1>1, <1>12, QuietSteps DEF RunCommand, SetSubscriberExists, SetPropagationDelay, NewBlock, ProposeIfEnabled
<1>13. CASE SetLastKnownProposedRound
  BY <1>1, <1>13, QuietSteps DEF SetLastKnownProposedRound, NewBlock
<1>14. ASSUME NEW p \in Peer, NEW r \in 0 .. MaxRound, PeerAnswers(p, r)
       PROVE  IInv'
  BY <1>1, <1>14, QuietSteps DEF PeerAnswers
<1>15. CASE RetrySearch
  BY <1>1, <1>15, QuietSteps DEF RetrySearch
<1>16. ASSUME NEW forced \in BOOLEAN, TimerExpires(forced)
       PROVE  IInv'
  BY <1>1, <1>16, QuietSteps DEF TimerExpires
<1>17. CASE NewRound
  BY <1>1, <1>17, QuietSteps DEF NewRound
<1>18. ASSUME NEW p \in Truthful, NEW r \in Rounds, PeerStores(p, r)
       PROVE  IInv'
  BY <1>1, <1>18, QuietSteps DEF PeerStores
<1>19. CASE UNCHANGED vars
  BY <1>1, <1>19, QuietSteps DEF vars
<1> QED
  BY <1>2, <1>3, <1>4, <1>5, <1>6, <1>7, <1>8, <1>9, <1>10, <1>11, <1>12, <1>13, <1>16, <1>17,
     <1>18, <1>19, <1>14, <1>15 DEF Next

(* IInv is an invariant. *)
LEMMA Invariance ==
  ASSUME NoDominantAuthority
  PROVE  Spec => []IInv
<1>1. IInv /\ [Next]_vars => IInv'
  BY Zenon, StepInvariant
<1> QED BY <1>1, InitInvariant, PTL DEF Spec

(* Every variable of the proposer keeps its type. *)
THEOREM TypesHold ==
  ASSUME NoDominantAuthority
  PROVE  Spec => []TypeOK
<1>1. IInv => TypeOK
  BY Zenon DEF IInv
<1> QED BY <1>1, Invariance, PTL

(* ThresholdClock::add_block computes a function of the set of accepted    *)
(* blocks, whatever order they are accepted or reloaded in.                *)
THEOREM ClockOrderIndependent ==
  ASSUME NoDominantAuthority
  PROVE  Spec => []ClockExact
<1>1. IInv => ClockExact
  BY Zenon DEF IInv
<1> QED BY <1>1, Invariance, PTL

(* The assertion on the parent round in smart_ancestors_to_propose never   *)
(* fails, also on the part of the DAG that a restart has loaded.           *)
THEOREM ParentsAlwaysThere ==
  ASSUME NoDominantAuthority
  PROVE  Spec => []ParentsInMemory
<1>1. IInv => ParentsInMemory
  BY Zenon, ParentsThere
<1> QED BY <1>1, Invariance, PTL

(* A validator that keeps its store never creates a second block for a     *)
(* round in which it has broadcast one, over any number of crashes.        *)
THEOREM NoSelfEquivocation ==
  ASSUME NoDominantAuthority
  PROVE  Spec => []NoEquivocation
<1>1. IInv => NoEquivocation
  BY Zenon DEF IInv
<1> QED BY <1>1, Invariance, PTL

(* try_new_block flushes before try_propose broadcasts. *)
THEOREM StoredBeforeSent ==
  ASSUME NoDominantAuthority
  PROVE  Spec => []SentIsStored
<1>1. IInv => SentIsStored
  BY Zenon DEF IInv
<1> QED BY <1>1, Invariance, PTL

(* DagState::new loads the last broadcast block and a clock not below it. *)
THEOREM SentNotForgotten ==
  ASSUME NoDominantAuthority
  PROVE  Spec => []SentRemembered
<1>1. IInv => SentRemembered
  BY SentThere
<1> QED BY <1>1, Invariance, PTL

-----------------------------------------------------------------------------
(* The loss of the store.                                                  *)

(* The search for the own last block is on, it is not cut short by another *)
(* crash, and an f+1 stake has an authority in common with every quorum.   *)
SearchCompletes ==
  /\ SyncOwnBlock /\ ~CrashAfterLoss
  /\ \A V \in Validity, Q \in Quorum : V \cap Q # {}

(* The truthful validators that have stored the own block of round r and   *)
(* have not answered the search before they had.                           *)
Witnesses(r) ==
  {Own} \cup {p \in Truthful : hold[p] >= r /\ (answers[p] = None \/ answers[p] >= r)}

(* The store is lost once at most.  The quorum that held the last own      *)
(* block has told the search of it or will do so when asked, and the round *)
(* that the search finds is not below.                                     *)
HeldInv ==
  /\ losses = 0 => held = 0
  /\ held # 0 => ReachedQuorum(Witnesses(held))
  /\ losses # 0 => known = None \/ known >= held
  /\ HeldNotProposedAnew

(* The greatest element of a bounded set of naturals. *)
LEMMA MaxProperties ==
  ASSUME NEW S \in SUBSET Nat, S # {}, NEW u \in Nat, \A k \in S : k <= u
  PROVE  Max(S) \in S /\ \A k \in S : k <= Max(S)
<1> USE Zenon
<1>1. \E m \in S : \A k \in S : k <= m
  BY MaxExists
<1>2. \E m \in S : \A k \in S : m >= k
  BY <1>1
<1>3. Max(S) \in S /\ \A k \in S : Max(S) >= k
  BY <1>2 DEF Max
<1>4. Max(S) \in Nat
  BY <1>3
<1> QED BY <1>3, <1>4

(* What an f+1 stake of peers answers is not below a round that a quorum   *)
(* of truthful validators holds.                                           *)
LEMMA SearchFinds ==
  ASSUME SearchCompletes, TypeOK, held # 0 => ReachedQuorum(Witnesses(held)),
         ReachedValidity(Answered)
  PROVE  Max({0} \cup {answers[p] : p \in Answered}) >= held
<1> USE Zenon
<1> DEFINE S == {0} \cup {answers[p] : p \in Answered}
<1>1. MaxRound \in Nat /\ held \in Nat
  BY ProposerAssumption DEF TypeOK
<1>2. S \in SUBSET Nat /\ S # {} /\ \A k \in S : k <= MaxRound
  BY AnswerTypes
<1>3. \A p \in Answered : answers[p] \in S
  OBVIOUS
<1>4. 0 \in S
  OBVIOUS
<1> HIDE DEF S
<1>5. Max(S) \in S /\ \A k \in S : k <= Max(S)
  BY <1>1, <1>2, MaxProperties
<1>6. CASE held = 0
  <2>1. 0 <= Max(S) /\ Max(S) \in Nat
    BY <1>2, <1>4, <1>5
  <2> QED BY <1>6, <2>1 DEF S
<1>7. CASE held # 0
  <2>1. PICK V \in Validity : V \subseteq Answered
    BY DEF ReachedValidity
  <2>2. PICK p \in V : p \in Witnesses(held)
    BY <1>7, <2>1 DEF SearchCompletes, ReachedQuorum
  <2>3. p \in Answered /\ p \in Peer /\ p # Own /\ answers[p] # None
    BY <2>1, <2>2 DEF Answered, Peer
  <2>4. answers[p] >= held
    BY <2>2, <2>3 DEF Witnesses
  <2>5. answers[p] <= Max(S) /\ Max(S) \in Nat /\ answers[p] \in Nat
    BY <1>2, <1>3, <1>5, <2>3
  <2>6. Max(S) >= held
    BY SMT, <1>1, <2>4, <2>5
  <2> QED BY <2>6 DEF S
<1> QED BY <1>6, <1>7

(* A witness remains one when a peer stores a block. *)
LEMMA StoringKeepsWitnesses ==
  ASSUME TypeOK, NEW p \in Truthful, NEW r \in Rounds, PeerStores(p, r), NEW n \in Nat
  PROVE  Witnesses(n) \subseteq Witnesses(n)'
<1> USE Zenon
<1>1. hold \in [Truthful -> 0 .. MaxRound] /\ r \in Nat /\ MaxRound \in Nat
  BY SMT, ProposerAssumption DEF TypeOK, Rounds
<1>2. hold[p] < r /\ hold' = [hold EXCEPT ![p] = r] /\ answers' = answers
  BY DEF PeerStores
<1>3. ASSUME NEW q \in Truthful, hold[q] >= n PROVE hold'[q] >= n
  <2>1. hold[q] \in Nat /\ hold[p] \in Nat
    BY SMT, <1>1
  <2>2. CASE q = p
    <3>1. hold'[q] = r /\ hold[q] < r
      BY <1>1, <1>2, <2>2
    <3> QED BY SMT, <1>1, <1>3, <2>1, <3>1
  <2>3. CASE q # p
    <3>1. hold'[q] = hold[q]
      BY <1>1, <1>2, <2>3
    <3> QED BY <1>3, <3>1
  <2> QED BY <2>2, <2>3
<1> QED BY <1>2, <1>3 DEF Witnesses

(* A witness that answers names a round that is not below. *)
LEMMA AnsweringKeepsWitnesses ==
  ASSUME TypeOK, NEW p \in Peer, NEW r \in 0 .. MaxRound, PeerAnswers(p, r), NEW n \in Nat
  PROVE  Witnesses(n) \subseteq Witnesses(n)'
<1> USE Zenon
<1>1. /\ hold' = hold /\ answers' = [answers EXCEPT ![p] = r]
      /\ p \in Truthful => r >= hold[p]
  BY DEF PeerAnswers, AnswersOf
<1>2. hold \in [Truthful -> 0 .. MaxRound] /\ answers \in [Peer -> 0 .. MaxRound \cup {None}]
      /\ MaxRound \in Nat
  BY ProposerAssumption DEF TypeOK
<1>3. ASSUME NEW q \in Truthful, hold[q] >= n, answers[q] = None \/ answers[q] >= n
      PROVE  answers'[q] = None \/ answers'[q] >= n
  <2>1. q \in Peer
    BY DEF Truthful
  <2>2. CASE q = p
    <3>1. answers'[q] = r /\ r >= hold[q]
      BY <1>1, <1>2, <2>1, <2>2
    <3>2. hold[q] \in Nat /\ r \in Nat
      BY SMT, <1>2
    <3>3. r >= n
      BY SMT, <1>3, <3>1, <3>2
    <3> QED BY <3>1, <3>3
  <2>3. CASE q # p
    <3>1. answers'[q] = answers[q]
      BY <1>1, <1>2, <2>1, <2>3
    <3> QED BY <1>3, <3>1
  <2> QED BY <2>2, <2>3
<1> QED BY <1>1, <1>3 DEF Witnesses

(* Every step keeps HeldInv. *)
LEMMA HeldStep ==
  ASSUME SearchCompletes, TypeOK, TypeOK', HeldInv, [Next]_vars
  PROVE  HeldInv'
<1> USE Zenon
<1> USE DEF core, timeouts, network, faults
<1>1. held \in Nat /\ losses \in Nat /\ known \in Nat \cup {None} /\ dag \in SUBSET (Authority \X Rounds)
      /\ Own \in Authority
  BY ProposerAssumption DEF TypeOK
<1>2. ASSUME UNCHANGED <<known, hold, answers, held, losses>>, stage' # "created" PROVE HeldInv'
  BY <1>2 DEF HeldInv, HeldNotProposedAnew, Witnesses
<1>3. ASSUME UNCHANGED <<known, held, losses, dag, stage>>, Witnesses(held) \subseteq Witnesses(held)'
      PROVE  HeldInv'
  <2>1. held # 0 => ReachedQuorum(Witnesses(held))'
    BY <1>3 DEF HeldInv, ReachedQuorum
  <2> QED BY <1>3, <2>1 DEF HeldInv, HeldNotProposedAnew, LastProposed
<1>4. ASSUME UNCHANGED <<known, hold, answers, held, losses, dag, stage>> PROVE HeldInv'
  BY <1>3, <1>4 DEF Witnesses
<1>5. CASE CreateBlock
  <2>1. /\ known # None /\ clock.round > known
        /\ dag' = dag \cup {<<Own, clock.round>>}
        /\ UNCHANGED <<known, hold, answers, held, losses>>
    BY <1>5 DEF CreateBlock, ShouldPropose, ShouldProposeWith
  <2>2. clock.round \in Nat \ {0} /\ dag' \in SUBSET (Authority \X Rounds)
    BY DEF TypeOK, Clocks
  <2>3. clock.round > held
    <3>1. known \in Nat /\ (held = 0 \/ known >= held)
      BY <1>1, <2>1 DEF HeldInv
    <3> QED BY SMT, <1>1, <2>1, <2>2, <3>1
  <2>4. LastProposed' \in Nat /\ clock.round <= LastProposed'
    <3>1. LastProposed' = LastRoundOf(Own, dag')
      BY DEF LastProposed, LastRoundOf
    <3>2. LastRoundOf(Own, dag') \in Nat
          /\ \A b \in dag' : b[1] = Own => b[2] <= LastRoundOf(Own, dag')
      BY <1>1, <2>2, LastRoundProperties
    <3>3. <<Own, clock.round>> \in dag'
      BY <2>1
    <3>4. <<Own, clock.round>>[1] = Own /\ <<Own, clock.round>>[2] = clock.round
      OBVIOUS
    <3> QED BY <3>1, <3>2, <3>3, <3>4
  <2>5. LastProposed' > held
    BY SMT, <1>1, <2>2, <2>3, <2>4
  <2> QED BY <2>1, <2>5 DEF HeldInv, HeldNotProposedAnew, Witnesses
<1>6. CASE SetLastKnownProposedRound
  <2>1. held # 0 => ReachedQuorum(Witnesses(held))
    BY DEF HeldInv
  <2>2. Max({0} \cup {answers[p] : p \in Answered}) >= held
    BY <1>6, <2>1, SearchFinds DEF SetLastKnownProposedRound
  <2>3. /\ known' >= held /\ stage' # "created"
        /\ UNCHANGED <<hold, held, losses>> /\ answers' = NoAnswers
    BY <1>6, <2>2 DEF SetLastKnownProposedRound, NewBlock
  <2>4. Witnesses(held) \subseteq Witnesses(held)'
    BY <2>3 DEF Witnesses, NoAnswers, Truthful
  <2>5. held # 0 => ReachedQuorum(Witnesses(held))'
    BY <2>1, <2>4 DEF ReachedQuorum
  <2> QED BY <2>3, <2>5 DEF HeldInv, HeldNotProposedAnew
<1>7. ASSUME NEW p \in Truthful, NEW r \in Rounds, PeerStores(p, r) PROVE HeldInv'
  <2>1. UNCHANGED <<known, held, losses, dag, stage>>
    BY <1>7 DEF PeerStores
  <2> QED BY <1>1, <1>3, <1>7, <2>1, StoringKeepsWitnesses
<1>8. ASSUME NEW p \in Peer, NEW r \in 0 .. MaxRound, PeerAnswers(p, r) PROVE HeldInv'
  <2>1. UNCHANGED <<known, held, losses, dag, stage>>
    BY <1>8 DEF PeerAnswers
  <2> QED BY <1>1, <1>3, <1>8, <2>1, AnsweringKeepsWitnesses
<1>9. CASE RetrySearch
  <2>1. UNCHANGED <<known, hold, held, losses, dag, stage>> /\ answers' = NoAnswers
    BY <1>9 DEF RetrySearch
  <2> QED BY <1>3, <2>1 DEF Witnesses, NoAnswers, Truthful
<1>10. ASSUME NEW blocks, NEW gc, RestartOn(blocks, gc)
      PROVE  /\ losses = 0 /\ stage' = "load" /\ hold' = hold /\ sent' = sent
             /\ known' = InitialLastKnown(blocks) /\ answers' = NoAnswers
  BY <1>10 DEF RestartOn, SearchCompletes
<1>11. CASE Restart
  <2>1. PICK gc : RestartOn(stored, gc)
    BY <1>11 DEF Restart
  <2>2. losses = 0 /\ stage' = "load" /\ held' = held /\ losses' = losses
    BY <1>10, <1>11, <2>1 DEF Restart
  <2>3. held = 0 /\ stage' # "created"
    BY <2>2 DEF HeldInv
  <2> QED BY <2>2, <2>3 DEF HeldInv, HeldNotProposedAnew
<1>12. CASE LoseStore
  <2> DEFINE S == {0} \cup {r \in sent : HeldByQuorum(r)}
  <2>1. losses = 0 /\ stage' = "load" /\ hold' = hold /\ known' = InitialLastKnown({})
        /\ answers' = NoAnswers
    BY <1>10, <1>12 DEF LoseStore
  <2>2. known' = None
    BY <2>1 DEF InitialLastKnown, SearchCompletes
  <2>3. losses' # 0 /\ held' = Max(S)
    BY SMT, <1>12, <2>1 DEF LoseStore
  <2>4. MaxRound \in Nat /\ \A r \in sent : r \in Nat /\ r <= MaxRound
    BY SMT, ProposerAssumption DEF TypeOK, Rounds
  <2>5. \A k \in S : k = 0 \/ (k \in sent /\ HeldByQuorum(k))
    OBVIOUS
  <2>6. 0 \in S
    OBVIOUS
  <2> HIDE DEF S
  <2>7. \A k \in S : k \in Nat /\ k <= MaxRound
    BY SMT, <2>4, <2>5
  <2>8. Max(S) \in S
    BY <2>4, <2>6, <2>7, MaxProperties
  <2>9. held' # 0 => HeldByQuorum(held')
    BY <2>3, <2>5, <2>8
  <2>10. ReachedQuorum(Witnesses(held))' <=> HeldByQuorum(held')
    <3>1. Witnesses(held)' = {Own} \cup {p \in Truthful : hold[p] >= held'}
      BY <2>1 DEF Witnesses, NoAnswers, Truthful
    <3> QED BY <3>1 DEF HeldByQuorum, ReachedQuorum
  <2>11. stage' # "created"
    BY <2>1
  <2> QED BY <2>2, <2>3, <2>9, <2>10, <2>11 DEF HeldInv, HeldNotProposedAnew
<1>13. CASE LoadBlock \/ StartCore \/ Rebroadcast
  <2>1. UNCHANGED <<known, hold, answers, held, losses>> /\ stage' # "created"
    BY <1>13 DEF LoadBlock, StartCore, Rebroadcast
  <2> QED BY <1>2, <2>1
<1>14. ASSUME NEW a \in Authority, NEW r \in Rounds, AddBlocks(a, r) PROVE HeldInv'
  <2>1. UNCHANGED <<known, hold, answers, held, losses>> /\ stage' # "created"
    BY <1>14 DEF AddBlocks
  <2> QED BY <1>2, <2>1
<1>15. CASE SkipProposal \/ FlushProposal \/ Broadcast
  <2>1. UNCHANGED <<known, hold, answers, held, losses>> /\ stage' # "created"
    BY <1>15 DEF SkipProposal, FlushProposal, Broadcast
  <2> QED BY <1>2, <2>1
<1>16. CASE RunCommand \/ SetSubscriberExists \/ SetPropagationDelay
  <2>1. UNCHANGED <<known, hold, answers, held, losses>> /\ stage' # "created"
    BY <1>16 DEF RunCommand, SetSubscriberExists, SetPropagationDelay, NewBlock, ProposeIfEnabled
  <2> QED BY <1>2, <2>1
<1>17. CASE FinalizerFlush \/ NewRound \/ UNCHANGED vars
  <2>1. UNCHANGED <<known, hold, answers, held, losses, dag, stage>>
    BY <1>17 DEF FinalizerFlush, NewRound, vars
  <2> QED BY <1>4, <2>1
<1>18. ASSUME NEW forced \in BOOLEAN, TimerExpires(forced) PROVE HeldInv'
  <2>1. UNCHANGED <<known, hold, answers, held, losses, dag, stage>>
    BY <1>18 DEF TimerExpires
  <2> QED BY <1>4, <2>1
<1> QED
  BY <1>5, <1>6, <1>7, <1>11, <1>12, <1>13, <1>14, <1>15, <1>16, <1>17, <1>18, <1>8, <1>9 DEF Next

(* fetch_own_last_block makes up for a lost store (it is asked for by      *)
(* AuthorityNode::start when the store is empty): in whatever order peers  *)
(* accept and answer, and whatever the faulty ones answer, the validator   *)
(* does not propose anew for a round whose block a quorum of truthful      *)
(* validators held, provided that the search is not cut short by a crash.  *)
THEOREM LossMadeUpFor ==
  ASSUME NoDominantAuthority, SearchCompletes
  PROVE  Spec => []HeldNotProposedAnew
<1>1. Init => HeldInv
  <2> SUFFICES ASSUME Init PROVE HeldInv
    BY Zenon
  <2>1. held = 0 /\ losses = 0 /\ stage # "created"
    BY Zenon DEF Init
  <2> QED BY Zenon, <2>1 DEF HeldInv, HeldNotProposedAnew
<1>2. IInv /\ IInv' /\ HeldInv /\ [Next]_vars => HeldInv'
  BY Zenon, HeldStep DEF IInv
<1>3. HeldInv => HeldNotProposedAnew
  BY Zenon DEF HeldInv
<1> QED BY Invariance, <1>1, <1>2, <1>3, PTL DEF Spec
=============================================================================
