------------------------- MODULE SynchronizerProofs -------------------------
(***************************************************************************)
(* Proofs about the locks of Synchronizer for any number of peers and      *)
(* blocks, any limits and any order of requests, failures, swaps, timeouts *)
(* and answers.                                                            *)
(***************************************************************************)
EXTENDS Synchronizer, FiniteSetTheorems, FunctionTheorems, TLAPS

(* The limit, as lock_blocks sees it: on the entries of the map. *)
LocksFew ==
  \A b \in Block :
    IsFiniteSet(inflight[b]) /\ Cardinality(inflight[b]) <= MaxAuthoritiesToFetch

LocksInv == LocksMatchGuards /\ LocksFew

IInv == TypeOK /\ LocksInv

-----------------------------------------------------------------------------
(* What the steps do to locks and guards.                                  *)

(* A guard that moves on keeps its locks. *)
LEMMA BecomeStep ==
  ASSUME TypeOK, LocksInv, NEW g \in guards, NEW h,
         h.peer = g.peer, h.blocks = g.blocks, Become(g, h)
  PROVE  LocksInv'
<1>1. inflight' = inflight /\ guards' = (guards \ {g}) \cup {h}
  BY Zenon DEF Become
<1>2. LocksFew'
  BY Zenon, <1>1 DEF LocksInv, LocksFew
<1>3. ASSUME NEW b \in Block
      PROVE  inflight'[b] = {k.peer : k \in {l \in guards' : b \in l.blocks}}
  BY <1>1 DEF LocksInv, LocksMatchGuards
<1>4. ASSUME NEW k \in guards', NEW l \in guards', k # l, k.peer = l.peer
      PROVE  k.blocks \cap l.blocks = {}
  BY Zenon, <1>1, <1>4 DEF LocksInv, LocksMatchGuards
<1> QED BY Zenon, <1>2, <1>3, <1>4 DEF LocksInv, LocksMatchGuards

(* Dropped guards return their locks and no others. *)
LEMMA DropStep ==
  ASSUME TypeOK, LocksInv, NEW gs \in SUBSET guards, Drop(gs)
  PROVE  LocksInv'
<1> USE Zenon
<1>1. /\ guards' = guards \ gs
      /\ \A b \in Block :
           inflight'[b] = inflight[b] \ {g.peer : g \in {h \in gs : b \in h.blocks}}
  BY DEF Drop, Unlocked
<1>2. ASSUME NEW b \in Block
      PROVE  IsFiniteSet(inflight'[b]) /\ Cardinality(inflight'[b]) <= MaxAuthoritiesToFetch
  <2>1. inflight'[b] \subseteq inflight[b] /\ IsFiniteSet(inflight[b])
    BY <1>1 DEF LocksInv, LocksFew
  <2>2. /\ IsFiniteSet(inflight'[b])
        /\ Cardinality(inflight'[b]) <= Cardinality(inflight[b])
    BY <2>1, FS_Subset
  <2>3. Cardinality(inflight'[b]) \in Nat /\ Cardinality(inflight[b]) \in Nat
    BY <2>1, <2>2, FS_CardinalityType
  <2> QED BY SMT, <2>2, <2>3, SynchronizerAssumption DEF LocksInv, LocksFew
<1>3. ASSUME NEW b \in Block
      PROVE  inflight'[b] = {k.peer : k \in {l \in guards' : b \in l.blocks}}
  BY SMT, <1>1 DEF LocksInv, LocksMatchGuards
<1>4. ASSUME NEW k \in guards', NEW l \in guards', k # l, k.peer = l.peer
      PROVE  k.blocks \cap l.blocks = {}
  BY <1>1, <1>4 DEF LocksInv, LocksMatchGuards
<1> QED BY <1>2, <1>3, <1>4 DEF LocksInv, LocksMatchGuards, LocksFew

(* One more authority, below the limit. *)
LEMMA OneMore ==
  ASSUME NEW S, IsFiniteSet(S), NEW x, x \notin S, NEW max \in Nat, Cardinality(S) < max
  PROVE  IsFiniteSet(S \cup {x}) /\ Cardinality(S \cup {x}) <= max
<1>1. IsFiniteSet(S \cup {x}) /\ Cardinality(S \cup {x}) = Cardinality(S) + 1
  BY Zenon, FS_AddElement
<1>2. Cardinality(S) \in Nat
  BY Zenon, FS_CardinalityType
<1> QED BY <1>1, <1>2

(* New requests: every peer in `asked` locks what lock_blocks lets it, no  *)
(* two of them the same block, and `new` are their guards.                 *)
Locking(asked, locks, new) ==
  /\ asked \in SUBSET Peer /\ locks \in [Peer -> SUBSET Block]
  /\ \A p \in asked : \A b \in locks[p] :
       Cardinality(inflight[b]) < MaxAuthoritiesToFetch /\ p \notin inflight[b]
  /\ \A p, q \in asked : p # q => locks[p] \cap locks[q] = {}
  /\ \A n \in new : n.peer \in asked /\ n.blocks = locks[n.peer]
  /\ \A p \in asked : \E n \in new : n.peer = p
  /\ \A m, n \in new : m.peer = n.peer => m = n
  /\ guards' = guards \cup new
  /\ inflight' = [b \in Block |-> inflight[b] \cup {p \in asked : b \in locks[p]}]

(* Such requests keep the locks in order. *)
LEMMA LockStep ==
  ASSUME TypeOK, LocksInv, NEW asked, NEW locks, NEW new, Locking(asked, locks, new)
  PROVE  LocksInv'
<1> USE Zenon
<1> USE DEF Locking
<1>1. ASSUME NEW b \in Block
      PROVE  IsFiniteSet(inflight'[b]) /\ Cardinality(inflight'[b]) <= MaxAuthoritiesToFetch
  <2>1. IsFiniteSet(inflight[b]) /\ Cardinality(inflight[b]) <= MaxAuthoritiesToFetch
    BY DEF LocksInv, LocksFew
  <2>2. CASE \A p \in asked : b \notin locks[p]
    <3>1. inflight'[b] = inflight[b]
      BY <2>2
    <3> QED BY <2>1, <3>1
  <2>3. CASE \E p \in asked : b \in locks[p]
    <3>1. PICK p \in asked : b \in locks[p]
      BY <2>3
    <3>2. inflight'[b] = inflight[b] \cup {p}
      BY SMT, <3>1
    <3>3. p \notin inflight[b] /\ Cardinality(inflight[b]) < MaxAuthoritiesToFetch
      BY <3>1
    <3>4. MaxAuthoritiesToFetch \in Nat
      BY SynchronizerAssumption
    <3>5. /\ IsFiniteSet(inflight[b] \cup {p})
          /\ Cardinality(inflight[b] \cup {p}) <= MaxAuthoritiesToFetch
      BY <2>1, <3>3, <3>4, OneMore
    <3> QED BY <3>2, <3>5
  <2> QED BY <2>2, <2>3
<1>2. ASSUME NEW b \in Block
      PROVE  inflight'[b] = {k.peer : k \in {l \in guards' : b \in l.blocks}}
  <2>1. inflight[b] = {k.peer : k \in {l \in guards : b \in l.blocks}}
    BY DEF LocksInv, LocksMatchGuards
  <2>2. {p \in asked : b \in locks[p]} = {k.peer : k \in {l \in new : b \in l.blocks}}
    BY SMT
  <2> QED BY SMT, <2>1, <2>2
<1>3. ASSUME NEW k \in guards', NEW l \in guards', k # l, k.peer = l.peer
      PROVE  k.blocks \cap l.blocks = {}
  <2>1. ASSUME NEW g \in guards, NEW n \in new, g.peer = n.peer
        PROVE  g.blocks \cap n.blocks = {}
    <3>1. ASSUME NEW b \in g.blocks, b \in n.blocks PROVE FALSE
      <4>1. b \in Block
        BY SMT, <2>1, <3>1
      <4>2. g.peer \in inflight[b]
        BY SMT, <4>1 DEF LocksInv, LocksMatchGuards
      <4> QED BY <2>1, <3>1, <4>2
    <3> QED BY <3>1
  <2>2. CASE k \in guards /\ l \in guards
    BY <1>3, <2>2 DEF LocksInv, LocksMatchGuards
  <2> QED BY <1>3, <2>1, <2>2
<1> QED BY <1>1, <1>2, <1>3 DEF LocksInv, LocksMatchGuards, LocksFew

(* A single request of peer p for what it may lock of some references. *)
LEMMA LockOneStep ==
  ASSUME TypeOK, LocksInv, NEW p \in Peer, NEW wanted \in SUBSET Block,
         NEW path, NEW stage,
         inflight' = Locked(inflight, Lockable(inflight, wanted, p), p),
         guards' = IF Lockable(inflight, wanted, p) = {} THEN guards
                   ELSE guards \cup
                        {NewGuard(p, Lockable(inflight, wanted, p), path, stage)}
  PROVE  LocksInv'
<1> USE Zenon
<1> DEFINE refs == Lockable(inflight, wanted, p)
           n == NewGuard(p, refs, path, stage)
           locks == [q \in Peer |-> IF q = p THEN refs ELSE {}]
<1>1. /\ refs \in SUBSET Block
      /\ \A b \in refs : Cardinality(inflight[b]) < MaxAuthoritiesToFetch /\ p \notin inflight[b]
  BY DEF Lockable
<1>2. n.peer = p /\ n.blocks = refs
  BY DEF NewGuard
<1>3. inflight' = [b \in Block |-> IF b \in refs THEN inflight[b] \cup {p} ELSE inflight[b]]
  BY DEF Locked
<1>4. guards' = IF refs = {} THEN guards ELSE guards \cup {n}
  OBVIOUS
<1> HIDE DEF refs, n
<1>5. CASE refs = {}
  <2>1. \A b \in Block : inflight'[b] = inflight[b]
    BY <1>3, <1>5
  <2>2. guards' = guards
    BY <1>4, <1>5
  <2> QED BY <2>1, <2>2 DEF LocksInv, LocksMatchGuards, LocksFew
<1>6. CASE refs # {}
  <2>1. locks \in [Peer -> SUBSET Block] /\ locks[p] = refs
    BY <1>1
  <2>2. inflight' = [b \in Block |-> inflight[b] \cup {q \in {p} : b \in locks[q]}]
    BY <1>3, <2>1
  <2>3. guards' = guards \cup {n}
    BY <1>4, <1>6
  <2>4. /\ \A q \in {p} : \A b \in locks[q] :
             Cardinality(inflight[b]) < MaxAuthoritiesToFetch /\ q \notin inflight[b]
        /\ \A q, r \in {p} : q # r => locks[q] \cap locks[r] = {}
        /\ \A m \in {n} : m.peer \in {p} /\ m.blocks = locks[m.peer]
        /\ \A q \in {p} : \E m \in {n} : m.peer = q
        /\ \A m, k \in {n} : m.peer = k.peer => m = k
        /\ {p} \in SUBSET Peer
    BY <1>1, <1>2, <2>1
  <2> HIDE DEF locks
  <2>5. Locking({p}, locks, {n})
    BY <2>1, <2>2, <2>3, <2>4 DEF Locking
  <2> QED BY <2>5, LockStep
<1> QED BY <1>5, <1>6

(* The first blocks of a set are in the set. *)
LEMMA TakeSubset == ASSUME NEW refs, NEW n PROVE Take(refs, n) \subseteq refs
BY Zenon DEF Take

(* The requests of a periodic run: a block is asked from the one peer that *)
(* its author was given to, so no block is locked twice.                   *)
LEMMA PlanFetchLocks ==
  ASSUME TypeOK, LocksInv, PlanFetch
  PROVE  LocksInv'
<1> USE Zenon
<1> DEFINE refs == Take(task.snapshot, 2 * MaxPeriodicSyncPeers * MaxBlocksPerSync)
           authors == {Author[b] : b \in refs}
           batch(plan, p) == Take({b \in refs : plan[Author[b]] = p}, MaxBlocksPerSync)
<1>1. refs \in SUBSET Block
  BY TakeSubset DEF TypeOK
<1>2. PICK plan \in Plans(authors) :
        LET locks == [p \in Peer |-> Lockable(inflight, batch(plan, p), p)]
            asked == {p \in Peer : locks[p] # {}}
        IN  /\ guards' = guards \cup
                 {NewGuard(p, locks[p], "periodic", "requested") : p \in asked}
            /\ inflight' = [b \in Block |->
                              inflight[b] \cup {p \in asked : b \in locks[p]}]
  BY DEF PlanFetch
<1> DEFINE locks == [p \in Peer |-> Lockable(inflight, batch(plan, p), p)]
           asked == {p \in Peer : locks[p] # {}}
           new == {NewGuard(p, locks[p], "periodic", "requested") : p \in asked}
<1>3. /\ guards' = guards \cup new
      /\ inflight' = [b \in Block |-> inflight[b] \cup {p \in asked : b \in locks[p]}]
  BY <1>2
<1>4. \A p \in Peer : batch(plan, p) \subseteq {b \in refs : plan[Author[b]] = p}
  BY TakeSubset
<1> HIDE DEF refs, authors, batch
<1>5. /\ locks \in [Peer -> SUBSET Block] /\ asked \in SUBSET Peer
      /\ \A p \in Peer : \A b \in locks[p] :
           /\ plan[Author[b]] = p
           /\ Cardinality(inflight[b]) < MaxAuthoritiesToFetch /\ p \notin inflight[b]
  BY <1>1, <1>4 DEF Lockable
<1>6. \A p \in asked :
        LET n == NewGuard(p, locks[p], "periodic", "requested")
        IN  n.peer = p /\ n.blocks = locks[p]
  BY DEF NewGuard
<1>7. /\ \A n \in new : n.peer \in asked /\ n.blocks = locks[n.peer]
      /\ \A p \in asked : \E n \in new : n.peer = p
      /\ \A m, n \in new : m.peer = n.peer => m = n
  <2> HIDE DEF locks, asked
  <2> QED BY SMT, <1>6
<1>8. /\ \A p, q \in asked : p # q => locks[p] \cap locks[q] = {}
      /\ \A p \in asked : \A b \in locks[p] :
           Cardinality(inflight[b]) < MaxAuthoritiesToFetch /\ p \notin inflight[b]
  <2> HIDE DEF locks
  <2> QED BY SMT, <1>5
<1> HIDE DEF locks, asked, new
<1>9. Locking(asked, locks, new)
  BY <1>3, <1>5, <1>7, <1>8 DEF Locking
<1> QED BY <1>9, LockStep

-----------------------------------------------------------------------------
(* Types.                                                                  *)

(* The block manager's side keeps its types when payloads arrive. *)
LEMMA AddBlocksType ==
  ASSUME TypeOK, NEW blocks \in SUBSET Block, AddBlocks(blocks)
  PROVE  held' \in SUBSET Block /\ missing' \in SUBSET Block /\ gc' = gc
<1>1. FL!Recent(UNION {Ancestors[b] : b \in FL!Recent(blocks) \ held}) \subseteq Block
  BY SynchronizerAssumption DEF FL!Recent
<1> QED BY Zenon, <1>1 DEF AddBlocks, FL!Deliver, FL!Recent, TypeOK

(* What an answer brings are blocks. *)
LEMMA AnswerType ==
  ASSUME TypeOK, NEW g \in guards, NEW f \in Answer(g)
  PROVE  f \in SUBSET Block
BY SynchronizerAssumption DEF Answer, TypeOK, Guard

(* A guard moves to another stage. *)
LEMMA GuardStage ==
  ASSUME NEW g \in Guard,
         NEW stage \in {"queued", "requested", "result", "answered", "added"}
  PROVE  [g EXCEPT !.stage = stage] \in Guard
BY Zenon DEF Guard

(* A guard takes the blocks of an answer, or gives them away. *)
LEMMA GuardFetched ==
  ASSUME NEW g \in Guard, NEW f \in SUBSET Block
  PROVE  [g EXCEPT !.fetched = f] \in Guard
BY Zenon DEF Guard

(* Every step keeps the types. *)
LEMMA TypeStep ==
  ASSUME TypeOK, [Next]_vars
  PROVE  TypeOK'
<1> USE Zenon
<1> USE SynchronizerAssumption
<1>1. ASSUME NEW b \in Block, ReceiveBlock(b) PROVE TypeOK'
  <2>1. FL!Recent(Ancestors[b]) \ held \in SUBSET Block
    BY DEF FL!Recent
  <2>2. held' \in SUBSET Block /\ missing' \in SUBSET Block /\ gc' = gc
    BY <1>1, AddBlocksType DEF ReceiveBlock
  <2> QED BY SMT, <1>1, <2>1, <2>2 DEF ReceiveBlock, TypeOK, lagVars
<1>2. ASSUME NEW b \in Block, CheckExcluded(b) PROVE TypeOK'
  <2>1. FL!Recent(Excluded[b]) \ held \in SUBSET Block
    BY DEF FL!Recent
  <2>2. held' \in SUBSET Block /\ missing' \in SUBSET Block /\ gc' = gc
    BY <1>2, <2>1 DEF CheckExcluded, FL!Announce, TypeOK
  <2> QED BY SMT, <1>2, <2>1, <2>2 DEF CheckExcluded, TypeOK, lagVars
<1>3. ASSUME NEW c \in commands, FetchBlocks(c) PROVE TypeOK'
  <2> DEFINE refs == Lockable(inflight, Take(c.refs, MaxBlocksPerSync), c.peer)
  <2>1. c.peer \in Peer /\ refs \in SUBSET Block
    BY TakeSubset DEF TypeOK, Lockable
  <2>2. Locked(inflight, refs, c.peer) \in [Block -> SUBSET Peer]
    <3> HIDE DEF refs
    <3> QED BY SMT, <2>1 DEF TypeOK, Locked
  <2>3. NewGuard(c.peer, refs, "live", "queued") \in Guard
    <3> HIDE DEF refs
    <3> QED BY SMT, <2>1 DEF NewGuard, Guard
  <2>4. /\ inflight' = inflight \/ inflight' = Locked(inflight, refs, c.peer)
        /\ guards' \subseteq guards \cup {NewGuard(c.peer, refs, "live", "queued")}
        /\ commands' \subseteq commands
        /\ UNCHANGED <<coreVars, excluded, task, lagVars>>
    BY <1>3 DEF FetchBlocks
  <2> HIDE DEF refs
  <2> QED BY <2>2, <2>3, <2>4 DEF TypeOK, coreVars, lagVars
<1>4. ASSUME NEW gs \in SUBSET guards, Drop(gs)
      PROVE  inflight' \in [Block -> SUBSET Peer] /\ guards' \subseteq Guard
  BY <1>4 DEF Drop, Unlocked, TypeOK
<1>5. ASSUME NEW g \in guards, NEW h \in Guard, Become(g, h)
      PROVE  inflight' \in [Block -> SUBSET Peer] /\ guards' \subseteq Guard
  BY <1>5 DEF Become, TypeOK
<1>6. ASSUME NEW g \in guards, StartRequest(g) PROVE TypeOK'
  <2>1. [g EXCEPT !.stage = "requested"] \in Guard
    BY SMT DEF TypeOK, Guard
  <2> QED BY <1>5, <1>6, <2>1 DEF StartRequest, TypeOK, coreVars, lagVars
<1>7. ASSUME NEW g \in guards, LiveAnswerUseless(g) PROVE TypeOK'
  BY SMT, <1>4, <1>7 DEF LiveAnswerUseless, TypeOK, coreVars, lagVars
<1>8. ASSUME NEW g \in guards, LiveFail(g) PROVE TypeOK'
  <2>1. g.retries < MaxRetries => [g EXCEPT !.retries = @ + 1] \in Guard
    BY SMT DEF TypeOK, Guard
  <2> QED BY SMT, <1>4, <1>5, <1>8, <2>1 DEF LiveFail, TypeOK, coreVars, lagVars
<1>9. ASSUME NEW g \in guards, AddFetched(g) PROVE TypeOK'
  <2>1. g \in Guard /\ g.fetched \in SUBSET Block
    BY DEF TypeOK, Guard
  <2>2. [g EXCEPT !.stage = "added"] \in Guard
    BY <2>1, GuardStage
  <2>3. [g EXCEPT !.stage = "added", !.fetched = {}] \in Guard
    BY <2>2, GuardFetched
  <2>4. held' \in SUBSET Block /\ missing' \in SUBSET Block /\ gc' = gc
    BY <1>9, <2>1, AddBlocksType DEF AddFetched
  <2> QED BY <1>5, <1>9, <2>3, <2>4 DEF AddFetched, TypeOK, lagVars
<1>10. ASSUME NEW g \in guards, ReleaseGuard(g) PROVE TypeOK'
  BY SMT, <1>4, <1>10 DEF ReleaseGuard, TypeOK, coreVars, lagVars
<1>11. ASSUME NEW g \in guards, PeriodicFail(g) PROVE TypeOK'
  <2>1. /\ inflight' \in [Block -> SUBSET Peer] /\ guards' \subseteq Guard
        /\ UNCHANGED <<coreVars, excluded, commands, lagVars>>
    BY <1>4, <1>11 DEF PeriodicFail
  <2>2. CASE UNCHANGED task
    BY <2>1, <2>2 DEF TypeOK, coreVars, lagVars
  <2>3. ASSUME NEW p \in task.peers,
               task' = [task EXCEPT !.peers = @ \ {p},
                          !.swap = [blocks |-> g.blocks, peers |-> {p}]]
        PROVE  TypeOK'
    <3>1. g.blocks \in SUBSET Block /\ p \in Peer
      BY DEF TypeOK, Guard
    <3>2. task' \in [stage : {"none", "spawned", "fetching", "processing"},
                     snapshot : SUBSET Block, peers : SUBSET Peer,
                     swap : [blocks : SUBSET Block, peers : SUBSET Peer]]
      BY <2>3, <3>1 DEF TypeOK
    <3> QED BY <2>1, <3>2 DEF TypeOK, coreVars, lagVars
  <2> QED BY <1>11, <2>2, <2>3 DEF PeriodicFail
<1>12. ASSUME NEW g \in guards, ProcessResult(g) PROVE TypeOK'
  <2>1. [g EXCEPT !.stage = "answered"] \in Guard
    BY SMT DEF TypeOK, Guard
  <2> QED BY SMT, <1>4, <1>5, <1>12, <2>1 DEF ProcessResult, TypeOK, coreVars, lagVars
<1>13. ASSUME NEW g \in guards, NEW f \in Answer(g), LiveAnswer(g, f) PROVE TypeOK'
  <2>1. g \in Guard /\ f \in SUBSET Block
    BY AnswerType DEF TypeOK
  <2>2. [g EXCEPT !.stage = "answered"] \in Guard
    BY <2>1, GuardStage
  <2>3. [g EXCEPT !.stage = "answered", !.fetched = f] \in Guard
    BY <2>1, <2>2, GuardFetched
  <2> QED BY <1>5, <1>13, <2>3 DEF LiveAnswer, TypeOK, coreVars, lagVars
<1>14. ASSUME NEW g \in guards, NEW f \in Answer(g), PeriodicAnswer(g, f) PROVE TypeOK'
  <2>1. g \in Guard /\ f \in SUBSET Block
    BY SMT, AnswerType DEF TypeOK
  <2>2. [g EXCEPT !.stage = "result"] \in Guard
    BY <2>1, GuardStage
  <2>3. [g EXCEPT !.stage = "result", !.fetched = f] \in Guard
    BY <2>1, <2>2, GuardFetched
  <2> QED BY <1>5, <1>14, <2>3
        DEF PeriodicAnswer, TypeOK, coreVars, lagVars, NoTask, NoSwap
<1>15. ASSUME StartTask PROVE TypeOK'
  BY <1>15 DEF StartTask, TypeOK, coreVars, lagVars, NoTask, NoSwap
<1>16. ASSUME PlanFetch PROVE TypeOK'
  <2> DEFINE refs == Take(task.snapshot, 2 * MaxPeriodicSyncPeers * MaxBlocksPerSync)
             authors == {Author[b] : b \in refs}
             batch(plan, p) == Take({b \in refs : plan[Author[b]] = p}, MaxBlocksPerSync)
  <2>1. PICK plan \in Plans(authors) :
          LET locks == [p \in Peer |-> Lockable(inflight, batch(plan, p), p)]
              asked == {p \in Peer : locks[p] # {}}
          IN  /\ guards' = guards \cup
                   {NewGuard(p, locks[p], "periodic", "requested") : p \in asked}
              /\ inflight' = [b \in Block |->
                                inflight[b] \cup {p \in asked : b \in locks[p]}]
              /\ task' = [NoTask EXCEPT !.stage = "fetching",
                            !.peers = Peer \ {plan[a] : a \in authors}]
    BY <1>16, Zenon DEF PlanFetch
  <2>2. \A p \in Peer : Lockable(inflight, batch(plan, p), p) \in SUBSET Block
    BY TakeSubset DEF TypeOK, Lockable
  <2> DEFINE locks == [p \in Peer |-> Lockable(inflight, batch(plan, p), p)]
  <2>3. \A p \in Peer : NewGuard(p, locks[p], "periodic", "requested") \in Guard
    <3> HIDE DEF batch
    <3> QED BY SMT, <2>2 DEF NewGuard, Guard
  <2>4. inflight' \in [Block -> SUBSET Peer] /\ guards' \subseteq Guard
    <3> HIDE DEF batch
    <3> QED BY SMT, <2>1, <2>3 DEF TypeOK
  <2>5. task' \in [stage : {"none", "spawned", "fetching", "processing"},
                   snapshot : SUBSET Block, peers : SUBSET Peer,
                   swap : [blocks : SUBSET Block, peers : SUBSET Peer]]
    <3> HIDE DEF batch, authors
    <3> QED BY <2>1 DEF NoTask, NoSwap
  <2> QED BY <1>16, <2>4, <2>5 DEF PlanFetch, TypeOK, coreVars, lagVars
<1>17. ASSUME SwapLock PROVE TypeOK'
  <2>1. PICK p \in task.swap.peers :
          LET refs == Lockable(inflight, task.swap.blocks, p)
          IN  /\ inflight' = Locked(inflight, refs, p)
              /\ guards' = IF refs = {} THEN guards
                           ELSE guards \cup {NewGuard(p, refs, "periodic", "requested")}
    BY <1>17 DEF SwapLock
  <2> DEFINE refs == Lockable(inflight, task.swap.blocks, p)
  <2>2. p \in Peer /\ refs \in SUBSET Block
    BY DEF TypeOK, Lockable
  <2>3. NewGuard(p, refs, "periodic", "requested") \in Guard
    <3> HIDE DEF refs
    <3> QED BY SMT, <2>2 DEF NewGuard, Guard
  <2>4. Locked(inflight, refs, p) \in [Block -> SUBSET Peer]
    <3> HIDE DEF refs
    <3> QED BY <2>2 DEF TypeOK, Locked
  <2>5. task' = [task EXCEPT !.swap = NoSwap] /\ UNCHANGED <<coreVars, excluded, commands, lagVars>>
    BY <1>17 DEF SwapLock
  <2> QED BY <2>1, <2>3, <2>4, <2>5 DEF TypeOK, coreVars, lagVars, NoSwap
<1>18. ASSUME FetchTimeout PROVE TypeOK'
  <2>1. Of("periodic", {"requested"}) \in SUBSET guards
    BY DEF Of
  <2> QED BY <1>4, <1>18, <2>1 DEF FetchTimeout, TypeOK, coreVars, lagVars, NoTask, NoSwap
<1>19. ASSUME TaskDone PROVE TypeOK'
  BY <1>19 DEF TaskDone, TypeOK, coreVars, lagVars, NoTask, NoSwap
<1>20. ASSUME FallBehind PROVE TypeOK'
  BY SMT, <1>20 DEF FallBehind, TypeOK, coreVars
<1>21. ASSUME CatchUp PROVE TypeOK'
  <2>1. PICK blocks \in SUBSET Block, round \in {gc} \cup {Round[b] : b \in Block} :
          CertifiedCommits(blocks, round)
    BY <1>21 DEF CatchUp
  <2>2. round \in Nat
    BY SMT DEF TypeOK
  <2> QED BY <2>1, <2>2 DEF CertifiedCommits, TypeOK
<1>22. CASE UNCHANGED vars
  BY <1>22 DEF vars, TypeOK, lagVars
<1> QED
  BY <1>1, <1>2, <1>3, <1>6, <1>7, <1>8, <1>9, <1>10, <1>11, <1>12, <1>13, <1>14,
     <1>15, <1>16, <1>17, <1>18, <1>19, <1>20, <1>21, <1>22 DEF Next

-----------------------------------------------------------------------------
(* Locks.                                                                  *)

(* Moving on changes neither the peer nor the blocks of a guard, and so    *)
(* keeps the locks in order.                                               *)
LEMMA MoveStep ==
  ASSUME TypeOK, LocksInv, NEW g \in guards
  PROVE  /\ \A v : Become(g, [g EXCEPT !.stage = v]) => LocksInv'
         /\ \A v : Become(g, [g EXCEPT !.retries = v]) => LocksInv'
         /\ \A v, f : Become(g, [g EXCEPT !.stage = v, !.fetched = f]) => LocksInv'
<1> USE Zenon
<1>1. g \in Guard
  BY DEF TypeOK
<1>2. ASSUME NEW v, Become(g, [g EXCEPT !.stage = v]) PROVE LocksInv'
  <2> DEFINE h == [g EXCEPT !.stage = v]
  <2>1. h.peer = g.peer /\ h.blocks = g.blocks
    BY <1>1 DEF Guard
  <2> HIDE DEF h
  <2> QED BY <1>2, <2>1, BecomeStep DEF h
<1>3. ASSUME NEW v, Become(g, [g EXCEPT !.retries = v]) PROVE LocksInv'
  <2> DEFINE h == [g EXCEPT !.retries = v]
  <2>1. h.peer = g.peer /\ h.blocks = g.blocks
    BY <1>1 DEF Guard
  <2> HIDE DEF h
  <2> QED BY <1>3, <2>1, BecomeStep DEF h
<1>4. ASSUME NEW v, NEW f, Become(g, [g EXCEPT !.stage = v, !.fetched = f]) PROVE LocksInv'
  <2> DEFINE h == [g EXCEPT !.stage = v, !.fetched = f]
  <2>1. h.peer = g.peer /\ h.blocks = g.blocks
    BY <1>1 DEF Guard
  <2> HIDE DEF h
  <2> QED BY <1>4, <2>1, BecomeStep DEF h
<1> QED BY <1>2, <1>3, <1>4

(* Every step keeps the locks in order. *)
LEMMA LocksStep ==
  ASSUME TypeOK, LocksInv, [Next]_vars
  PROVE  LocksInv'
<1> USE Zenon
<1>1. ASSUME UNCHANGED <<inflight, guards>> PROVE LocksInv'
  BY <1>1 DEF LocksInv, LocksMatchGuards, LocksFew
<1>2. ASSUME NEW c \in commands, FetchBlocks(c) PROVE LocksInv'
  <2> DEFINE wanted == Take(c.refs, MaxBlocksPerSync)
             refs == Lockable(inflight, wanted, c.peer)
  <2>1. c.peer \in Peer /\ wanted \in SUBSET Block
    BY TakeSubset DEF TypeOK
  <2>2. \/ UNCHANGED <<inflight, guards>>
        \/ /\ refs # {}
           /\ inflight' = Locked(inflight, refs, c.peer)
           /\ guards' = guards \cup {NewGuard(c.peer, refs, "live", "queued")}
    BY <1>2 DEF FetchBlocks
  <2> HIDE DEF wanted
  <2> QED BY <1>1, <2>1, <2>2, LockOneStep
<1>3. ASSUME NEW g \in guards,
             StartRequest(g) \/ LiveAnswerUseless(g) \/ LiveFail(g) \/ AddFetched(g)
               \/ ReleaseGuard(g) \/ ProcessResult(g) \/ PeriodicFail(g)
      PROVE  LocksInv'
  <2>1. Drop({g}) => LocksInv'
    BY DropStep
  <2>2. CASE StartRequest(g)
    BY <2>2, MoveStep DEF StartRequest
  <2>3. CASE LiveFail(g)
    BY <2>1, <2>3, MoveStep DEF LiveFail
  <2>4. CASE AddFetched(g)
    BY <2>4, MoveStep DEF AddFetched
  <2>5. CASE ProcessResult(g)
    BY <2>1, <2>5, MoveStep DEF ProcessResult
  <2> QED BY <1>3, <2>1, <2>2, <2>3, <2>4, <2>5
        DEF LiveAnswerUseless, ReleaseGuard, PeriodicFail
<1>4. ASSUME NEW g \in guards, NEW f \in Answer(g), LiveAnswer(g, f) \/ PeriodicAnswer(g, f)
      PROVE  LocksInv'
  BY <1>4, MoveStep DEF LiveAnswer, PeriodicAnswer
<1>5. ASSUME SwapLock PROVE LocksInv'
  <2>1. PICK p \in task.swap.peers :
          LET refs == Lockable(inflight, task.swap.blocks, p)
          IN  /\ inflight' = Locked(inflight, refs, p)
              /\ guards' = IF refs = {} THEN guards
                           ELSE guards \cup {NewGuard(p, refs, "periodic", "requested")}
    BY <1>5 DEF SwapLock
  <2>2. p \in Peer /\ task.swap.blocks \in SUBSET Block
    BY DEF TypeOK
  <2> QED BY <2>1, <2>2, LockOneStep
<1>6. ASSUME FetchTimeout PROVE LocksInv'
  <2>1. Of("periodic", {"requested"}) \in SUBSET guards
    BY DEF Of
  <2> QED BY <1>6, <2>1, DropStep DEF FetchTimeout
<1>7. CASE \/ \E b \in Block : ReceiveBlock(b) \/ CheckExcluded(b)
           \/ StartTask \/ TaskDone \/ FallBehind \/ CatchUp \/ UNCHANGED vars
  BY <1>1, <1>7
     DEF ReceiveBlock, CheckExcluded, StartTask, TaskDone, FallBehind, CatchUp,
         CertifiedCommits, vars
<1> QED BY <1>2, <1>3, <1>4, <1>5, <1>6, <1>7, PlanFetchLocks DEF Next

(* The inductive invariant. *)
THEOREM Invariance == Spec => []IInv
<1>1. Init => IInv
  <2> SUFFICES ASSUME Init PROVE IInv
    BY Zenon
  <2>1. TypeOK
    <3>1. inflight \in [Block -> SUBSET Peer]
      BY Zenon DEF Init
    <3>2. task \in [stage : {"none", "spawned", "fetching", "processing"},
                   snapshot : SUBSET Block, peers : SUBSET Peer,
                   swap : [blocks : SUBSET Block, peers : SUBSET Peer]]
      BY Zenon DEF Init, NoTask, NoSwap
    <3>3. gc \in Nat /\ lags \in 0 .. MaxLags
      BY SynchronizerAssumption DEF Init, FL!Init
    <3>4. lagging \in BOOLEAN
      BY Zenon DEF Init
    <3> QED BY Zenon, <3>1, <3>2, <3>3, <3>4 DEF Init, FL!Init, TypeOK
  <2>2. IsFiniteSet({}) /\ Cardinality({}) = 0
    BY Zenon, FS_EmptySet
  <2>3. LocksFew
    <3>1. \A b \in Block : inflight[b] = {}
      BY Zenon DEF Init
    <3>2. 0 <= MaxAuthoritiesToFetch
      BY SynchronizerAssumption
    <3> QED BY Zenon, <2>2, <3>1, <3>2 DEF LocksFew
  <2>4. LocksMatchGuards
    BY Zenon DEF Init, LocksMatchGuards
  <2> QED BY Zenon, <2>1, <2>3, <2>4 DEF IInv, LocksInv
<1>2. IInv /\ [Next]_vars => IInv'
  BY Zenon, TypeStep, LocksStep DEF IInv
<1> QED BY <1>1, <1>2, PTL DEF Spec

(* Types. *)
THEOREM TypesHold == Spec => []TypeOK
BY Invariance, PTL DEF IInv

(* unlock_blocks never panics, and no lock is left without a guard that    *)
(* will return it, however requests of both paths, retries, swaps and      *)
(* timeouts interleave.                                                    *)
THEOREM LocksOwned == Spec => []LocksMatchGuards
BY Invariance, PTL DEF IInv, LocksInv

(* No block is fetched from more authorities at a time than                *)
(* MAX_AUTHORITIES_TO_FETCH_PER_BLOCK: the guards that hold it are told    *)
(* apart by their peers, which are the authorities in the map.             *)
THEOREM FetchesBounded == Spec => []FetchedByFew
<1>1. IInv => FetchedByFew
  <2> SUFFICES ASSUME LocksInv, NEW b \in Block
               PROVE  Cardinality({g \in guards : b \in g.blocks}) <= MaxAuthoritiesToFetch
    BY Zenon DEF IInv, FetchedByFew
  <2> DEFINE G == {g \in guards : b \in g.blocks}
             peerOf == [g \in G |-> g.peer]
  <2>1. /\ inflight[b] = {g.peer : g \in G}
        /\ \A g, h \in G : g.peer = h.peer => g = h
        /\ IsFiniteSet(inflight[b]) /\ Cardinality(inflight[b]) <= MaxAuthoritiesToFetch
    BY Zenon DEF LocksInv, LocksMatchGuards, LocksFew
  <2> HIDE DEF G
  <2>2. peerOf \in [G -> inflight[b]] /\ \A g, h \in G : peerOf[g] = peerOf[h] => g = h
    BY Zenon, <2>1
  <2> HIDE DEF peerOf
  <2>3. peerOf \in Injection(G, inflight[b])
    BY Zenon, <2>2, Fun_IsInj
  <2>4. IsFiniteSet(G) /\ Cardinality(G) <= Cardinality(inflight[b])
    BY Zenon, <2>1, <2>3, FS_Injection
  <2>5. Cardinality(G) \in Nat /\ Cardinality(inflight[b]) \in Nat
    BY Zenon, <2>1, <2>4, FS_CardinalityType
  <2>6. Cardinality(G) <= MaxAuthoritiesToFetch
    BY <2>1, <2>4, <2>5, SynchronizerAssumption
  <2> QED BY Zenon, <2>6 DEF G
<1> QED BY <1>1, Invariance, PTL
=============================================================================
