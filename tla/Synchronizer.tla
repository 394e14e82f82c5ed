---------------------------- MODULE Synchronizer ----------------------------
(***************************************************************************)
(* The synchronizer of one validator (consensus/core/src/synchronizer.rs)  *)
(* with the handler that feeds it (authority_service.rs) and the fetch     *)
(* list of the block manager (FetchList).                                  *)
(*                                                                         *)
(* Missing blocks are fetched on two paths.  On the live path the handler  *)
(* of a received block asks the sender for the ancestors it misses: a      *)
(* command to the synchronizer's loop, a bounded queue per peer, and one   *)
(* task per peer.  On the periodic path one task at a time asks several    *)
(* peers for the whole fetch list.  Both share inflight_blocks_map, which  *)
(* lets at most two authorities fetch a block at the same time; a lock is  *)
(* owned by a BlocksGuard and released when the guard is dropped.          *)
(*                                                                         *)
(* The batched protocol (consensus_batched_block_sync) is modelled.  The   *)
(* timers have no values: a request may fail or time out at any moment and *)
(* the scheduler may run whenever it has no task, so KickOffScheduler,     *)
(* which only makes it run sooner, is no action of its own.                *)
(***************************************************************************)
EXTENDS Naturals, FiniteSets

CONSTANTS
  Peer,              \* the other authorities
  Honest,            \* the peers that hold every block and serve what is asked
  Block, Round, Ancestors,  \* the blocks with the ancestors each references
  Excluded,          \* Excluded[b]: the excluded ancestors announced with b
  Author,            \* Author[b]: the peer that proposed b
  Position,          \* Position[b]: the place of b in the order of block refs
  MaxBlocksPerSync,            \* parameters.max_blocks_per_sync
  MaxAuthoritiesToFetch,       \* MAX_AUTHORITIES_TO_FETCH_PER_BLOCK
  FetchBlocksConcurrency,      \* FETCH_BLOCKS_CONCURRENCY
  MaxRetries,                  \* MAX_RETRIES of the live path
  MaxPeriodicSyncPeers,        \* MAX_PERIODIC_SYNC_PEERS
  MaxLags            \* bound: how often the validator falls behind

ASSUME SynchronizerAssumption ==
  /\ Honest \subseteq Peer
  /\ Round \in [Block -> Nat]
  /\ Ancestors \in [Block -> SUBSET Block]
  /\ Excluded \in [Block -> SUBSET Block]
  /\ Author \in [Block -> Peer]
  /\ Position \in [Block -> Nat]
  /\ \A a, b \in Block : Position[a] = Position[b] => a = b
  /\ MaxBlocksPerSync \in Nat \ {0} /\ MaxAuthoritiesToFetch \in Nat \ {0}
  /\ MaxRetries \in Nat \ {0} /\ MaxLags \in Nat

VARIABLES
  held, missing, gc,  \* the block manager's side, see FetchList
  excluded,       \* received blocks whose excluded ancestors are not looked up yet
  commands,       \* FetchBlocks commands on their way to the loop
  inflight,       \* inflight_blocks_map: block -> authorities fetching it
  guards,         \* the BlocksGuards that exist, each with its request
  task,           \* the task of the periodic path
  lagging, lags   \* is_commit_lagging(), and how often it became true

coreVars == <<held, missing, gc>>
lagVars == <<lagging, lags>>
vars == <<held, missing, gc, excluded, commands, inflight, guards, task, lagVars>>

FL == INSTANCE FetchList

(* A guard is with the task of its peer ("live") or with the periodic task *)
(* and is queued, requested, a result waiting, answered with valid blocks, *)
(* or added to Core.                                                       *)
Guard == [peer : Peer, blocks : SUBSET Block, path : {"live", "periodic"},
          stage : {"queued", "requested", "result", "answered", "added"},
          retries : 1 .. MaxRetries, fetched : SUBSET Block]

NoSwap == [blocks |-> {}, peers |-> {}]
NoTask == [stage |-> "none", snapshot |-> {}, peers |-> {}, swap |-> NoSwap]

Of(path, stages) == {g \in guards : g.path = path /\ g.stage \in stages}

(* A task awaits Core while it processes an answer and does nothing else. *)
LiveBusy(p) == \E g \in Of("live", {"answered", "added"}) : g.peer = p
PeriodicBusy == Of("periodic", {"answered", "added"}) # {}

(* The first blocks of a set, in the order of a BTreeSet<BlockRef>. *)
Take(refs, n) ==
  {b \in refs : Cardinality({a \in refs : Position[a] < Position[b]}) < n}

-----------------------------------------------------------------------------
(* InflightBlocksMap.                                                      *)

(* Mutant: the limit is off by one. *)
LockableOneMore(map, refs, p) ==
  {b \in refs : Cardinality(map[b]) <= MaxAuthoritiesToFetch /\ p \notin map[b]}

(* lock_blocks: the references peer p may fetch. *)
Lockable(map, refs, p) ==
  {b \in refs : Cardinality(map[b]) < MaxAuthoritiesToFetch /\ p \notin map[b]}

Locked(map, refs, p) ==
  [b \in Block |-> IF b \in refs THEN map[b] \cup {p} ELSE map[b]]

(* unlock_blocks, when the guards gs are dropped. *)
Unlocked(map, gs) ==
  [b \in Block |-> map[b] \ {g.peer : g \in {h \in gs : b \in h.blocks}}]

Drop(gs) ==
  /\ guards' = guards \ gs
  /\ inflight' = Unlocked(inflight, gs)

(* A guard moves on. *)
Become(g, h) ==
  /\ guards' = (guards \ {g}) \cup {h}
  /\ UNCHANGED inflight

NewGuard(p, refs, path, stage) ==
  [peer |-> p, blocks |-> refs, path |-> path, stage |-> stage,
   retries |-> 1, fetched |-> {}]

-----------------------------------------------------------------------------
Init ==
  /\ FL!Init
  /\ excluded = {}
  /\ commands = {}
  /\ inflight = [b \in Block |-> {}]
  /\ guards = {}
  /\ task = NoTask
  /\ lagging = FALSE /\ lags = 0

(* Payloads enter the block manager, which skips those at or below the GC  *)
(* round and wants the unknown ancestors of the others.                    *)
AddBlocks(blocks) ==
  LET new == FL!Recent(blocks) \ held
  IN  FL!Deliver(new, FL!Recent(UNION {Ancestors[b] : b \in new}) \ held)

(* handle_send_block: the author sends a block; unless the validator lags, *)
(* Core adds it and its missing ancestors are asked from the sender.       *)
ReceiveBlock(b) ==
  LET wanted == FL!Recent(Ancestors[b]) \ held
  IN  /\ ~lagging
      /\ b \notin held /\ Round[b] > gc
      /\ AddBlocks({b})
      /\ excluded' = excluded \cup {b}
      /\ commands' = IF wanted = {} THEN commands
                     ELSE commands \cup {[refs |-> wanted, peer |-> Author[b]]}
      /\ UNCHANGED <<inflight, guards, task, lagVars>>

(* handle_send_block, after Core added the block: the references it was    *)
(* sent with are checked by Core and the unknown ones asked for.           *)
CheckExcluded(b) ==
  LET unknown == FL!Recent(Excluded[b]) \ held
  IN  /\ b \in excluded
      /\ FL!Announce(Excluded[b])
      /\ excluded' = excluded \ {b}
      /\ commands' = IF unknown = {} THEN commands
                     ELSE commands \cup {[refs |-> unknown, peer |-> Author[b]]}
      /\ UNCHANGED <<inflight, guards, task, lagVars>>

(* Mutant: the locks of a request that is not queued are kept. *)
FetchBlocksLeaking(c) ==
  LET refs == Lockable(inflight, Take(c.refs, MaxBlocksPerSync), c.peer)
      queued == {g \in Of("live", {"queued"}) : g.peer = c.peer}
  IN  /\ c \in commands
      /\ commands' = commands \ {c}
      /\ inflight' = Locked(inflight, refs, c.peer)
      /\ guards' = IF refs = {} \/ Cardinality(queued) >= FetchBlocksConcurrency
                   THEN guards
                   ELSE guards \cup {NewGuard(c.peer, refs, "live", "queued")}
      /\ UNCHANGED <<coreVars, excluded, task, lagVars>>

(* Command::FetchBlocks: locks what may be fetched and queues it for the   *)
(* task of the peer; a full queue drops the request and its guard.         *)
FetchBlocks(c) ==
  LET refs == Lockable(inflight, Take(c.refs, MaxBlocksPerSync), c.peer)
      queued == {g \in Of("live", {"queued"}) : g.peer = c.peer}
  IN  /\ c \in commands
      /\ commands' = commands \ {c}
      /\ \/ /\ refs = {} \/ Cardinality(queued) >= FetchBlocksConcurrency
            /\ UNCHANGED <<inflight, guards>>
         \/ /\ refs # {} /\ Cardinality(queued) < FetchBlocksConcurrency
            /\ inflight' = Locked(inflight, refs, c.peer)
            /\ guards' = guards \cup {NewGuard(c.peer, refs, "live", "queued")}
      /\ UNCHANGED <<coreVars, excluded, task, lagVars>>

-----------------------------------------------------------------------------
(* The task of a peer, fetch_blocks_from_authority.                        *)

StartRequest(g) ==
  /\ g \in Of("live", {"queued"})
  /\ ~LiveBusy(g.peer)
  /\ Cardinality({h \in Of("live", {"requested"}) : h.peer = g.peer})
       < FetchBlocksConcurrency
  /\ Become(g, [g EXCEPT !.stage = "requested"])
  /\ UNCHANGED <<coreVars, excluded, commands, task, lagVars>>

(* What a peer may answer: some of the blocks asked for and, as far as the *)
(* maximum allows, of their ancestors (any other valid block it adds has   *)
(* the effect of its author sending it).  An honest peer serves what it is *)
(* asked for.                                                              *)
Answer(g) ==
  {f \in SUBSET (g.blocks \cup UNION {Ancestors[b] : b \in g.blocks}) :
     /\ Cardinality(f) <= MaxBlocksPerSync
     /\ g.peer \in Honest => g.blocks \subseteq f}

(* The peer answers; valid blocks go on to Core. *)
LiveAnswer(g, fetched) ==
  /\ g \in Of("live", {"requested"})
  /\ ~LiveBusy(g.peer)
  /\ fetched # {}
  /\ Become(g, [g EXCEPT !.stage = "answered", !.fetched = fetched])
  /\ UNCHANGED <<coreVars, excluded, commands, task, lagVars>>

(* process_fetched_blocks returns early: no blocks, or an invalid one. *)
LiveAnswerUseless(g) ==
  /\ g \in Of("live", {"requested"})
  /\ ~LiveBusy(g.peer)
  /\ g.peer \notin Honest
  /\ Drop({g})
  /\ UNCHANGED <<coreVars, excluded, commands, task, lagVars>>

(* Mutant: one more attempt than the maximum. *)
LiveFailOneMore(g) ==
  /\ g \in Of("live", {"requested"})
  /\ ~LiveBusy(g.peer)
  /\ IF g.retries <= MaxRetries
       THEN Become(g, [g EXCEPT !.retries = @ + 1])
       ELSE Drop({g})
  /\ UNCHANGED <<coreVars, excluded, commands, task, lagVars>>

(* Mutant: the request is repeated without end. *)
LiveFailForever(g) ==
  /\ g \in Of("live", {"requested"})
  /\ ~LiveBusy(g.peer)
  /\ Become(g, [g EXCEPT !.retries = IF @ < MaxRetries THEN @ + 1 ELSE 1])
  /\ UNCHANGED <<coreVars, excluded, commands, task, lagVars>>

(* The request fails or times out: it is repeated, or given up. *)
LiveFail(g) ==
  /\ g \in Of("live", {"requested"})
  /\ ~LiveBusy(g.peer)
  /\ IF g.retries < MaxRetries
       THEN Become(g, [g EXCEPT !.retries = @ + 1])
       ELSE Drop({g})
  /\ UNCHANGED <<coreVars, excluded, commands, task, lagVars>>

-----------------------------------------------------------------------------
(* process_fetched_blocks, on both paths.                                  *)

AddFetched(g) ==
  /\ g \in guards /\ g.stage = "answered"
  /\ AddBlocks(g.fetched)
  /\ Become(g, [g EXCEPT !.stage = "added", !.fetched = {}])
  /\ UNCHANGED <<excluded, commands, task, lagVars>>

ReleaseGuard(g) ==
  /\ g \in guards /\ g.stage = "added"
  /\ Drop({g})
  /\ UNCHANGED <<coreVars, excluded, commands, task, lagVars>>

-----------------------------------------------------------------------------
(* The periodic path.                                                      *)

(* start_fetch_missing_blocks_task. *)
StartTask ==
  /\ task = NoTask
  /\ missing # {}
  /\ ~lagging
  /\ task' = [NoTask EXCEPT !.stage = "spawned", !.snapshot = missing]
  /\ UNCHANGED <<coreVars, excluded, commands, inflight, guards, lagVars>>

CeilDiv(a, b) == (a + b - 1) \div b
SmallerOf(a, b) == IF a < b THEN a ELSE b

(* Mutant: the missing authorities are spread over too few per peer. *)
PlansTooNarrow(authors) ==
  LET k == (Cardinality(authors) \div SmallerOf(Cardinality(Peer), MaxPeriodicSyncPeers))
  IN  {plan \in [authors -> Peer] :
         \A p \in Peer : Cardinality({a \in authors : plan[a] = p}) <= k}

(* fetch_blocks_from_authorities: the shuffled authors of the missing      *)
(* blocks are cut into chunks of equal size and each chunk is given to the *)
(* next of the shuffled peers.                                             *)
Plans(authors) ==
  LET k == CeilDiv(Cardinality(authors),
                   SmallerOf(Cardinality(Peer), MaxPeriodicSyncPeers))
      Chunk(plan, p) == {a \in authors : plan[a] = p}
  IN  {plan \in [authors -> Peer] :
         /\ \A p \in Peer : Cardinality(Chunk(plan, p)) <= k
         /\ \A p, q \in Peer :
              /\ Cardinality(Chunk(plan, p)) \in 1 .. k - 1
              /\ Cardinality(Chunk(plan, q)) \in 1 .. k - 1
              => p = q}

(* The requests of the task, each with the locks it could get. *)
PlanFetch ==
  LET refs == Take(task.snapshot, 2 * MaxPeriodicSyncPeers * MaxBlocksPerSync)
      authors == {Author[b] : b \in refs}
  IN  /\ task.stage = "spawned"
      /\ \E plan \in Plans(authors) :
           LET batch(p) == Take({b \in refs : plan[Author[b]] = p}, MaxBlocksPerSync)
               locks == [p \in Peer |-> Lockable(inflight, batch(p), p)]
               asked == {p \in Peer : locks[p] # {}}
           IN  /\ guards' = guards \cup
                    {NewGuard(p, locks[p], "periodic", "requested") : p \in asked}
               /\ inflight' = [b \in Block |->
                                 inflight[b] \cup {p \in asked : b \in locks[p]}]
               /\ task' = [NoTask EXCEPT !.stage = "fetching",
                             !.peers = Peer \ {plan[a] : a \in authors}]
      /\ UNCHANGED <<coreVars, excluded, commands, lagVars>>

Fetching == task.stage = "fetching" /\ task.swap = NoSwap

(* A peer answers; the last answer ends the wait. *)
PeriodicAnswer(g, fetched) ==
  /\ g \in Of("periodic", {"requested"})
  /\ Fetching
  /\ Become(g, [g EXCEPT !.stage = "result", !.fetched = fetched])
  /\ task' = IF Of("periodic", {"requested"}) = {g}
             THEN [NoTask EXCEPT !.stage = "processing"] ELSE task
  /\ UNCHANGED <<coreVars, excluded, commands, lagVars>>

(* A request fails: the guard is dropped and, if a peer is left, its       *)
(* blocks are to be locked again for that peer (swap_locks).               *)
PeriodicFail(g) ==
  /\ g \in Of("periodic", {"requested"})
  /\ Fetching
  /\ Drop({g})
  /\ \/ task.peers = {} /\ UNCHANGED task
     \/ \E p \in task.peers :
          task' = [task EXCEPT !.peers = @ \ {p},
                     !.swap = [blocks |-> g.blocks, peers |-> {p}]]
  /\ UNCHANGED <<coreVars, excluded, commands, lagVars>>

(* The second half of swap_locks: other requests may have taken the locks. *)
SwapLock ==
  /\ task.swap # NoSwap
  /\ \E p \in task.swap.peers :
       LET refs == Lockable(inflight, task.swap.blocks, p)
       IN  /\ inflight' = Locked(inflight, refs, p)
           /\ guards' = IF refs = {} THEN guards
                        ELSE guards \cup {NewGuard(p, refs, "periodic", "requested")}
  /\ task' = [task EXCEPT !.swap = NoSwap]
  /\ UNCHANGED <<coreVars, excluded, commands, lagVars>>

(* FETCH_FROM_PEERS_TIMEOUT: the requests still out are dropped. *)
FetchTimeout ==
  /\ Fetching
  /\ Drop(Of("periodic", {"requested"}))
  /\ task' = [NoTask EXCEPT !.stage = "processing"]
  /\ UNCHANGED <<coreVars, excluded, commands, lagVars>>

(* The results are processed one after the other. *)
ProcessResult(g) ==
  /\ task.stage = "processing" /\ ~PeriodicBusy
  /\ g \in Of("periodic", {"result"})
  /\ \/ g.fetched # {} /\ Become(g, [g EXCEPT !.stage = "answered"])
     \/ (g.fetched = {} \/ g.peer \notin Honest) /\ Drop({g})
  /\ UNCHANGED <<coreVars, excluded, commands, task, lagVars>>

TaskDone ==
  /\ task.stage = "processing"
  /\ \A g \in guards : g.path # "periodic"
  /\ task' = NoTask
  /\ UNCHANGED <<coreVars, excluded, commands, inflight, guards, lagVars>>

-----------------------------------------------------------------------------
(* The validator falls behind the commits of a quorum; certified commits   *)
(* bring it up again with their blocks, which form a causal history, and   *)
(* move the GC round to somewhere below their last leader.                 *)
FallBehind ==
  /\ ~lagging /\ lags < MaxLags
  /\ lagging' = TRUE /\ lags' = lags + 1
  /\ UNCHANGED <<coreVars, excluded, commands, inflight, guards, task>>

CertifiedCommits(blocks, round) ==
  /\ lagging
  /\ round >= gc
  /\ \E leader \in blocks : Round[leader] > round
  /\ \A b \in blocks : \A a \in Ancestors[b] :
       a \in blocks \cup held \/ Round[a] <= round
  /\ held' = held \cup blocks
  /\ gc' = round
  /\ missing' = {b \in missing \ blocks : Round[b] > round}
  /\ lagging' = FALSE
  /\ UNCHANGED <<excluded, commands, inflight, guards, task, lags>>

CatchUp ==
  \E blocks \in SUBSET Block, round \in {gc} \cup {Round[b] : b \in Block} :
    CertifiedCommits(blocks, round)

Next ==
  \/ \E b \in Block : ReceiveBlock(b) \/ CheckExcluded(b)
  \/ \E c \in commands : FetchBlocks(c)
  \/ \E g \in guards :
       \/ StartRequest(g) \/ LiveAnswerUseless(g) \/ LiveFail(g)
       \/ AddFetched(g) \/ ReleaseGuard(g)
       \/ PeriodicFail(g) \/ ProcessResult(g)
       \/ \E f \in Answer(g) : LiveAnswer(g, f) \/ PeriodicAnswer(g, f)
  \/ StartTask \/ PlanFetch \/ SwapLock \/ FetchTimeout \/ TaskDone
  \/ FallBehind \/ CatchUp

Spec == Init /\ [][Next]_vars

(* Every task works off its input; timers expire.  The authors and peers   *)
(* of a periodic run are shuffled, so a block that can be locked for an    *)
(* honest peer is assigned to one again and again, and an honest peer      *)
(* sometimes answers in time.  Nothing is assumed of the other peers, nor  *)
(* of how often blocks arrive.                                             *)
LoopStep == \E c \in commands : FetchBlocks(c)

HandlerStep == \E b \in excluded : CheckExcluded(b)

LiveStep(p) ==
  \E g \in {h \in guards : h.path = "live" /\ h.peer = p} :
    StartRequest(g) \/ LiveAnswerUseless(g) \/ LiveFail(g) \/ AddFetched(g) \/ ReleaseGuard(g)

PeriodicStep ==
  \/ StartTask \/ PlanFetch \/ SwapLock \/ FetchTimeout \/ TaskDone
  \/ \E g \in {h \in guards : h.path = "periodic"} :
       ProcessResult(g) \/ AddFetched(g) \/ ReleaseGuard(g)

Wanted == UNION {Ancestors[b] \cup Excluded[b] : b \in Block}

HonestAsked(b) ==
  /\ PlanFetch
  /\ \E p \in Honest : p \in inflight'[b] \ inflight[b]

HonestAnswers(b) ==
  \E g \in guards : \E f \in Answer(g) :
    g.peer \in Honest /\ b \in g.blocks /\ PeriodicAnswer(g, f)

FairSpec ==
  /\ Spec
  /\ WF_vars(LoopStep)
  /\ WF_vars(HandlerStep)
  /\ \A p \in Peer : WF_vars(LiveStep(p))
  /\ WF_vars(PeriodicStep)
  /\ \A b \in Wanted : SF_vars(HonestAsked(b)) /\ SF_vars(HonestAnswers(b))
  /\ WF_vars(CatchUp)

-----------------------------------------------------------------------------
(* Properties.                                                             *)

(* The types; a guard counts no more retries than MAX_RETRIES allows. *)
TypeOK ==
  /\ held \in SUBSET Block /\ missing \in SUBSET Block /\ gc \in Nat
  /\ excluded \in SUBSET Block
  /\ commands \subseteq [refs : SUBSET Block, peer : Peer]
  /\ inflight \in [Block -> SUBSET Peer]
  /\ guards \subseteq Guard
  /\ task \in [stage : {"none", "spawned", "fetching", "processing"},
               snapshot : SUBSET Block, peers : SUBSET Peer,
               swap : [blocks : SUBSET Block, peers : SUBSET Peer]]
  /\ lagging \in BOOLEAN /\ lags \in 0 .. MaxLags

(* The map of locks is exactly what the guards that exist own, and no two  *)
(* guards own the same lock, over both paths, retries, swaps and dropped   *)
(* requests.  A lock without a guard is never released; a guard without    *)
(* its lock, or a lock owned twice, panics in unlock_blocks ("Peer index   *)
(* should be present!").                                                   *)
LocksMatchGuards ==
  /\ \A b \in Block :
       inflight[b] = {g.peer : g \in {h \in guards : b \in h.blocks}}
  /\ \A g, h \in guards :
       g # h /\ g.peer = h.peer => g.blocks \cap h.blocks = {}

(* "Concurrent requests for missing blocks from up to two authorities":    *)
(* the guards of both paths that hold a block are never more.              *)
FetchedByFew ==
  \A b \in Block :
    Cardinality({g \in guards : b \in g.blocks}) <= MaxAuthoritiesToFetch

(* Every block on the fetch list arrives or is given up. *)
EveryMissingBlockArrives ==
  \A b \in Wanted : b \in missing ~> b \notin missing

(* In the end every lock is returned. *)
LocksReturned == <>[](\A b \in Block : inflight[b] = {})
=============================================================================
