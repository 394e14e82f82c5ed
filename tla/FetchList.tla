------------------------------ MODULE FetchList ------------------------------
(***************************************************************************)
(* What the block manager promises the synchronizer: which payloads are    *)
(* held (accepted or suspended) and which blocks are to be fetched.        *)
(* BlockManager implements this specification; Synchronizer builds on it.  *)
(*                                                                         *)
(* A block leaves the list only when its payload arrives, when a commit    *)
(* moves the garbage collection (GC) round past it, or at a restart; it    *)
(* enters the list only as an ancestor of a payload that arrived or        *)
(* because a peer announced it.                                            *)
(***************************************************************************)
EXTENDS Naturals, FiniteSets

CONSTANTS Block, Round, Ancestors

VARIABLES held, missing, gc

Init == held = {} /\ missing = {} /\ gc = 0

Recent(blocks) == {b \in blocks : Round[b] > gc}

(* Payloads arrive; the ancestors in `wanted` are to be fetched. *)
Deliver(blocks, wanted) ==
  /\ wanted \subseteq Recent(UNION {Ancestors[b] : b \in blocks})
  /\ held' = held \cup blocks
  /\ missing' = (missing \cup wanted) \ held'
  /\ UNCHANGED gc

(* A peer announces references; the unknown ones are to be fetched. *)
Announce(refs) ==
  /\ missing' = missing \cup (Recent(refs) \ held)
  /\ UNCHANGED <<held, gc>>

(* A commit moves the GC round up. *)
Commit ==
  /\ gc' \in Nat /\ gc' >= gc
  /\ missing' = {b \in missing : Round[b] > gc'}
  /\ UNCHANGED held

(* The process restarts on what was stored. *)
Restart ==
  /\ held' \subseteq held
  /\ gc' \in Nat /\ gc' <= gc
  /\ missing' = {}

Next ==
  \/ \E blocks, wanted \in SUBSET Block : Deliver(blocks, wanted)
  \/ \E refs \in SUBSET Block : Announce(refs)
  \/ Commit
  \/ Restart

Spec == Init /\ [][Next]_<<held, missing, gc>>
=============================================================================
