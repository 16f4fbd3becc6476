--------------------------- MODULE CompetingStore ---------------------------
(***************************************************************************)
(* The store of competing blocks of CChainState (chain_state.rs): the map  *)
(* competing_blocks from heights to blocks, the dedup set competing_seen,  *)
(* and the mutex around each.                                              *)
(*                                                                         *)
(* One thread at a time accepts blocks (apply_lock): it stores siblings of *)
(* the tip and extensions of competing blocks, connects a new tip and      *)
(* prunes, and removes a competing block before promoting it.  Builders    *)
(* of templates (the miner task, stratum, merge mining, the miner RPC) take *)
(* the blocks of a height and put them back when building or mining fails; *)
(* they hold neither apply_lock nor connect_lock.                          *)
(*                                                                         *)
(* A critical section of one mutex is one step.  Where the code holds one  *)
(* mutex and waits for the other, taking the first and the rest are two.   *)
(*                                                                         *)
(* A block carries its own height, because the map may hold it under       *)
(* another one: the miner task and the miner RPC take at the tip they read *)
(* last and put back at the tip they read first.                           *)
(***************************************************************************)
EXTENDS Integers, Sequences, FiniteSets, Functions

CONSTANTS
  Builders,              \* threads that build block templates
  Ids,                   \* blocks of one height
  MAX_COMPETING_BLOCKS,  \* block.rs: 20
  MAX_UNCLE_DEPTH,       \* block.rs: 6
  MaxHeight,             \* bound on the chain
  MaxHeld                \* bound on the blocks of one height when some are put back

ASSUME CompetingConstants ==
  /\ MAX_COMPETING_BLOCKS \in Nat \ {0} /\ MAX_UNCLE_DEPTH \in Nat /\ MaxHeight \in Nat \ {0}
  /\ MaxHeld \in Nat
  /\ "acceptor" \notin Builders /\ "free" \notin Builders

VARIABLES
  height,          \* the tip
  competing,       \* competing_blocks
  seen,            \* competing_seen
  competing_lock, seen_lock,
  pc,              \* what each thread is in the middle of
  promoted,        \* history: blocks that remove_competing took out
  restored         \* history: some blocks were put back

vars == <<height, competing, seen, competing_lock, seen_lock, pc, promoted, restored>>
history == <<promoted, restored>>

Acceptor == "acceptor"
Free == "free"
Threads == Builders \cup {Acceptor}
Heights == 1..(MaxHeight + 1)
Block == Heights \X Ids

Idle == [at |-> "idle"]
Stored == UNION {Range(competing[h]) : h \in Heights}

Init ==
  /\ height = 1
  /\ competing = [h \in Heights |-> <<>>]
  /\ seen = {}
  /\ competing_lock = Free /\ seen_lock = Free
  /\ pc = [t \in Threads |-> Idle]
  /\ promoted = {} /\ restored = FALSE

-----------------------------------------------------------------------------
Goto(t, state) == pc' = [pc EXCEPT ![t] = state]

Push(b) == competing' = [competing EXCEPT ![b[1]] = Append(@, b)]

\* The cap on blocks of one height.
BelowCap(h) == Len(competing[h]) < MAX_COMPETING_BLOCKS

AlwaysNew(b) == TRUE

\* competing_seen does not hold the block's key.
Unseen(b) == b \notin seen

\* A sibling of the tip (connect_block) or a lighter extension
\* (store_competing_block): cap test, dedup insert and push, one critical
\* section each.
StoreCap(b) ==
  /\ pc[Acceptor] = Idle /\ b[1] \in {height, height + 1}
  /\ competing_lock = Free
  /\ BelowCap(b[1])
  /\ Goto(Acceptor, [at |-> "dedup", block |-> b])
  /\ UNCHANGED <<height, competing, seen, competing_lock, seen_lock, history>>

StoreDedup ==
  LET b == pc[Acceptor].block IN
  /\ pc[Acceptor].at = "dedup"
  /\ seen_lock = Free
  /\ IF Unseen(b)
     THEN seen' = seen \cup {b} /\ Goto(Acceptor, [at |-> "push", block |-> b])
     ELSE UNCHANGED seen /\ Goto(Acceptor, Idle)
  /\ UNCHANGED <<height, competing, competing_lock, seen_lock, history>>

StorePush ==
  /\ pc[Acceptor].at = "push"
  /\ competing_lock = Free
  /\ Push(pc[Acceptor].block)
  /\ Goto(Acceptor, Idle)
  /\ UNCHANGED <<height, seen, competing_lock, seen_lock, history>>

\* connect_block's uncle-extension branch: competing_blocks is locked while
\* the parent is looked up and stays locked while competing_seen is taken.
ExtendLock(b) ==
  /\ pc[Acceptor] = Idle /\ b[1] = height + 1
  /\ competing[height] # <<>>
  /\ competing_lock = Free
  /\ competing_lock' = Acceptor
  /\ Goto(Acceptor, [at |-> "extend", block |-> b])
  /\ UNCHANGED <<height, competing, seen, seen_lock, history>>

Extend ==
  LET b == pc[Acceptor].block IN
  /\ pc[Acceptor].at = "extend"
  /\ IF BelowCap(b[1])
     THEN /\ seen_lock = Free
          /\ seen' = seen \cup {b}
          /\ IF Unseen(b) THEN Push(b) ELSE UNCHANGED competing
     ELSE UNCHANGED <<competing, seen>>
  /\ competing_lock' = Free
  /\ Goto(Acceptor, Idle)
  /\ UNCHANGED <<height, seen_lock, history>>

\* connect_block of a new tip, up to prune_competing's first lock.
ConnectTip ==
  /\ pc[Acceptor] = Idle /\ height < MaxHeight
  /\ height' = height + 1
  /\ IF height' > MAX_UNCLE_DEPTH
     THEN Goto(Acceptor, [at |-> "prune"])
     ELSE UNCHANGED pc
  /\ UNCHANGED <<competing, seen, competing_lock, seen_lock, history>>

PruneUnlocked ==
  /\ pc[Acceptor].at = "prune"
  /\ Goto(Acceptor, [at |-> "pruning"])
  /\ UNCHANGED <<height, competing, seen, competing_lock, seen_lock, history>>

\* prune_competing takes competing_blocks and keeps it.
PruneLock ==
  /\ pc[Acceptor].at = "prune"
  /\ competing_lock = Free
  /\ competing_lock' = Acceptor
  /\ Goto(Acceptor, [at |-> "pruning"])
  /\ UNCHANGED <<height, competing, seen, seen_lock, history>>

PrunedKeepKeys(keys) == seen

\* The dedup set without the keys of blocks that are given up.
Pruned(keys) == seen \ keys

Prune ==
  LET old == {h \in Heights : h < height - MAX_UNCLE_DEPTH} IN
  /\ pc[Acceptor].at = "pruning"
  /\ seen_lock = Free
  /\ competing' = [h \in Heights |-> IF h \in old THEN <<>> ELSE competing[h]]
  /\ seen' = Pruned(UNION {Range(competing[h]) : h \in old})
  /\ competing_lock' = Free
  /\ Goto(Acceptor, Idle)
  /\ UNCHANGED <<height, seen_lock, history>>

\* remove_competing, which accept_block calls before the reorganisation that
\* promotes the block: the dedup set is left alone.
RemoveCompeting(b) ==
  /\ pc[Acceptor] = Idle
  /\ b \in Range(competing[height])
  /\ competing_lock = Free
  /\ competing' = [competing EXCEPT ![height] = SelectSeq(@, LAMBDA c : c # b)]
  /\ promoted' = promoted \cup {b}
  /\ UNCHANGED <<height, seen, competing_lock, seen_lock, pc, restored>>

-----------------------------------------------------------------------------
\* take_competing_blocks at height h: the blocks leave the map first and their
\* keys leave the dedup set in a second critical section.  The builder read the
\* tip before, without a lock, so h may be any height the tip has passed; back
\* is the height it would put the blocks back at: h for stratum and merge
\* mining, an earlier reading of the tip for the miner task and the miner RPC.
Take(t, h, back) ==
  /\ pc[t] = Idle
  /\ h \in 1..height /\ back \in 1..h
  /\ competing_lock = Free
  /\ competing[h] # <<>>
  /\ Goto(t, [at |-> "unsee", back |-> back, blocks |-> competing[h]])
  /\ competing' = [competing EXCEPT ![h] = <<>>]
  /\ UNCHANGED <<height, seen, competing_lock, seen_lock, history>>

TakeUnsee(t) ==
  /\ pc[t].at = "unsee"
  /\ seen_lock = Free
  /\ seen' = seen \ Range(pc[t].blocks)
  /\ Goto(t, [pc[t] EXCEPT !.at = "building"])
  /\ UNCHANGED <<height, competing, competing_lock, seen_lock, history>>

\* The template is served, or its block accepted: the blocks are used up.
Build(t) ==
  /\ pc[t].at = "building"
  /\ Goto(t, Idle)
  /\ UNCHANGED <<height, competing, seen, competing_lock, seen_lock, history>>

\* put_competing_blocks after a failure: competing_seen is locked first and
\* competing_blocks second; neither the cap nor the dedup set is consulted.
PutLock(t) ==
  /\ pc[t].at = "building"
  /\ Len(competing[pc[t].back]) + Len(pc[t].blocks) <= MaxHeld
  /\ seen_lock = Free
  /\ seen_lock' = t
  /\ Goto(t, [pc[t] EXCEPT !.at = "putting"])
  /\ UNCHANGED <<height, competing, seen, competing_lock, history>>

Put(t) ==
  /\ pc[t].at = "putting"
  /\ competing_lock = Free
  /\ seen' = seen \cup Range(pc[t].blocks)
  /\ competing' = [competing EXCEPT ![pc[t].back] = @ \o pc[t].blocks]
  /\ seen_lock' = Free
  /\ Goto(t, Idle)
  /\ restored' = TRUE
  /\ UNCHANGED <<height, competing_lock, promoted>>

-----------------------------------------------------------------------------
\* What a thread does once it has begun, and what it may begin.
AcceptorStep == StoreDedup \/ StorePush \/ Extend \/ PruneLock \/ Prune

BuilderStep(t) == TakeUnsee(t) \/ Build(t) \/ PutLock(t) \/ Put(t)

Next ==
  \/ \E b \in Block : StoreCap(b) \/ ExtendLock(b) \/ RemoveCompeting(b)
  \/ ConnectTip
  \/ AcceptorStep
  \/ \E t \in Builders : (\E h, back \in Heights : Take(t, h, back)) \/ BuilderStep(t)

Spec == Init /\ [][Next]_vars

-----------------------------------------------------------------------------
InHand(t) == IF pc[t].at = "unsee" THEN Range(pc[t].blocks) ELSE {}
BeingStored == IF pc[Acceptor].at = "push" THEN {pc[Acceptor].block} ELSE {}

\* Shapes, and each mutex is held only by a thread that is inside a nested
\* critical section.
TypeOK ==
  /\ height \in 1..MaxHeight
  /\ competing \in [Heights -> Seq(Block)] /\ seen \subseteq Block
  /\ promoted \subseteq Block /\ restored \in BOOLEAN
  /\ competing_lock \in {Free, Acceptor} /\ seen_lock \in Builders \cup {Free}
  /\ competing_lock = Acceptor <=> pc[Acceptor].at \in {"extend", "pruning"}
  /\ \A t \in Builders : seen_lock = t <=> pc[t].at = "putting"

\* Every key of the dedup set belongs to a block that is stored, about to be
\* stored, in the hands of a builder or promoted to the chain: a key without
\* one could never be removed and its block never stored again (take_competing_
\* blocks and prune_competing only remove the keys of blocks they hold).
SeenHasBlock ==
  seen \subseteq Stored \cup BeingStored \cup promoted \cup UNION {InHand(t) : t \in Builders}

\* Until some builder puts blocks back, a block is held at most once, under its
\* own height, and the dedup set knows it, so no template pays the same uncle
\* twice, whatever takes overlap with the three critical sections of a store
\* ("reject duplicate competing blocks", connect_block).
StoredOnce ==
  ~ restored =>
    /\ \A h \in Heights : IsInjective(competing[h]) /\ \A b \in Range(competing[h]) : b[1] = h
    /\ Stored \subseteq seen

\* The two mutexes are never held by two threads that each wait for the other
\* (the lock order at the head of chain_state.rs).
NoLockCycle == ~ (/\ seen_lock # Free
                  /\ \/ pc[Acceptor].at = "pruning"
                     \/ pc[Acceptor].at = "extend" /\ BelowCap(pc[Acceptor].block[1]))
=============================================================================
