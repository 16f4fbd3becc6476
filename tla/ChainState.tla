----------------------------- MODULE ChainState -----------------------------
(***************************************************************************)
(* The canonical chain of one node: CChainState of src/linear (connect_    *)
(* block, disconnect_block, new) with the sled trees it commits to and the *)
(* in-memory sets it serves reads from.                                    *)
(*                                                                         *)
(* connect_block and disconnect_block run under connect_lock, so two of    *)
(* them never interleave.  Each is still two steps here: the cross-tree    *)
(* sled transaction (Commit) and the in-memory updates that follow it     *)
(* (Memory), because a crash can fall between the two.  Restart is        *)
(* CChainState::new: it may interrupt either operation, and it rebuilds    *)
(* memory from disk.                                                       *)
(*                                                                         *)
(* Data abstraction.  A block is its miner (which stands for the coinbase  *)
(* and its Pedersen commitment), the set of nullifiers its transactions    *)
(* spend, the list of uncle headers it pays (a list: the code takes a      *)
(* slice, and an uncle may stand in it twice) and the work of its target.  *)
(* The coinbase and fee-collect claims are handled by the same code and    *)
(* are one claim nullifier here.  The cumulative commitment S_H is the     *)
(* sequence of coinbases summed so far.  Target and timestamps are the     *)
(* subject of PowConsensus.                                                *)
(***************************************************************************)
EXTENDS Integers, Sequences, FiniteSets

CONSTANTS
  Miners,             \* block producers
  Notes,              \* nullifiers of ordinary (non-coinbase) notes
  Works,              \* values of BlockTarget::chain_work
  Anchored,           \* miners whose blocks carry a verified anchor proof
  COINBASE_MATURITY,  \* lib.rs: 100
  MAX_UNCLE_DEPTH,    \* block.rs: 6
  MAX_UNCLE_COUNT,    \* block.rs: 6
  KeyBase,            \* values of one key byte (256 in the code)
  MaxHeight,          \* bound on the chain
  MaxSpends,          \* bound on the spends of one block
  MaxReorgDepth,      \* bound on how far below its highest tip the chain is rolled back
  StorageFaults,      \* whether sled may return an error
  MaxFailedWork       \* bound on the work left behind by failed commits

ASSUME ChainConstants ==
  /\ COINBASE_MATURITY \in Nat /\ MaxHeight \in Nat /\ MaxReorgDepth \in Nat
  /\ MAX_UNCLE_DEPTH \in Nat /\ MAX_UNCLE_COUNT \in Nat
  /\ KeyBase \in Nat \ {0} /\ MaxSpends \in Nat
  /\ Works \subseteq Nat \ {0}
  /\ StorageFaults \in BOOLEAN /\ MaxFailedWork \in Nat
  /\ Anchored \subseteq Miners

ASSUME NotesAreNotClaims == Notes \cap ((1..MaxHeight) \X Miners) = {}

VARIABLES
  \* sled trees
  blocks, nullifiers, uncles, uncles_by_height, contracts, contracts_undo,
  supply_chain, saved_work,
  \* memory
  height, nullifier_set, spent_nullifiers, accumulated_work, latest,
  \* the operation between its commit and its memory update; the highest tip so far
  op, peak

disk == <<blocks, nullifiers, uncles, uncles_by_height, contracts,
          contracts_undo, supply_chain, saved_work>>
memory == <<height, nullifier_set, spent_nullifiers, accumulated_work, latest>>
vars == <<disk, memory, op, peak>>

Heights == 1..MaxHeight
ClaimNullifiers == Heights \X Miners
Nullifiers == Notes \cup ClaimNullifiers
UncleHeaders == Heights \X Miners
Block == [miner : Miners, spends : SUBSET Nullifiers,
          uncles : Seq(UncleHeaders), work : Works]
Idle == [kind |-> "idle"]

-----------------------------------------------------------------------------
\* Trees are functions from keys to values.
Put(tree, k, v) == [x \in DOMAIN tree \cup {k} |-> IF x = k THEN v ELSE tree[x]]
Remove(tree, ks) == [x \in DOMAIN tree \ ks |-> tree[x]]

Claims(h, b) == {<<h, b.miner>>}

\* The headers that stand in a list of uncles.
Listed(list) == {list[i] : i \in DOMAIN list}

\* Order of two little-endian keys: the low byte is compared first.  (Keys of
\* two bytes, which is as high as the bounds go.)
KeyLeq(a, b) ==
  \/ a % KeyBase < b % KeyBase
  \/ a % KeyBase = b % KeyBase /\ a <= b

StoredHeightPlusOne(tree) == IF DOMAIN tree = {} THEN 0 ELSE Cardinality(DOMAIN tree) + 1

\* LinearStore::get_height: the height of the last key of the blocks tree.
StoredHeight(tree) ==
  IF DOMAIN tree = {} THEN 0
  ELSE CHOOSE h \in DOMAIN tree : \A k \in DOMAIN tree : KeyLeq(k, h)

\* The work that new() recomputes from the stored blocks up to height n.
ChainWork(tree, n) ==
  LET w[k \in 0..n] == IF k = 0 THEN 0
                       ELSE w[k - 1] + (IF k \in DOMAIN tree THEN tree[k].work ELSE 0)
  IN  w[n]

\* CumulativeSupplyChain::get; height 0 is the genesis identity.
SupplyAt(n) == IF n = 0 THEN <<>> ELSE supply_chain[n]
HasSupply(n) == n = 0 \/ n \in DOMAIN supply_chain

\* The largest height of a tree keyed by height.
LastKey(tree) == CHOOSE k \in DOMAIN tree : \A j \in DOMAIN tree : j <= k

RestoreNothing == [height |-> 0, commit |-> <<>>]

\* CumulativeSupplyChain::restore_latest: the entry with the largest height.
RestoreLatest ==
  IF DOMAIN supply_chain = {} THEN [height |-> 0, commit |-> <<>>]
  ELSE [height |-> LastKey(supply_chain), commit |-> supply_chain[LastKey(supply_chain)]]

-----------------------------------------------------------------------------
MatureOneEarly(b, h) ==
  \A nf \in b.spends \cap DOMAIN nullifier_set :
    h - nullifier_set[nf] >= COINBASE_MATURITY - 1

\* check_coinbase_maturity: a spend of a claim whose height is on record.
Mature(b, h) ==
  \A nf \in b.spends \cap DOMAIN nullifier_set : h - nullifier_set[nf] >= COINBASE_MATURITY

NotRepeatedInBlock(b, h) == b.spends \cap Claims(h, b) = {}

\* The replay gate of connect_block: no declared nullifier is already spent,
\* and none is declared twice in the block.
NotReplayed(b, h) ==
  /\ (b.spends \cup Claims(h, b)) \cap spent_nullifiers = {}
  /\ b.spends \cap Claims(h, b) = {}

\* check_uncles: count and depth, and no uncle is already in the uncles tree.
\* The uncles of one block are not compared with each other.
UnclesAdmissible(b, h) ==
  /\ Len(b.uncles) <= MAX_UNCLE_COUNT
  /\ \A u \in Listed(b.uncles) : h - u[1] \in 1..MAX_UNCLE_DEPTH
  /\ Listed(b.uncles) \cap uncles = {}

\* Spends a prover can build a membership proof for: ordinary notes and
\* coinbases of the canonical chain (execute_block verifies the proofs).
Spendable == Notes \cup {<<h, blocks[h].miner>> : h \in DOMAIN blocks}

\* Lists of uncles of earlier heights, up to one more than the limit.
UncleLists(h) ==
  UNION {[1..n -> {u \in UncleHeaders : u[1] < h}] : n \in 0..(MAX_UNCLE_COUNT + 1)}

\* The blocks a peer or the local miner can hand to accept_block.
Candidates(h) ==
  [miner : Miners, spends : {s \in SUBSET Spendable : Cardinality(s) <= MaxSpends},
   uncles : UncleLists(h), work : Works]

\* AnchoredBlockConflict: no anchored block is stored at the height.
NoAnchoredConflict(h) == h \in DOMAIN blocks => blocks[h].miner \notin Anchored

\* What accept_block and connect_block demand of a block that extends the tip:
\* no anchored block stands at its height, its uncles and spends pass, and S_H
\* is re-derived from S_{H-1} (M10).
Connectable(b, h) ==
  /\ h = height + 1 /\ h \in Heights
  /\ height > 0 => height \in DOMAIN blocks
  /\ NoAnchoredConflict(h)
  /\ UnclesAdmissible(b, h) /\ Mature(b, h) /\ NotReplayed(b, h)
  /\ HasSupply(h - 1) /\ SupplyAt(h - 1) = contracts

\* The value of every nullifier the block writes: kind 0 claims, kind 1 spends.
NullifierBatch(b, h) ==
  [nf \in Claims(h, b) \cup b.spends |->
     [kind |-> IF nf \in Claims(h, b) THEN 0 ELSE 1, height |-> h]]

Merge(batch, tree) ==
  [x \in DOMAIN batch \cup DOMAIN tree |-> IF x \in DOMAIN batch THEN batch[x] ELSE tree[x]]

Init ==
  /\ blocks = <<>> /\ nullifiers = <<>> /\ uncles = {} /\ uncles_by_height = <<>>
  /\ contracts = <<>> /\ contracts_undo = <<>> /\ supply_chain = <<>> /\ saved_work = 0
  /\ height = 0 /\ nullifier_set = <<>> /\ spent_nullifiers = {}
  /\ accumulated_work = 0 /\ latest = [height |-> 0, commit |-> <<>>]
  /\ op = Idle /\ peak = 0

\* connect_block up to and including the ten-tree transaction.
ConnectCommit(b) ==
  LET h == height + 1 IN
  /\ op = Idle
  /\ Connectable(b, h)
  /\ accumulated_work' = accumulated_work + b.work
  /\ saved_work' = accumulated_work'
  /\ blocks' = Put(blocks, h, b)
  /\ nullifiers' = Merge(NullifierBatch(b, h), nullifiers)
  /\ uncles' = uncles \cup Listed(b.uncles)
  /\ uncles_by_height' = IF b.uncles = <<>> THEN uncles_by_height
                         ELSE Put(uncles_by_height, h, b.uncles)
  /\ contracts' = Append(contracts, b.miner)
  /\ contracts_undo' = Put(contracts_undo, h, contracts)
  /\ supply_chain' = Put(supply_chain, h, contracts')
  /\ op' = [kind |-> "connect", block |-> b, height |-> h]
  /\ UNCHANGED <<height, nullifier_set, spent_nullifiers, latest, peak>>

\* The transaction fails: target and timestamps are put back, the work that
\* add_block accumulated is not.
ConnectFails(b) ==
  /\ StorageFaults
  /\ op = Idle
  /\ Connectable(b, height + 1)
  /\ accumulated_work < ChainWork(blocks, height) + MaxFailedWork
  /\ accumulated_work' = accumulated_work + b.work
  /\ UNCHANGED <<disk, height, nullifier_set, spent_nullifiers, latest, op, peak>>

\* nullifier_set.retain: entries older than COINBASE_MATURITY are dropped.
Prune(set, h) ==
  IF h > COINBASE_MATURITY
  THEN [nf \in {x \in DOMAIN set : set[x] >= h - COINBASE_MATURITY} |-> set[nf]]
  ELSE set

\* The in-memory half of connect_block, and accept_block's update_cache.
ConnectMemory ==
  LET b == op.block  h == op.height IN
  /\ op.kind = "connect"
  /\ height' = h
  /\ nullifier_set' = Prune(Merge([nf \in Claims(h, b) |-> h], nullifier_set), h)
  /\ spent_nullifiers' = spent_nullifiers \cup (b.spends \ Claims(h, b))
  /\ latest' = IF h > latest.height THEN [height |-> h, commit |-> contracts] ELSE latest
  /\ op' = Idle
  /\ peak' = IF h > peak THEN h ELSE peak
  /\ UNCHANGED <<disk, accumulated_work>>

KeepWork(w, b) == w

\* accumulated_work after the displaced block's share is taken out (saturating).
SubWork(w, b) == IF b.work > w THEN 0 ELSE w - b.work

UndoWrongHeight(h) ==
  IF h - 1 \in DOMAIN contracts_undo THEN contracts_undo[h - 1] ELSE contracts

\* The contracts tree after the undo record of height h, if any, is replayed.
UndoContracts(h) == IF h \in DOMAIN contracts_undo THEN contracts_undo[h] ELSE contracts

UnclesStay(h) == uncles

\* The uncles tree without the uncles its per-height index lists for h.
DropUncles(h) ==
  uncles \ (IF h \in DOMAIN uncles_by_height THEN Listed(uncles_by_height[h]) ELSE {})

\* The tip may be disconnected: genesis is pinned and never displaced.
Displaceable(h) == op = Idle /\ h > 1 /\ h \in DOMAIN blocks /\ h > peak - MaxReorgDepth

\* disconnect_block of the tip, up to and including its transaction.  A failed
\* read of the undo record counts as no record: the contracts tree stays.
DisconnectCommit(undoRead) ==
  LET h == height  b == blocks[h] IN
  /\ Displaceable(h)
  /\ undoRead \/ StorageFaults
  /\ accumulated_work' = SubWork(accumulated_work, b)
  /\ saved_work' = accumulated_work'
  /\ blocks' = Remove(blocks, {h})
  /\ nullifiers' = Remove(nullifiers, Claims(h, b) \cup b.spends)
  /\ uncles' = DropUncles(h)
  /\ uncles_by_height' = Remove(uncles_by_height, {h})
  /\ IF undoRead
     THEN contracts' = UndoContracts(h) /\ contracts_undo' = Remove(contracts_undo, {h})
     ELSE UNCHANGED <<contracts, contracts_undo>>
  /\ supply_chain' = Remove(supply_chain, {h})
  /\ op' = [kind |-> "disconnect", block |-> b, height |-> h]
  /\ UNCHANGED <<height, nullifier_set, spent_nullifiers, latest, peak>>

\* disconnect_block returns early, on a failed read of the uncle index or an
\* undo record that does not parse: the work is already taken out of memory.
DisconnectFails ==
  /\ StorageFaults
  /\ Displaceable(height)
  /\ accumulated_work' = SubWork(accumulated_work, blocks[height])
  /\ UNCHANGED <<disk, height, nullifier_set, spent_nullifiers, latest, op, peak>>

\* rollback_cumulative_commit, the first write of a reorganisation: the
\* contracts singleton becomes S_fork, outside any transaction.
RollbackCumulativeCommit(fork) ==
  /\ op = Idle
  /\ fork \in 1..height /\ fork >= peak - MaxReorgDepth
  /\ HasSupply(fork)
  /\ contracts' = SupplyAt(fork)
  /\ UNCHANGED <<blocks, nullifiers, uncles, uncles_by_height, contracts_undo,
                 supply_chain, saved_work, memory, op, peak>>

UnspendClaims(h, b) == Claims(h, b)

\* The nullifiers disconnect_block takes out of spent_nullifiers.
Unspend(h, b) == Claims(h, b) \cup b.spends

\* The in-memory half of disconnect_block; rollback_cache reads the
\* predecessor's entry and its error leaves the height where it was.
DisconnectMemory(cacheRead) ==
  LET b == op.block  h == op.height IN
  /\ op.kind = "disconnect"
  /\ cacheRead \/ StorageFaults
  /\ nullifier_set' = Remove(nullifier_set, Claims(h, b))
  /\ spent_nullifiers' = spent_nullifiers \ Unspend(h, b)
  /\ IF cacheRead /\ HasSupply(h - 1)
     THEN /\ latest' = [height |-> h - 1, commit |-> SupplyAt(h - 1)]
          /\ height' = h - 1
     ELSE UNCHANGED <<latest, height>>
  /\ op' = Idle
  /\ UNCHANGED <<disk, accumulated_work, peak>>

\* CChainState::new after a stop or a crash at any point.
Restart ==
  /\ op' = Idle
  /\ height' = StoredHeight(blocks)
  /\ accumulated_work' = ChainWork(blocks, height')
  /\ saved_work' = accumulated_work'
  /\ nullifier_set' = [nf \in {x \in DOMAIN nullifiers : nullifiers[x].kind = 0} |->
                         nullifiers[nf].height]
  /\ spent_nullifiers' = {x \in DOMAIN nullifiers : nullifiers[x].kind = 1}
  /\ latest' = RestoreLatest
  /\ peak' = IF height' > peak THEN height' ELSE peak
  /\ UNCHANGED <<blocks, nullifiers, uncles, uncles_by_height, contracts,
                 contracts_undo, supply_chain>>

Next ==
  \/ \E b \in Candidates(height + 1) : ConnectCommit(b) \/ ConnectFails(b)
  \/ ConnectMemory
  \/ \E undoRead \in BOOLEAN : DisconnectCommit(undoRead)
  \/ DisconnectFails
  \/ \E fork \in Heights : RollbackCumulativeCommit(fork)
  \/ \E cacheRead \in BOOLEAN : DisconnectMemory(cacheRead)
  \/ Restart

Spec == Init /\ [][Next]_vars

-----------------------------------------------------------------------------
Coinbases(n) == [i \in 1..n |-> blocks[i].miner]
AllSpends == UNION {blocks[h].spends : h \in DOMAIN blocks}

\* Shape of every tree and every in-memory set (the work counters are covered
\* by WorkIsChainWork).
TypeOK ==
  /\ DOMAIN blocks \subseteq Heights /\ \A h \in DOMAIN blocks : blocks[h] \in Block
  /\ DOMAIN nullifiers \subseteq Nullifiers
  /\ \A nf \in DOMAIN nullifiers : nullifiers[nf] \in [kind : {0, 1}, height : Heights]
  /\ uncles \subseteq UncleHeaders
  /\ DOMAIN uncles_by_height \subseteq Heights
  /\ \A h \in DOMAIN uncles_by_height : uncles_by_height[h] \in Seq(UncleHeaders)
  /\ contracts \in Seq(Miners)
  /\ DOMAIN contracts_undo \subseteq Heights
  /\ \A h \in DOMAIN contracts_undo : contracts_undo[h] \in Seq(Miners)
  /\ DOMAIN supply_chain \subseteq Heights
  /\ \A h \in DOMAIN supply_chain : supply_chain[h] \in Seq(Miners)
  /\ height \in 0..MaxHeight /\ peak \in 0..MaxHeight
  /\ DOMAIN nullifier_set \subseteq Nullifiers
  /\ \A nf \in DOMAIN nullifier_set : nullifier_set[nf] \in Heights
  /\ spent_nullifiers \subseteq Nullifiers
  /\ latest \in [height : 0..MaxHeight, commit : Seq(Miners)]
  /\ op = Idle \/ op \in [kind : {"connect", "disconnect"}, block : Block, height : Heights]

\* No nullifier is spent by two canonical blocks, whatever connects,
\* disconnects, crashes and restarts led to the chain (the replay gate of
\* connect_block, which reads only the in-memory spent_nullifiers).
NoDoubleSpend ==
  \A i, j \in DOMAIN blocks : i # j => blocks[i].spends \cap blocks[j].spends = {}

\* Between operations the replay gate holds exactly the nullifiers the
\* canonical chain spends: none lost (a double spend) and none left behind by
\* a disconnect (a coin that can never be spent again).
ReplayGateExact == op = Idle => spent_nullifiers = AllSpends

\* A coinbase is spent only COINBASE_MATURITY blocks after it was claimed
\* ("an immature spend must never reach disk", connect_block).
CoinbaseMaturity ==
  \A i, j \in DOMAIN blocks :
    <<i, blocks[i].miner>> \in blocks[j].spends => j - i >= COINBASE_MATURITY

\* No uncle is paid by two canonical blocks: the uncles tree read by
\* check_uncles keeps exactly the uncles of the chain across disconnects.
UnclePaidByOneBlock ==
  /\ uncles = UNION {Listed(blocks[h].uncles) : h \in DOMAIN blocks}
  /\ \A i, j \in DOMAIN blocks :
       i # j => Listed(blocks[i].uncles) \cap Listed(blocks[j].uncles) = {}

\* No block pays the same uncle twice: the "no duplicate uncle headers" of the
\* model that says it matches check_uncles (contrib/model).
UncleListedOnce ==
  \A h \in DOMAIN blocks : LET list == blocks[h].uncles IN
    \A i, j \in DOMAIN list : i # j => list[i] # list[j]

\* Between operations the supply_chain tree and the cached latest entry agree
\* with the coinbases of the chain, so S_{H-1} can be looked up for the next
\* block and for a rewind.
SupplyTreeAgrees ==
  op = Idle =>
    /\ DOMAIN supply_chain = 1..height
    /\ \A h \in 1..height : supply_chain[h] = Coinbases(h)
    /\ latest = [height |-> height, commit |-> Coinbases(height)]

\* A disconnect of height h leaves S_{h-1} in the contracts singleton: the undo
\* record written at connect time is the one replayed, also after a
\* reorganisation has rewound the singleton to the fork.
UndoAgrees == op.kind = "disconnect" => contracts = Coinbases(op.height - 1)

\* Between operations the in-memory tip is the last stored block.
HeightIsChainHeight == op = Idle => DOMAIN blocks = 1..height

\* Between operations the accumulated work is the work of the chain.
WorkIsChainWork == op = Idle => accumulated_work = ChainWork(blocks, height)
=============================================================================
