-------------------------- MODULE ChainStateProofs --------------------------
(***************************************************************************)
(* TLAPS proofs about ChainState, for every set of miners, notes and works *)
(* and every value of the bounds, under one hypothesis: heights fit in one *)
(* key byte (NoKeyWrap), so that the last key of the blocks tree is the    *)
(* highest height.  The run chain_keys shows what happens without it.      *)
(***************************************************************************)
EXTENDS ChainStateTypes

NoKeyWrap == MaxHeight < KeyBase

-----------------------------------------------------------------------------
\* The inductive invariant.  n is the number of stored blocks.

\* Some block of height at most n spends nf.
Spent(nf, n) == \E h \in 1..n : nf \in blocks[h].spends

\* The heights an idle node may hold when n blocks are stored: n + 1 only
\* after a failed rollback_cache.
Tips(n) == IF StorageFaults THEN {n, n + 1} ELSE {n}

\* The stored heights are 1..n, and how memory may lag behind them.
Shape(n) ==
  /\ DOMAIN blocks = 1..n
  /\ op.kind = "idle" => height \in Tips(n)
  /\ op.kind = "connect" =>
       n \in Heights /\ op.height = n /\ op.block = blocks[n] /\ height = n - 1
  /\ op.kind = "disconnect" => op.height = n + 1 /\ height = n + 1

\* The in-memory replay gate: exact, up to the operation in flight.
Gate(n) ==
  \A nf \in Nullifiers :
    nf \in spent_nullifiers <=>
      \/ Spent(nf, IF op.kind = "connect" THEN n - 1 ELSE n)
      \/ op.kind = "disconnect" /\ nf \in op.block.spends

\* The kind-1 entries of the nullifiers tree: exact at every instant.
Disk(n) ==
  \A nf \in Nullifiers :
    (nf \in DOMAIN nullifiers /\ nullifiers[nf].kind = 1) <=> Spent(nf, n)

\* Spends are disjoint, and no block at or below the claim's spends it.
Fresh(n) ==
  /\ \A i, j \in 1..n : i # j => blocks[i].spends \cap blocks[j].spends = {}
  /\ \A i \in 1..n : \A j \in 1..i : <<i, blocks[i].miner>> \notin blocks[j].spends

\* A block that is being disconnected shares nothing with what stays.
Displaced(n) ==
  op.kind = "disconnect" =>
    \A j \in 1..n : /\ op.block.spends \cap blocks[j].spends = {}
                    /\ <<n + 1, op.block.miner>> \notin blocks[j].spends

\* The uncles tree and its per-height index follow the chain.
UncleIndex(n) ==
  /\ DOMAIN uncles_by_height \subseteq 1..n
  /\ \A h \in 1..n : blocks[h].uncles =
       IF h \in DOMAIN uncles_by_height THEN uncles_by_height[h] ELSE <<>>
  /\ \A u \in UncleHeaders : u \in uncles <=> \E h \in 1..n : u \in Listed(blocks[h].uncles)
  /\ \A i, j \in 1..n : i # j => Listed(blocks[i].uncles) \cap Listed(blocks[j].uncles) = {}

\* The supply tree follows the chain, and the undo record of every stored
\* height holds the singleton of the height below.
Supply(n) ==
  /\ DOMAIN supply_chain = 1..n /\ 1..n \subseteq DOMAIN contracts_undo
  /\ \A h \in 1..n : supply_chain[h] = Coinbases(h) /\ contracts_undo[h] = Coinbases(h - 1)

\* The contracts singleton right after a transaction.  Between operations a
\* reorganisation may have rewound it.
Singleton(n) ==
  op.kind = "connect" \/ (op.kind = "disconnect" /\ ~ StorageFaults) => contracts = Coinbases(n)

\* The cached entry is the entry of the in-memory height.
Cache(n) == latest.height = height /\ (height <= n => latest.commit = Coinbases(height))

IndAt(n) == Shape(n) /\ Gate(n) /\ Disk(n) /\ Fresh(n) /\ Displaced(n)
            /\ UncleIndex(n) /\ Supply(n) /\ Singleton(n) /\ Cache(n)

IndInv == TypeOK /\ \E n \in 0..MaxHeight : IndAt(n)

-----------------------------------------------------------------------------
\* What the proofs use of Tips.
LEMMA TipsFacts ==
  ASSUME NEW n
  PROVE  /\ n \in Tips(n) /\ Tips(n) \subseteq {n, n + 1}
         /\ StorageFaults => n + 1 \in Tips(n)
         /\ ~ StorageFaults => Tips(n) = {n}
BY DEF Tips

\* A height below the byte range is its own low byte.
LEMMA SmallKey ==
  ASSUME NEW a \in Nat, a < KeyBase
  PROVE  a % KeyBase = a
BY ChainConstants

\* LinearStore::get_height returns the number of blocks when keys do not wrap.
LEMMA StoredHeightIsTop ==
  ASSUME NoKeyWrap, NEW n \in 0..MaxHeight, NEW tree, DOMAIN tree = 1..n
  PROVE  StoredHeight(tree) = n
<1>1. CASE n = 0
  BY <1>1 DEF StoredHeight
<1>2. CASE n # 0
  <2>1. \A k \in 1..n : k % KeyBase = k
    BY SMTT(60), Z3T(60), SmallKey, ChainConstants DEF NoKeyWrap
  <2>2. \A k \in 1..n : KeyLeq(k, n)
    BY <1>2, <2>1 DEF KeyLeq
  <2>3. \A h \in 1..n : (\A k \in 1..n : KeyLeq(k, h)) => h = n
    <3> SUFFICES ASSUME NEW h \in 1..n, KeyLeq(n, h) PROVE h = n
      BY <1>2
    <3> QED BY <1>2, <2>1 DEF KeyLeq
  <2> QED BY <1>2, <2>2, <2>3 DEF StoredHeight
<1> QED BY <1>1, <1>2

\* restore_latest returns the entry of the last stored block.
LEMMA RestoreLatestIsTop ==
  ASSUME NEW n \in Nat, DOMAIN supply_chain = 1..n
  PROVE  RestoreLatest = [height |-> n, commit |-> SupplyAt(n)]
<1>1. CASE n = 0
  BY <1>1 DEF RestoreLatest, SupplyAt
<1>2. CASE n # 0
  <2>1. \A k \in 1..n : (\A j \in 1..n : j <= k) => k = n
    BY <1>2
  <2>2. LastKey(supply_chain) = n
    BY <1>2, <2>1 DEF LastKey
  <2>3. n \in DOMAIN supply_chain
    BY <1>2
  <2> QED BY <1>2, <2>2, <2>3 DEF RestoreLatest, SupplyAt
<1> QED BY <1>1, <1>2

-----------------------------------------------------------------------------
\* An empty store satisfies the invariant.
LEMMA InitInd == Init => IndInv
<1> SUFFICES ASSUME Init PROVE IndInv
  OBVIOUS
<1> USE ChainConstants
<1>1. TypeOK
  BY InitTypes
<1>2. IndAt(0)
  <2>1. Coinbases(0) = <<>>
    BY DEF Coinbases
  <2> QED BY <2>1, TipsFacts DEF Init, IndAt, Shape, Gate, Disk, Fresh, Displaced, UncleIndex,
             Supply, Singleton, Cache, Spent, Idle
<1> QED BY <1>1, <1>2 DEF IndInv

\* connect_block's transaction: the chain grows by one block that passed the
\* gates, and memory still describes the chain without it.
LEMMA ConnectCommitInd ==
  ASSUME IndInv, TypeOK', NEW b \in Candidates(height + 1), ConnectCommit(b)
  PROVE  IndInv'
<1> USE ChainConstants
<1>1. PICK n \in 0..MaxHeight : IndAt(n)
  BY DEF IndInv
<1>2. TypeOK /\ op = Idle /\ op.kind = "idle"
  BY DEF IndInv, ConnectCommit, Idle
<1>3. height = n /\ n + 1 \in Heights
  <2>1. /\ height + 1 \in Heights
        /\ height > 0 => height \in DOMAIN blocks
    BY DEF ConnectCommit, Connectable
  <2>2. height \in {n, n + 1} /\ DOMAIN blocks = 1..n
    BY SMTT(60), Z3T(60), <1>1, <1>2, TipsFacts DEF IndAt, Shape
  <2> QED BY <2>1, <2>2
<1>4. b \in Block
  BY <1>2, CandidateIsBlock
<1>5. /\ DOMAIN blocks' = 1..(n + 1)
      /\ blocks'[n + 1] = b
      /\ \A k \in 1..n : blocks'[k] = blocks[k]
  BY SMTT(60), Z3T(60), <1>1, <1>3 DEF ConnectCommit, Put, IndAt, Shape
<1>6. op'.kind = "connect" /\ op'.block = b /\ op'.height = n + 1
  BY <1>3 DEF ConnectCommit
<1>7. \A nf \in Nullifiers : Spent(nf, n + 1)' <=> Spent(nf, n) \/ nf \in b.spends
  BY SMTT(60), Z3T(60), <1>5 DEF Spent
<1>8. \A nf \in Nullifiers : Spent(nf, n)' <=> Spent(nf, n)
  BY <1>5 DEF Spent
<1>9. \A nf \in Nullifiers : nf \in spent_nullifiers <=> Spent(nf, n)
  BY <1>1, <1>2 DEF IndAt, Gate
<1>10. /\ b.spends \subseteq Nullifiers
       /\ <<n + 1, b.miner>> \in Nullifiers
       /\ <<n + 1, b.miner>> \notin b.spends
       /\ ~ Spent(<<n + 1, b.miner>>, n)
       /\ \A nf \in b.spends : ~ Spent(nf, n)
  BY SMTT(60), Z3T(60), <1>3, <1>4, <1>9
     DEF ConnectCommit, Connectable, NotReplayed, Claims, Block,
     Nullifiers, ClaimNullifiers
<1>12. Shape(n + 1)'
  BY SMTT(60), Z3T(60), <1>3, <1>5, <1>6 DEF ConnectCommit, Shape
<1>13. Gate(n + 1)'
  BY SMTT(60), Z3T(60), <1>6, <1>8, <1>9 DEF ConnectCommit, Gate
<1>14. Disk(n + 1)'
  <2> SUFFICES ASSUME NEW nf \in Nullifiers
               PROVE  (nf \in DOMAIN nullifiers' /\ nullifiers'[nf].kind = 1)
                      <=> Spent(nf, n) \/ nf \in b.spends
    BY <1>7 DEF Disk
  <2>1. (nf \in DOMAIN nullifiers /\ nullifiers[nf].kind = 1) <=> Spent(nf, n)
    BY <1>1 DEF IndAt, Disk
  <2>2. CASE nf = <<n + 1, b.miner>>
    <3>1. nullifiers'[nf].kind = 0
      BY <1>3, <2>2 DEF ConnectCommit, Merge, NullifierBatch, Claims
    <3> QED BY SMTT(60), Z3T(60), <1>10, <2>2, <3>1
  <2>3. CASE nf \in b.spends
    <3>1. nf \in DOMAIN nullifiers' /\ nullifiers'[nf].kind = 1
      BY ZenonT(60), <1>3, <1>10, <2>3 DEF ConnectCommit, Merge, NullifierBatch, Claims
    <3> QED BY <2>3, <3>1
  <2>4. CASE nf # <<n + 1, b.miner>> /\ nf \notin b.spends
    <3>1. /\ nf \in DOMAIN nullifiers' <=> nf \in DOMAIN nullifiers
          /\ nf \in DOMAIN nullifiers => nullifiers'[nf] = nullifiers[nf]
      BY SMTT(60), Z3T(60), <1>3, <2>4 DEF ConnectCommit, Merge, NullifierBatch, Claims
    <3> QED BY SMTT(60), Z3T(60), <2>1, <2>4, <3>1
  <2> QED BY <2>2, <2>3, <2>4
<1>15. Fresh(n + 1)'
  <2>1. \A j \in 1..n : b.spends \cap blocks[j].spends = {}
    BY <1>10 DEF Spent
  <2>2. \A j \in 1..n : <<n + 1, b.miner>> \notin blocks[j].spends
    BY <1>10 DEF Spent
  <2> QED BY SMTT(60), Z3T(60), <1>1, <1>5, <1>10, <2>1, <2>2 DEF IndAt, Fresh
<1>16. Displaced(n + 1)'
  BY <1>6 DEF Displaced
<1>17. UncleIndex(n + 1)'
  <2>1. Listed(b.uncles) \subseteq UncleHeaders /\ Listed(b.uncles) \cap uncles = {}
    <3>1. b.uncles \in Seq(UncleHeaders)
      BY SMTT(60), Z3T(60), <1>4 DEF Block
    <3>2. Listed(b.uncles) \cap uncles = {}
      BY Zenon DEF ConnectCommit, Connectable, UnclesAdmissible
    <3> QED BY <3>1, <3>2 DEF Listed
  <2>2. \A j \in 1..n : Listed(b.uncles) \cap Listed(blocks[j].uncles) = {}
    BY <1>1, <2>1 DEF IndAt, UncleIndex
  <2>3. DOMAIN uncles_by_height' \subseteq 1..(n + 1)
    BY SMTT(60), Z3T(60), <1>1, <1>3 DEF ConnectCommit, Put, IndAt, UncleIndex
  <2>4. \A h \in 1..(n + 1) : blocks'[h].uncles =
          IF h \in DOMAIN uncles_by_height' THEN uncles_by_height'[h] ELSE <<>>
    <3>1. /\ n + 1 \notin DOMAIN uncles_by_height
          /\ \A h \in 1..n : blocks[h].uncles =
               IF h \in DOMAIN uncles_by_height THEN uncles_by_height[h] ELSE <<>>
      BY SMTT(60), Z3T(60), <1>1 DEF IndAt, UncleIndex
    <3>2. \A h \in 1..n : blocks'[h].uncles = blocks[h].uncles
      BY <1>5
    <3>3. blocks'[n + 1].uncles = b.uncles
      BY <1>5
    <3>4. CASE b.uncles = <<>>
      <4>1. uncles_by_height' = uncles_by_height
        BY <3>4 DEF ConnectCommit
      <4> QED BY SMTT(60), Z3T(60), <3>1, <3>2, <3>3, <3>4, <4>1
    <3>5. CASE b.uncles # <<>>
      <4>1. uncles_by_height' = Put(uncles_by_height, n + 1, b.uncles)
        BY SMTT(60), Z3T(60), <1>3, <3>5 DEF ConnectCommit
      <4>2. /\ n + 1 \in DOMAIN uncles_by_height' /\ uncles_by_height'[n + 1] = b.uncles
            /\ \A h \in 1..n :
                 /\ h \in DOMAIN uncles_by_height' <=> h \in DOMAIN uncles_by_height
                 /\ h \in DOMAIN uncles_by_height => uncles_by_height'[h] = uncles_by_height[h]
        BY <4>1 DEF Put
      <4> QED BY SMTT(60), Z3T(60), <3>1, <3>2, <3>3, <4>2
    <3> QED BY <3>4, <3>5
  <2>5. \A u \in UncleHeaders :
          u \in uncles' <=> \E h \in 1..(n + 1) : u \in Listed(blocks'[h].uncles)
    <3>1. uncles' = uncles \cup Listed(b.uncles)
      BY DEF ConnectCommit
    <3>2. \A u \in UncleHeaders : u \in uncles <=> \E h \in 1..n : u \in Listed(blocks[h].uncles)
      BY <1>1 DEF IndAt, UncleIndex
    <3>3. \A u : (\E h \in 1..n : u \in Listed(blocks[h].uncles))
               <=> (\E h \in 1..n : u \in Listed(blocks'[h].uncles))
      BY <1>5
    <3>4. \A u : (\E h \in 1..(n + 1) : u \in Listed(blocks'[h].uncles))
               <=> \/ \E h \in 1..n : u \in Listed(blocks'[h].uncles)
                   \/ u \in Listed(blocks'[n + 1].uncles)
      OBVIOUS
    <3> QED BY SMTT(60), Z3T(60), <1>5, <3>1, <3>2, <3>3, <3>4
  <2>6. \A i, j \in 1..(n + 1) :
          i # j => Listed(blocks'[i].uncles) \cap Listed(blocks'[j].uncles) = {}
    <3>1. \A i, j \in 1..n : i # j => Listed(blocks[i].uncles) \cap Listed(blocks[j].uncles) = {}
      BY <1>1 DEF IndAt, UncleIndex
    <3>2. \A j \in 1..(n + 1) : j \in 1..n \/ j = n + 1
      OBVIOUS
    <3>3. \A j \in 1..n : Listed(blocks[j].uncles) \cap Listed(b.uncles) = {}
      BY Zenon, <2>2
    <3> QED BY ZenonT(30), <1>5, <2>2, <3>1, <3>2, <3>3
  <2> QED BY ZenonT(30), <2>3, <2>4, <2>5, <2>6 DEF UncleIndex
<1>18. Supply(n + 1)' /\ contracts' = Coinbases(n + 1)'
  <2>1. \A k \in 0..n : Coinbases(k)' = Coinbases(k)
    BY SMTT(60), Z3T(60), <1>5 DEF Coinbases
  <2>2. contracts = Coinbases(n)
    <3>1. HasSupply(n) /\ SupplyAt(n) = contracts
      BY SMTT(60), Z3T(60), <1>3 DEF ConnectCommit, Connectable, Heights
    <3>2. Coinbases(0) = <<>>
      BY DEF Coinbases
    <3> QED BY <1>1, <3>1, <3>2 DEF HasSupply, SupplyAt, IndAt, Supply
  <2>3. contracts' = Coinbases(n + 1)'
    BY SMTT(60), Z3T(60), <1>5, <2>2 DEF ConnectCommit, Coinbases
  <2>4. /\ DOMAIN supply_chain' = 1..(n + 1)
        /\ \A h \in 1..(n + 1) : supply_chain'[h] = Coinbases(h)'
    <3>1. supply_chain' = Put(supply_chain, n + 1, contracts')
      BY <1>3 DEF ConnectCommit
    <3> QED BY <1>1, <2>1, <2>3, <3>1 DEF Put, IndAt, Supply
  <2>5. /\ 1..(n + 1) \subseteq DOMAIN contracts_undo'
        /\ \A h \in 1..(n + 1) : contracts_undo'[h] = Coinbases(h - 1)'
    <3>1. contracts_undo' = Put(contracts_undo, n + 1, contracts)
      BY <1>3 DEF ConnectCommit
    <3>2. \A h \in 1..(n + 1) : h - 1 \in 0..n /\ Coinbases(h - 1)' = Coinbases(h - 1)
      BY <2>1
    <3>3. /\ 1..(n + 1) \subseteq DOMAIN contracts_undo'
          /\ \A h \in 1..n : contracts_undo'[h] = Coinbases(h - 1)
          /\ contracts_undo'[n + 1] = Coinbases(n)
      BY <1>1, <2>2, <3>1 DEF Put, IndAt, Supply
    <3>4. \A h \in 1..(n + 1) : contracts_undo'[h] = Coinbases(h - 1)
      BY <3>3
    <3> QED BY <3>2, <3>3, <3>4
  <2> QED BY <2>3, <2>4, <2>5 DEF Supply
<1>19. Cache(n + 1)'
  <2>1. Coinbases(n)' = Coinbases(n)
    BY <1>5 DEF Coinbases
  <2>2. latest' = latest /\ height' = n
    BY <1>3 DEF ConnectCommit
  <2>3. latest.height = n /\ latest.commit = Coinbases(n)
    BY <1>1, <1>3 DEF IndAt, Cache
  <2>4. Coinbases(height)' = Coinbases(n)
    BY <2>1, <2>2 DEF Coinbases
  <2> QED BY <2>2, <2>3, <2>4 DEF Cache
<1> QED
  <2>1. IndAt(n + 1)'
    BY <1>12, <1>13, <1>14, <1>15, <1>16, <1>17, <1>18, <1>19 DEF IndAt, Singleton
  <2> QED BY <1>3, <2>1 DEF IndInv, Heights

\* What is said of the trees alone survives a step that leaves them alone.
LEMMA TreesUnchanged ==
  ASSUME NEW n \in Nat, Disk(n), Fresh(n), UncleIndex(n), Supply(n),
         UNCHANGED <<blocks, nullifiers, uncles, uncles_by_height, contracts_undo, supply_chain>>
  PROVE  (Disk(n) /\ Fresh(n) /\ UncleIndex(n) /\ Supply(n))'
<1>1. Disk(n)'
  BY DEF Disk, Spent
<1>2. Fresh(n)'
  BY DEF Fresh
<1>3. UncleIndex(n)'
  BY Zenon DEF UncleIndex
<1>4. Supply(n)'
  BY DEF Supply, Coinbases
<1> QED BY <1>1, <1>2, <1>3, <1>4

\* Failed transactions change only the work counter, which is not part of the
\* invariant; a rewind changes only the singleton, between operations.
LEMMA UnchangedInd ==
  ASSUME IndInv, TypeOK', op = Idle \/ UNCHANGED contracts,
         UNCHANGED <<blocks, nullifiers, uncles, uncles_by_height, contracts_undo,
                     supply_chain, height, nullifier_set, spent_nullifiers, latest, op, peak>>
  PROVE  IndInv'
<1>1. PICK n \in 0..MaxHeight : IndAt(n)
  BY SMTT(60), Z3T(60) DEF IndInv
<1>2. Shape(n)' /\ Displaced(n)' /\ Cache(n)'
  BY SMTT(60), Z3T(60), <1>1 DEF IndAt, Shape, Displaced, Cache, Coinbases
<1>3. Gate(n)'
  BY <1>1 DEF IndAt, Gate, Spent
<1>4. (Disk(n) /\ Fresh(n) /\ UncleIndex(n) /\ Supply(n))'
  BY <1>1, TreesUnchanged, ChainConstants DEF IndAt
<1>5. Singleton(n)'
  <2>1. CASE op = Idle
    BY <2>1 DEF Singleton, Idle
  <2>2. CASE UNCHANGED contracts
    BY <1>1, <2>2 DEF IndAt, Singleton, Coinbases
  <2> QED BY <2>1, <2>2
<1> QED BY <1>2, <1>3, <1>4, <1>5 DEF IndInv, IndAt

\* connect_block's memory update: the gate learns the spends of the new tip.
LEMMA ConnectMemoryInd ==
  ASSUME IndInv, TypeOK', ConnectMemory
  PROVE  IndInv'
<1> USE ChainConstants
<1>1. PICK n \in 0..MaxHeight : IndAt(n)
  BY SMTT(60), Z3T(60) DEF IndInv
<1>2. /\ TypeOK /\ op.kind = "connect"
      /\ op \in [kind : {"connect", "disconnect"}, block : Block, height : Heights]
  BY DEF IndInv, ConnectMemory, TypeOK, Idle
<1>3. n \in Heights /\ op.height = n /\ op.block = blocks[n] /\ height = n - 1
  BY SMTT(60), Z3T(60), <1>1, <1>2 DEF IndAt, Shape
<1>4. /\ UNCHANGED <<blocks, nullifiers, uncles, uncles_by_height, contracts,
                     contracts_undo, supply_chain>>
      /\ op' = Idle /\ op'.kind = "idle" /\ height' = n
  BY SMTT(60), Z3T(60), <1>3 DEF ConnectMemory, disk, Idle
<1>5. blocks[n] \in Block /\ blocks[n].spends \subseteq Nullifiers
      /\ <<n, blocks[n].miner>> \in Nullifiers
  BY SMTT(60), Z3T(60), <1>2, <1>3 DEF Block, Nullifiers, ClaimNullifiers
<1>6. <<n, blocks[n].miner>> \notin blocks[n].spends
  BY SMTT(60), Z3T(60), <1>1, <1>3 DEF IndAt, Fresh, Heights
<1>7. spent_nullifiers' = spent_nullifiers \cup blocks[n].spends
  BY SMTT(60), Z3T(60), <1>3, <1>6 DEF ConnectMemory, Claims
<1>9. Shape(n)'
  BY SMTT(60), Z3T(60), <1>1, <1>4, TipsFacts DEF IndAt, Shape
<1>10. Gate(n)'
  <2> SUFFICES ASSUME NEW nf \in Nullifiers
               PROVE  nf \in spent_nullifiers' <=> Spent(nf, n)
    BY SMTT(60), Z3T(60), <1>4 DEF Gate, Spent
  <2>1. nf \in spent_nullifiers <=> Spent(nf, n - 1)
    BY SMTT(60), Z3T(60), <1>1, <1>2 DEF IndAt, Gate
  <2>2. Spent(nf, n) <=> Spent(nf, n - 1) \/ nf \in blocks[n].spends
    BY SMTT(60), Z3T(60), <1>3 DEF Spent, Heights
  <2> QED BY SMTT(60), Z3T(60), <1>7, <2>1, <2>2
<1>11. (Disk(n) /\ Fresh(n) /\ UncleIndex(n) /\ Supply(n))'
  BY SMTT(60), Z3T(60), <1>1, <1>4, TreesUnchanged DEF IndAt
<1>12. Displaced(n)'
  BY SMTT(60), Z3T(60), <1>4 DEF Displaced
<1>13. Cache(n)'
  <2>1. latest.height = n - 1 /\ contracts = Coinbases(n)
    BY SMTT(60), Z3T(60), <1>1, <1>2, <1>3 DEF IndAt, Cache, Singleton
  <2>2. latest' = [height |-> n, commit |-> contracts]
    BY SMTT(60), Z3T(60), <1>3, <2>1 DEF ConnectMemory, Heights
  <2>3. Coinbases(height)' = Coinbases(n)
    BY <1>4 DEF Coinbases
  <2> QED BY SMTT(60), Z3T(60), <1>4, <2>1, <2>2, <2>3 DEF Cache
<1>14. Singleton(n)'
  BY <1>4 DEF Singleton
<1> QED BY <1>9, <1>10, <1>11, <1>12, <1>13, <1>14 DEF IndInv, IndAt

\* disconnect_block's transaction: the tip leaves every tree, and memory still
\* describes the chain with it.
LEMMA DisconnectCommitInd ==
  ASSUME IndInv, TypeOK', NEW undoRead \in BOOLEAN, DisconnectCommit(undoRead)
  PROVE  IndInv'
<1> USE ChainConstants
<1>1. PICK n \in 0..MaxHeight : IndAt(n)
  BY DEF IndInv
<1>2. TypeOK /\ op = Idle /\ op.kind = "idle"
  BY SMTT(60), Z3T(60) DEF IndInv, DisconnectCommit, Displaceable, Idle
<1>3. height = n /\ n \in Heights /\ n - 1 \in 0..MaxHeight
  BY SMTT(60), Z3T(60), <1>1, <1>2, TipsFacts DEF DisconnectCommit, Displaceable, IndAt, Shape, Heights
<1> DEFINE b == blocks[n]
<1>4. b \in Block /\ b.spends \subseteq Nullifiers /\ <<n, b.miner>> \in Nullifiers
  BY SMTT(60), Z3T(60), <1>1, <1>2, <1>3
     DEF TypeOK, IndAt, Shape, Block, Nullifiers, ClaimNullifiers, Heights
<1>5. /\ DOMAIN blocks' = 1..(n - 1)
      /\ \A k \in 1..(n - 1) : blocks'[k] = blocks[k]
  BY SMTT(60), Z3T(60), <1>1, <1>3 DEF DisconnectCommit, Remove, IndAt, Shape, Heights
<1>6. op' = [kind |-> "disconnect", block |-> b, height |-> n]
  BY SMTT(60), Z3T(60), <1>3 DEF DisconnectCommit
<1>7. UNCHANGED <<height, nullifier_set, spent_nullifiers, latest, peak>>
  BY SMTT(60), Z3T(60) DEF DisconnectCommit
<1>8. \A nf \in Nullifiers : Spent(nf, n) <=> Spent(nf, n - 1)' \/ nf \in b.spends
  BY SMTT(60), Z3T(60), <1>3, <1>5 DEF Spent, Heights
<1>9. \A j \in 1..(n - 1) : /\ b.spends \cap blocks'[j].spends = {}
                            /\ <<n, b.miner>> \notin blocks'[j].spends
  BY SMTT(60), Z3T(60), <1>1, <1>3, <1>5 DEF IndAt, Fresh, Heights
<1>10. \A nf \in Nullifiers :
         nf \in b.spends \/ nf = <<n, b.miner>> => ~ Spent(nf, n - 1)'
  BY SMTT(60), Z3T(60), <1>9 DEF Spent
<1>12. Shape(n - 1)'
  BY SMTT(60), Z3T(60), <1>3, <1>5, <1>6, <1>7 DEF Shape
<1>13. Gate(n - 1)'
  <2>1. \A nf \in Nullifiers : nf \in spent_nullifiers <=> Spent(nf, n)
    BY SMTT(60), Z3T(60), <1>1, <1>2 DEF IndAt, Gate
  <2> QED BY SMTT(60), Z3T(60), <1>6, <1>7, <1>8, <2>1 DEF Gate
<1>14. Disk(n - 1)'
  <2> SUFFICES ASSUME NEW nf \in Nullifiers
               PROVE  (nf \in DOMAIN nullifiers' /\ nullifiers'[nf].kind = 1)
                      <=> Spent(nf, n - 1)'
    BY SMTT(60), Z3T(60) DEF Disk
  <2>1. (nf \in DOMAIN nullifiers /\ nullifiers[nf].kind = 1) <=> Spent(nf, n)
    BY SMTT(60), Z3T(60), <1>1 DEF IndAt, Disk
  <2>2. /\ DOMAIN nullifiers' = DOMAIN nullifiers \ ({<<n, b.miner>>} \cup b.spends)
        /\ \A x \in DOMAIN nullifiers' : nullifiers'[x] = nullifiers[x]
    BY SMTT(60), Z3T(60), <1>3 DEF DisconnectCommit, Remove, Claims
  <2> QED BY <1>8, <1>10, <2>1, <2>2
<1>15. Fresh(n - 1)'
  <2>1. Fresh(n)
    BY <1>1 DEF IndAt
  <2>2. \A j \in 1..(n - 1) : j \in 1..n /\ 1..j \subseteq 1..(n - 1) /\ 1..j \subseteq 1..n
    BY SMTT(60), Z3T(60), <1>3 DEF Heights
  <2>3. \A i, j \in 1..(n - 1) : i # j => blocks'[i].spends \cap blocks'[j].spends = {}
    BY SMTT(60), Z3T(60), <1>5, <2>1, <2>2 DEF Fresh
  <2>4. \A i \in 1..(n - 1) : \A j \in 1..i : <<i, blocks'[i].miner>> \notin blocks'[j].spends
    BY SMTT(60), Z3T(60), <1>5, <2>1, <2>2 DEF Fresh
  <2> QED BY <2>3, <2>4 DEF Fresh
<1>16. Displaced(n - 1)'
  BY SMTT(60), Z3T(60), <1>3, <1>6, <1>9 DEF Displaced, Heights
<1>17. UncleIndex(n - 1)'
  <2>1. uncles' = uncles \ Listed(b.uncles)
    <3>1. Listed(<<>>) = {}
      BY DEF Listed
    <3>2. b.uncles = IF n \in DOMAIN uncles_by_height THEN uncles_by_height[n] ELSE <<>>
      BY <1>1, <1>3 DEF IndAt, UncleIndex, Heights
    <3> QED BY SMTT(60), Z3T(60), <1>3, <3>1, <3>2 DEF DisconnectCommit, DropUncles
  <2>2. \A j \in 1..(n - 1) : Listed(b.uncles) \cap Listed(blocks[j].uncles) = {}
    BY SMTT(60), Z3T(60), <1>1, <1>3 DEF IndAt, UncleIndex, Heights
  <2>3. /\ DOMAIN uncles_by_height' = DOMAIN uncles_by_height \ {n}
        /\ \A h \in DOMAIN uncles_by_height' : uncles_by_height'[h] = uncles_by_height[h]
    BY SMTT(60), Z3T(60), <1>3 DEF DisconnectCommit, Remove
  <2>4. DOMAIN uncles_by_height' \subseteq 1..(n - 1)
    BY SMTT(60), Z3T(60), <1>1, <1>3, <2>3 DEF IndAt, UncleIndex, Heights
  <2>5. \A h \in 1..(n - 1) : blocks'[h].uncles =
          IF h \in DOMAIN uncles_by_height' THEN uncles_by_height'[h] ELSE <<>>
    BY SMTT(60), Z3T(60), <1>1, <1>3, <1>5, <2>3 DEF IndAt, UncleIndex, Heights
  <2>6. ASSUME NEW u \in UncleHeaders
        PROVE  u \in uncles' <=> \E h \in 1..(n - 1) : u \in Listed(blocks'[h].uncles)
    <3>1. u \in uncles <=> \E h \in 1..n : u \in Listed(blocks[h].uncles)
      BY SMTT(60), Z3T(60), <1>1 DEF IndAt, UncleIndex
    <3>2. (\E h \in 1..n : u \in Listed(blocks[h].uncles))
            <=> (\E h \in 1..(n - 1) : u \in Listed(blocks'[h].uncles)) \/ u \in Listed(b.uncles)
      BY SMTT(60), Z3T(60), <1>3, <1>5 DEF Heights
    <3>3. u \in Listed(b.uncles) => ~ \E h \in 1..(n - 1) : u \in Listed(blocks'[h].uncles)
      BY SMTT(60), Z3T(60), <1>5, <2>2
    <3> QED BY SMTT(60), Z3T(60), <2>1, <3>1, <3>2, <3>3
  <2>7. \A i, j \in 1..(n - 1) :
          i # j => Listed(blocks'[i].uncles) \cap Listed(blocks'[j].uncles) = {}
    <3>1. \A i, j \in 1..n : i # j => Listed(blocks[i].uncles) \cap Listed(blocks[j].uncles) = {}
      BY <1>1 DEF IndAt, UncleIndex
    <3>2. \A j \in 1..(n - 1) : j \in 1..n /\ blocks'[j] = blocks[j]
      BY SMTT(60), Z3T(60), <1>3, <1>5 DEF Heights
    <3> QED BY ZenonT(30), <3>1, <3>2
  <2> QED BY ZenonT(30), <2>4, <2>5, <2>6, <2>7 DEF UncleIndex
<1>18. Supply(n - 1)' /\ Singleton(n - 1)'
  <2>1. \A k \in 0..(n - 1) : Coinbases(k)' = Coinbases(k)
    BY SMTT(60), Z3T(60), <1>5 DEF Coinbases
  <2>2. Singleton(n - 1)'
    <3> SUFFICES ASSUME ~ StorageFaults PROVE contracts' = Coinbases(n - 1)'
      BY Zenon, <1>6 DEF Singleton
    <3>1. contracts' = UndoContracts(n)
      BY SMTT(60), Z3T(60), <1>3 DEF DisconnectCommit
    <3>2. contracts' = Coinbases(n - 1)
      BY SMTT(60), Z3T(60), <1>1, <1>3, <3>1 DEF UndoContracts, IndAt, Supply, Heights
    <3> QED BY SMTT(60), Z3T(60), <1>3, <2>1, <3>2
  <2>3. /\ DOMAIN supply_chain' = 1..(n - 1)
        /\ \A h \in 1..(n - 1) : supply_chain'[h] = Coinbases(h)
    BY SMTT(60), Z3T(60), <1>1, <1>3 DEF DisconnectCommit, Remove, IndAt, Supply, Heights
  <2>4. /\ 1..(n - 1) \subseteq DOMAIN contracts_undo'
        /\ \A h \in 1..(n - 1) : contracts_undo'[h] = Coinbases(h - 1)
    <3>1. \/ contracts_undo' = Remove(contracts_undo, {n})
          \/ contracts_undo' = contracts_undo
      BY SMTT(60), Z3T(60), <1>3 DEF DisconnectCommit
    <3> QED BY SMTT(60), Z3T(60), <1>1, <1>3, <3>1 DEF Remove, IndAt, Supply, Heights
  <2>5. \A h \in 1..(n - 1) : /\ Coinbases(h)' = Coinbases(h)
                              /\ Coinbases(h - 1)' = Coinbases(h - 1)
    BY SMTT(60), Z3T(60), <2>1
  <2> QED BY SMTT(60), Z3T(60), <2>2, <2>3, <2>4, <2>5 DEF Supply
<1>19. Cache(n - 1)'
  BY SMTT(60), Z3T(60), <1>1, <1>3, <1>7 DEF IndAt, Cache
<1> QED
  <2>1. IndAt(n - 1)'
    BY SMTT(60), Z3T(60), <1>12, <1>13, <1>14, <1>15, <1>16, <1>17, <1>18, <1>19 DEF IndAt
  <2> QED BY SMTT(60), Z3T(60), <1>3, <2>1 DEF IndInv

\* disconnect_block's memory update: the gate forgets exactly the displaced
\* block's spends, whether or not rollback_cache succeeds.
LEMMA DisconnectMemoryInd ==
  ASSUME IndInv, TypeOK', NEW cacheRead \in BOOLEAN, DisconnectMemory(cacheRead)
  PROVE  IndInv'
<1> USE ChainConstants
<1>1. PICK n \in 0..MaxHeight : IndAt(n)
  BY SMTT(60), Z3T(60) DEF IndInv
<1>2. /\ TypeOK /\ op.kind = "disconnect"
      /\ op \in [kind : {"connect", "disconnect"}, block : Block, height : Heights]
  BY SMTT(60), Z3T(60) DEF IndInv, DisconnectMemory, TypeOK, Idle
<1> DEFINE b == op.block
<1>3. op.height = n + 1 /\ height = n + 1 /\ n + 1 \in Heights
  BY SMTT(60), Z3T(60), <1>1, <1>2 DEF IndAt, Shape
<1>4. /\ UNCHANGED <<blocks, nullifiers, uncles, uncles_by_height, contracts,
                     contracts_undo, supply_chain, peak>>
      /\ op' = Idle /\ op'.kind = "idle"
  BY SMTT(60), Z3T(60) DEF DisconnectMemory, disk, Idle
<1>5. /\ spent_nullifiers' = spent_nullifiers \ ({<<n + 1, b.miner>>} \cup b.spends)
      /\ nullifier_set' = Remove(nullifier_set, {<<n + 1, b.miner>>})
  BY SMTT(60), Z3T(60), <1>3 DEF DisconnectMemory, Unspend, Claims
<1>6. HasSupply(n) /\ SupplyAt(n) = Coinbases(n) /\ SupplyAt(n) \in Seq(Miners)
  <2>1. Coinbases(0) = <<>>
    BY SMTT(60), Z3T(60) DEF Coinbases
  <2>2. CASE n = 0
    BY SMTT(60), Z3T(60), <2>1, <2>2 DEF HasSupply, SupplyAt
  <2>3. CASE n # 0
    <3>1. n \in DOMAIN supply_chain /\ supply_chain[n] = Coinbases(n)
      BY SMTT(60), Z3T(60), <1>1, <2>3 DEF IndAt, Supply
    <3> QED BY SMTT(60), Z3T(60), <1>2, <2>3, <3>1 DEF HasSupply, SupplyAt, TypeOK
  <2> QED BY SMTT(60), Z3T(60), <2>2, <2>3
<1>7. \/ latest' = [height |-> n, commit |-> Coinbases(n)] /\ height' = n
      \/ StorageFaults /\ latest' = latest /\ height' = n + 1
  BY SMTT(60), Z3T(60), <1>3, <1>6 DEF DisconnectMemory
<1>9. Shape(n)'
  <2>1. height' \in Tips(n)
    BY SMTT(60), Z3T(60), <1>7, TipsFacts
  <2> QED BY SMTT(60), Z3T(60), <1>1, <1>4, <2>1 DEF IndAt, Shape
<1>10. Gate(n)'
  <2> SUFFICES ASSUME NEW nf \in Nullifiers
               PROVE  nf \in spent_nullifiers' <=> Spent(nf, n)
    BY SMTT(60), Z3T(60), <1>4 DEF Gate, Spent
  <2>1. nf \in spent_nullifiers <=> Spent(nf, n) \/ nf \in b.spends
    BY SMTT(60), Z3T(60), <1>1, <1>2 DEF IndAt, Gate
  <2>2. nf \in b.spends \/ nf = <<n + 1, b.miner>> => ~ Spent(nf, n)
    BY SMTT(60), Z3T(60), <1>1, <1>2 DEF IndAt, Displaced, Spent
  <2> QED BY SMTT(60), Z3T(60), <1>5, <2>1, <2>2
<1>11. (Disk(n) /\ Fresh(n) /\ UncleIndex(n) /\ Supply(n))'
  BY SMTT(60), Z3T(60), <1>1, <1>4, TreesUnchanged DEF IndAt
<1>12. Displaced(n)'
  BY SMTT(60), Z3T(60), <1>4 DEF Displaced
<1>13. Cache(n)'
  <2>1. Coinbases(n)' = Coinbases(n)
    BY SMTT(60), Z3T(60), <1>4 DEF Coinbases
  <2>2. CASE latest' = [height |-> n, commit |-> Coinbases(n)] /\ height' = n
    <3>1. Coinbases(height)' = Coinbases(n)'
      BY SMTT(60), Z3T(60), <2>2 DEF Coinbases
    <3> QED BY SMTT(60), Z3T(60), <2>1, <2>2, <3>1 DEF Cache
  <2>3. CASE latest' = latest /\ height' = n + 1
    BY SMTT(60), Z3T(60), <1>1, <1>3, <2>3 DEF IndAt, Cache
  <2> QED BY SMTT(60), Z3T(60), <1>7, <2>2, <2>3
<1>14. Singleton(n)'
  BY <1>4 DEF Singleton
<1> QED BY SMTT(60), Z3T(60), <1>9, <1>10, <1>11, <1>12, <1>13, <1>14 DEF IndInv, IndAt

\* CChainState::new: whatever operation was cut short, memory is rebuilt from
\* trees that agree with each other.
LEMMA RestartInd ==
  ASSUME NoKeyWrap, IndInv, TypeOK', Restart
  PROVE  IndInv'
<1> USE ChainConstants
<1>1. PICK n \in 0..MaxHeight : IndAt(n)
  BY DEF IndInv
<1>2. TypeOK
  BY SMTT(60), Z3T(60) DEF IndInv
<1>3. /\ UNCHANGED <<blocks, nullifiers, uncles, uncles_by_height, contracts,
                     contracts_undo, supply_chain>>
      /\ op' = Idle /\ op'.kind = "idle"
  BY SMTT(60), Z3T(60) DEF Restart, Idle
<1>4. height' = n
  BY SMTT(60), Z3T(60), <1>1, StoredHeightIsTop DEF Restart, IndAt, Shape
<1>5. SupplyAt(n) = Coinbases(n) /\ SupplyAt(n) \in Seq(Miners)
  <2>1. Coinbases(0) = <<>>
    BY SMTT(60), Z3T(60) DEF Coinbases
  <2>2. CASE n = 0
    BY <2>1, <2>2 DEF SupplyAt
  <2>3. CASE n # 0
    <3>1. n \in DOMAIN supply_chain /\ supply_chain[n] = Coinbases(n)
      BY SMTT(60), Z3T(60), <1>1, <2>3 DEF IndAt, Supply
    <3> QED BY SMTT(60), Z3T(60), <1>2, <2>3, <3>1 DEF SupplyAt, TypeOK
  <2> QED BY <2>2, <2>3
<1>6. latest' = [height |-> n, commit |-> Coinbases(n)]
  BY SMTT(60), Z3T(60), <1>1, <1>5, RestoreLatestIsTop DEF Restart, IndAt, Supply
<1>8. Shape(n)'
  BY SMTT(60), Z3T(60), <1>1, <1>3, <1>4, TipsFacts DEF IndAt, Shape
<1>9. Gate(n)'
  <2> SUFFICES ASSUME NEW nf \in Nullifiers
               PROVE  nf \in spent_nullifiers' <=> Spent(nf, n)
    BY SMTT(60), Z3T(60), <1>3 DEF Gate, Spent
  <2> QED BY SMTT(60), Z3T(60), <1>1 DEF IndAt, Disk, Restart
<1>10. (Disk(n) /\ Fresh(n) /\ UncleIndex(n) /\ Supply(n))'
  BY SMTT(60), Z3T(60), <1>1, <1>3, TreesUnchanged DEF IndAt
<1>11. Displaced(n)'
  BY SMTT(60), Z3T(60), <1>3 DEF Displaced
<1>12. Cache(n)'
  <2>1. Coinbases(height)' = Coinbases(n)
    BY <1>3, <1>4 DEF Coinbases
  <2> QED BY <1>4, <1>6, <2>1 DEF Cache
<1>13. Singleton(n)'
  BY <1>3 DEF Singleton
<1> QED BY <1>8, <1>9, <1>10, <1>11, <1>12, <1>13 DEF IndInv, IndAt

-----------------------------------------------------------------------------
\* The invariant is inductive: no connect, disconnect, rewind, storage error,
\* crash or restart of CChainState leads out of it.
THEOREM Inductive == NoKeyWrap => (Spec => []IndInv)
<1> SUFFICES ASSUME NoKeyWrap PROVE Spec => []IndInv
  OBVIOUS
<1>1. Init => IndInv
  BY InitInd
<1>2. IndInv /\ [Next]_vars => IndInv'
  <2> SUFFICES ASSUME IndInv, [Next]_vars PROVE IndInv'
    OBVIOUS
  <2>1. TypeOK'
    BY TypeStep DEF IndInv
  <2>2. ASSUME NEW b \in Candidates(height + 1), ConnectCommit(b) PROVE IndInv'
    BY <2>1, <2>2, ConnectCommitInd
  <2>3. ASSUME NEW b \in Candidates(height + 1), ConnectFails(b) PROVE IndInv'
    BY <2>1, <2>3, UnchangedInd DEF ConnectFails, disk
  <2>4. CASE ConnectMemory
    BY <2>1, <2>4, ConnectMemoryInd
  <2>5. ASSUME NEW undoRead \in BOOLEAN, DisconnectCommit(undoRead) PROVE IndInv'
    BY <2>1, <2>5, DisconnectCommitInd
  <2>6. CASE DisconnectFails
    BY <2>1, <2>6, UnchangedInd DEF DisconnectFails, disk
  <2>7. ASSUME NEW fork \in Heights, RollbackCumulativeCommit(fork) PROVE IndInv'
    BY <2>1, <2>7, UnchangedInd DEF RollbackCumulativeCommit, memory
  <2>8. ASSUME NEW cacheRead \in BOOLEAN, DisconnectMemory(cacheRead) PROVE IndInv'
    BY <2>1, <2>8, DisconnectMemoryInd
  <2>9. CASE Restart
    BY <2>1, <2>9, RestartInd
  <2>10. CASE UNCHANGED vars
    BY <2>1, <2>10, UnchangedInd DEF vars, disk, memory
  <2> QED BY Zenon, <2>2, <2>3, <2>4, <2>5, <2>6, <2>7, <2>8, <2>9, <2>10 DEF Next
<1> QED BY <1>1, <1>2, PTL DEF Spec

\* connect_block's replay gate keeps the spends of canonical blocks disjoint,
\* for every history of connects, disconnects, faults and restarts.
THEOREM DoubleSpendFree == NoKeyWrap => (Spec => []NoDoubleSpend)
<1>1. IndInv => NoDoubleSpend
  BY DEF IndInv, IndAt, Shape, Fresh, NoDoubleSpend
<1> QED BY <1>1, Inductive, PTL

\* Between operations the gate holds exactly the spends of the chain: disconnect
\* and restart neither lose one nor leave one behind.
THEOREM GateExact == NoKeyWrap => (Spec => []ReplayGateExact)
<1>1. IndInv => ReplayGateExact
  <2> SUFFICES ASSUME IndInv, op = Idle PROVE spent_nullifiers = AllSpends
    BY DEF ReplayGateExact
  <2>1. PICK n \in 0..MaxHeight : IndAt(n)
    BY DEF IndInv
  <2>2. op.kind = "idle"
    BY SMTT(60), Z3T(60) DEF Idle
  <2>3. \A nf \in Nullifiers : nf \in spent_nullifiers <=> Spent(nf, n)
    BY SMTT(60), Z3T(60), <2>1, <2>2 DEF IndAt, Gate
  <2>4. \A nf : nf \in AllSpends <=> Spent(nf, n)
    BY SMTT(60), Z3T(60), <2>1 DEF AllSpends, Spent, IndAt, Shape
  <2>5. spent_nullifiers \subseteq Nullifiers /\ AllSpends \subseteq Nullifiers
    BY SMTT(60), Z3T(60) DEF IndInv, TypeOK, AllSpends, Block
  <2> QED BY <2>3, <2>4, <2>5
<1> QED BY <1>1, Inductive, PTL

\* The uncles tree holds exactly the uncles of the chain, and no two blocks of
\* the chain list the same one, whatever blocks were disconnected (check_uncles,
\* disconnect_block).  Within one block an uncle may repeat.
THEOREM UnclesPaidByOneBlock == NoKeyWrap => (Spec => []UnclePaidByOneBlock)
<1>1. IndInv => UnclePaidByOneBlock
  <2> SUFFICES ASSUME IndInv PROVE UnclePaidByOneBlock
    OBVIOUS
  <2>1. PICK n \in 0..MaxHeight : IndAt(n)
    BY SMTT(60), Z3T(60) DEF IndInv
  <2>2. DOMAIN blocks = 1..n
    BY SMTT(60), Z3T(60), <2>1 DEF IndAt, Shape
  <2>3. uncles = UNION {Listed(blocks[h].uncles) : h \in DOMAIN blocks}
    <3>1. uncles \subseteq UncleHeaders /\ \A h \in DOMAIN blocks : blocks[h] \in Block
      BY SMTT(60), Z3T(60) DEF IndInv, TypeOK
    <3>2. \A h \in 1..n : Listed(blocks[h].uncles) \subseteq UncleHeaders
      <4> SUFFICES ASSUME NEW h \in 1..n PROVE Listed(blocks[h].uncles) \subseteq UncleHeaders
        OBVIOUS
      <4>1. blocks[h].uncles \in Seq(UncleHeaders)
        BY <2>2, <3>1 DEF Block
      <4> QED BY <4>1 DEF Listed
    <3>3. \A u \in UncleHeaders : u \in uncles <=> \E h \in 1..n : u \in Listed(blocks[h].uncles)
      BY SMTT(60), Z3T(60), <2>1 DEF IndAt, UncleIndex
    <3>4. \A u : u \in UNION {Listed(blocks[h].uncles) : h \in DOMAIN blocks}
                 <=> \E h \in 1..n : u \in Listed(blocks[h].uncles)
      BY <2>2
    <3> QED BY SMTT(60), Z3T(60), <3>1, <3>2, <3>3, <3>4
  <2> QED BY <2>1, <2>2, <2>3 DEF UnclePaidByOneBlock, IndAt, UncleIndex
<1> QED BY <1>1, Inductive, PTL

\* Without storage errors an idle node's height, supply tree and cached entry
\* describe the same chain, and every disconnect leaves in the contracts tree
\* the singleton of the height below, also when a reorganisation has rewound
\* it first and also across crashes.
THEOREM SupplyAgreement ==
  NoKeyWrap /\ ~ StorageFaults =>
    (Spec => [](SupplyTreeAgrees /\ UndoAgrees /\ HeightIsChainHeight))
<1> SUFFICES ASSUME NoKeyWrap, ~ StorageFaults
             PROVE  Spec => [](SupplyTreeAgrees /\ UndoAgrees /\ HeightIsChainHeight)
  OBVIOUS
<1>1. IndInv => SupplyTreeAgrees /\ UndoAgrees /\ HeightIsChainHeight
  <2> SUFFICES ASSUME IndInv PROVE SupplyTreeAgrees /\ UndoAgrees /\ HeightIsChainHeight
    OBVIOUS
  <2>1. PICK n \in 0..MaxHeight : IndAt(n)
    BY SMTT(60), Z3T(60) DEF IndInv
  <2>2. op = Idle => height = n
    BY SMTT(60), Z3T(60), <2>1, TipsFacts DEF Idle, IndAt, Shape
  <2>3. latest \in [height : 0..MaxHeight, commit : Seq(Miners)]
    BY SMTT(60), Z3T(60) DEF IndInv, TypeOK
  <2>4. op = Idle => latest = [height |-> height, commit |-> Coinbases(height)]
    BY SMTT(60), Z3T(60), <2>1, <2>2, <2>3 DEF IndAt, Cache
  <2>5. HeightIsChainHeight
    BY SMTT(60), Z3T(60), <2>1, <2>2 DEF HeightIsChainHeight, IndAt, Shape
  <2>6. SupplyTreeAgrees
    BY <2>1, <2>2, <2>4 DEF SupplyTreeAgrees, IndAt, Supply
  <2>7. UndoAgrees
    BY SMTT(60), Z3T(60), <2>1 DEF UndoAgrees, IndAt, Shape, Singleton
  <2> QED BY <2>5, <2>6, <2>7
<1> QED BY <1>1, Inductive, PTL
=============================================================================
