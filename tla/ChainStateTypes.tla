-------------------------- MODULE ChainStateTypes ---------------------------
(***************************************************************************)
(* Type correctness of ChainState, for every value of the constants: also  *)
(* with heights beyond one key byte and with storage errors.  The one fact *)
(* that is not a matter of unfolding definitions is that CChainState::new  *)
(* finds a height at all: a finite, nonempty tree has a last key.          *)
(*                                                                         *)
(* Leaves whose translation is large cite SMTT(60), Z3T(60): the second is *)
(* a fresh attempt when tlapm gives up translating the leaf for the first. *)
(***************************************************************************)
EXTENDS ChainState, WellFoundedInduction, TLAPS

\* A nonempty set of natural numbers has a least element.
LEMMA LeastNat ==
  ASSUME NEW S, S \subseteq Nat, S # {}
  PROVE  \E x \in S : \A y \in S : x <= y
<1> DEFINE R == {ss \in Nat \X Nat : ss[1] < ss[2]}
<1>1. IsWellFoundedOn(R, Nat)
  BY NatLessThanWellFounded DEF OpToRel
<1>2. \A x, y \in Nat : y < x => <<y, x>> \in R
  OBVIOUS
<1> HIDE DEF R
<1>3. PICK x \in S : \A y \in S : ~ (<<y, x>> \in R)
  BY Zenon, <1>1, WFMin
<1>4. \A y \in S : x \in Nat /\ y \in Nat /\ ~ (y < x)
  BY Zenon, <1>2, <1>3
<1> QED BY <1>3, <1>4

\* A nonempty set of numbers up to n has a greatest element.
LEMMA GreatestNat ==
  ASSUME NEW n \in Nat, NEW S, S \subseteq 0..n, S # {}
  PROVE  \E x \in S : \A y \in S : y <= x
<1> DEFINE T == {n - y : y \in S}
<1>1. T \subseteq Nat /\ T # {}
  <2>1. \A y \in S : n - y \in Nat
    OBVIOUS
  <2> QED BY Zenon, <2>1
<1>2. PICK t \in T : \A u \in T : t <= u
  <2> HIDE DEF T
  <2> QED BY Zenon, <1>1, LeastNat
<1>3. PICK x \in S : t = n - x
  OBVIOUS
<1>4. ASSUME NEW y \in S PROVE y <= x
  <2>1. n - x <= n - y
    BY <1>2, <1>3
  <2>2. x \in 0..n /\ y \in 0..n
    OBVIOUS
  <2> QED BY <2>1, <2>2
<1> QED BY <1>4

\* A nonempty set of heights has a last key, in the order of the sled keys.
LEMMA LastKeyExists ==
  ASSUME NEW S, S \subseteq 0..MaxHeight, S # {}
  PROVE  \E h \in S : \A k \in S : KeyLeq(k, h)
<1> DEFINE Low == {k % KeyBase : k \in S}
<1>1. \A k \in S : k \in Int /\ k % KeyBase \in 0..(KeyBase - 1)
  BY ChainConstants
<1>2. PICK low \in Low : \A l \in Low : l <= low
  <2>1. Low \subseteq 0..KeyBase /\ Low # {} /\ KeyBase \in Nat
    <3>1. KeyBase \in Nat /\ \A k \in S : k % KeyBase \in 0..KeyBase
      BY <1>1, ChainConstants
    <3> QED BY Zenon, <3>1
  <2> HIDE DEF Low
  <2> QED BY Zenon, <2>1, GreatestNat
<1> DEFINE Same == {k \in S : k % KeyBase = low}
<1>3. PICK h \in Same : \A k \in Same : k <= h
  <2>1. Same \subseteq 0..MaxHeight /\ Same # {} /\ MaxHeight \in Nat
    BY ChainConstants
  <2> HIDE DEF Same
  <2> QED BY Zenon, <2>1, GreatestNat
<1>4. ASSUME NEW k \in S PROVE KeyLeq(k, h)
  <2>1. k % KeyBase <= low /\ h % KeyBase = low
    BY <1>2, <1>3
  <2>2. k % KeyBase = low => k <= h
    BY <1>3
  <2> QED BY <1>1, <2>1, <2>2 DEF KeyLeq
<1> QED BY <1>3, <1>4

\* LinearStore::get_height returns 0 or the height of a stored block.
LEMMA StoredHeightType ==
  ASSUME NEW tree, DOMAIN tree \subseteq Heights
  PROVE  StoredHeight(tree) \in 0..MaxHeight
<1>1. CASE DOMAIN tree = {}
  BY <1>1, ChainConstants DEF StoredHeight
<1>2. CASE DOMAIN tree # {}
  <2>1. \E h \in DOMAIN tree : \A k \in DOMAIN tree : KeyLeq(k, h)
    <3>1. DOMAIN tree \subseteq 0..MaxHeight
      BY DEF Heights
    <3> QED BY <1>2, <3>1, LastKeyExists
  <2>2. StoredHeight(tree) \in DOMAIN tree
    BY Zenon, <1>2, <2>1 DEF StoredHeight
  <2> QED BY <2>2 DEF Heights
<1> QED BY <1>1, <1>2

\* restore_latest returns an entry of the supply tree, or the genesis identity.
LEMMA RestoreLatestType ==
  ASSUME TypeOK
  PROVE  RestoreLatest \in [height : 0..MaxHeight, commit : Seq(Miners)]
<1>1. CASE DOMAIN supply_chain = {}
  BY <1>1, ChainConstants DEF RestoreLatest
<1>2. CASE DOMAIN supply_chain # {}
  <2>1. DOMAIN supply_chain \subseteq Heights
    BY SMTT(60), Z3T(60) DEF TypeOK
  <2>2. \E k \in DOMAIN supply_chain : \A j \in DOMAIN supply_chain : j <= k
    <3>1. DOMAIN supply_chain \subseteq 0..MaxHeight /\ MaxHeight \in Nat
      BY <2>1, ChainConstants DEF Heights
    <3> QED BY <1>2, <3>1, GreatestNat
  <2>3. LastKey(supply_chain) \in DOMAIN supply_chain
    BY Zenon, <2>2 DEF LastKey
  <2>4. supply_chain[LastKey(supply_chain)] \in Seq(Miners)
    BY SMTT(60), Z3T(60), <2>3 DEF TypeOK
  <2> QED BY <1>2, <2>1, <2>3, <2>4 DEF RestoreLatest, Heights
<1> QED BY <1>1, <1>2

\* S_n is a sequence of coinbases.
LEMMA SupplyAtType ==
  ASSUME TypeOK, NEW n, HasSupply(n)
  PROVE  SupplyAt(n) \in Seq(Miners)
BY SMTT(60), Z3T(60) DEF TypeOK, HasSupply, SupplyAt

\* What accept_block is handed is a block.
LEMMA CandidateIsBlock ==
  ASSUME TypeOK, NEW h, NEW b \in Candidates(h)
  PROVE  b \in Block
<1>1. Spendable \subseteq Nullifiers
  BY SMTT(60), Z3T(60) DEF TypeOK, Spendable, Nullifiers, ClaimNullifiers, Block
<1>2. UncleLists(h) \subseteq Seq(UncleHeaders)
  <2> SUFFICES ASSUME NEW n \in 0..(MAX_UNCLE_COUNT + 1),
                      NEW s \in [1..n -> {u \in UncleHeaders : u[1] < h}]
               PROVE  s \in Seq(UncleHeaders)
    BY DEF UncleLists
  <2> QED BY ChainConstants
<1> QED BY <1>1, <1>2 DEF Candidates, Block

-----------------------------------------------------------------------------
\* connect_block's transaction writes values of the right shape.
LEMMA ConnectCommitTypes ==
  ASSUME TypeOK, NEW b \in Candidates(height + 1), ConnectCommit(b)
  PROVE  TypeOK'
<1> DEFINE h == height + 1
<1>1. b \in Block
  BY CandidateIsBlock
<1>2. h \in Heights
  BY SMTT(60), Z3T(60) DEF ConnectCommit, Connectable
<1>3. b.spends \subseteq Nullifiers /\ <<h, b.miner>> \in Nullifiers
  BY SMTT(60), Z3T(60), <1>1, <1>2 DEF Block, Nullifiers, ClaimNullifiers
<1>4. Listed(b.uncles) \subseteq UncleHeaders /\ b.uncles \in Seq(UncleHeaders)
  <2>1. b.uncles \in Seq(UncleHeaders)
    BY SMTT(60), Z3T(60), <1>1 DEF Block
  <2> QED BY SMTT(60), Z3T(60), <2>1 DEF Listed
<1>5. /\ DOMAIN blocks' \subseteq Heights
      /\ \A k \in DOMAIN blocks' : blocks'[k] \in Block
  BY SMTT(60), Z3T(60), <1>1, <1>2 DEF ConnectCommit, TypeOK, Put
<1>6. /\ DOMAIN nullifiers' \subseteq Nullifiers
      /\ \A nf \in DOMAIN nullifiers' : nullifiers'[nf] \in [kind : {0, 1}, height : Heights]
  BY ZenonT(60), <1>2, <1>3 DEF ConnectCommit, TypeOK, Merge, NullifierBatch, Claims
<1>7. /\ uncles' \subseteq UncleHeaders
      /\ DOMAIN uncles_by_height' \subseteq Heights
      /\ \A k \in DOMAIN uncles_by_height' : uncles_by_height'[k] \in Seq(UncleHeaders)
  BY SMTT(60), Z3T(60), <1>2, <1>4 DEF ConnectCommit, TypeOK, Put
<1>8. contracts' \in Seq(Miners)
  BY SMTT(60), Z3T(60), <1>1 DEF ConnectCommit, TypeOK, Block
<1>9. /\ DOMAIN contracts_undo' \subseteq Heights
      /\ \A k \in DOMAIN contracts_undo' : contracts_undo'[k] \in Seq(Miners)
  BY SMTT(60), Z3T(60), <1>2 DEF ConnectCommit, TypeOK, Put
<1>10. /\ DOMAIN supply_chain' \subseteq Heights
       /\ \A k \in DOMAIN supply_chain' : supply_chain'[k] \in Seq(Miners)
  BY SMTT(60), Z3T(60), <1>2, <1>8 DEF ConnectCommit, TypeOK, Put
<1>11. op' \in [kind : {"connect", "disconnect"}, block : Block, height : Heights]
  BY SMTT(60), Z3T(60), <1>1, <1>2 DEF ConnectCommit
<1> QED BY SMTT(60), Z3T(60), <1>5, <1>6, <1>7, <1>8, <1>9, <1>10, <1>11
   DEF ConnectCommit, TypeOK

\* The memory half of connect_block.
LEMMA ConnectMemoryTypes ==
  ASSUME TypeOK, ConnectMemory
  PROVE  TypeOK'
<1> DEFINE b == op.block  h == op.height
<1>1. b \in Block /\ h \in Heights
  BY SMTT(60), Z3T(60) DEF TypeOK, ConnectMemory, Idle
<1>2. b.spends \subseteq Nullifiers /\ Claims(h, b) \subseteq Nullifiers
  BY SMTT(60), Z3T(60), <1>1 DEF Block, Nullifiers, ClaimNullifiers, Claims
<1>3. /\ DOMAIN nullifier_set' \subseteq Nullifiers
      /\ \A nf \in DOMAIN nullifier_set' : nullifier_set'[nf] \in Heights
  <2> DEFINE merged == Merge([nf \in Claims(h, b) |-> h], nullifier_set)
  <2>1. /\ DOMAIN merged \subseteq Nullifiers
        /\ \A nf \in DOMAIN merged : merged[nf] \in Heights
    BY ZenonT(60), <1>1, <1>2 DEF TypeOK, Merge
  <2>2. nullifier_set' = Prune(merged, h)
    BY SMTT(60), Z3T(60) DEF ConnectMemory
  <2> HIDE DEF merged, h
  <2> QED BY <2>1, <2>2 DEF Prune
<1>4. spent_nullifiers' \subseteq Nullifiers
  BY SMTT(60), Z3T(60), <1>2 DEF ConnectMemory, TypeOK
<1>5. latest' \in [height : 0..MaxHeight, commit : Seq(Miners)]
  BY SMTT(60), Z3T(60), <1>1 DEF ConnectMemory, TypeOK, Heights
<1>6. height' \in 0..MaxHeight /\ peak' \in 0..MaxHeight
  BY SMTT(60), Z3T(60), <1>1 DEF ConnectMemory, TypeOK, Heights
<1>7. op' = Idle /\ UNCHANGED disk
  BY SMTT(60), Z3T(60) DEF ConnectMemory
<1> QED BY SMTT(60), Z3T(60), <1>3, <1>4, <1>5, <1>6, <1>7 DEF TypeOK, disk

\* disconnect_block's transaction only takes keys out, and puts an undo record
\* back into the contracts tree.
LEMMA DisconnectCommitTypes ==
  ASSUME TypeOK, NEW undoRead \in BOOLEAN, DisconnectCommit(undoRead)
  PROVE  TypeOK'
<1>1. height \in Heights /\ height \in DOMAIN blocks /\ blocks[height] \in Block
  BY SMTT(60), Z3T(60) DEF TypeOK, DisconnectCommit, Displaceable
<1>2. /\ DOMAIN blocks' \subseteq Heights
      /\ \A k \in DOMAIN blocks' : blocks'[k] \in Block
  BY SMTT(60), Z3T(60) DEF DisconnectCommit, TypeOK, Remove
<1>3. /\ DOMAIN nullifiers' \subseteq Nullifiers
      /\ \A nf \in DOMAIN nullifiers' : nullifiers'[nf] \in [kind : {0, 1}, height : Heights]
  BY SMTT(60), Z3T(60) DEF DisconnectCommit, TypeOK, Remove
<1>4. /\ uncles' \subseteq UncleHeaders
      /\ DOMAIN uncles_by_height' \subseteq Heights
      /\ \A k \in DOMAIN uncles_by_height' : uncles_by_height'[k] \in Seq(UncleHeaders)
  BY SMTT(60), Z3T(60) DEF DisconnectCommit, TypeOK, Remove, DropUncles
<1>5. contracts' \in Seq(Miners)
  BY SMTT(60), Z3T(60) DEF DisconnectCommit, TypeOK, UndoContracts
<1>6. /\ DOMAIN contracts_undo' \subseteq Heights
      /\ \A k \in DOMAIN contracts_undo' : contracts_undo'[k] \in Seq(Miners)
  BY SMTT(60), Z3T(60) DEF DisconnectCommit, TypeOK, Remove
<1>7. /\ DOMAIN supply_chain' \subseteq Heights
      /\ \A k \in DOMAIN supply_chain' : supply_chain'[k] \in Seq(Miners)
  BY SMTT(60), Z3T(60) DEF DisconnectCommit, TypeOK, Remove
<1>8. op' \in [kind : {"connect", "disconnect"}, block : Block, height : Heights]
  BY SMTT(60), Z3T(60), <1>1 DEF DisconnectCommit
<1>9. UNCHANGED <<height, nullifier_set, spent_nullifiers, latest, peak>>
  BY Zenon DEF DisconnectCommit
<1> QED BY SMTT(60), Z3T(60), <1>2, <1>3, <1>4, <1>5, <1>6, <1>7, <1>8, <1>9 DEF TypeOK

\* The memory half of disconnect_block.
LEMMA DisconnectMemoryTypes ==
  ASSUME TypeOK, NEW cacheRead \in BOOLEAN, DisconnectMemory(cacheRead)
  PROVE  TypeOK'
<1>1. op.height \in Heights /\ op.height - 1 \in 0..MaxHeight
  BY SMTT(60), Z3T(60), ChainConstants DEF TypeOK, DisconnectMemory, Idle, Heights
<1>2. /\ DOMAIN nullifier_set' \subseteq Nullifiers
      /\ \A nf \in DOMAIN nullifier_set' : nullifier_set'[nf] \in Heights
  BY SMTT(60), Z3T(60) DEF DisconnectMemory, TypeOK, Remove
<1>3. spent_nullifiers' \subseteq Nullifiers
  BY SMTT(60), Z3T(60) DEF DisconnectMemory, TypeOK
<1>4. HasSupply(op.height - 1) => SupplyAt(op.height - 1) \in Seq(Miners)
  BY SupplyAtType
<1>5. /\ latest' \in [height : 0..MaxHeight, commit : Seq(Miners)]
      /\ height' \in 0..MaxHeight
  BY SMTT(60), Z3T(60), <1>1, <1>4 DEF DisconnectMemory, TypeOK
<1>6. op' = Idle /\ UNCHANGED <<disk, peak>>
  BY SMTT(60), Z3T(60) DEF DisconnectMemory
<1> QED BY SMTT(60), Z3T(60), <1>2, <1>3, <1>5, <1>6 DEF TypeOK, disk

\* CChainState::new rebuilds memory of the right shape from any typed trees.
LEMMA RestartTypes ==
  ASSUME TypeOK, Restart
  PROVE  TypeOK'
<1>1. height' \in 0..MaxHeight
  <2>1. DOMAIN blocks \subseteq Heights
    BY SMTT(60), Z3T(60) DEF TypeOK
  <2> QED BY <2>1, StoredHeightType DEF Restart
<1>2. latest' \in [height : 0..MaxHeight, commit : Seq(Miners)]
  BY RestoreLatestType DEF Restart
<1>3. peak' \in 0..MaxHeight
  BY SMTT(60), Z3T(60), <1>1 DEF Restart, TypeOK
<1>4. /\ DOMAIN nullifier_set' \subseteq Nullifiers
      /\ \A nf \in DOMAIN nullifier_set' : nullifier_set'[nf] \in Heights
  BY SMTT(60), Z3T(60) DEF TypeOK, Restart
<1>5. spent_nullifiers' \subseteq Nullifiers
  BY SMTT(60), Z3T(60) DEF TypeOK, Restart
<1>6. /\ op' = Idle
      /\ UNCHANGED <<blocks, nullifiers, uncles, uncles_by_height, contracts,
                     contracts_undo, supply_chain>>
  BY SMTT(60), Z3T(60) DEF Restart
<1> QED BY SMTT(60), Z3T(60), <1>1, <1>2, <1>3, <1>4, <1>5, <1>6 DEF TypeOK

\* Steps that change only the work counters, or nothing.
LEMMA UnchangedTypes ==
  ASSUME TypeOK,
         UNCHANGED <<blocks, nullifiers, uncles, uncles_by_height, contracts, contracts_undo,
                     supply_chain, height, nullifier_set, spent_nullifiers, latest, op, peak>>
  PROVE  TypeOK'
BY SMTT(60), Z3T(60) DEF TypeOK

\* rollback_cumulative_commit writes an entry of the supply tree.
LEMMA RollbackTypes ==
  ASSUME TypeOK, NEW fork, RollbackCumulativeCommit(fork)
  PROVE  TypeOK'
<1>1. contracts' \in Seq(Miners)
  BY SupplyAtType DEF RollbackCumulativeCommit
<1>2. UNCHANGED <<blocks, nullifiers, uncles, uncles_by_height, contracts_undo, supply_chain,
                  height, nullifier_set, spent_nullifiers, latest, op, peak>>
  BY SMTT(60), Z3T(60) DEF RollbackCumulativeCommit, memory
<1> QED BY SMTT(60), Z3T(60), <1>1, <1>2 DEF TypeOK

\* Every step of CChainState keeps the shapes.
LEMMA TypeStep == TypeOK /\ [Next]_vars => TypeOK'
<1> SUFFICES ASSUME TypeOK, [Next]_vars PROVE TypeOK'
  OBVIOUS
<1>1. ASSUME NEW b \in Candidates(height + 1), ConnectCommit(b) PROVE TypeOK'
  BY <1>1, ConnectCommitTypes
<1>2. ASSUME NEW b \in Candidates(height + 1), ConnectFails(b) PROVE TypeOK'
  BY <1>2, UnchangedTypes DEF ConnectFails, disk
<1>3. CASE ConnectMemory
  BY <1>3, ConnectMemoryTypes
<1>4. ASSUME NEW undoRead \in BOOLEAN, DisconnectCommit(undoRead) PROVE TypeOK'
  BY <1>4, DisconnectCommitTypes
<1>5. CASE DisconnectFails
  BY <1>5, UnchangedTypes DEF DisconnectFails, disk
<1>6. ASSUME NEW fork \in Heights, RollbackCumulativeCommit(fork) PROVE TypeOK'
  BY <1>6, RollbackTypes
<1>7. ASSUME NEW cacheRead \in BOOLEAN, DisconnectMemory(cacheRead) PROVE TypeOK'
  BY <1>7, DisconnectMemoryTypes
<1>8. CASE Restart
  BY <1>8, RestartTypes
<1>9. CASE UNCHANGED vars
  BY <1>9, UnchangedTypes DEF vars, disk, memory
<1> QED BY Zenon, <1>1, <1>2, <1>3, <1>4, <1>5, <1>6, <1>7, <1>8, <1>9 DEF Next

\* An empty store has the right shape.
LEMMA InitTypes == Init => TypeOK
BY SMTT(60), Z3T(60), ChainConstants DEF Init, TypeOK, Idle

\* The trees and the in-memory sets of CChainState keep their shapes, for every
\* value of the constants, through every connect, disconnect, rewind, storage
\* error, crash and restart.
THEOREM ChainTypes == Spec => []TypeOK
BY InitTypes, TypeStep, PTL DEF Spec
=============================================================================
