# Verification of the DarkWow linear chain

DarkWow is a proof-of-work chain whose blocks pay *uncles* (blocks that lost a
race for their height) and whose coinbase supply is tracked by a cumulative
commitment. This directory models the part of a node that decides what the
canonical chain is, checks it with TLC on small instances, and proves the main
safety properties of the chain state with TLAPS.

`PROJECT.json` lists the components, runs, mutants, hazards and theorems, and
maps every definition to the lines it models. Paths below are relative to the
repository.

## The system and its parts

| Part | Code | Rust lines | Here |
|---|---|---|---|
| Canonical chain state | `src/linear/src/{chain_state,store,supply_chain}.rs` | part of 22,783 (`src/linear`) | `ChainState` |
| Block acceptance, reorganisation | `bin/dwowd/src/block_acceptor.rs`, `task/consensus_linear.rs` | part of 41,229 (`bin/dwowd`) | `Reorg` |
| Proof-of-work target | `src/linear/src/consensus.rs`, `src/sdk/src/blockchain.rs` | | `PowConsensus` |
| Competing blocks | `chain_state.rs`, the template builders of `dwowd` | | `CompetingStore` |
| Block validation | `src/linear/src/validation.rs` | 1,462 | uncle and timestamp rules |
| Finality anchors | `src/linear/src/finality.rs` | 428 | the veto in `Reorg`, the conflict in `ChainState` |
| Fee window, fee estimator | `src/linear/src/fee_{window,estimator}.rs` | 1,682 | planned |
| Contract execution and risk | `src/linear/src/{execution,contract_risk}.rs`, `src/runtime` | 7,231 | planned (risk records) |
| Header sync, pull loop, mining gate | `src/linear/src/sync_*.rs`, `task/consensus_linear.rs` | 943 and part | planned |
| Mempool | `crates/dwow-mempool` | 1,570 | planned |
| Mining registry, stratum, merge mining | `bin/dwowd/src/{registry,rpc}` | | take and put only |
| Relay | `bin/dwowd/src/proto` | | planned |
| Network, transports, DHT, event graph | `src/{net,transport,dht,event_graph}` | 21,280 | not modelled |
| Concurrency primitives | `src/concurrency` | 1,069 | planned |
| ZK circuits, compiler, contracts | `src/{zk,zkas,contract}` | 169,499 | out of reach |
| Wallet, apps, other daemons | `bin/*`, `crates/dwow-accounts` | about 80,000 | clients, not modelled |

How the modelled parts interact. A block arrives from a peer or a local miner
and goes through `accept_block`, which serialises on `apply_lock`. A block that
extends the tip is executed and handed to `connect_block`, which writes ten
sled trees in one transaction and then updates the sets in memory. A block that
does not extend the tip is stored as a competing block. A block on top of a
stored competing block may start a reorganisation; so may the sync task, which
walks a peer's chain. A reorganisation disconnects down to the fork, connects
the competing blocks, and restores the old chain when one is rejected. Template
builders take stored competing blocks to pay them as uncles.

## Modules

### ChainState

State: the sled trees `blocks`, `nullifiers`, `uncles`, `uncles_by_height`,
`contracts`, `contracts_undo`, `supply_chain` and the saved work; in memory
`height`, `nullifier_set` (claims), `spent_nullifiers` (the replay gate),
`accumulated_work` and the supply cache `latest`. `op` is the operation between
its transaction and its memory update; `peak` only bounds rollbacks.

| Action | Code |
|---|---|
| `ConnectCommit`, `ConnectMemory` | `connect_block`: checks and transaction; memory updates |
| `ConnectFails` | the transaction returns an error; the work added stays |
| `DisconnectCommit`, `DisconnectMemory` | `disconnect_block`, in the same two halves; the undo record may be unreadable |
| `DisconnectFails` | `disconnect_block` returns early, the work already taken out |
| `RollbackCumulativeCommit` | `rollback_cumulative_commit`, the write that precedes the first disconnect of a reorganisation |
| `Restart` | `CChainState::new`, at any point, also between two halves |

A block is its miner (the coinbase), the nullifiers it spends, the list of
uncles it pays and its work. The uncles are a list because `check_uncles` takes
a slice and does not compare its members with each other. The cumulative
commitment is the sequence of coinbases summed so far. A coinbase claim and a
fee-collect claim are handled by the same code and are one nullifier. A sled
transaction is durable when it returns. Two connects never interleave because
`connect_lock` covers each. `commitment_set` is written but read only by tests,
and is left out.

### Reorg

Extends `ChainState`; connects and disconnects are the same steps, driven by a
reorganisation in progress (`reorg`) and by what the sync task has decided and
not yet carried out (`plan`). `DetectReorg` decides and activates under one
lock; `Decide` and `ActivatePlan` are the two halves of
`reorg_to_heavier_chain`, and `Decide` needs no lock, so blocks are accepted and
other reorganisations run between the two. `Activate` is `activate_best_chain`
up to `rollback_cumulative_commit`; `ReorgDisconnect…`, `ReorgConnect`,
`ReorgReject`, `ReorgRestore…` are its loops and its restore path, with the
errors each call can return. The extension is accepted under the same lock on
the relay path (`ReorgExtend`) and under a new one by the sync task
(`ExtendPlan`). `CrashRestart` may fall anywhere; `torn` records that one fell
between the rewind of the contracts tree and the first disconnect. A rejected
competing block is a free choice: heavier by work does not mean valid. The
return of displaced transactions to the mempool is left out.

### PowConsensus

State: the chain's timestamps and targets, the cache `block_targets`, the
accumulator in memory (`target`, `timestamps`) and its saved copy; `undone`
counts disconnects and early returns. The arithmetic (`Adjust`, `Adjustment`,
`ComputeAdjustment`) is the code's, with the narrowing to the width of a target
kept (`% TargetMod`). `Connect`, `ConnectRejected` (a block that fails after the
accumulator was updated), `Disconnect`, `DisconnectFails` (an early return after
the accumulator was rewound) and `Restart` are what `connect_block`,
`disconnect_block` and `new` do to this state. `ChainTarget` is the rule
evaluated from genesis.

### CompetingStore

The map `competing`, the dedup set `seen` and the mutex of each. A critical
section of one mutex is a step; where the code holds one mutex and waits for
the other, it is two. One acceptor thread stores, extends, prunes and promotes;
builders take and put back. A builder reads the tip without a lock, so it may
take at a height the tip has passed. Stratum and merge mining put back at the
height they took from; the miner task and the miner RPC put back at the tip they
read first, while `prepare_block` takes at the tip it reads later, so `Take`
fixes the height of a later `Put` as any height up to the one taken from.
`promoted` and `restored` record that `remove_competing` took a block out and
that some blocks were put back.

## Runs

Counts are distinct states.

| Run | Checks | States | Shows |
|---|---|---|---|
| `chain_history` | `TypeOK`, `NoDoubleSpend`, `ReplayGateExact`, `UnclePaidByOneBlock` | 56,538 | with storage errors, early returns, crashes and rollbacks to genesis, the replay gate is what the chain spends and the uncles tree what it pays; no spend happens twice and no two blocks pay one uncle |
| `reorg_depth1` | `HeightIsChainHeight`, `SupplyAgreesOutside`, `CoinbaseMaturity`, `WorkIsChainWork`, `SupplyTreeAgrees`, `UndoAgrees`, `FailedReorgRestores` | 201,673 | reorganisations of one block, with crashes anywhere, keep maturity, work, tip and every supply record true of the chain, and are undone when they fail |
| `reorg_finality` | `FinalizedKept`, `ReorgEnds` | 77,332 | an anchored block is never displaced, and a reorganisation ends, also with errors, crashes and decisions gone stale |
| `pow_history` | `TypeOK`, `CachedTargetIsWalked`, `StepSteers` | 159,311 | until something is undone the cached rule is the rule from genesis; with any history a step that fits the width is capped and in the right direction |
| `competing` | `TypeOK`, `SeenHasBlock`, `StoredOnce` | 785,847 | no dedup key is orphaned, puts included; until a put no block is held twice or without its key |
| `chain_keys` | `HeightIsChainHeight` violated | | little-endian keys: a restart takes a lower block for the tip |
| `chain_uncles` | `UncleListedOnce` violated | | a block may list one uncle twice |
| `reorg_prefix` | `FailedReorgRestores` violated | | a rejected second block leaves the first connected |
| `reorg_stale` | `ReorgGainsWork` violated | | a decision of the sync task is carried out after the chain has outgrown it |
| `pow_disconnect` | `TargetIsChainDerived` violated | | a block rejected late, or a disconnect, changes the demanded target |
| `pow_wrap` | `StepCapped` violated | | near the top of the range an easing step wraps to a small target |
| `competing_deadlock` | `NoLockCycle` violated | | put and prune take the mutexes in opposite orders |

`pow_disconnect` has two causes. The counterexample TLC prints is a block
rejected after the accumulator update. With `EarlyReturns = FALSE` TLC finds the
other: `disconnect_block` re-derives the target by another rule than
`get_next_work_required`.

`pow_wrap` starts a quarter of the way up so that sixteen heights suffice; from
a sixteenth, where the shipped configuration starts, it takes some 26 slow
blocks. `chain_uncles` is about `check_uncles`: block execution refuses some
repeats, those whose two copies both write the same new key.

Two comments describe an earlier state of the code and are contradicted by
passing runs: that uncles are not removed by a disconnect
(`chain_state.rs:1775`, against `UnclePaidByOneBlock`) and that
`disconnect_block` does not touch the contracts tree (`block_acceptor.rs:851`,
against `UndoAgrees`). A third is one off: `MAX_REORG_DEPTH` is the "maximum
number of blocks a reorg may displace" (`consensus_linear.rs:127`), but the walk
counts the common ancestor and displaces one block fewer (`WalkForks`).

Each property of a passing run has a mutant: a change to one mapped definition,
of the kind a slip in the code would be, under which TLC finds that property
violated.

### Bounds

Two notes and two spends per block let a block both repeat a spend and make a
new one; two uncles let a list repeat one. Three heights with rollbacks to
genesis let a spend, its disconnection and a second spend happen with a crash
between any two. Two miners let two blocks of one height differ. Maturity is 2,
so five heights cover a claim, its pruning and its spend. Chains of four blocks
let a competing chain of two be rejected at either block, or be outgrown while
the sync task decides; three blocks of which the middle one is anchored let a
depth-two reorganisation meet an anchor below the tip. The target windows hold 3
and 4 entries so that they fill and slide; a target has 2000 values and starts
at 1600, so that the top is reached within the bound. One block per height, two
heights and two builders are enough for every overlap of a store with a take, a
put and a prune. `MaxHeld` bounds what puts can pile up, `MaxFailedWork`,
`MaxUndone` and `MaxReorgDepth` bound failed commits, undone blocks and
rollbacks. `KeyBase` is 16 except in `chain_keys`, where 3 makes the second key
byte necessary.

Deadlock checking is off because a bounded chain stops, and in `CompetingStore`
because the lock cycle is real.

### Limits of the passing runs

Several properties hold only within the parameters their run uses. Each line
gives a run, the change to it under which TLC reports a violation, and where the
code causes it.

| Property | Run and change | Cause |
|---|---|---|
| `CoinbaseMaturity` | `reorg_depth1`, `MaxReorgDepth = 3`, `SyncPath = TRUE` | claim heights pruned at `chain_state.rs:1748` are not brought back by a disconnect |
| `WorkIsChainWork` | `reorg_depth1`, `StorageFaults = TRUE`, `MaxFailedWork = 1` | work added at `chain_state.rs:1562` is not taken out when the transaction fails |
| `HeightIsChainHeight`, `SupplyTreeAgrees` | `reorg_depth1`, `StorageFaults = TRUE` | an error of `rollback_cache` leaves the height at the removed block, `chain_state.rs:2255` |
| `SupplyAgreesOutside` | `reorg_depth1`, `StorageFaults = TRUE` | a failed `get_block` returns after the rewind with no restore, `block_acceptor.rs:941` |
| `SupplyAgreesOutside` | `reorg_depth1`, without `~ torn` | the rewind is a write of its own, `block_acceptor.rs:934`: a crash before the first disconnect leaves S of the fork under a higher tip, and every extension is then refused |
| `UndoAgrees` | `reorg_finality` (depth two, storage errors) | an undo record that cannot be read counts as absent, `chain_state.rs:2168`; at depth one the rewind makes up for it |
| `FailedReorgRestores` | `reorg_depth1`, `MAX_UNCLE_COUNT = 1` | the restore passes no uncles, `block_acceptor.rs:1108` |
| `StoredOnce` | `competing`, without `~ restored` | `put_competing_blocks` tests neither the cap nor the dedup set, `chain_state.rs:956`: a block stored while it was out is held twice, and a take of the copy may remove the key of the other |
| `StoredOnce` (own height) | `competing`, without `~ restored` | the miner task puts back at an earlier reading of the tip, `lib.rs:1809` |

Further: with puts a height may hold more than `MAX_COMPETING_BLOCKS` blocks.
A promoted block's key stays in `competing_seen` (`chain_state.rs:1973`);
`SeenHasBlock` names that case. `StepSteers` stops at nine tenths of the width,
above which `pow_wrap` applies, and allows a step of zero: a target below nine
cannot ease at all because the quotient is truncated (`consensus.rs:283`), and
mildly slow blocks do not ease one below about 120. The start-up check
of `block_targets` covers heights up to the tip, so a wrong entry for the next
height and a wrong saved accumulator survive a restart; this is why
`CachedTargetIsWalked` speaks of nodes that have undone nothing.

### Fairness

`Reorg` assumes weak fairness of the steps of a reorganisation in progress: it
runs on one thread that holds `apply_lock` and makes no wait other than for
locks its own steps release. Accepting blocks, deciding and crashing are not
fair. The other specifications assume no fairness.

## Proofs

`ChainStateTypes` and `ChainStateProofs` prove, for every set of miners, notes
and works and every value of the bounds:

| Theorem | Hypothesis | Conclusion |
|---|---|---|
| `ChainTypes` | none | `Spec => []TypeOK` |
| `Inductive` | `NoKeyWrap` | `Spec => []IndInv` |
| `DoubleSpendFree` | `NoKeyWrap` | `Spec => []NoDoubleSpend` |
| `GateExact` | `NoKeyWrap` | `Spec => []ReplayGateExact` |
| `UnclesPaidByOneBlock` | `NoKeyWrap` | `Spec => []UnclePaidByOneBlock` |
| `SupplyAgreement` | `NoKeyWrap`, no storage errors | `Spec => [](SupplyTreeAgrees /\ UndoAgrees /\ HeightIsChainHeight)` |

`NoKeyWrap` says heights fit in one key byte. It is needed: without it a
restart may resume from a lower block (`chain_keys`). The types need only that
a restart's height is one of the stored heights, whichever the key order picks.
The constants' assumptions `ChainConstants` and `NotesAreNotClaims` are the only
others. `Spec` lets the rewind of the contracts tree happen between any two
operations, which includes every place where a reorganisation makes it, so
`UndoAgrees` is about disconnects that follow a rewind too.

None of the properties is inductive. The gate is compared with the chain only
between operations, so the invariant must say what it holds in the middle of
one, and what a crash there finds on disk. `IndInv` says that for some `n`, the
number of stored blocks: the stored heights are `1..n` and memory lags by the
operation in flight (`Shape`); the gate is exact up to that operation (`Gate`);
the disk's spend records are exact at every instant (`Disk`), which is why a
restart can rebuild the gate; spends are disjoint and no claim is spent at or
below its own height (`Fresh`), which is why removing a block's claims from the
nullifier tree never removes a spend; a block being disconnected shares nothing
with what stays (`Displaced`); the uncle trees, the undo records with the supply
tree, and the cache follow the chain (`UncleIndex`, `Supply`, `Cache`). The
contracts singleton is known only right after a transaction (`Singleton`), since
between operations a reorganisation may have rewound it; a connect checks it
against the supply tree, which is why the undo record it writes is right. With
storage errors an idle node may hold height `n + 1` after a failed
`rollback_cache`; `Tips` accounts for it, and the next connect is refused
because its parent is not stored. There is one lemma per action.

Only model-checked: everything in `Reorg`, `PowConsensus` and `CompetingStore`;
`CoinbaseMaturity` and `WorkIsChainWork` (the latter is defined by a recursive
sum, and induction over data is out of this prover's reach); and liveness
(`ReorgEnds`), which is out of its reach too.

## Not modelled

Cryptography: proof verification is the guard `Spendable`, anchors are a set of
miners, hashes are identities. WASM execution is a function of the block. Reward
arithmetic and the fee window are left for later. RandomX is external.

## Plan

1. `Mempool`: four locks, capacity and eviction, nullifier index, persistence,
   return of transactions after a reorganisation.
2. The sync task with pull loop, mining gate and relay, composed with `Reorg`.
3. `FeeWindow` and contract risk under connect, failed connect, disconnect.
4. Templates of the registry, stratum and merge mining; `CompetingStore`
   composed with `Reorg` (a competing parent is removed before the
   reorganisation that promotes it succeeds).
5. An abstract ledger (a chain of blocks with spends) that `ChainState`
   implements, and the refinement proof from `IndInv`.
6. Theorems: `FinalizedKept` from an invariant of `Reorg`; target bounds and
   step lemmas of `PowConsensus`; lock invariants of `CompetingStore`.
