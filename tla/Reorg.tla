------------------------------- MODULE Reorg --------------------------------
(***************************************************************************)
(* Reorganisation of the canonical chain: activate_best_chain and its      *)
(* restore path (block_acceptor.rs), decided either by detect_reorg under  *)
(* apply_lock (a block relayed on top of a stored competing block) or by   *)
(* the sync task's reorg_to_heavier_chain, which walks a peer's chain with *)
(* no lock held and takes apply_lock only to activate.                     *)
(*                                                                         *)
(* The connects and disconnects of a reorganisation are the steps of       *)
(* ChainState; this module adds what drives them, so that a crash, a       *)
(* storage error or a rejected block can fall between any two.  apply_lock *)
(* is held from Activate to the end, so no other block is accepted in      *)
(* between.                                                                *)
(***************************************************************************)
EXTENDS ChainState

CONSTANTS
  SyncPath,         \* whether the sync task runs beside block relay
  MAX_REORG_DEPTH   \* consensus_linear.rs: 100

ASSUME ReorgConstants == SyncPath \in BOOLEAN /\ MAX_REORG_DEPTH \in Nat

VARIABLES
  plan,   \* what the sync task has decided and not yet carried out
  reorg,  \* the call of activate_best_chain in progress
  torn    \* history: a crash fell between the rewind of the contracts tree and
          \* the first disconnect

rvars == <<vars, plan, reorg, torn>>

NoPlan == [step |-> "none"]
NoReorg == [phase |-> "none"]

RInit == Init /\ plan = NoPlan /\ reorg = NoReorg /\ torn = FALSE

-----------------------------------------------------------------------------
\* accept_block of a block that extends the tip: connect_block and its commit.
Accept(b) == reorg = NoReorg /\ ConnectCommit(b) /\ UNCHANGED <<plan, reorg, torn>>

AcceptFails(b) == reorg = NoReorg /\ ConnectFails(b) /\ UNCHANGED <<plan, reorg, torn>>

\* A block of a competing chain: it is fetched or relayed without its uncles.
Competitors == [miner : Miners, spends : {{}}, uncles : {<<>>}, work : Works]

\* The work of blocks lo..hi.
RangeWork(lo, hi) ==
  LET w[k \in (lo - 1)..hi] == IF k < lo THEN 0 ELSE w[k - 1] + blocks[k].work IN w[hi]

SeqWork(s) == LET w[k \in 0..Len(s)] == IF k = 0 THEN 0 ELSE w[k - 1] + s[k].work IN w[Len(s)]

\* The sync task's comparison: the competing blocks and the block that extends
\* them against the local blocks above the fork, strictly.
Heavier(fork, chain, ext) == SeqWork(chain) + ext.work > RangeWork(fork + 1, height)

\* detect_reorg's comparison, for a fork one below the tip: the accumulated
\* work with the tip replaced by the competing block and its extension.
HeavierThanTip(chain, ext) ==
  SubWork(accumulated_work, blocks[height]) + SeqWork(chain) + ext.work > accumulated_work

\* The competing chains that end one below the extension and share the local
\* prefix up to fork; seen is the chain they are compared with.
Plans(forks) ==
  UNION {{[step |-> "activate", fork |-> fork, chain |-> chain, ext |-> ext, seen |-> blocks] :
            chain \in {c \in [1..(height - fork) -> Competitors] : c[1] # blocks[fork + 1]},
            ext \in Competitors} :
         fork \in {f \in forks : f >= 1 /\ f >= peak - MaxReorgDepth}}

\* The walk of reorg_to_heavier_chain counts the common ancestor too.
WalkForks == {f \in 1..(height - 1) : height - f + 1 <= MAX_REORG_DEPTH}

\* The walk and the comparison of reorg_to_heavier_chain, with no lock held:
\* a reorganisation by block relay may be in progress.
Decide(p) ==
  /\ SyncPath /\ plan = NoPlan
  /\ reorg # NoReorg => ~ reorg.sync
  /\ Heavier(p.fork, p.chain, p.ext)
  /\ plan' = p
  /\ UNCHANGED <<vars, reorg, torn>>

TipFinalized(fork) == blocks[height].miner \in Anchored

\* displaced_range_is_finalized: the veto over every displaced height.
DisplacedFinalized(fork) == \E h \in (fork + 1)..height : blocks[h].miner \in Anchored

\* activate_best_chain up to and including rollback_cumulative_commit: it
\* returns before it writes when a displaced block cannot be read or is
\* finalized, or when S_fork is missing.
Activate(p, sync) ==
  /\ reorg = NoReorg /\ op = Idle
  /\ p.fork >= peak - MaxReorgDepth
  /\ IF \/ ~ (p.fork + 1)..height \subseteq DOMAIN blocks
        \/ DisplacedFinalized(p.fork)
        \/ height < p.fork \/ ~ HasSupply(p.fork)
     THEN UNCHANGED <<vars, reorg>>
     ELSE /\ RollbackCumulativeCommit(p.fork)
          /\ reorg' = [phase |-> "disconnect", sync |-> sync, fork |-> p.fork,
                       todo |-> p.chain, ext |-> p.ext, stash |-> <<>>,
                       seen |-> p.seen, before |-> blocks]
  /\ UNCHANGED torn

\* The sync task takes apply_lock and activates the plan it made, whatever the
\* chain has become since.
ActivatePlan == plan.step = "activate" /\ Activate(plan, TRUE) /\ plan' = NoPlan

\* detect_reorg decides and activates under one lock.
DetectReorg(p) == HeavierThanTip(p.chain, p.ext) /\ Activate(p, FALSE) /\ UNCHANGED plan

-----------------------------------------------------------------------------
To(phase) == reorg' = [reorg EXCEPT !.phase = phase]

StashNothing(h, b) == reorg.stash

\* The displaced blocks in ascending order, the one just disconnected first.
Stash(h, b) == <<<<h, b>>>> \o reorg.stash

\* One pass of the disconnect loop; the block is stashed once it succeeded.
ReorgDisconnect(undoRead) ==
  /\ reorg.phase = "disconnect" /\ height > reorg.fork
  /\ DisconnectCommit(undoRead)
  /\ UNCHANGED <<plan, reorg, torn>>

ReorgDisconnected(cacheRead) ==
  /\ reorg.phase = "disconnect"
  /\ DisconnectMemory(cacheRead)
  /\ IF height' < height
     THEN reorg' = [reorg EXCEPT !.stash = Stash(op.height, op.block)]
     ELSE To("restore")
  /\ UNCHANGED <<plan, torn>>

\* The read of the block fails and activate_best_chain returns with no
\* restore; or disconnect_block fails, before or after it has taken the
\* block's work out of memory, and the restore begins.
ReorgDisconnectFails ==
  /\ StorageFaults /\ op = Idle
  /\ reorg.phase = "disconnect" /\ height > reorg.fork
  /\ \/ UNCHANGED vars /\ reorg' = NoReorg
     \/ UNCHANGED vars /\ To("restore")
     \/ DisconnectFails /\ To("restore")
  /\ UNCHANGED <<plan, torn>>

ReorgDisconnectsDone ==
  /\ reorg.phase = "disconnect" /\ op = Idle /\ height = reorg.fork
  /\ To("connect")
  /\ UNCHANGED <<vars, plan, torn>>

\* The competing chain builds on the prefix it was walked or stored on.
OnSeenPrefix == \A h \in 1..reorg.fork : h \in DOMAIN blocks /\ blocks[h] = reorg.seen[h]

\* The next competing block passes the full pipeline.
ReorgConnect ==
  /\ reorg.phase = "connect" /\ reorg.todo # <<>>
  /\ OnSeenPrefix
  /\ ConnectCommit(Head(reorg.todo))
  /\ reorg' = [reorg EXCEPT !.todo = Tail(@)]
  /\ UNCHANGED <<plan, torn>>

\* It is rejected: heavier by work, but not valid; or its commit fails.
ReorgReject ==
  /\ reorg.phase = "connect" /\ reorg.todo # <<>> /\ op = Idle
  /\ UNCHANGED vars \/ ConnectFails(Head(reorg.todo))
  /\ To("restore")
  /\ UNCHANGED <<plan, torn>>

\* Every competing block is connected.  accept_block_locked goes on to the
\* extension under the same apply_lock; the sync task has given the lock up.
ReorgApplied ==
  /\ reorg.phase = "connect" /\ reorg.todo = <<>> /\ op = Idle
  /\ IF reorg.sync
     THEN /\ reorg' = NoReorg
          /\ plan' = [step |-> "extend", ext |-> reorg.ext, base |-> blocks]
     ELSE To("extend") /\ UNCHANGED plan
  /\ UNCHANGED <<vars, torn>>

\* The extension is accepted, rejected, or its commit fails.
AcceptExtension(ext) == ConnectCommit(ext) \/ ConnectFails(ext) \/ UNCHANGED vars

ReorgExtend ==
  /\ reorg.phase = "extend" /\ op = Idle
  /\ AcceptExtension(reorg.ext)
  /\ reorg' = NoReorg
  /\ UNCHANGED <<plan, torn>>

\* The sync task takes apply_lock again for the extension; it no longer
\* extends the tip if another block was accepted in between.
ExtendPlan ==
  /\ plan.step = "extend" /\ reorg = NoReorg /\ op = Idle
  /\ IF blocks = plan.base THEN AcceptExtension(plan.ext) ELSE UNCHANGED vars
  /\ plan' = NoPlan
  /\ UNCHANGED <<reorg, torn>>

KeepTrying == UNCHANGED reorg

\* The restore gives up: the caller sees the error, the chain stays as it is.
RestoreStops == reorg' = NoReorg

\* restore_disconnected_chain, one block: it passes no uncles, so a block that
\* pays some fails the reward check, and only an extension of the tip counts.
ReorgRestore ==
  LET h == Head(reorg.stash)[1]  b == Head(reorg.stash)[2]
      extends == h = height + 1 /\ b.uncles = <<>> IN
  /\ reorg.phase = "restore" /\ reorg.stash # <<>> /\ op = Idle
  /\ \/ /\ extends /\ ConnectCommit(b)
        /\ reorg' = [reorg EXCEPT !.stash = Tail(@)]
     \/ /\ StorageFaults \/ ~ extends \/ ~ Connectable(b, height + 1)
        /\ UNCHANGED vars \/ (extends /\ ConnectFails(b))
        /\ RestoreStops
  /\ UNCHANGED <<plan, torn>>

ReorgRestored ==
  /\ reorg.phase = "restore" /\ reorg.stash = <<>> /\ op = Idle
  /\ reorg' = NoReorg
  /\ UNCHANGED <<vars, plan, torn>>

\* The memory half of a connect, in whichever phase it was started.
Connected == ConnectMemory /\ UNCHANGED <<plan, reorg, torn>>

\* The process stops and starts again: plan and reorganisation are lost.
CrashRestart ==
  /\ Restart
  /\ plan' = NoPlan /\ reorg' = NoReorg
  /\ torn' = (torn \/ (reorg.phase = "disconnect" /\ reorg.stash = <<>> /\ op = Idle))

ReorgStep ==
  \/ \E undoRead \in BOOLEAN : ReorgDisconnect(undoRead)
  \/ \E cacheRead \in BOOLEAN : ReorgDisconnected(cacheRead)
  \/ ReorgDisconnectFails
  \/ ReorgDisconnectsDone
  \/ ReorgConnect
  \/ ReorgReject
  \/ ReorgApplied
  \/ ReorgExtend
  \/ ReorgRestore
  \/ ReorgRestored
  \/ Connected

RNext ==
  \/ \E b \in Candidates(height + 1) : Accept(b) \/ AcceptFails(b)
  \/ 1..height \subseteq DOMAIN blocks /\ \E p \in Plans(WalkForks) : Decide(p)
  \/ height \in DOMAIN blocks /\ \E p \in Plans({height - 1}) : DetectReorg(p)
  \/ ActivatePlan
  \/ ExtendPlan
  \/ ReorgStep
  \/ CrashRestart

\* A reorganisation runs to its end on the thread that holds apply_lock.
RSpec == RInit /\ [][RNext]_rvars /\ WF_rvars(ReorgStep)

-----------------------------------------------------------------------------
\* The reorganisation in progress stops here, other than by a crash.
EndsFrom(phase) == reorg.phase = phase /\ reorg'.phase = "none" /\ ~ CrashRestart

\* A failed activate_best_chain leaves the canonical chain it found: every
\* disconnected block is connected again and no competing block stays.
FailedReorgRestores == [][EndsFrom("restore") => blocks' = reorg.before]_rvars

\* No step removes or replaces a block that carries a verified anchor, however
\* far below the tip it is when the reorganisation is activated.
FinalizedKept ==
  [][\A h \in DOMAIN blocks : blocks[h].miner \in Anchored =>
       h \in DOMAIN blocks' /\ blocks'[h] = blocks[h]]_rvars

\* activate_best_chain adopts "a competing chain that carries more accumulated
\* work than the local canonical chain": connected with its extension it is
\* heavier than the chain it displaced.
ReorgGainsWork ==
  [][ReorgApplied =>
       ChainWork(blocks, height) + reorg.ext.work
         > ChainWork(reorg.before, Cardinality(DOMAIN reorg.before))]_rvars

\* Outside a reorganisation the contracts singleton holds the cumulative
\* commitment of the chain, as the supply tree does, so the next block can be
\* accepted; a crash is harmless except between the rewind and the first
\* disconnect.
SupplyAgreesOutside ==
  reorg = NoReorg /\ op = Idle /\ ~ torn => contracts = Coinbases(height)

\* A reorganisation, successful or not, ends.
ReorgEnds == reorg.phase # "none" ~> reorg.phase = "none"
=============================================================================
