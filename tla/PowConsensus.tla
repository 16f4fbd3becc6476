---------------------------- MODULE PowConsensus ----------------------------
(***************************************************************************)
(* The difficulty target of one node: PoWConsensus (consensus.rs) and the  *)
(* parts of connect_block, disconnect_block and new (chain_state.rs) that  *)
(* maintain it.                                                            *)
(*                                                                         *)
(* The target of the next block exists in three places: the accumulator in *)
(* memory (target, timestamps), its copy in the consensus tree (saved), and *)
(* the per-height cache block_targets.  The rule every node must agree on  *)
(* is get_next_work_required, which starts from the cache.  ChainTarget is *)
(* the same rule with the cache empty: the value a node that synchronises  *)
(* this chain from genesis computes.                                       *)
(*                                                                         *)
(* connect_block updates memory before its transaction and writes saved    *)
(* and block_targets in it, so each operation is one step here; the crash  *)
(* between commit and memory is the subject of ChainState.  A transaction  *)
(* that fails restores what it changed and is a stuttering step; a call    *)
(* that returns early, after the update and before the transaction,        *)
(* restores nothing (ConnectRejected, DisconnectFails).                    *)
(***************************************************************************)
EXTENDS Integers, Sequences, FiniteSets, SequencesExt

CONSTANTS
  TargetMod,          \* number of values of a target (2^32 in the code)
  initial_target, min_target, max_target,
  target_block_time,  \* seconds
  TIMESTAMP_WINDOW,   \* consensus.rs: 20
  ADJUST_WINDOW,      \* timestamps used by one adjustment: 10
  MEDIAN_BLOCK_COUNT, \* validation.rs: 11
  Intervals,          \* differences between the timestamps of two blocks
  MaxHeight,          \* bound on the chain
  MaxUndone,          \* bound on disconnects and early returns together
  EarlyReturns        \* whether calls return between the target update and the commit

ASSUME PowConstants ==
  /\ TargetMod \in Nat /\ min_target \in 1..max_target /\ max_target < TargetMod
  /\ initial_target \in min_target..max_target
  /\ target_block_time \in Nat \ {0}
  /\ ADJUST_WINDOW \in 2..TIMESTAMP_WINDOW /\ MEDIAN_BLOCK_COUNT \in Nat \ {0}
  /\ Intervals \subseteq Int /\ MaxHeight \in Nat /\ MaxUndone \in Nat
  /\ EarlyReturns \in BOOLEAN

VARIABLES
  blocks,         \* canonical blocks: timestamp and declared target
  block_targets,  \* cache: height -> target, written one height ahead
  saved,          \* consensus tree: target and timestamps
  target, timestamps,
  undone          \* history: disconnects and early returns so far

vars == <<blocks, block_targets, saved, target, timestamps, undone>>

SCALE == 1000000
MAX == TargetMod - 1
height == Len(blocks)

-----------------------------------------------------------------------------
Clamp(x, lo, hi) == IF x < lo THEN lo ELSE IF x > hi THEN hi ELSE x

\* BlockTarget::adjust: the quotient is narrowed to the width of a target
\* before it is clamped.
Adjust(current, adjustment) ==
  Clamp(((current * SCALE) \div adjustment) % TargetMod, min_target, max_target)

Inverted(avg) ==
  2 * SCALE - Clamp((target_block_time * SCALE) \div avg, (9 * SCALE) \div 10, (11 * SCALE) \div 10)

\* The ratio of wanted to observed interval, at most 10% away from SCALE.
Adjustment(avg) ==
  LET ratio == Clamp((target_block_time * SCALE) \div avg, SCALE \div 2, SCALE * 2)
      tenth == SCALE \div 10
  IN  Clamp(ratio, SCALE - tenth, SCALE + tenth)

LastN(s, n) == SubSeq(s, IF Len(s) > n THEN Len(s) - n + 1 ELSE 1, Len(s))

Decreasing(ts) == \E i \in 2..Len(ts) : ts[i] < ts[i - 1]
AvgInterval(ts) == (ts[Len(ts)] - ts[1]) \div (Len(ts) - 1)

\* compute_adjustment, and adjust_target's body, on at least two timestamps:
\* a decreasing pair or a zero average leaves the target as it was.
ComputeAdjustment(window, current) ==
  LET ts == LastN(window, ADJUST_WINDOW) IN
  IF Decreasing(ts) \/ AvgInterval(ts) = 0 THEN current
  ELSE Adjust(current, Adjustment(AvgInterval(ts)))

\* adjust_target and the callers of compute_adjustment skip shorter windows.
Retarget(window, current) ==
  IF Len(window) < 2 THEN current ELSE ComputeAdjustment(window, current)

\* Timestamps of the last n blocks below height h.
ChainTimestamps(chain, h, n) == LastN([i \in 1..(h - 1) |-> chain[i].timestamp], n)

Window(chain, h) == ChainTimestamps(chain, h, TIMESTAMP_WINDOW)

\* The slow path of get_next_work_required: the walk from genesis.
ChainTarget(chain, h) ==
  LET t[k \in 1..h] == IF k = 1 THEN initial_target
                       ELSE Retarget(Window(chain, k), t[k - 1])
  IN  IF h <= 1 THEN MAX ELSE t[h]

\* get_next_work_required: the cached target of the previous height, adjusted
\* once, or the walk when there is none.
NextWork(cache, chain, h) ==
  IF h > 1 /\ h - 1 \in DOMAIN cache THEN Retarget(Window(chain, h), cache[h - 1])
  ELSE ChainTarget(chain, h)

\* check_block_timestamp: above the median of the last blocks.
TimestampOK(ts) ==
  LET recent == SortSeq(ChainTimestamps(blocks, height + 1, MEDIAN_BLOCK_COUNT), <)
  IN  recent # <<>> => ts > recent[(Len(recent) \div 2) + 1]

\* A peer's block: its timestamp relative to the tip's.
Timestamps == IF blocks = <<>> THEN {0} ELSE {blocks[height].timestamp + i : i \in Intervals}

-----------------------------------------------------------------------------
Init ==
  /\ blocks = <<>> /\ block_targets = <<>> /\ saved = [target |-> initial_target, timestamps |-> <<>>]
  /\ target = initial_target /\ timestamps = <<>> /\ undone = 0

RecordedUnbounded(ts) == Append(timestamps, ts)

\* record_block: a full window drops its oldest entry.
Recorded(ts) ==
  Append(IF Len(timestamps) >= TIMESTAMP_WINDOW THEN Tail(timestamps) ELSE timestamps, ts)

\* save_to_batch: an empty window is not written, the stored one stays.
Saved(t, ts) == [target |-> t, timestamps |-> IF ts = <<>> THEN saved.timestamps ELSE ts]

PutTargetBehind(h, t) ==
  [k \in DOMAIN block_targets \cup {h - 1} |-> IF k = h - 1 THEN t ELSE block_targets[k]]

\* The entry connect_block caches: the target of the block after it.
PutTarget(h, t) == [k \in DOMAIN block_targets \cup {h} |-> IF k = h THEN t ELSE block_targets[k]]

\* The header checks of connect_block: declared target and timestamp.
Acceptable(ts) == height < MaxHeight /\ TimestampOK(ts)

\* connect_block of a block with timestamp ts.
Connect(ts) ==
  /\ Acceptable(ts)
  /\ blocks' = Append(blocks, [timestamp |-> ts,
                               target |-> NextWork(block_targets, blocks, height + 1)])
  /\ timestamps' = Recorded(ts)
  /\ target' = Retarget(timestamps', target)
  /\ block_targets' = PutTarget(height + 2, target')
  /\ saved' = Saved(target', timestamps')
  /\ UNCHANGED undone

\* A block that passes the header checks and then fails the uncle split or the
\* maturity check returns with the accumulator already updated.
ConnectRejected(ts) ==
  /\ EarlyReturns /\ undone < MaxUndone /\ Acceptable(ts) /\ height > 0
  /\ timestamps' = Recorded(ts)
  /\ target' = Retarget(timestamps', target)
  /\ undone' = undone + 1
  /\ UNCHANGED <<blocks, block_targets, saved>>

\* Undo record_block: the last timestamp goes, nothing comes back in front.
Popped(ts) == IF ts = <<>> THEN ts ELSE SubSeq(ts, 1, Len(ts) - 1)

\* disconnect_block's target: adjusted pair by pair over what is left of the
\* window, starting from initial_target.
RewoundTarget(ts) ==
  LET t[k \in 0..Len(ts)] == IF k <= 1 THEN initial_target
                             ELSE ComputeAdjustment(<<ts[k - 1], ts[k]>>, t[k - 1])
  IN  t[Len(ts)]

\* disconnect_block of the tip.
Disconnect ==
  /\ height > 1 /\ undone < MaxUndone
  /\ blocks' = SubSeq(blocks, 1, height - 1)
  /\ timestamps' = Popped(timestamps)
  /\ target' = RewoundTarget(timestamps')
  /\ block_targets' = [k \in DOMAIN block_targets \ {height + 1} |-> block_targets[k]]
  /\ saved' = Saved(target', timestamps')
  /\ undone' = undone + 1

\* disconnect_block returns early, on a failed read of the uncle index or an
\* undo record that does not parse: the window is popped, the target rewound.
DisconnectFails ==
  /\ EarlyReturns /\ height > 1 /\ undone < MaxUndone
  /\ timestamps' = Popped(timestamps)
  /\ target' = RewoundTarget(timestamps')
  /\ undone' = undone + 1
  /\ UNCHANGED <<blocks, block_targets, saved>>

\* The cache check of new(), from height 2 to the tip: each entry is recomputed
\* from the one below it, which is already corrected.
Repaired ==
  LET t[h \in 1..height] ==
        IF h = 1 THEN MAX
        ELSE IF h = 2 THEN NextWork(block_targets, blocks, 2)
        ELSE Retarget(Window(blocks, h), t[h - 1])
  IN  [k \in DOMAIN block_targets \cup 2..height |->
         IF k \in 2..height THEN t[k] ELSE block_targets[k]]

\* CChainState::new: the accumulator is loaded as it was saved.
Restart ==
  /\ target' = saved.target
  /\ timestamps' = saved.timestamps
  /\ block_targets' = Repaired
  /\ UNCHANGED <<blocks, saved, undone>>

Next ==
  \/ \E ts \in Timestamps : Connect(ts) \/ ConnectRejected(ts)
  \/ Disconnect
  \/ DisconnectFails
  \/ Restart

Spec == Init /\ [][Next]_vars

-----------------------------------------------------------------------------
\* Shapes; every target that Adjust produced lies within the configured bounds.
TypeOK ==
  /\ blocks \in Seq([timestamp : Int, target : 1..MAX]) /\ height <= MaxHeight
  /\ DOMAIN block_targets \subseteq 1..(MaxHeight + 1)
  /\ \A h \in DOMAIN block_targets : block_targets[h] \in min_target..max_target
  /\ target \in min_target..max_target
  /\ saved.target \in min_target..max_target
  /\ timestamps \in Seq(Int) /\ Len(timestamps) <= TIMESTAMP_WINDOW

\* The target this node demands of the next block is the one a node that
\* walks the same chain from genesis demands, whatever this node's history
\* ("two nodes with the same chain always compute the same expected target",
\* get_next_work_required).
TargetIsChainDerived ==
  NextWork(block_targets, blocks, height + 1) = ChainTarget(blocks, height + 1)

\* As long as this node has only extended its chain and restarted, the cached
\* rule gives the target of the walk from genesis, decreasing timestamps, full
\* windows and the narrowing at the top included (get_next_work_required,
\* fast path against slow path).
CachedTargetIsWalked == undone = 0 => TargetIsChainDerived

\* The target moves by at most 10%, up to rounding.
Capped == 9 * target' <= 10 * target /\ 11 * (target' + 1) > 10 * target

\* "Single-step adjustments are capped at +-10%" (adjust_target): so is the step
\* of every block.
StepCapped == [][height' > height => Capped]_vars

\* A block whose step stays below the width of a target moves it by at most
\* 10%, and never the wrong way: slow blocks do not lower the target and fast
\* ones do not raise it (adjust_target, from any accumulator a disconnect or
\* an early return may leave).
StepSteers ==
  [][LET ts == LastN(timestamps', ADJUST_WINDOW) IN
     height' > height /\ Len(ts) >= 2 /\ 10 * target < 9 * TargetMod =>
       /\ Capped
       /\ AvgInterval(ts) > target_block_time => target' >= target
       /\ AvgInterval(ts) < target_block_time => target' <= target]_vars
=============================================================================
