---------------------------- MODULE VoteHistory ----------------------------
(***************************************************************************)
(* A Checkpoints.History as contracts use it: values are pushed in the     *)
(* current block, directly or through a binary operation on the latest     *)
(* value, and read back for blocks that are mined.  Blocks pass on their   *)
(* own, and may outgrow the 32 bits that a checkpoint keeps of their       *)
(* number.                                                                 *)
(***************************************************************************)
EXTENDS Checkpoints, FiniteSets

CONSTANTS
  MaxKey,    \* type(uint32).max
  MaxValue,  \* type(uint224).max
  Deltas,    \* the amounts pushed
  MaxGap,    \* how many blocks pass at once
  MaxBlock   \* bound: the last block

HistoryAssumption ==
  /\ MaxKey \in Nat /\ MaxValue \in Nat /\ MaxBlock \in Nat
  /\ MaxGap \in Nat /\ Deltas \subseteq Nat

VARIABLES
  checkpoints,  \* self._checkpoints
  block         \* block.number

historyVars == <<checkpoints, block>>

HistoryInit == checkpoints = <<>> /\ block \in 0 .. MaxGap

roll ==
  /\ \E gap \in 1 .. MaxGap :
       block + gap <= MaxBlock /\ block' = block + gap
  /\ UNCHANGED checkpoints

\* SafeCast reverts where the block or the value does not fit.
CanToUint(value, max) == value <= max

pushed(value) ==
  /\ CanToUint(block, MaxKey) /\ CanToUint(value, MaxValue) /\ value >= 0
  /\ CanInsert(checkpoints, block)
  /\ checkpoints' = insert(checkpoints, block, value)
  /\ UNCHANGED block

push == \E value \in Deltas : pushed(value)

\* The operations passed in are checked addition and subtraction.
pushOp == \E delta \in Deltas :
  \/ pushed(latest(checkpoints) + delta)
  \/ pushed(latest(checkpoints) - delta)

HistoryNext == roll \/ push \/ pushOp

HistorySpec == HistoryInit /\ [][HistoryNext]_historyVars
-----------------------------------------------------------------------------
CanGet(blockNumber) == CanGetAtBlock(blockNumber, block) /\ CanToUint(blockNumber, MaxKey)

\* MUTANT: the first checkpoint not older than the block answers.
lowerAtBlock(blockNumber) == lowerLookup(checkpoints, blockNumber)

getAtBlock(blockNumber) == upperLookup(checkpoints, blockNumber)

getAtProbablyRecentBlock(blockNumber) == upperLookupRecent(checkpoints, blockNumber)

Readable == {b \in 0 .. MaxBlock : CanGet(b)}
-----------------------------------------------------------------------------
(* Properties. *)

\* The lookup of a mined block gives the value that block ended with, when it
\* is mined and ever after, whatever is pushed later and however often a block
\* is pushed to.
Mined == INSTANCE BlockHistory WITH
  ended <- [i \in 1 .. Cardinality(Readable) |-> getAtBlock(i - 1)],
  current <- latest(checkpoints)

\* The lookup that tries the recent checkpoints first is as good.
MinedRecently == INSTANCE BlockHistory WITH
  ended <- [i \in 1 .. Cardinality(Readable) |-> getAtProbablyRecentBlock(i - 1)],
  current <- latest(checkpoints)

ImplementsBlockHistory == Mined!Spec /\ MinedRecently!Spec

\* However often a block is pushed to it has one checkpoint, and the order of
\* the array is the order of the blocks: what both binary searches rest on.
OneCheckpointPerBlock ==
  /\ \A i, j \in DOMAIN checkpoints :
       i < j => checkpoints[i].key < checkpoints[j].key
  /\ \A i \in DOMAIN checkpoints : checkpoints[i].key <= block
=============================================================================
