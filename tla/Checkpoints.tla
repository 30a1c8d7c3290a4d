---------------------------- MODULE Checkpoints ----------------------------
(***************************************************************************)
(* The Checkpoints template of the OpenZeppelin library: an array of       *)
(* checkpoints, pairs of a key and a value, with increasing keys.  The     *)
(* operators take the array, self, as the functions of the template do;    *)
(* positions count from 0.                                                 *)
(***************************************************************************)
EXTENDS Integers, Sequences

unsafeAccess(self, pos) == self[pos + 1]

length(self) == Len(self)

latest(self) ==
  IF self = <<>> THEN 0 ELSE unsafeAccess(self, Len(self) - 1).value

latestCheckpoint(self) ==
  IF self = <<>>
  THEN [exists |-> FALSE, key |-> 0, value |-> 0]
  ELSE LET ckpt == unsafeAccess(self, Len(self) - 1)
       IN  [exists |-> TRUE, key |-> ckpt.key, value |-> ckpt.value]
-----------------------------------------------------------------------------
(* Writing.                                                                *)

\* Keys never decrease; the function reverts on one that does.
CanInsert(self, key) == self = <<>> \/ latestCheckpoint(self).key <= key

\* MUTANT: a second value of the same key gets a checkpoint of its own.
insertAlways(self, key, value) == Append(self, [key |-> key, value |-> value])

insert(self, key, value) ==
  IF self # <<>> /\ latestCheckpoint(self).key = key
  THEN [self EXCEPT ![Len(self)].value = value]
  ELSE Append(self, [key |-> key, value |-> value])
-----------------------------------------------------------------------------
(* Reading.                                                                *)

average(a, b) == (a + b) \div 2

\* Math.sqrt rounds down.
sqrt(n) == CHOOSE r \in 0 .. n : r * r <= n /\ n < (r + 1) * (r + 1)

\* The binary searches work on the positions low .. high - 1.
upperBinaryLookup(self, key, low, high) ==
  LET search[lo \in 0 .. Len(self)] == [hi \in 0 .. Len(self) |->
        LET mid == average(lo, hi)
        IN  IF lo >= hi THEN hi
            ELSE IF unsafeAccess(self, mid).key > key
                 THEN search[lo][mid] ELSE search[mid + 1][hi]]
  IN  search[low][high]

\* MUTANT: equal keys count as smaller.
lowerPastEqual(self, key, low, high) ==
  upperBinaryLookup(self, key, low, high)

lowerBinaryLookup(self, key, low, high) ==
  LET search[lo \in 0 .. Len(self)] == [hi \in 0 .. Len(self) |->
        LET mid == average(lo, hi)
        IN  IF lo >= hi THEN hi
            ELSE IF unsafeAccess(self, mid).key < key
                 THEN search[mid + 1][hi] ELSE search[lo][mid]]
  IN  search[low][high]

lowerLookup(self, key) ==
  LET pos == lowerBinaryLookup(self, key, 0, Len(self))
  IN  IF pos = Len(self) THEN 0 ELSE unsafeAccess(self, pos).value

valueBefore(self, pos) == IF pos = 0 THEN 0 ELSE unsafeAccess(self, pos - 1).value

upperLookup(self, key) ==
  valueBefore(self, upperBinaryLookup(self, key, 0, Len(self)))

\* With more than five checkpoints, the last sqrt(len) are tried first.
recentPos(self, key) ==
  LET len == Len(self)
      mid == len - sqrt(len)
  IN  IF len <= 5 THEN upperBinaryLookup(self, key, 0, len)
      ELSE IF key < unsafeAccess(self, mid).key
           THEN upperBinaryLookup(self, key, 0, mid)
           ELSE upperBinaryLookup(self, key, mid + 1, len)

upperLookupRecent(self, key) == valueBefore(self, recentPos(self, key))

\* The lookups of a History revert on a block that is not over.
CanGetAtBlock(blockNumber, block) == blockNumber < block
=============================================================================
