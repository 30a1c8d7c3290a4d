-------------------------- MODULE CheckpointsTest --------------------------
(***************************************************************************)
(* The fuzz tests of the Checkpoints libraries (template Checkpoints.t.js):*)
(* keys that never decrease are pushed one by one with the values of a     *)
(* list, and the results expected of the lookups are tracked on the way,   *)
(* here for every key that may be looked up, after every push.  A key of   *)
(* a Trace is given; that of a History is the number of the block, which   *)
(* the test rolls to.                                                      *)
(***************************************************************************)
EXTENDS Checkpoints

CONSTANTS
  Values,    \* the list values
  MaxKey,    \* the maximum of the key type
  KeyMaxGap, \* _KEY_MAX_GAP
  MaxPushes  \* bound: the length of the list keys

TraceAssumption ==
  /\ Values \in Seq(Nat) /\ Values # <<>>
  /\ MaxKey \in Nat /\ KeyMaxGap \in Nat /\ MaxPushes \in Nat

VARIABLES
  flavour,     \* the library under test: "Trace" or "History"
  block,       \* block.number
  ckpts,       \* _ckpts
  i,           \* the pushes so far
  lastKey,     \* keys[i-1], 0 before the first push
  value,       \* the value pushed last
  duplicates,  \* the pushes with the key of the push before
  upper,       \* what upperLookup of each key shall return
  lower,       \* what lowerLookup of each key shall return
  lowerKey     \* the first key that is not smaller

traceVars == <<flavour, block, ckpts, i, lastKey, value, duplicates, upper, lower,
               lowerKey>>

Key == 0 .. MaxKey

TraceInit ==
  /\ flavour \in {"Trace", "History"} /\ block = 0
  /\ ckpts = <<>> /\ i = 0 /\ lastKey = 0 /\ value = 0 /\ duplicates = 0
  /\ upper = [k \in Key |-> 0]
  /\ lower = [k \in Key |-> 0]
  /\ lowerKey = [k \in Key |-> MaxKey]

\* One more push of a key, perhaps that of the last one, as the tests count.
counted(key, v) ==
  /\ i < MaxPushes /\ key <= MaxKey
  /\ i' = i + 1 /\ lastKey' = key /\ value' = v
  /\ duplicates' = duplicates + (IF i > 0 /\ key = lastKey THEN 1 ELSE 0)
  /\ UNCHANGED flavour

trackUpper(key, v) == upper' = [l \in Key |-> IF key <= l THEN v ELSE upper[l]]

\* The first key that is not smaller than the one looked up.
trackLower(key, v) ==
  /\ lowerKey' = [l \in Key |-> IF key >= l /\ (i = 0 \/ lastKey < l)
                                THEN key ELSE lowerKey[l]]
  /\ lower' = [l \in Key |-> IF key = lowerKey'[l] THEN v ELSE lower[l]]

prepareKeys == lastKey .. lastKey + KeyMaxGap

valueOf == Values[(i % Len(Values)) + 1]

pushKey == \E key \in prepareKeys :
  /\ flavour = "Trace"
  /\ counted(key, valueOf)
  /\ trackUpper(key, valueOf) /\ trackLower(key, valueOf)
  /\ CanInsert(ckpts, key)
  /\ ckpts' = insert(ckpts, key, valueOf)
  /\ UNCHANGED block

rollAndPush == \E key \in prepareKeys :
  /\ flavour = "History"
  /\ block' = key
  /\ counted(key, valueOf) /\ trackUpper(key, valueOf)
  /\ CanInsert(ckpts, block')
  /\ ckpts' = insert(ckpts, block', valueOf)
  /\ UNCHANGED <<lower, lowerKey>>

\* The calls that the tests expect to revert: a push of a key in the past, in
\* a Trace or in the past block.
pushReverts(pastKey) == ~ CanInsert(ckpts, pastKey)

rollAndPushReverts(pastBlock) == ~ CanInsert(ckpts, pastBlock)

TraceNext == pushKey \/ rollAndPush

TraceSpec == TraceInit /\ [][TraceNext]_traceVars
------------------------------------------------------------------------
(* Properties: the assertions of the test. *)

\* Every lookup, by either search and by the one that starts among the recent
\* checkpoints, returns what was pushed for the keys around it; of a History,
\* the lookups of earlier blocks do.
LookupsAsExpected ==
  \A l \in Key :
    /\ flavour = "Trace" =>
         /\ lowerLookup(ckpts, l) = lower[l]
         /\ upperLookup(ckpts, l) = upper[l]
         /\ upperLookupRecent(ckpts, l) = upper[l]
    /\ flavour = "History" /\ i > 0 =>
         /\ l < lastKey => upperLookup(ckpts, l) = upper[l]
         /\ l < lastKey => upperLookupRecent(ckpts, l) = upper[l]

\* A push of the last key again replaces its value and adds no checkpoint, and
\* the latest value and key are the ones pushed last; a push of any past key
\* reverts.
LatestAsExpected ==
  /\ length(ckpts) = i - duplicates
  /\ latest(ckpts) = value
  /\ latestCheckpoint(ckpts) = [exists |-> i > 0, key |-> lastKey, value |-> value]
  /\ \A pastKey \in Key :
       IF flavour = "Trace"
       THEN pushReverts(pastKey) <=> pastKey < lastKey
       ELSE rollAndPushReverts(pastKey) <=> pastKey < lastKey
=============================================================================
