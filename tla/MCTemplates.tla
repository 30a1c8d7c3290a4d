---------------------------- MODULE MCTemplates -----------------------------
(***************************************************************************)
(* The instances of the data structures that the library's templates       *)
(* generate.  They share nothing, so a behaviour is one of a single        *)
(* structure, the subject, and the others stay as they are at first.       *)
(***************************************************************************)
EXTENDS EnumerableSet

CONSTANTS
  KeySize, ValueSize,                             \* of EnumerableMap
  MaxKey, MaxValue, Deltas, MaxGap, MaxBlock,     \* of VoteHistory
  MaxTestKey, KeyMaxGap, MaxPushes                \* of CheckpointsTest

VARIABLES
  subject,             \* the structure that is used
  map, reply,          \* of EnumerableMap
  checkpoints, block,  \* of VoteHistory
  flavour, testBlock, ckpts, pushes, lastKey, lastValue, duplicates, upper, lower,
  lowerKey             \* of CheckpointsTest

Maps == INSTANCE EnumerableMap WITH answer <- reply

Votes == INSTANCE VoteHistory

\* Seven values, some equal, one 0.
MCValues == <<5, 0, 7, 5, 8, 9, 6>>

Tests == INSTANCE CheckpointsTest WITH
  Values <- MCValues, MaxKey <- MaxTestKey,
  block <- testBlock, i <- pushes, value <- lastValue

ASSUME TemplatesAssumption ==
  Maps!MapSizeAssumption /\ Votes!HistoryAssumption /\ Tests!TraceAssumption

mapVars == <<map, reply>>

historyVars == <<checkpoints, block>>

testVars == <<flavour, testBlock, ckpts, pushes, lastKey, lastValue, duplicates, upper,
              lower, lowerKey>>

templatesVars == <<subject, setVars, mapVars, historyVars, testVars>>

TemplatesInit ==
  /\ subject \in {"set", "map", "history", "test"}
  /\ SetInit
  /\ Maps!MapInit
  /\ Votes!HistoryInit /\ (subject # "history" => block = 0)
  /\ Tests!TraceInit /\ (subject # "test" => flavour = "Trace")

TemplatesNext ==
  \/ /\ subject = "set" /\ SetNext
     /\ UNCHANGED <<subject, mapVars, historyVars, testVars>>
  \/ /\ subject = "map" /\ Maps!MapNext
     /\ UNCHANGED <<subject, setVars, historyVars, testVars>>
  \/ /\ subject = "history" /\ Votes!HistoryNext
     /\ UNCHANGED <<subject, setVars, mapVars, testVars>>
  \/ /\ subject = "test" /\ Tests!TraceNext
     /\ UNCHANGED <<subject, setVars, mapVars, historyVars>>

TemplatesSpec == TemplatesInit /\ [][TemplatesNext]_templatesVars
-----------------------------------------------------------------------------
(* The properties of the instances; those of the set are its own.          *)

\* The three ways to read the map agree for every key (EnumerableMap.js).
ReadsAgree == Maps!ReadsAgree

\* To its user the map is a partial function.
ImplementsFunction == Maps!ImplementsFunction

\* A block has one checkpoint, in the order of the blocks (Checkpoints.js).
OneCheckpointPerBlock == Votes!OneCheckpointPerBlock

\* The lookup of a mined block gives the value that it ended with, for good.
ImplementsBlockHistory == Votes!ImplementsBlockHistory

\* Every lookup returns what the fuzz tests expect (Checkpoints.t.js).
LookupsAsExpected == Tests!LookupsAsExpected

\* So do the latest checkpoint and the number of checkpoints.
LatestAsExpected == Tests!LatestAsExpected
=============================================================================
