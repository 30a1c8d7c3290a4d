---------------------------- MODULE BlockHistory ----------------------------
(***************************************************************************)
(* What a checkpointed value promises: it can be overwritten within a      *)
(* block, and the value each mined block ended with is kept forever.       *)
(***************************************************************************)
EXTENDS Naturals, Sequences, SequencesExt

VARIABLES
  ended,   \* the values the blocks so far ended with, the oldest first
  current  \* the value in the block being mined

Init == current = 0 /\ \A i \in DOMAIN ended : ended[i] = 0

Write == current' \in Nat /\ UNCHANGED ended

\* Any number of blocks may pass without a write.
Mine ==
  /\ Len(ended) < Len(ended')
  /\ IsPrefix(ended, ended')
  /\ \A i \in Len(ended) + 1 .. Len(ended') : ended'[i] = current
  /\ UNCHANGED current

Next == Write \/ Mine

Spec == Init /\ [][Next]_<<ended, current>>
=============================================================================
