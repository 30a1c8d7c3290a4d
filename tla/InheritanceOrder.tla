-------------------------- MODULE InheritanceOrder --------------------------
(***************************************************************************)
(* scripts/checks/inheritance-ordering.js of the OpenZeppelin library: it  *)
(* takes the linearized bases of every contract that the compiler gives,   *)
(* most derived first, draws an edge from each contract to those after it  *)
(* in a chain, and reports the pairs with edges both ways.  Contracts are  *)
(* numbered in the order in which they are compiled.                       *)
(***************************************************************************)
EXTENDS Integers, Sequences, SequencesExt

CONSTANT MaxContracts  \* bound: the contracts of the build

ASSUME OrderAssumption == MaxContracts \in Nat

VARIABLES
  linearization,  \* linearizedBaseContracts of each contract
  linearized      \* the chains of the contracts that are no mocks

orderVars == <<linearization, linearized>>

Contracts == DOMAIN linearization

before(chain, x, y) ==
  \E i, j \in DOMAIN chain : i < j /\ chain[i] = x /\ chain[j] = y
-----------------------------------------------------------------------------
(* The compiler's C3 linearization; bases are listed most derived last.    *)

\* A contract that heads a list and is in the rest of none can come next.
Candidates(lists) ==
  {c \in {lists[i][1] : i \in {j \in DOMAIN lists : lists[j] # <<>>}} :
     \A i \in DOMAIN lists : lists[i] # <<>> => ~ Contains(Tail(lists[i]), c)}

\* It is taken from the head of every list that it heads.
Without(lists, c) ==
  [i \in DOMAIN lists |->
     IF lists[i] # <<>> /\ lists[i][1] = c THEN Tail(lists[i]) ELSE lists[i]]

\* The first list whose head is a candidate gives the next contract.
NextOf(lists) ==
  lists[CHOOSE i \in DOMAIN lists :
          /\ lists[i] # <<>> /\ lists[i][1] \in Candidates(lists)
          /\ \A j \in 1 .. i - 1 : lists[j] = <<>> \/ lists[j][1] \notin Candidates(lists)][1]

MergeStep(last) ==
  IF Candidates(last.lists) = {} THEN last
  ELSE [chain |-> Append(last.chain, NextOf(last.lists)),
        lists |-> Without(last.lists, NextOf(last.lists))]

\* The state of the merge after n contracts.
Merge(lists, n) ==
  LET step[k \in 0 .. n] ==
        IF k = 0 THEN [chain |-> <<>>, lists |-> lists] ELSE MergeStep(step[k - 1])
  IN  step[n]

\* The merge of the chains of the bases and the bases themselves.
MergeBases(bases) ==
  LET order == Reverse(bases)
  IN  Merge([i \in 1 .. Len(bases) + 1 |->
               IF i <= Len(bases) THEN linearization[order[i]] ELSE order],
            Len(linearization))

\* The compiler refuses bases that cannot be merged.
CanDefine(bases) ==
  \A i \in DOMAIN MergeBases(bases).lists : MergeBases(bases).lists[i] = <<>>

OrderInit == linearization = <<>> /\ linearized = <<>>

Bases == {<<>>} \cup {<<x>> : x \in Contracts}
         \cup {<<x, y>> : x \in Contracts, y \in Contracts}

define == \E bases \in Bases, mock \in BOOLEAN :
  /\ Len(linearization) < MaxContracts
  /\ IsInjective(bases) /\ CanDefine(bases)
  /\ LET chain == <<Len(linearization) + 1>> \o MergeBases(bases).chain
     IN  /\ linearization' = Append(linearization, chain)
         /\ linearized' = IF mock THEN linearized ELSE Append(linearized, chain)

OrderSpec == OrderInit /\ [][define]_orderVars
-----------------------------------------------------------------------------
(* The check.                                                              *)

\* MUTANT: an edge only to the next contract of the chain.
nextEdge(x, y) ==
  \E n \in DOMAIN linearized : \E i \in 1 .. Len(linearized[n]) - 1 :
    linearized[n][i] = x /\ linearized[n][i + 1] = y

hasEdge(x, y) == \E n \in DOMAIN linearized : before(linearized[n], x, y)

\* The pairs reported; the exit code is 1 if there is one.
conflicts ==
  {p \in Contracts \X Contracts : p[1] < p[2] /\ hasEdge(p[1], p[2]) /\ hasEdge(p[2], p[1])}
-----------------------------------------------------------------------------
(* Properties. *)

\* Exactly the pairs are reported that the chains of two contracts have in
\* opposite orders, whether or not a chain has the two next to each other; and
\* the report is worth its line: no contract of the build, a mock included,
\* could be defined as inheriting from those two contracts.
ReportsDisagreements ==
  \A x, y \in Contracts : x < y =>
    (<<x, y>> \in conflicts <=>
       \E m, n \in DOMAIN linearized :
         /\ before(linearized[m], x, y) /\ before(linearized[n], y, x)
         /\ \A c \in Contracts :
              ~ ({linearized[m][1], linearized[n][1]} \subseteq ToSet(linearization[c])))

\* No contracts form a cycle, so that some order of all has every chain in it.
Consistent ==
  \A cycle \in (SUBSET Contracts) \ {{}} :
    \E x \in cycle : \A y \in cycle : ~ hasEdge(x, y)

\* "Contract ordering is consistent." (line 53), printed if no pair is
\* reported: "We are only interested int cycles of lengths 2 (needs proof)"
\* (line 33).
NoConflictIsConsistent == conflicts = {} => Consistent
=============================================================================
