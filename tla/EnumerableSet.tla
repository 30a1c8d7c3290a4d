--------------------------- MODULE EnumerableSet ---------------------------
(***************************************************************************)
(* The EnumerableSet template of the OpenZeppelin library: a set of words  *)
(* kept as an array, _values, and a mapping, _indexes, from each element   *)
(* to its position in the array plus one, 0 meaning absent.  A typed set   *)
(* (AddressSet, UintSet) wraps it and converts its elements to words and   *)
(* back.                                                                   *)
(***************************************************************************)
EXTENDS Integers, Sequences

CONSTANTS
  WordSize,  \* how many values a bytes32 has
  TypeSize   \* how many the element type has

ASSUME SizeAssumption ==
  /\ TypeSize \in Nat \ {0}
  /\ WordSize \in Nat
  /\ TypeSize <= WordSize

VARIABLES
  inner,  \* the storage a typed set wraps
  answer  \* the last operation and what it returned

setVars == <<inner, answer>>

Word == 0 .. WordSize - 1

Element == 0 .. TypeSize - 1

EmptySet == [values |-> <<>>, indexes |-> [w \in Word |-> 0]]
-----------------------------------------------------------------------------
(* The private functions, on words. *)

Contains(s, value) == s.indexes[value] # 0

Length(s) == Len(s.values)

\* Positions count from 0; reading beyond the last reverts.
CanAt(s, index) == index < Length(s)

At(s, index) == s.values[index + 1]

\* MUTANT: the position is stored without adding 1.
AddAtLength(s, value) ==
  IF Contains(s, value)
  THEN s
  ELSE [s EXCEPT !.values = Append(@, value),
                 !.indexes[value] = Len(s.values)]

Add(s, value) ==
  IF Contains(s, value)
  THEN s
  ELSE [s EXCEPT !.values = Append(@, value),
                 !.indexes[value] = Len(s.values) + 1]

\* MUTANT: the index of the value that is moved is not updated.
RemoveForgetsMove(s, value) ==
  IF ~ Contains(s, value)
  THEN s
  ELSE LET position == s.indexes[value]
           swapped  == [s.values EXCEPT ![position] = s.values[Len(s.values)]]
       IN  [s EXCEPT !.values = SubSeq(swapped, 1, Len(s.values) - 1),
                     !.indexes[value] = 0]

\* Swap and pop: the last value takes the place of the removed one.
Remove(s, value) ==
  IF ~ Contains(s, value)
  THEN s
  ELSE LET position == s.indexes[value]
           last     == s.values[Len(s.values)]
           moved    == IF position = Len(s.values)
                       THEN s
                       ELSE [s EXCEPT !.values[position] = last,
                                      !.indexes[last] = position]
       IN  [moved EXCEPT !.values = SubSeq(@, 1, Len(s.values) - 1),
                         !.indexes[value] = 0]
-----------------------------------------------------------------------------
(* The wrappers, on typed elements.  A word keeps the number an element    *)
(* is; an element keeps the low bits of a word.                            *)

toBytes32(x) == x

fromBytes32(w) == w % TypeSize

contains(x) == Contains(inner, toBytes32(x))

length == Length(inner)

at(index) == fromBytes32(At(inner, index))

values == [i \in 1 .. Length(inner) |-> fromBytes32(inner.values[i])]

SetInit == inner = EmptySet /\ answer = <<>>

add(x) ==
  /\ inner' = Add(inner, toBytes32(x))
  /\ answer' = <<"add", x, ~ Contains(inner, toBytes32(x))>>

remove(x) ==
  /\ inner' = Remove(inner, toBytes32(x))
  /\ answer' = <<"remove", x, Contains(inner, toBytes32(x))>>

SetNext == \E x \in Element : add(x) \/ remove(x)

SetSpec == SetInit /\ [][SetNext]_setVars
-----------------------------------------------------------------------------
(* Properties. *)

\* The array and the mapping agree: each position's value is indexed there, and
\* each index leads to its value.  All O(1) operations rest on it.
IndexesAgree ==
  /\ \A i \in 1 .. Len(inner.values) : inner.indexes[inner.values[i]] = i
  /\ \A w \in Word : Contains(inner, w) =>
        /\ inner.indexes[w] \in 1 .. Len(inner.values)
        /\ inner.values[inner.indexes[w]] = w

\* A loop over at(0) .. at(length - 1), or over values, meets every element of
\* the set once and nothing else, after any additions and removals.
EnumeratesOnce ==
  LET positions == {i \in 0 .. Length(inner) : CanAt(inner, i)}
  IN  \A x \in Element :
        contains(x) <=>
          \E i \in positions :
            /\ at(i) = x /\ values[i + 1] = x
            /\ \A j \in positions : at(j) = x => j = i

\* To its user the structure is a mathematical set, and the answers of add and
\* remove say whether the set has changed.
Abstract == INSTANCE SetOfElements WITH
  elements <- {x \in Element : contains(x)}

ImplementsSet == Abstract!Spec
=============================================================================
