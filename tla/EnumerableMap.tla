--------------------------- MODULE EnumerableMap ---------------------------
(***************************************************************************)
(* The EnumerableMap template of the OpenZeppelin library: an enumerable   *)
(* set of keys and a mapping from words to words.  A key that is absent    *)
(* has the value 0 in the mapping, and so may a key that is present.       *)
(***************************************************************************)
EXTENDS Integers, Sequences

CONSTANTS
  WordSize,    \* how many values a bytes32 has
  KeySize,     \* how many the key type has
  ValueSize    \* how many the value type has

MapSizeAssumption ==
  /\ KeySize \in Nat \ {0} /\ ValueSize \in Nat \ {0} /\ WordSize \in Nat
  /\ KeySize <= WordSize /\ ValueSize <= WordSize

VARIABLES
  map,    \* the storage of one typed map
  answer  \* the last operation and what it returned

mapVars == <<map, answer>>

Keys == INSTANCE EnumerableSet WITH TypeSize <- KeySize, inner <- map.keys

Key == 0 .. KeySize - 1

Value == 0 .. ValueSize - 1

EmptyMap == [keys |-> Keys!EmptySet, values |-> [w \in Keys!Word |-> 0]]
-----------------------------------------------------------------------------
(* The functions of Bytes32ToBytes32Map. *)

\* MUTANT: the value of a key that is present is kept.
SetOnce(m, key, value) ==
  [keys   |-> Keys!Add(m.keys, key),
   values |-> IF Keys!Contains(m.keys, key)
              THEN m.values ELSE [m.values EXCEPT ![key] = value]]

Set(m, key, value) ==
  [keys   |-> Keys!Add(m.keys, key),
   values |-> [m.values EXCEPT ![key] = value]]

\* MUTANT: the value stays in the mapping.
RemoveKeyOnly(m, key) ==
  [keys |-> Keys!Remove(m.keys, key), values |-> m.values]

Remove(m, key) ==
  [keys   |-> Keys!Remove(m.keys, key),
   values |-> [m.values EXCEPT ![key] = 0]]

Contains(m, key) == Keys!Contains(m.keys, key)

Length(m) == Keys!Length(m.keys)

At(m, index) == <<Keys!At(m.keys, index), m.values[Keys!At(m.keys, index)]>>

\* A non-zero value answers without a look at the keys.
TryGet(m, key) ==
  IF m.values[key] = 0 THEN <<Contains(m, key), 0>> ELSE <<TRUE, m.values[key]>>

\* Both functions get: the one with a message of its own reverts alike.
CanGet(m, key) == m.values[key] # 0 \/ Contains(m, key)

Get(m, key) == m.values[key]
-----------------------------------------------------------------------------
(* The wrappers: keys and values are converted to words and back.          *)

keyOf(word) == word % KeySize

valueOf(word) == word % ValueSize

contains(k) == Contains(map, k)

length == Length(map)

at(index) == <<keyOf(At(map, index)[1]), valueOf(At(map, index)[2])>>

tryGet(k) == <<TryGet(map, k)[1], valueOf(TryGet(map, k)[2])>>

get(k) == valueOf(Get(map, k))

keys == [i \in 1 .. Length(map) |-> keyOf(map.keys.values[i])]

MapInit == map = EmptyMap /\ answer = <<>>

set(k, v) ==
  /\ map' = Set(map, k, v)
  /\ answer' = <<"set", k, v, ~ Contains(map, k)>>

remove(k) ==
  /\ map' = Remove(map, k)
  /\ answer' = <<"remove", k, Contains(map, k)>>

MapNext ==
  \/ \E k \in Key, v \in Value : set(k, v)
  \/ \E k \in Key : remove(k)

MapSpec == MapInit /\ [][MapNext]_mapVars
-----------------------------------------------------------------------------
(* Properties. *)

\* The three ways to read agree for every key, present or not, even if its
\* value is the 0 that stands for absence: tryGet never reverts and is right
\* about presence, get succeeds exactly for present keys, and both return what
\* the pair of that key in an enumeration has.
ReadsAgree ==
  \A k \in Key :
    LET pairs == {at(i) : i \in {j \in 0 .. length - 1 : keys[j + 1] = k}}
    IN  /\ tryGet(k)[1] = contains(k)
        /\ CanGet(map, k) = contains(k)
        /\ pairs = IF contains(k) THEN {<<k, get(k)>>} ELSE {}
        /\ tryGet(k)[2] = IF contains(k) THEN get(k) ELSE 0

\* To its user the structure is a partial function.
Abstract == INSTANCE PartialFunction WITH
  entries <- [k \in {j \in Key : contains(j)} |-> get(k)]

ImplementsFunction == Abstract!Spec
=============================================================================
