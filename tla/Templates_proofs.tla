-------------------------- MODULE Templates_proofs --------------------------
(***************************************************************************)
(* The map and the checkpoints of the library's templates, for keys and    *)
(* values of any size, any pushes and any number of blocks.                *)
(***************************************************************************)
EXTENDS MCTemplates, EnumerableSet_proofs, FiniteSetTheorems, SequenceTheorems,
  SumTheorems

\* The behaviours of the structures are those of their own specifications.
LEMMA MapAlone == TemplatesSpec => Maps!MapSpec
<1>1. TemplatesInit => Maps!MapInit
  BY DEF TemplatesInit
<1>2. [TemplatesNext]_templatesVars => [Maps!MapNext]_Maps!mapVars
  BY DEF TemplatesNext, templatesVars, mapVars, Maps!mapVars
<1> QED BY <1>1, <1>2, PTL DEF TemplatesSpec, Maps!MapSpec

LEMMA HistoryAlone == TemplatesSpec => Votes!HistorySpec
<1>1. TemplatesInit => Votes!HistoryInit
  BY DEF TemplatesInit
<1>2. [TemplatesNext]_templatesVars => [Votes!HistoryNext]_Votes!historyVars
  BY DEF TemplatesNext, templatesVars, historyVars, Votes!historyVars
<1> QED BY <1>1, <1>2, PTL DEF TemplatesSpec, Votes!HistorySpec

LEMMA TestAlone == TemplatesSpec => Tests!TraceSpec
<1>1. TemplatesInit => Tests!TraceInit
  BY DEF TemplatesInit
<1>2. [TemplatesNext]_templatesVars => [Tests!TraceNext]_Tests!traceVars
  BY DEF TemplatesNext, templatesVars, testVars, Tests!traceVars
<1> QED BY <1>1, <1>2, PTL DEF TemplatesSpec, Tests!TraceSpec
-----------------------------------------------------------------------------
(* The map.  What is known of its keys is what EnumerableSet_proofs shows; *)
(* what is added is that an absent key has the value 0 in the mapping, so  *)
(* that a value other than 0 tells that its key is present.                *)

KeySet == INSTANCE EnumerableSet_proofs WITH
  TypeSize <- KeySize, inner <- map.keys, answer <- reply

ZeroIfAbsent == \A k \in Maps!Key : ~ Maps!Contains(map, k) => map.values[k] = 0

MapInv ==
  /\ map = [keys |-> map.keys, values |-> map.values]
  /\ KeySet!Agreeing(map.keys)
  /\ map.values \in [Maps!Keys!Word -> Maps!Value]
  /\ ZeroIfAbsent
-----------------------------------------------------------------------------
(* Keys. *)

\* A key or a value is a word, and the same number as a word.
LEMMA Conversions ==
         /\ \A k \in Maps!Key : k \in Maps!Keys!Word /\ k \in Nat /\ Maps!keyOf(k) = k
         /\ \A v \in Maps!Value : v \in Nat /\ Maps!valueOf(v) = v
         /\ 0 \in Maps!Value /\ Maps!valueOf(0) = 0
         /\ KeySet!Element = Maps!Key /\ KeySet!Word = Maps!Keys!Word
BY TemplatesAssumption DEF Maps!MapSizeAssumption, Maps!Key, Maps!Value, Maps!keyOf,
   Maps!valueOf, Maps!Keys!Word, KeySet!Word, KeySet!Element

LEMMA KeySizes == KeySet!SizeAssumption
BY TemplatesAssumption DEF Maps!MapSizeAssumption, KeySet!SizeAssumption

LEMMA KeysChange ==
  ASSUME NEW s, KeySet!Agreeing(s), NEW k \in Maps!Key
  PROVE  /\ KeySet!Agreeing(Maps!Keys!Add(s, k))
         /\ \A j \in Maps!Key :
              Maps!Keys!Contains(Maps!Keys!Add(s, k), j)
                <=> Maps!Keys!Contains(s, j) \/ j = k
         /\ KeySet!Agreeing(Maps!Keys!Remove(s, k))
         /\ \A j \in Maps!Key :
              Maps!Keys!Contains(Maps!Keys!Remove(s, k), j)
                <=> Maps!Keys!Contains(s, j) /\ j # k
<1>2. k \in KeySet!Element /\ KeySet!Element = Maps!Key
  BY Conversions
<1>3. /\ Maps!Keys!Add(s, k) = KeySet!Add(s, k)
      /\ Maps!Keys!Remove(s, k) = KeySet!Remove(s, k)
      /\ \A t, j : Maps!Keys!Contains(t, j) = KeySet!Contains(t, j)
  BY DEF Maps!Keys!Add, KeySet!Add, Maps!Keys!Remove, KeySet!Remove, Maps!Keys!Contains,
     KeySet!Contains
<1>4. /\ KeySet!Agreeing(KeySet!Add(s, k))
      /\ \A j \in Maps!Key :
           KeySet!Contains(KeySet!Add(s, k), j) <=> KeySet!Contains(s, j) \/ j = k
  BY KeySizes, <1>2, KeySet!AddAgrees
<1>5. /\ KeySet!Agreeing(KeySet!Remove(s, k))
      /\ \A j \in Maps!Key :
           KeySet!Contains(KeySet!Remove(s, k), j) <=> KeySet!Contains(s, j) /\ j # k
  BY KeySizes, <1>2, KeySet!RemoveAgrees
<1> QED BY <1>3, <1>4, <1>5

LEMMA EmptyMapAgrees ==
  ASSUME map = Maps!EmptyMap
  PROVE  MapInv /\ \A k \in Maps!Key : ~ Maps!contains(k)
<1>1. map.keys = Maps!Keys!EmptySet /\ map.values = [w \in Maps!Keys!Word |-> 0]
  BY DEF Maps!EmptyMap
<1>2. KeySet!Agreeing(map.keys)
  <2>1. Maps!Keys!EmptySet = KeySet!EmptySet
    BY Conversions DEF Maps!Keys!EmptySet, KeySet!EmptySet
  <2> QED BY <1>1, <2>1, KeySizes, KeySet!EmptyAgrees
<1>3. \A k \in Maps!Key : map.values[k] = 0 /\ ~ Maps!Contains(map, k)
  BY <1>1, Conversions DEF Maps!Contains, Maps!Keys!Contains, Maps!Keys!EmptySet
<1>4. map = [keys |-> map.keys, values |-> map.values]
  BY DEF Maps!EmptyMap
<1> QED BY <1>1, <1>2, <1>3, <1>4, Conversions DEF MapInv, ZeroIfAbsent, Maps!contains

\* What set changes: one value, and the presence of its key.
LEMMA SetChanges ==
  ASSUME MapInv, NEW k \in Maps!Key, NEW v \in Maps!Value, Maps!set(k, v)
  PROVE  /\ MapInv'
         /\ \A j \in Maps!Key : Maps!contains(j)' <=> Maps!contains(j) \/ j = k
         /\ \A j \in Maps!Key : Maps!get(j)' = IF j = k THEN v ELSE Maps!get(j)
<1>1. /\ map' = [keys |-> Maps!Keys!Add(map.keys, k),
                 values |-> [map.values EXCEPT ![k] = v]]
      /\ map'.keys = Maps!Keys!Add(map.keys, k)
      /\ map'.values = [map.values EXCEPT ![k] = v]
      /\ map' = [keys |-> map'.keys, values |-> map'.values]
  BY DEF Maps!set, Maps!Set
<1>2. KeySet!Agreeing(map'.keys)
  BY <1>1, KeysChange DEF MapInv
<1>3. \A j \in Maps!Key : Maps!contains(j)' <=> Maps!contains(j) \/ j = k
  BY <1>1, KeysChange DEF MapInv, Maps!contains, Maps!Contains
<1>4. /\ map'.values \in [Maps!Keys!Word -> Maps!Value]
      /\ \A j \in Maps!Key : map'.values[j] = IF j = k THEN v ELSE map.values[j]
  BY <1>1, Conversions DEF MapInv
<1>5. \A j \in Maps!Key : ~ Maps!contains(j)' => map'.values[j] = 0
  BY <1>3, <1>4 DEF MapInv, ZeroIfAbsent, Maps!contains
<1>6. MapInv'
  BY <1>1, <1>2, <1>4, <1>5 DEF MapInv, ZeroIfAbsent, Maps!contains
<1>7. \A j \in Maps!Key : Maps!get(j)' = IF j = k THEN v ELSE Maps!get(j)
  <2>1. Maps!valueOf(v) = v
    BY Conversions DEF MapInv
  <2> QED BY <1>4, <2>1 DEF Maps!get, Maps!Get, Maps!valueOf
<1> QED BY <1>3, <1>6, <1>7

LEMMA RemoveChanges ==
  ASSUME MapInv, NEW k \in Maps!Key, Maps!remove(k)
  PROVE  /\ MapInv'
         /\ \A j \in Maps!Key : Maps!contains(j)' <=> Maps!contains(j) /\ j # k
         /\ \A j \in Maps!Key : j # k => Maps!get(j)' = Maps!get(j)
<1>1. /\ map' = [keys |-> Maps!Keys!Remove(map.keys, k),
                 values |-> [map.values EXCEPT ![k] = 0]]
      /\ map'.keys = Maps!Keys!Remove(map.keys, k)
      /\ map'.values = [map.values EXCEPT ![k] = 0]
      /\ map' = [keys |-> map'.keys, values |-> map'.values]
  BY DEF Maps!remove, Maps!Remove
<1>2. KeySet!Agreeing(map'.keys)
  BY <1>1, KeysChange DEF MapInv
<1>3. \A j \in Maps!Key : Maps!contains(j)' <=> Maps!contains(j) /\ j # k
  BY <1>1, KeysChange DEF MapInv, Maps!contains, Maps!Contains
<1>4. /\ map'.values \in [Maps!Keys!Word -> Maps!Value]
      /\ \A j \in Maps!Key : map'.values[j] = IF j = k THEN 0 ELSE map.values[j]
  BY <1>1, Conversions DEF MapInv
<1>5. \A j \in Maps!Key : ~ Maps!contains(j)' => map'.values[j] = 0
  BY <1>3, <1>4 DEF MapInv, ZeroIfAbsent, Maps!contains
<1>6. MapInv'
  BY <1>1, <1>2, <1>4, <1>5 DEF MapInv, ZeroIfAbsent, Maps!contains
<1>7. \A j \in Maps!Key : j # k => Maps!get(j)' = Maps!get(j)
  BY <1>4 DEF Maps!get, Maps!Get
<1> QED BY <1>3, <1>6, <1>7

LEMMA MapInvariance == Maps!MapSpec => []MapInv
<1>1. Maps!MapInit => MapInv
  BY EmptyMapAgrees DEF Maps!MapInit
<1>2. MapInv /\ [Maps!MapNext]_Maps!mapVars => MapInv'
  <2> SUFFICES ASSUME MapInv, [Maps!MapNext]_Maps!mapVars PROVE MapInv'
    OBVIOUS
  <2>1. CASE UNCHANGED Maps!mapVars
    BY <2>1 DEF Maps!mapVars, MapInv, ZeroIfAbsent, Maps!Contains
  <2> QED BY <2>1, SetChanges, RemoveChanges DEF Maps!MapNext
<1> QED BY <1>1, <1>2, PTL DEF Maps!MapSpec
-----------------------------------------------------------------------------
(* Reading. *)

\* contains, tryGet, get and an enumeration agree about every key, also if the
\* value of a present key is the 0 that stands for absence.
THEOREM ReadsAlwaysAgree == TemplatesSpec => []ReadsAgree
<1>1. MapInv => ReadsAgree
  <2> SUFFICES ASSUME MapInv, NEW k \in Maps!Key
               PROVE  LET pairs == {Maps!at(i) : i \in
                                     {j \in 0 .. Maps!length - 1 : Maps!keys[j + 1] = k}}
                      IN  /\ Maps!tryGet(k)[1] = Maps!contains(k)
                          /\ Maps!CanGet(map, k) = Maps!contains(k)
                          /\ pairs = IF Maps!contains(k) THEN {<<k, Maps!get(k)>>} ELSE {}
                          /\ Maps!tryGet(k)[2] = IF Maps!contains(k) THEN Maps!get(k) ELSE 0
    BY DEF ReadsAgree, Maps!ReadsAgree
  <2> DEFINE v == map.keys.values
             x == map.keys.indexes
             n == Len(v)
             positions == {j \in 0 .. Maps!length - 1 : Maps!keys[j + 1] = k}
             pairs == {Maps!at(i) : i \in positions}
  <2>1. /\ v \in Seq(Maps!Key) /\ n \in Nat /\ Maps!length = n
        /\ \A i \in 1 .. n : x[v[i]] = i
        /\ \A w \in Maps!Keys!Word : x[w] # 0 => x[w] \in 1 .. n /\ v[x[w]] = w
    BY Conversions DEF MapInv, KeySet!Agreeing, Maps!length, Maps!Length, Maps!Keys!Length
  <2>2. /\ k \in Maps!Keys!Word /\ map.values[k] \in Maps!Value
        /\ Maps!get(k) = map.values[k]
        /\ map.values[k] \in Nat /\ Maps!valueOf(0) = 0
    BY Conversions DEF MapInv, Maps!get, Maps!Get
  <2>3. Maps!contains(k) = (x[k] # 0)
    BY DEF Maps!contains, Maps!Contains, Maps!Keys!Contains
  <2>4. map.values[k] # 0 => Maps!contains(k)
    BY DEF MapInv, ZeroIfAbsent, Maps!contains
  <2>5. /\ Maps!tryGet(k)[1] = Maps!contains(k)
        /\ Maps!tryGet(k)[2] = IF Maps!contains(k) THEN Maps!get(k) ELSE 0
    <3>1. CASE map.values[k] = 0
      <4>1. Maps!tryGet(k) = <<Maps!Contains(map, k), Maps!valueOf(0)>>
        BY <3>1 DEF Maps!tryGet, Maps!TryGet
      <4> QED BY <2>2, <3>1, <4>1 DEF Maps!contains
    <3>2. CASE map.values[k] # 0
      <4>1. Maps!tryGet(k) = <<TRUE, Maps!valueOf(map.values[k])>>
        BY <3>2 DEF Maps!tryGet, Maps!TryGet
      <4>2. Maps!contains(k) = TRUE
        BY <2>3, <2>4, <3>2
      <4> QED BY <2>2, <4>1, <4>2 DEF Maps!get, Maps!Get
    <3> QED BY <3>1, <3>2
  <2>6. Maps!CanGet(map, k) = Maps!contains(k)
    <3>1. Maps!contains(k) \in BOOLEAN
      BY <2>3
    <3>2. Maps!CanGet(map, k) = (map.values[k] # 0 \/ Maps!contains(k))
      BY DEF Maps!CanGet, Maps!contains
    <3> QED BY <2>4, <3>1, <3>2
  <2>7. \A i \in 0 .. n - 1 :
          /\ i + 1 \in 1 .. n
          /\ Maps!keys[i + 1] = v[i + 1]
          /\ v[i + 1] = k => Maps!at(i) = <<k, Maps!get(k)>>
    <3> SUFFICES ASSUME NEW i \in 0 .. n - 1
                 PROVE  /\ i + 1 \in 1 .. n
                        /\ Maps!keys[i + 1] = v[i + 1]
                        /\ v[i + 1] = k => Maps!at(i) = <<k, Maps!get(k)>>
      OBVIOUS
    <3>1. i + 1 \in 1 .. n /\ v[i + 1] \in Maps!Key
      BY <2>1
    <3>2. Maps!keyOf(v[i + 1]) = v[i + 1]
      BY <3>1, Conversions DEF MapInv
    <3>3. Maps!keys[i + 1] = v[i + 1]
      BY <2>1, <3>1, <3>2 DEF Maps!keys, Maps!length
    <3>4. Maps!at(i) = <<Maps!keyOf(v[i + 1]), Maps!valueOf(map.values[v[i + 1]])>>
      BY DEF Maps!at, Maps!At, Maps!Keys!At
    <3> QED BY <3>1, <3>2, <3>3, <3>4 DEF Maps!get, Maps!Get
  <2>8. \A i : i \in positions <=> i \in 0 .. n - 1 /\ v[i + 1] = k
    BY <2>1, <2>7
  <2>9. pairs = IF Maps!contains(k) THEN {<<k, Maps!get(k)>>} ELSE {}
    <3>1. CASE Maps!contains(k)
      <4> DEFINE p == x[k] - 1
      <4>1. x[k] \in 1 .. n /\ v[x[k]] = k
        BY <2>1, <2>2, <2>3, <3>1
      <4>2. p \in 0 .. n - 1 /\ p + 1 = x[k]
        BY <2>1, <4>1
      <4>3. p \in positions
        BY <2>8, <4>1, <4>2
      <4>4. \A i \in positions : Maps!at(i) = <<k, Maps!get(k)>>
        BY <2>7, <2>8
      <4> HIDE DEF p, positions
      <4> QED BY <3>1, <4>3, <4>4
    <3>2. CASE ~ Maps!contains(k)
      <4>1. \A i : i \notin positions
        <5> SUFFICES ASSUME NEW i \in positions PROVE FALSE
          OBVIOUS
        <5>1. i \in 0 .. n - 1 /\ i + 1 \in 1 .. n /\ v[i + 1] = k
          BY <2>7, <2>8
        <5>2. x[k] = i + 1
          BY <2>1, <5>1
        <5>3. x[k] # 0
          BY <5>1, <5>2
        <5> QED BY <2>3, <3>2, <5>3
      <4> HIDE DEF positions
      <4> QED BY <3>2, <4>1
    <3> QED BY <3>1, <3>2
  <2> QED BY <2>5, <2>6, <2>9
<1> QED BY <1>1, MapAlone, MapInvariance, PTL

\* To its user the structure is a partial function, and set and remove say
\* whether the key was new or there.
THEOREM MapIsImplemented == TemplatesSpec => ImplementsFunction
<1> DEFINE present == {j \in Maps!Key : Maps!contains(j)}
           shown == [k \in present |-> Maps!get(k)]
<1>1. Maps!MapInit => Maps!Abstract!Init
  <2> SUFFICES ASSUME Maps!MapInit PROVE Maps!Abstract!Init
    OBVIOUS
  <2>1. present = {}
    BY EmptyMapAgrees DEF Maps!MapInit
  <2>2. shown = [k \in {} |-> k]
    <3> HIDE DEF present
    <3> QED BY <2>1
  <2> QED BY <2>2 DEF Maps!MapInit, Maps!Abstract!Init
<1>2. MapInv /\ [Maps!MapNext]_Maps!mapVars => [Maps!Abstract!Next]_<<shown, reply>>
  <2> SUFFICES ASSUME MapInv, [Maps!MapNext]_Maps!mapVars
               PROVE  Maps!Abstract!Next \/ UNCHANGED <<shown, reply>>
    OBVIOUS
  <2>1. ASSUME NEW k \in Maps!Key, NEW v \in Maps!Value, Maps!set(k, v)
        PROVE  Maps!Abstract!Put(k, v)
    <3>1. present' = present \cup {k}
      BY <2>1, SetChanges
    <3>2. \A j \in Maps!Key : Maps!get(j)' = IF j = k THEN v ELSE Maps!get(j)
      BY <2>1, SetChanges
    <3>3. DOMAIN shown = present /\ present \subseteq Maps!Key
      OBVIOUS
    <3>4. shown' = [j \in DOMAIN shown \cup {k} |-> IF j = k THEN v ELSE shown[j]]
      <4>1. shown' = [j \in present' |-> Maps!get(j)']
        OBVIOUS
      <4>2. \A j \in present \cup {k} :
              Maps!get(j)' = IF j = k THEN v ELSE shown[j]
        BY <3>2
      <4> HIDE DEF present, shown
      <4> QED BY <3>1, <3>3, <4>1, <4>2
    <3>5. reply' = <<"set", k, v, k \notin DOMAIN shown>>
      <4>1. (k \notin present) = (~ Maps!contains(k))
        OBVIOUS
      <4>2. reply' = <<"set", k, v, ~ Maps!contains(k)>>
        BY <2>1 DEF Maps!set, Maps!contains
      <4> QED BY <3>3, <4>1, <4>2
    <3> QED BY <3>4, <3>5 DEF Maps!Abstract!Put
  <2>2. ASSUME NEW k \in Maps!Key, Maps!remove(k) PROVE Maps!Abstract!Drop(k)
    <3>1. present' = present \ {k}
      BY <2>2, RemoveChanges
    <3>2. \A j \in Maps!Key : j # k => Maps!get(j)' = Maps!get(j)
      BY <2>2, RemoveChanges
    <3>3. DOMAIN shown = present /\ present \subseteq Maps!Key
      OBVIOUS
    <3>4. shown' = [j \in DOMAIN shown \ {k} |-> shown[j]]
      <4>1. shown' = [j \in present' |-> Maps!get(j)']
        OBVIOUS
      <4>2. \A j \in present \ {k} : Maps!get(j)' = shown[j]
        BY <3>2
      <4> HIDE DEF present, shown
      <4> QED BY <3>1, <3>3, <4>1, <4>2
    <3>5. reply' = <<"remove", k, k \in DOMAIN shown>>
      <4>1. Maps!contains(k) \in BOOLEAN
        BY DEF Maps!contains, Maps!Contains, Maps!Keys!Contains
      <4>2. (k \in present) = Maps!contains(k)
        BY <4>1
      <4>3. reply' = <<"remove", k, Maps!contains(k)>>
        BY <2>2 DEF Maps!remove, Maps!contains
      <4> QED BY <3>3, <4>2, <4>3
    <3> QED BY <3>4, <3>5 DEF Maps!Abstract!Drop, Maps!Abstract!Without
  <2>3. CASE UNCHANGED Maps!mapVars
    BY <2>3 DEF Maps!mapVars, Maps!contains, Maps!get
  <2> QED BY <2>1, <2>2, <2>3 DEF Maps!MapNext, Maps!Abstract!Next
<1> QED BY <1>1, <1>2, MapAlone, MapInvariance, PTL
    DEF Maps!MapSpec, ImplementsFunction, Maps!ImplementsFunction, Maps!Abstract!Spec
-----------------------------------------------------------------------------
(* The binary searches.  Both look, in an array of n checkpoints, for the  *)
(* first position that passes a test which every later position passes as  *)
(* well: the key there exceeds the one looked up (upper), or is not        *)
(* smaller (lower).                                                        *)

Points == INSTANCE Checkpoints

\* The recursion of a search with this test.
Searches(f, n, test) ==
  f = [lo \in 0 .. n |-> [hi \in 0 .. n |->
        IF lo >= hi THEN hi
        ELSE IF test[Points!average(lo, hi)]
             THEN f[lo][Points!average(lo, hi)] ELSE f[Points!average(lo, hi) + 1][hi]]]

\* r is the first of the positions from which on the test is passed.
IsFirst(r, n, test) ==
  /\ r \in 0 .. n
  /\ \A p \in 0 .. r - 1 : ~ test[p]
  /\ \A p \in r .. n - 1 : test[p]

LEMMA AverageBetween ==
  ASSUME NEW lo \in Nat, NEW hi \in Nat, lo < hi
  PROVE  Points!average(lo, hi) \in lo .. hi - 1
BY DEF Points!average

LEMMA SearchExists ==
  ASSUME NEW n \in Nat, NEW test
  PROVE  \E f : Searches(f, n, test)
<1> DEFINE Mid(lo, hi) == Points!average(lo, hi)
           Step(g, lo, hi) == IF lo >= hi THEN hi
                              ELSE IF test[Mid(lo, hi)] THEN g[lo][Mid(lo, hi)]
                              ELSE g[Mid(lo, hi) + 1][hi]
           Good(g, w) == \A lo, hi \in 0 .. n : hi - lo <= w => g[lo][hi] = Step(g, lo, hi)
           T == {w \in Nat : \E g : Good(g, w)}
<1>m. \A lo, hi \in 0 .. n : lo < hi =>
        /\ Mid(lo, hi) \in 0 .. n /\ Mid(lo, hi) + 1 \in 0 .. n
        /\ lo <= Mid(lo, hi) /\ Mid(lo, hi) < hi
  BY AverageBetween
<1> HIDE DEF Mid
<1>1. 0 \in T
  <2> DEFINE z == [lo \in 0 .. n |-> [hi \in 0 .. n |-> hi]]
  <2>1. \A lo, hi \in 0 .. n : hi - lo <= 0 => lo >= hi
    OBVIOUS
  <2>2. Good(z, 0)
    BY <2>1
  <2> QED BY <2>2
<1>2. ASSUME NEW w \in Nat, w \in T PROVE w + 1 \in T
  <2>1. PICK g : Good(g, w)
    BY <1>2
  <2> DEFINE h == [lo \in 0 .. n |-> [hi \in 0 .. n |-> Step(g, lo, hi)]]
  <2>2. \A lo, hi \in 0 .. n : h[lo][hi] = Step(g, lo, hi)
    OBVIOUS
  <2> HIDE DEF h
  <2>3. \A lo, hi \in 0 .. n : hi - lo <= w => h[lo][hi] = g[lo][hi]
    BY <2>1, <2>2
  <2>4. ASSUME NEW lo \in 0 .. n, NEW hi \in 0 .. n, hi - lo <= w + 1
        PROVE  h[lo][hi] = Step(h, lo, hi)
    <3>1. CASE lo >= hi
      BY <2>2, <3>1
    <3>2. CASE lo < hi
      <4>1. /\ Mid(lo, hi) \in 0 .. n /\ Mid(lo, hi) + 1 \in 0 .. n
            /\ Mid(lo, hi) - lo <= w /\ hi - (Mid(lo, hi) + 1) <= w
        BY <1>m, <2>4, <3>2
      <4>2. /\ h[lo][Mid(lo, hi)] = g[lo][Mid(lo, hi)]
            /\ h[Mid(lo, hi) + 1][hi] = g[Mid(lo, hi) + 1][hi]
        BY <2>3, <4>1
      <4>3. Step(h, lo, hi) = Step(g, lo, hi)
        BY <4>2
      <4> QED BY <2>2, <4>3
    <3> QED BY <3>1, <3>2
  <2>5. Good(h, w + 1)
    BY <2>4
  <2> QED BY <2>5
<1> HIDE DEF T
<1>3. T \in SUBSET Nat
  BY DEF T
<1>4. n \in T
  BY <1>1, <1>2, <1>3, NatIndSet
<1>5. PICK g : Good(g, n)
  BY <1>4 DEF T
<1> DEFINE f == [lo \in 0 .. n |-> [hi \in 0 .. n |-> g[lo][hi]]]
<1>6. \A lo, hi \in 0 .. n : f[lo][hi] = g[lo][hi]
  OBVIOUS
<1>7. f = [lo \in 0 .. n |-> [hi \in 0 .. n |-> f[lo][hi]]]
  BY <1>6
<1> HIDE DEF f
<1>8. ASSUME NEW lo \in 0 .. n, NEW hi \in 0 .. n
      PROVE  f[lo][hi] = Step(f, lo, hi)
  <2>1. g[lo][hi] = Step(g, lo, hi)
    BY <1>5
  <2>2. lo < hi => Mid(lo, hi) \in 0 .. n /\ Mid(lo, hi) + 1 \in 0 .. n
    BY <1>m
  <2>3. Step(g, lo, hi) = Step(f, lo, hi)
    BY <1>6, <2>2
  <2> QED BY <1>6, <2>1, <2>3
<1> HIDE DEF Step
<1>9. f = [lo \in 0 .. n |-> [hi \in 0 .. n |-> Step(f, lo, hi)]]
  BY <1>7, <1>8
<1> QED BY <1>9 DEF Searches, Step, Mid

\* A search returns the first position, given that it lies between the bounds.
LEMMA SearchFinds ==
  ASSUME NEW n \in Nat, NEW test, NEW f, Searches(f, n, test),
         \A p, q \in 0 .. n - 1 : p <= q /\ test[p] => test[q],
         NEW low \in 0 .. n, NEW high \in 0 .. n, low <= high,
         \A p \in 0 .. low - 1 : ~ test[p], \A p \in high .. n - 1 : test[p]
  PROVE  IsFirst(f[low][high], n, test)
<1> DEFINE Mid(lo, hi) == Points!average(lo, hi)
           Between(lo, hi) == /\ lo <= hi
                              /\ \A p \in 0 .. lo - 1 : ~ test[p]
                              /\ \A p \in hi .. n - 1 : test[p]
           Found(w) == \A lo, hi \in 0 .. n :
                   hi - lo <= w /\ Between(lo, hi) => IsFirst(f[lo][hi], n, test)
           T == {w \in Nat : Found(w)}
<1>m. \A lo, hi \in 0 .. n : lo < hi => /\ Mid(lo, hi) \in 0 .. n - 1
                                        /\ lo <= Mid(lo, hi) /\ Mid(lo, hi) < hi
  BY AverageBetween
<1>s. \A lo, hi \in 0 .. n :
        f[lo][hi] = IF lo >= hi THEN hi
                    ELSE IF test[Mid(lo, hi)] THEN f[lo][Mid(lo, hi)]
                    ELSE f[Mid(lo, hi) + 1][hi]
  BY Zenon DEF Searches
<1> HIDE DEF Mid
<1>1. 0 \in T
  <2> SUFFICES ASSUME NEW lo \in 0 .. n, NEW hi \in 0 .. n, hi - lo <= 0, Between(lo, hi)
               PROVE  IsFirst(f[lo][hi], n, test)
    OBVIOUS
  <2>1. lo = hi /\ lo >= hi
    OBVIOUS
  <2>2. f[lo][hi] = hi
    BY <1>s, <2>1
  <2> QED BY <2>1, <2>2 DEF IsFirst
<1>2. ASSUME NEW w \in Nat, w \in T PROVE w + 1 \in T
  <2> SUFFICES Found(w + 1)
    OBVIOUS
  <2> SUFFICES ASSUME NEW lo \in 0 .. n, NEW hi \in 0 .. n, hi - lo <= w + 1, Between(lo, hi)
               PROVE  IsFirst(f[lo][hi], n, test)
    OBVIOUS
  <2>1. CASE hi - lo <= w
    BY <1>2, <2>1
  <2>2. CASE lo < hi
    <3> DEFINE mid == Mid(lo, hi)
    <3>1. /\ mid \in 0 .. n - 1 /\ mid \in 0 .. n /\ mid + 1 \in 0 .. n /\ ~ (lo >= hi)
          /\ lo <= mid /\ mid + 1 <= hi /\ mid - lo <= w /\ hi - (mid + 1) <= w
      BY <1>m, <2>2
    <3>2. f[lo][hi] = IF test[mid] THEN f[lo][mid] ELSE f[mid + 1][hi]
      BY <1>s, <3>1
    <3> HIDE DEF mid
    <3>3. CASE test[mid]
      <4>1. \A p \in mid .. n - 1 : test[p]
        BY <3>1, <3>3
      <4>2. Between(lo, mid)
        BY <3>1, <4>1
      <4> QED BY <1>2, <3>1, <3>2, <3>3, <4>2
    <3>4. CASE ~ test[mid]
      <4>1. \A p \in 0 .. (mid + 1) - 1 : p \in 0 .. n - 1 /\ p <= mid
        BY <3>1
      <4>2. \A p \in 0 .. (mid + 1) - 1 : ~ test[p]
        BY <3>1, <3>4, <4>1
      <4>3. Between(mid + 1, hi)
        BY <3>1, <4>2
      <4> QED BY <1>2, <3>1, <3>2, <3>4, <4>3
    <3> QED BY <3>3, <3>4
  <2>3. hi - lo <= w \/ lo < hi
    OBVIOUS
  <2> QED BY <2>1, <2>2, <2>3
<1> HIDE DEF T
<1>3. T \in SUBSET Nat
  BY DEF T
<1>4. n \in T
  BY <1>1, <1>2, <1>3, NatIndSet
<1>5. high - low <= n /\ Between(low, high)
  OBVIOUS
<1> QED BY <1>4, <1>5 DEF T
-----------------------------------------------------------------------------
(* The lookups in an array whose keys increase.                            *)

Rising(self) ==
  /\ self \in Seq([key : Nat, value : Nat])
  /\ \A i, j \in 1 .. Len(self) : i < j => self[i].key < self[j].key

\* The first r checkpoints have keys up to the one looked up, the others do not.
SplitsAt(self, key, r) ==
  /\ r \in 0 .. Len(self)
  /\ \A p \in 1 .. r : self[p].key <= key
  /\ \A p \in r + 1 .. Len(self) : self[p].key > key

\* The first r checkpoints have smaller keys, the others do not.
SplitsBelow(self, key, r) ==
  /\ r \in 0 .. Len(self)
  /\ \A p \in 1 .. r : self[p].key < key
  /\ \A p \in r + 1 .. Len(self) : self[p].key >= key

LEMMA RisingType ==
  ASSUME NEW self, Rising(self)
  PROVE  /\ Len(self) \in Nat
         /\ \A p \in 1 .. Len(self) : self[p].key \in Nat /\ self[p].value \in Nat
<1> DEFINE S == [key : Nat, value : Nat]
<1>1. self \in Seq(S)
  BY DEF Rising
<1>2. \A c \in S : c.key \in Nat /\ c.value \in Nat
  OBVIOUS
<1> HIDE DEF S
<1>3. Len(self) \in Nat /\ \A p \in 1 .. Len(self) : self[p] \in S
  BY <1>1
<1> QED BY <1>2, <1>3

LEMMA UpperSearch ==
  ASSUME NEW self, Rising(self), NEW key \in Nat,
         NEW low \in 0 .. Len(self), NEW high \in 0 .. Len(self), low <= high,
         \A p \in 1 .. low : self[p].key <= key,
         \A p \in high + 1 .. Len(self) : self[p].key > key
  PROVE  SplitsAt(self, key, Points!upperBinaryLookup(self, key, low, high))
<1> DEFINE n == Len(self)
           test == [p \in 0 .. n - 1 |-> self[p + 1].key > key]
           Is(f) == f = [lo \in 0 .. n |-> [hi \in 0 .. n |->
                          LET mid == Points!average(lo, hi)
                          IN  IF lo >= hi THEN hi
                              ELSE IF Points!unsafeAccess(self, mid).key > key
                                   THEN f[lo][mid] ELSE f[mid + 1][hi]]]
           found == CHOOSE f : Is(f)
<1>1. n \in Nat /\ \A p \in 1 .. n : self[p].key \in Nat
  BY RisingType
<1>2. \A p \in 0 .. n - 1 : p + 1 \in 1 .. n /\ (test[p] <=> self[p + 1].key > key)
  <2>1. \A p \in 0 .. n - 1 : p + 1 \in 1 .. n
    BY <1>1
  <2>2. \A p \in 0 .. n - 1 : test[p] <=> self[p + 1].key > key
    BY Zenon
  <2> QED BY <2>1, <2>2
<1> HIDE DEF n, test
<1>3. ASSUME NEW f PROVE Is(f) <=> Searches(f, n, test)
  <2>1. ASSUME NEW lo \in 0 .. n, NEW hi \in 0 .. n, lo < hi
        PROVE  test[Points!average(lo, hi)]
                 <=> Points!unsafeAccess(self, Points!average(lo, hi)).key > key
    <3>1. Points!average(lo, hi) \in 0 .. n - 1
      BY <1>1, <2>1, AverageBetween
    <3> QED BY <1>2, <3>1 DEF Points!unsafeAccess
  <2> DEFINE One(lo, hi) == LET mid == Points!average(lo, hi)
                            IN  IF lo >= hi THEN hi
                                ELSE IF Points!unsafeAccess(self, mid).key > key
                                     THEN f[lo][mid] ELSE f[mid + 1][hi]
             Two(lo, hi) == IF lo >= hi THEN hi
                            ELSE IF test[Points!average(lo, hi)]
                                 THEN f[lo][Points!average(lo, hi)]
                                 ELSE f[Points!average(lo, hi) + 1][hi]
  <2>2. ASSUME NEW lo \in 0 .. n, NEW hi \in 0 .. n
        PROVE  One(lo, hi) = Two(lo, hi)
    <3>1. CASE lo >= hi
      BY <3>1
    <3>2. CASE lo < hi
      <4>1. ~ (lo >= hi)
        BY <3>2
      <4>2. test[Points!average(lo, hi)]
              <=> Points!unsafeAccess(self, Points!average(lo, hi)).key > key
        BY <2>1, <3>2
      <4> QED BY <4>1, <4>2, Zenon
    <3> QED BY <1>1, <3>1, <3>2
  <2>3. Is(f) <=> f = [lo \in 0 .. n |-> [hi \in 0 .. n |-> One(lo, hi)]]
    BY Zenon
  <2>4. Searches(f, n, test) <=> f = [lo \in 0 .. n |-> [hi \in 0 .. n |-> Two(lo, hi)]]
    BY Zenon DEF Searches
  <2> HIDE DEF One, Two, Is
  <2>5. [lo \in 0 .. n |-> [hi \in 0 .. n |-> One(lo, hi)]]
          = [lo \in 0 .. n |-> [hi \in 0 .. n |-> Two(lo, hi)]]
    BY <2>2
  <2> QED BY <2>3, <2>4, <2>5
<1> HIDE DEF Is
<1>4. Searches(found, n, test)
  <2>1. \E f : Is(f)
    BY <1>1, <1>3, SearchExists
  <2>2. Is(found)
    BY <2>1, Zenon
  <2> QED BY <1>3, <2>2
<1>5. Points!upperBinaryLookup(self, key, low, high) = found[low][high]
  BY Zenon DEF Points!upperBinaryLookup, Is, n
<1> HIDE DEF found
<1>6. \A p, q \in 0 .. n - 1 : p <= q /\ test[p] => test[q]
  <2> SUFFICES ASSUME NEW p \in 0 .. n - 1, NEW q \in 0 .. n - 1, p < q, test[p]
               PROVE  test[q]
    BY <1>1
  <2>1. p + 1 \in 1 .. Len(self) /\ q + 1 \in 1 .. Len(self) /\ p + 1 < q + 1
    BY <1>1, <1>2 DEF n
  <2>2. self[p + 1].key < self[q + 1].key
    BY <2>1 DEF Rising
  <2>3. /\ self[p + 1].key \in Nat /\ self[q + 1].key \in Nat
        /\ self[p + 1].key > key
    BY <1>1, <1>2, <2>1 DEF n
  <2>4. self[q + 1].key > key
    BY <2>2, <2>3
  <2> QED BY <1>2, <2>4
<1>7. /\ low \in 0 .. n /\ high \in 0 .. n
      /\ \A p \in 0 .. low - 1 : ~ test[p]
      /\ \A p \in high .. n - 1 : test[p]
  <2>1. \A p \in 0 .. low - 1 : p + 1 \in 1 .. low /\ p \in 0 .. n - 1
    BY <1>1 DEF n
  <2>2. \A p \in high .. n - 1 : p + 1 \in high + 1 .. Len(self) /\ p \in 0 .. n - 1
    BY <1>1 DEF n
  <2>3. \A p \in 0 .. low - 1 : self[p + 1].key \in Nat
    BY <1>1, <1>2, <2>1
  <2>4. ASSUME NEW p \in 0 .. low - 1 PROVE ~ test[p]
    <3>1. self[p + 1].key <= key /\ self[p + 1].key \in Nat
      BY <2>1, <2>3
    <3>2. ~ (self[p + 1].key > key)
      BY <3>1
    <3> QED BY <1>2, <2>1, <3>2
  <2>5. ASSUME NEW p \in high .. n - 1 PROVE test[p]
    BY <1>2, <2>2
  <2>6. low \in 0 .. n /\ high \in 0 .. n
    BY DEF n
  <2> QED BY <2>4, <2>5, <2>6
<1>8. IsFirst(found[low][high], n, test)
  BY <1>1, <1>4, <1>6, <1>7, SearchFinds
<1> DEFINE r == found[low][high]
<1> HIDE DEF r
<1>9. SplitsAt(self, key, r)
  <2>1. /\ r \in 0 .. n
        /\ \A p \in 0 .. r - 1 : ~ test[p]
        /\ \A p \in r .. n - 1 : test[p]
    BY <1>8 DEF IsFirst, r
  <2>2. ASSUME NEW p \in 1 .. r PROVE self[p].key <= key
    <3>1. p - 1 \in 0 .. r - 1 /\ p - 1 \in 0 .. n - 1 /\ (p - 1) + 1 = p /\ p \in 1 .. n
      BY <1>1, <2>1
    <3>2. ~ (self[p].key > key)
      BY <1>2, <2>1, <3>1
    <3> QED BY <1>1, <3>1, <3>2
  <2>3. ASSUME NEW p \in r + 1 .. n PROVE self[p].key > key
    <3>1. p - 1 \in r .. n - 1 /\ p - 1 \in 0 .. n - 1 /\ (p - 1) + 1 = p
      BY <1>1, <2>1
    <3>2. test[p - 1]
      BY <2>1, <3>1
    <3> QED BY <1>2, <3>1, <3>2
  <2> QED BY <2>1, <2>2, <2>3 DEF SplitsAt, n
<1> QED BY <1>5, <1>9 DEF r

LEMMA LowerSearch ==
  ASSUME NEW self, Rising(self), NEW key \in Nat
  PROVE  SplitsBelow(self, key, Points!lowerBinaryLookup(self, key, 0, Len(self)))
<1> DEFINE n == Len(self)
           test == [p \in 0 .. n - 1 |-> ~ (self[p + 1].key < key)]
           Is(f) == f = [lo \in 0 .. n |-> [hi \in 0 .. n |->
                          LET mid == Points!average(lo, hi)
                          IN  IF lo >= hi THEN hi
                              ELSE IF Points!unsafeAccess(self, mid).key < key
                                   THEN f[mid + 1][hi] ELSE f[lo][mid]]]
           found == CHOOSE f : Is(f)
<1>1. n \in Nat /\ \A p \in 1 .. n : self[p].key \in Nat
  BY RisingType
<1>2. \A p \in 0 .. n - 1 : p + 1 \in 1 .. n /\ (test[p] <=> ~ (self[p + 1].key < key))
  <2>1. \A p \in 0 .. n - 1 : p + 1 \in 1 .. n
    BY <1>1
  <2>2. \A p \in 0 .. n - 1 : test[p] <=> ~ (self[p + 1].key < key)
    BY Zenon
  <2> QED BY <2>1, <2>2
<1> HIDE DEF n, test
<1>3. ASSUME NEW f PROVE Is(f) <=> Searches(f, n, test)
  <2>1. ASSUME NEW lo \in 0 .. n, NEW hi \in 0 .. n, lo < hi
        PROVE  test[Points!average(lo, hi)]
                 <=> ~ (Points!unsafeAccess(self, Points!average(lo, hi)).key < key)
    <3>1. Points!average(lo, hi) \in 0 .. n - 1
      BY <1>1, <2>1, AverageBetween
    <3> QED BY <1>2, <3>1 DEF Points!unsafeAccess
  <2> DEFINE One(lo, hi) == LET mid == Points!average(lo, hi)
                            IN  IF lo >= hi THEN hi
                                ELSE IF Points!unsafeAccess(self, mid).key < key
                                     THEN f[mid + 1][hi] ELSE f[lo][mid]
             Two(lo, hi) == IF lo >= hi THEN hi
                            ELSE IF test[Points!average(lo, hi)]
                                 THEN f[lo][Points!average(lo, hi)]
                                 ELSE f[Points!average(lo, hi) + 1][hi]
  <2>2. ASSUME NEW lo \in 0 .. n, NEW hi \in 0 .. n
        PROVE  One(lo, hi) = Two(lo, hi)
    <3>1. CASE lo >= hi
      BY <3>1
    <3>2. CASE lo < hi
      <4>1. ~ (lo >= hi)
        BY <3>2
      <4>2. test[Points!average(lo, hi)]
              <=> ~ (Points!unsafeAccess(self, Points!average(lo, hi)).key < key)
        BY <2>1, <3>2
      <4> QED BY <4>1, <4>2, Zenon
    <3> QED BY <1>1, <3>1, <3>2
  <2>3. Is(f) <=> f = [lo \in 0 .. n |-> [hi \in 0 .. n |-> One(lo, hi)]]
    BY Zenon
  <2>4. Searches(f, n, test) <=> f = [lo \in 0 .. n |-> [hi \in 0 .. n |-> Two(lo, hi)]]
    BY Zenon DEF Searches
  <2> HIDE DEF One, Two, Is
  <2>5. [lo \in 0 .. n |-> [hi \in 0 .. n |-> One(lo, hi)]]
          = [lo \in 0 .. n |-> [hi \in 0 .. n |-> Two(lo, hi)]]
    BY <2>2
  <2> QED BY <2>3, <2>4, <2>5
<1> HIDE DEF Is
<1>4. Searches(found, n, test)
  <2>1. \E f : Is(f)
    BY <1>1, <1>3, SearchExists
  <2>2. Is(found)
    BY <2>1, Zenon
  <2> QED BY <1>3, <2>2
<1>5. Points!lowerBinaryLookup(self, key, 0, n) = found[0][n]
  BY Zenon DEF Points!lowerBinaryLookup, Is, n
<1> HIDE DEF found
<1>6. \A p, q \in 0 .. n - 1 : p <= q /\ test[p] => test[q]
  <2> SUFFICES ASSUME NEW p \in 0 .. n - 1, NEW q \in 0 .. n - 1, p < q, test[p]
               PROVE  test[q]
    BY <1>1
  <2>1. p + 1 \in 1 .. Len(self) /\ q + 1 \in 1 .. Len(self) /\ p + 1 < q + 1
    BY <1>1, <1>2 DEF n
  <2>2. self[p + 1].key < self[q + 1].key
    BY <2>1 DEF Rising
  <2>3. /\ self[p + 1].key \in Nat /\ self[q + 1].key \in Nat
        /\ ~ (self[p + 1].key < key)
    BY <1>1, <1>2, <2>1 DEF n
  <2>4. ~ (self[q + 1].key < key)
    BY <2>2, <2>3
  <2> QED BY <1>2, <2>4
<1>7. IsFirst(found[0][n], n, test)
  <2>1. 0 \in 0 .. n /\ n \in 0 .. n /\ 0 <= n
    BY <1>1
  <2>2. \A p \in 0 .. 0 - 1 : ~ test[p]
    OBVIOUS
  <2>3. \A p \in n .. n - 1 : test[p]
    BY <1>1
  <2> QED BY <1>1, <1>4, <1>6, <2>1, <2>2, <2>3, SearchFinds
<1> DEFINE r == found[0][n]
<1> HIDE DEF r
<1>8. SplitsBelow(self, key, r)
  <2>1. /\ r \in 0 .. n
        /\ \A p \in 0 .. r - 1 : ~ test[p]
        /\ \A p \in r .. n - 1 : test[p]
    BY <1>7 DEF IsFirst, r
  <2>2. ASSUME NEW p \in 1 .. r PROVE self[p].key < key
    <3>1. p - 1 \in 0 .. r - 1 /\ p - 1 \in 0 .. n - 1 /\ (p - 1) + 1 = p
      BY <1>1, <2>1
    <3>2. ~ test[p - 1]
      BY <2>1, <3>1
    <3> QED BY <1>2, <3>1, <3>2
  <2>3. ASSUME NEW p \in r + 1 .. n PROVE self[p].key >= key
    <3>1. p - 1 \in r .. n - 1 /\ p - 1 \in 0 .. n - 1 /\ (p - 1) + 1 = p /\ p \in 1 .. n
      BY <1>1, <2>1
    <3>2. test[p - 1]
      BY <2>1, <3>1
    <3>3. ~ (self[p].key < key)
      BY <1>2, <3>1, <3>2
    <3> QED BY <1>1, <3>1, <3>3
  <2> QED BY <2>1, <2>2, <2>3 DEF SplitsBelow, n
<1> QED BY <1>5, <1>8 DEF r, n

\* The square root of a length leaves some, but not all, of a long array.
LEMMA SqrtBetween ==
  ASSUME NEW n \in Nat, n > 5
  PROVE  Points!sqrt(n) \in 1 .. n - 1
<1> DEFINE Root(r, m) == r * r <= m /\ m < (r + 1) * (r + 1)
           T == {m \in Nat : \E r \in 0 .. m : Root(r, m)}
<1>1. 0 \in T
  <2>1. Root(0, 0)
    OBVIOUS
  <2> QED BY <2>1
<1>2. ASSUME NEW m \in Nat, m \in T PROVE m + 1 \in T
  <2>1. PICK r \in 0 .. m : Root(r, m)
    BY <1>2
  <2>2. r \in Nat /\ r \in 0 .. m + 1 /\ r + 1 \in 0 .. m + 1
    OBVIOUS
  <2>3. CASE m + 1 < (r + 1) * (r + 1)
    <3>1. r * r <= m + 1
      BY <2>1, <2>2
    <3>2. Root(r, m + 1)
      BY <2>3, <3>1
    <3> HIDE DEF Root
    <3> QED BY <2>2, <3>2
  <2>4. CASE ~ (m + 1 < (r + 1) * (r + 1))
    <3>1. ((r + 1) + 1) * ((r + 1) + 1) = ((r + 1) * (r + 1)) + ((2 * r) + 3)
      BY <2>2
    <3>2. (r + 1) * (r + 1) \in Nat
      BY <2>2
    <3>3. (r + 1) * (r + 1) <= m + 1
      BY <2>4, <3>2
    <3>4. m + 1 < ((r + 1) + 1) * ((r + 1) + 1)
      BY <2>1, <2>2, <3>1, <3>2
    <3>5. Root(r + 1, m + 1)
      BY <3>3, <3>4
    <3> HIDE DEF Root
    <3> QED BY <2>2, <3>5
  <2> QED BY <2>3, <2>4
<1> HIDE DEF T
<1>3. T \in SUBSET Nat
  BY DEF T
<1>4. n \in T
  BY <1>1, <1>2, <1>3, NatIndSet
<1>5. \E r \in 0 .. n : Root(r, n)
  BY <1>4 DEF T
<1> DEFINE s == Points!sqrt(n)
<1>6. s \in 0 .. n /\ Root(s, n)
  BY <1>5, Zenon DEF Points!sqrt
<1> HIDE DEF s
<1>7. s # 0
  <2> SUFFICES ASSUME s = 0 PROVE FALSE
    OBVIOUS
  <2>1. n < (0 + 1) * (0 + 1)
    BY <1>6
  <2> QED BY <2>1
<1>8. s # n
  <2> SUFFICES ASSUME s = n PROVE FALSE
    OBVIOUS
  <2>1. n * n <= n
    BY <1>6
  <2>2. n * n >= 5 * n
    OBVIOUS
  <2>3. n * n \in Nat
    OBVIOUS
  <2> QED BY <2>1, <2>2, <2>3
<1> QED BY <1>6, <1>7, <1>8 DEF s

\* What the upper lookups of this key shall return.
UpperIs(self, key, v) ==
  \E r : SplitsAt(self, key, r) /\ v = IF r = 0 THEN 0 ELSE self[r].value

\* What the lower lookup of this key shall return, and the key it meets; none
\* is met where all are smaller.
LowerIs(self, key, none, k, v) ==
  \E r : /\ SplitsBelow(self, key, r)
         /\ r = Len(self) => k = none /\ v = 0
         /\ r # Len(self) => k = self[r + 1].key /\ v = self[r + 1].value

LEMMA SplitsOnce ==
  ASSUME NEW self, Rising(self), NEW key \in Nat, NEW r, NEW s
  PROVE  /\ SplitsAt(self, key, r) /\ SplitsAt(self, key, s) => r = s
         /\ SplitsBelow(self, key, r) /\ SplitsBelow(self, key, s) => r = s
<1>1. Len(self) \in Nat /\ \A p \in 1 .. Len(self) : self[p].key \in Nat
  BY RisingType
<1>2. ASSUME NEW a, NEW b, a < b, SplitsAt(self, key, a), SplitsAt(self, key, b) PROVE FALSE
  <2>1. b \in 1 .. b /\ b \in a + 1 .. Len(self) /\ b \in 1 .. Len(self)
    BY <1>1, <1>2 DEF SplitsAt
  <2>2. self[b].key <= key /\ self[b].key > key /\ self[b].key \in Nat
    BY <1>1, <1>2, <2>1 DEF SplitsAt
  <2> QED BY <2>2
<1>3. ASSUME NEW a, NEW b, a < b, SplitsBelow(self, key, a), SplitsBelow(self, key, b)
      PROVE  FALSE
  <2>1. b \in 1 .. b /\ b \in a + 1 .. Len(self) /\ b \in 1 .. Len(self)
    BY <1>1, <1>3 DEF SplitsBelow
  <2>2. self[b].key < key /\ self[b].key >= key /\ self[b].key \in Nat
    BY <1>1, <1>3, <2>1 DEF SplitsBelow
  <2> QED BY <2>2
<1>4. SplitsAt(self, key, r) /\ SplitsAt(self, key, s) => r \in Int /\ s \in Int
  BY DEF SplitsAt
<1>5. SplitsBelow(self, key, r) /\ SplitsBelow(self, key, s) => r \in Int /\ s \in Int
  BY DEF SplitsBelow
<1>6. ASSUME r \in Int, s \in Int PROVE r = s \/ r < s \/ s < r
  BY <1>6
<1> QED BY <1>2, <1>3, <1>4, <1>5, <1>6

\* Both upper lookups return what they shall.
LEMMA UpperAnswers ==
  ASSUME NEW self, Rising(self), NEW key \in Nat, NEW v, UpperIs(self, key, v)
  PROVE  Points!upperLookup(self, key) = v /\ Points!upperLookupRecent(self, key) = v
<1> DEFINE n == Len(self)
<1>1. n \in Nat /\ \A p \in 1 .. n : self[p].key \in Nat
  BY RisingType
<1>2. PICK r : SplitsAt(self, key, r) /\ v = IF r = 0 THEN 0 ELSE self[r].value
  BY DEF UpperIs
<1>3. Points!valueBefore(self, r) = v
  <2>1. r \in Int /\ (r - 1) + 1 = r
    BY <1>2 DEF SplitsAt
  <2> QED BY <1>2, <2>1 DEF Points!valueBefore, Points!unsafeAccess
<1>4. SplitsAt(self, key, Points!upperBinaryLookup(self, key, 0, n))
  <2>1. 0 \in 0 .. n /\ n \in 0 .. n /\ 0 <= n
    BY <1>1
  <2>2. \A p \in 1 .. 0 : self[p].key <= key
    OBVIOUS
  <2>3. \A p \in n + 1 .. n : self[p].key > key
    BY <1>1
  <2> QED BY <2>1, <2>2, <2>3, UpperSearch
<1>5. Points!upperLookup(self, key) = v
  BY <1>2, <1>3, <1>4, SplitsOnce DEF Points!upperLookup
<1>6. SplitsAt(self, key, Points!recentPos(self, key))
  <2> DEFINE mid == n - Points!sqrt(n)
  <2>1. CASE n <= 5
    BY <1>4, <2>1 DEF Points!recentPos
  <2>2. CASE n > 5
    <3>1. mid \in 1 .. n - 1 /\ ~ (n <= 5)
      BY <1>1, <2>2, SqrtBetween
    <3>2. Points!recentPos(self, key) =
            IF key < self[mid + 1].key
            THEN Points!upperBinaryLookup(self, key, 0, mid)
            ELSE Points!upperBinaryLookup(self, key, mid + 1, n)
      BY <3>1, Zenon DEF Points!recentPos, Points!unsafeAccess
    <3> HIDE DEF mid
    <3>3. /\ mid \in 0 .. n /\ mid + 1 \in 0 .. n /\ mid + 1 \in 1 .. n
          /\ n \in 0 .. n /\ 0 \in 0 .. n
          /\ 0 <= mid /\ mid + 1 <= n
      BY <1>1, <3>1
    <3>4. CASE key < self[mid + 1].key
      <4>1. ASSUME NEW p \in mid + 1 .. n PROVE self[p].key > key
        <5>1. p \in 1 .. n /\ (p = mid + 1 \/ mid + 1 < p)
          BY <1>1, <3>1
        <5>2. p = mid + 1 \/ self[mid + 1].key < self[p].key
          BY <3>3, <5>1 DEF Rising
        <5>3. self[p].key \in Nat /\ self[mid + 1].key \in Nat
          BY <1>1, <3>3, <5>1
        <5> QED BY <3>4, <5>2, <5>3
      <4>2. \A p \in 1 .. 0 : self[p].key <= key
        OBVIOUS
      <4>3. SplitsAt(self, key, Points!upperBinaryLookup(self, key, 0, mid))
        BY <3>3, <4>1, <4>2, UpperSearch
      <4> QED BY <3>2, <3>4, <4>3
    <3>5. CASE ~ (key < self[mid + 1].key)
      <4>1. ASSUME NEW p \in 1 .. mid + 1 PROVE self[p].key <= key
        <5>1. p \in 1 .. n /\ (p = mid + 1 \/ p < mid + 1)
          BY <1>1, <3>1
        <5>2. p = mid + 1 \/ self[p].key < self[mid + 1].key
          BY <3>3, <5>1 DEF Rising
        <5>3. self[p].key \in Nat /\ self[mid + 1].key \in Nat
          BY <1>1, <3>3, <5>1
        <5> QED BY <3>5, <5>2, <5>3
      <4>2. \A p \in n + 1 .. n : self[p].key > key
        BY <1>1
      <4>3. SplitsAt(self, key, Points!upperBinaryLookup(self, key, mid + 1, n))
        BY <3>3, <4>1, <4>2, UpperSearch
      <4> QED BY <3>2, <3>5, <4>3
    <3> QED BY <3>4, <3>5
  <2> QED BY <1>1, <2>1, <2>2
<1>7. Points!upperLookupRecent(self, key) = v
  BY <1>2, <1>3, <1>6, SplitsOnce DEF Points!upperLookupRecent
<1> QED BY <1>5, <1>7

LEMMA LowerAnswers ==
  ASSUME NEW self, Rising(self), NEW key \in Nat, NEW none, NEW k, NEW v,
         LowerIs(self, key, none, k, v)
  PROVE  Points!lowerLookup(self, key) = v
<1>1. PICK r : /\ SplitsBelow(self, key, r)
               /\ r = Len(self) => k = none /\ v = 0
               /\ r # Len(self) => k = self[r + 1].key /\ v = self[r + 1].value
  BY DEF LowerIs
<1>2. Points!lowerBinaryLookup(self, key, 0, Len(self)) = r
  BY <1>1, LowerSearch, SplitsOnce
<1> QED BY <1>1, <1>2 DEF Points!lowerLookup, Points!unsafeAccess
-----------------------------------------------------------------------------
(* Writing. *)

\* What insert does: the new checkpoint is the last one; it takes the place of
\* one with its key, or comes after all.
LEMMA InsertIsLast ==
  ASSUME NEW self, Rising(self), NEW key \in Nat, NEW value \in Nat,
         Points!CanInsert(self, key), NEW s, s = Points!insert(self, key, value)
  PROVE  /\ Rising(s)
         /\ Len(s) \in 1 .. Len(self) + 1
         /\ s[Len(s)].key = key /\ s[Len(s)].value = value
         /\ \A p \in 1 .. Len(s) - 1 : p \in 1 .. Len(self) /\ s[p] = self[p]
         /\ \A p \in 1 .. Len(self) : self[p].key <= key
         /\ \/ /\ Len(s) = Len(self) /\ self # <<>> /\ self[Len(self)].key = key
            \/ /\ Len(s) = Len(self) + 1
               /\ \A p \in 1 .. Len(self) : self[p].key < key
<1> DEFINE n == Len(self)
           Pair == [key : Nat, value : Nat]
           new == [key |-> key, value |-> value]
<1>1. n \in Nat /\ \A p \in 1 .. n : self[p].key \in Nat /\ self[p].value \in Nat
  BY RisingType
<1>2. self \in Seq(Pair) /\ new \in Pair
  BY DEF Rising
<1>3. self = <<>> \/ n \in 1 .. n
  BY <1>1, <1>2
<1>4. self # <<>> => Points!latestCheckpoint(self).key = self[n].key
  BY <1>1 DEF Points!latestCheckpoint, Points!unsafeAccess
<1>5. \A p \in 1 .. n : self[p].key <= key /\ (p < n => self[p].key < key)
  <2> SUFFICES ASSUME NEW p \in 1 .. n
               PROVE  self[p].key <= key /\ (p < n => self[p].key < key)
    OBVIOUS
  <2>1. self # <<>> /\ n \in 1 .. n
    BY <1>1, <1>2
  <2>2. self[n].key <= key
    BY <1>4, <2>1 DEF Points!CanInsert
  <2>3. p = n \/ p < n
    BY <1>1
  <2>4. p < n => self[p].key < self[n].key
    BY <2>1 DEF Rising
  <2>5. self[p].key \in Nat /\ self[n].key \in Nat
    BY <1>1, <2>1
  <2> QED BY <2>2, <2>3, <2>4, <2>5
<1>6. CASE self # <<>> /\ self[n].key = key
  <2>1. s = [self EXCEPT ![n].value = value]
    BY <1>4, <1>6 DEF Points!insert
  <2>2. n \in 1 .. n
    BY <1>3, <1>6
  <2>3. self[n] \in Pair
    <3> HIDE DEF Pair
    <3> QED BY <1>2, <2>2
  <2>4. [self[n] EXCEPT !.value = value] = new
    BY <1>6, <2>3
  <2>5. s = [self EXCEPT ![n] = new]
    BY <2>1, <2>4
  <2> HIDE DEF Pair, new
  <2>6. /\ s \in Seq(Pair) /\ Len(s) = n /\ s[n] = new
        /\ \A p \in 1 .. n : p # n => s[p] = self[p]
    BY <1>2, <2>2, <2>5
  <2>7. new.key = key /\ new.value = value
    BY DEF new
  <2>8. \A p \in 1 .. n : s[p].key = self[p].key
    BY <1>6, <2>6, <2>7
  <2>9. Rising(s)
    BY <2>6, <2>8 DEF Rising, Pair
  <2>10. \A p \in 1 .. n - 1 : p \in 1 .. n /\ s[p] = self[p]
    BY <1>1, <2>6
  <2> QED BY <1>1, <1>5, <1>6, <2>2, <2>6, <2>7, <2>9, <2>10
<1>7. CASE self = <<>> \/ self[n].key # key
  <2>1. s = Append(self, new)
    BY <1>4, <1>7 DEF Points!insert
  <2> HIDE DEF Pair, new
  <2>2. /\ s \in Seq(Pair) /\ Len(s) = n + 1 /\ s[n + 1] = new
        /\ \A p \in 1 .. n : s[p] = self[p]
    BY <1>2, <2>1
  <2>3. new.key = key /\ new.value = value
    BY DEF new
  <2>4. \A p \in 1 .. n : self[p].key < key
    <3> SUFFICES ASSUME NEW p \in 1 .. n PROVE self[p].key < key
      OBVIOUS
    <3>1. self # <<>> /\ n \in 1 .. n
      BY <1>1, <1>2
    <3>2. self[n].key # key /\ self[n].key <= key /\ self[n].key \in Nat
      BY <1>1, <1>5, <1>7, <3>1
    <3>3. p = n \/ p < n
      BY <1>1
    <3> QED BY <1>5, <3>2, <3>3
  <2>5. Rising(s)
    <3>1. ASSUME NEW i \in 1 .. n + 1, NEW j \in 1 .. n + 1, i < j
          PROVE  s[i].key < s[j].key
      <4>1. i \in 1 .. n /\ (j \in 1 .. n \/ j = n + 1)
        BY <1>1, <3>1
      <4>2. CASE j \in 1 .. n
        BY <2>2, <3>1, <4>1, <4>2 DEF Rising
      <4>3. CASE j = n + 1
        BY <2>2, <2>3, <2>4, <4>1, <4>3
      <4> QED BY <4>1, <4>2, <4>3
    <3> QED BY <2>2, <3>1 DEF Rising, Pair
  <2>6. \A p \in 1 .. (n + 1) - 1 : p \in 1 .. n /\ s[p] = self[p]
    BY <1>1, <2>2
  <2> QED BY <1>1, <1>5, <2>2, <2>3, <2>4, <2>5, <2>6
<1> QED BY <1>6, <1>7

\* What a push changes: the answers for its key and all later ones.
LEMMA InsertUpper ==
  ASSUME NEW self, Rising(self), NEW key \in Nat, NEW value \in Nat,
         Points!CanInsert(self, key), NEW l \in Nat, NEW v, UpperIs(self, l, v)
  PROVE  UpperIs(Points!insert(self, key, value), l, IF key <= l THEN value ELSE v)
<1> DEFINE n == Len(self)
           s == Points!insert(self, key, value)
           m == Len(s)
<1>1. n \in Nat /\ \A p \in 1 .. n : self[p].key \in Nat /\ self[p].value \in Nat
  BY RisingType
<1>2. /\ Rising(s) /\ m \in 1 .. n + 1
      /\ s[m].key = key /\ s[m].value = value
      /\ \A p \in 1 .. m - 1 : p \in 1 .. n /\ s[p] = self[p]
      /\ \A p \in 1 .. n : self[p].key <= key
      /\ \/ m = n /\ self # <<>> /\ self[n].key = key
         \/ m = n + 1 /\ \A p \in 1 .. n : self[p].key < key
  BY InsertIsLast
<1> HIDE DEF s
<1>3. CASE key <= l
  <2>1. ASSUME NEW p \in 1 .. m PROVE s[p].key <= l
    <3>1. p = m \/ p \in 1 .. m - 1
      BY <1>1, <1>2
    <3>2. s[p].key <= key /\ s[p].key \in Nat
      BY <1>1, <1>2, <3>1
    <3> QED BY <1>3, <3>2
  <2>2. SplitsAt(s, l, m)
    BY <1>1, <1>2, <2>1 DEF SplitsAt
  <2>3. m # 0
    BY <1>2
  <2> QED BY <1>2, <1>3, <2>2, <2>3 DEF UpperIs, s
<1>4. CASE ~ (key <= l)
  <2>1. PICK r : SplitsAt(self, l, r) /\ v = IF r = 0 THEN 0 ELSE self[r].value
    BY DEF UpperIs
  <2>2. key > l
    BY <1>4
  <2>3. r \in 0 .. m - 1
    <3>1. r \in 0 .. n
      BY <2>1 DEF SplitsAt
    <3>2. CASE m = n /\ self # <<>> /\ self[n].key = key
      <4>1. n \in 1 .. n
        BY <1>1, <1>2, <3>2
      <4>2. r # n
        BY <1>1, <2>1, <2>2, <3>2, <4>1 DEF SplitsAt
      <4> QED BY <1>1, <3>1, <3>2, <4>2
    <3>3. CASE m = n + 1
      BY <1>1, <3>1, <3>3
    <3> QED BY <1>2, <3>2, <3>3
  <2>4. ASSUME NEW p \in 1 .. r PROVE s[p].key <= l
    <3>1. p \in 1 .. m - 1
      BY <1>2, <2>3
    <3> QED BY <1>2, <2>1, <3>1 DEF SplitsAt
  <2>5. ASSUME NEW p \in r + 1 .. m PROVE s[p].key > l
    <3>1. p = m \/ p \in 1 .. m - 1
      BY <1>2, <2>3
    <3>2. CASE p = m
      BY <1>2, <2>2, <3>2
    <3>3. CASE p \in 1 .. m - 1
      <4>1. p \in r + 1 .. n /\ s[p] = self[p]
        BY <1>1, <1>2, <2>3, <3>3
      <4> QED BY <2>1, <4>1 DEF SplitsAt
    <3> QED BY <3>1, <3>2, <3>3
  <2>6. SplitsAt(s, l, r)
    BY <1>2, <2>3, <2>4, <2>5 DEF SplitsAt
  <2>7. v = IF r = 0 THEN 0 ELSE s[r].value
    <3>1. r # 0 => r \in 1 .. m - 1
      BY <1>2, <2>3
    <3> QED BY <1>2, <2>1, <3>1
  <2> QED BY <1>4, <2>6, <2>7 DEF UpperIs, s
<1> QED BY <1>3, <1>4

\* A push of a smaller key than any met so far is met first.
LEMMA InsertLower ==
  ASSUME NEW self, Rising(self), NEW key \in Nat, NEW value \in Nat,
         Points!CanInsert(self, key), NEW none \in Nat, key <= none,
         NEW l \in Nat, l <= none, NEW k, NEW v, LowerIs(self, l, none, k, v),
         NEW nextK, nextK = IF key >= l /\ (self = <<>> \/ self[Len(self)].key < l)
                            THEN key ELSE k
  PROVE  LowerIs(Points!insert(self, key, value), l, none, nextK,
                 IF key = nextK THEN value ELSE v)
<1> DEFINE n == Len(self)
           s == Points!insert(self, key, value)
           m == Len(s)
           nextV == IF key = nextK THEN value ELSE v
<1>1. n \in Nat /\ \A p \in 1 .. n : self[p].key \in Nat /\ self[p].value \in Nat
  BY RisingType
<1>2. /\ Rising(s) /\ m \in 1 .. n + 1
      /\ s[m].key = key /\ s[m].value = value
      /\ \A p \in 1 .. m - 1 : p \in 1 .. n /\ s[p] = self[p]
      /\ \A p \in 1 .. n : self[p].key <= key
      /\ \/ m = n /\ self # <<>> /\ self[n].key = key
         \/ m = n + 1 /\ \A p \in 1 .. n : self[p].key < key
  BY InsertIsLast
<1> HIDE DEF s
<1>3. PICK r : /\ SplitsBelow(self, l, r)
               /\ r = n => k = none /\ v = 0
               /\ r # n => k = self[r + 1].key /\ v = self[r + 1].value
  BY DEF LowerIs
<1>4. r \in 0 .. n
  BY <1>3 DEF SplitsBelow
<1>5. self = <<>> \/ n \in 1 .. n
  <2>1. self \in Seq([key : Nat, value : Nat])
    BY DEF Rising
  <2> QED BY <1>1, <2>1
<1>6. self = <<>> => n = 0
  OBVIOUS
<1>7. r = n <=> self = <<>> \/ self[n].key < l
  <2>1. ASSUME r = n, self # <<>> PROVE self[n].key < l
    <3>1. n \in 1 .. r
      BY <1>5, <2>1
    <3> QED BY <1>3, <3>1 DEF SplitsBelow
  <2>2. ASSUME self # <<>>, self[n].key < l PROVE r = n
    <3>1. n \in 1 .. n /\ self[n].key \in Nat
      BY <1>1, <1>5, <2>2
    <3>2. n \notin r + 1 .. n
      BY <1>3, <2>2, <3>1 DEF SplitsBelow
    <3> QED BY <1>1, <1>4, <3>1, <3>2
  <2>3. self = <<>> => r = n
    BY <1>4, <1>6
  <2> QED BY <2>1, <2>2, <2>3
<1>8. CASE r = n /\ key >= l
  <2>1. m = n + 1
    <3> SUFFICES ASSUME m = n, self # <<>>, self[n].key = key PROVE FALSE
      BY <1>2
    <3>1. self[n].key < l
      BY <1>7, <1>8
    <3> QED BY <1>8, <3>1
  <2>2. nextK = key
    BY <1>7, <1>8
  <2>3. /\ r \in 0 .. m
        /\ \A p \in 1 .. r : s[p].key < l
        /\ \A p \in r + 1 .. m : s[p].key >= l
    <3>1. \A p \in 1 .. r : p \in 1 .. m - 1
      BY <1>1, <1>8, <2>1
    <3>2. \A p \in 1 .. r : s[p].key < l
      BY <1>2, <1>3, <3>1 DEF SplitsBelow
    <3>3. \A p \in r + 1 .. m : p = m
      BY <1>1, <1>8, <2>1
    <3> QED BY <1>1, <1>2, <1>8, <2>1, <3>2, <3>3
  <2>4. SplitsBelow(s, l, r)
    BY <2>3 DEF SplitsBelow
  <2>5. r # m /\ r + 1 = m
    BY <1>1, <1>8, <2>1
  <2>6. nextK = s[r + 1].key /\ nextV = s[r + 1].value
    BY <1>2, <2>2, <2>5
  <2> QED BY <2>4, <2>5, <2>6 DEF LowerIs, s
<1>9. CASE r = n /\ ~ (key >= l)
  <2>1. nextK = k /\ k = none /\ v = 0
    BY <1>3, <1>9
  <2>2. key < l /\ key # none /\ nextV = 0
    BY <1>9, <2>1
  <2>3. ASSUME NEW p \in 1 .. m PROVE s[p].key < l
    <3>1. p = m \/ p \in 1 .. m - 1
      BY <1>2
    <3>2. p \in 1 .. m - 1 => p \in 1 .. r /\ s[p] = self[p]
      BY <1>2, <1>9
    <3> QED BY <1>2, <1>3, <2>2, <3>1, <3>2 DEF SplitsBelow
  <2>4. SplitsBelow(s, l, m)
    <3>1. m \in 0 .. m /\ \A p \in m + 1 .. m : FALSE
      BY <1>1, <1>2
    <3> QED BY <2>3, <3>1 DEF SplitsBelow
  <2> QED BY <2>1, <2>2, <2>4 DEF LowerIs, s
<1>10. CASE r # n
  <2>1. nextK = k /\ k = self[r + 1].key /\ v = self[r + 1].value
    BY <1>3, <1>7, <1>10
  <2>2. r + 1 \in 1 .. n /\ n \in 1 .. n /\ r \in 0 .. n - 1
    BY <1>1, <1>4, <1>10
  <2>3. self[n].key >= l /\ self[n].key <= key /\ self[n].key \in Nat
    <3>1. n \in r + 1 .. n
      BY <1>1, <1>4, <1>10
    <3> QED BY <1>1, <1>2, <1>3, <2>2, <3>1 DEF SplitsBelow
  <2>4. r \in 0 .. m - 1
    BY <1>1, <1>2, <2>2
  <2>5. ASSUME NEW p \in 1 .. r PROVE s[p].key < l
    <3>1. p \in 1 .. m - 1
      BY <1>2, <2>4
    <3> QED BY <1>2, <1>3, <3>1 DEF SplitsBelow
  <2>6. ASSUME NEW p \in r + 1 .. m PROVE s[p].key >= l
    <3>1. p = m \/ p \in 1 .. m - 1
      BY <1>2, <2>4
    <3>2. CASE p = m
      BY <1>2, <2>3, <3>2
    <3>3. CASE p \in 1 .. m - 1
      <4>1. p \in r + 1 .. n /\ s[p] = self[p]
        BY <1>1, <1>2, <2>4, <3>3
      <4> QED BY <1>3, <4>1 DEF SplitsBelow
    <3> QED BY <3>1, <3>2, <3>3
  <2>7. SplitsBelow(s, l, r)
    BY <1>2, <2>4, <2>5, <2>6 DEF SplitsBelow
  <2>8. nextK = s[r + 1].key /\ nextV = s[r + 1].value
    <3>1. CASE r + 1 = m
      <4>1. m = n /\ self[n].key = key
        BY <1>1, <1>2, <2>2, <3>1
      <4> QED BY <1>2, <2>1, <3>1, <4>1
    <3>2. CASE r + 1 # m
      <4>1. r + 1 \in 1 .. m - 1 /\ s[r + 1] = self[r + 1]
        BY <1>2, <2>4, <3>2
      <4>2. self[r + 1].key < key
        <5>1. CASE m = n /\ self[n].key = key
          <6>1. r + 1 < n
            BY <2>2, <3>2, <5>1
          <6> QED BY <2>2, <5>1, <6>1 DEF Rising
        <5>2. CASE \A p \in 1 .. n : self[p].key < key
          BY <2>2, <5>2
        <5> QED BY <1>2, <5>1, <5>2
      <4>3. key # nextK
        BY <1>1, <2>1, <2>2, <4>2
      <4> QED BY <2>1, <4>1, <4>3
    <3> QED BY <3>1, <3>2
  <2>9. r # m
    BY <1>2, <2>4
  <2> QED BY <2>7, <2>8, <2>9 DEF LowerIs, s
<1> QED BY <1>8, <1>9, <1>10
-----------------------------------------------------------------------------
(* The fuzz tests. *)

\* Histories and tests use the functions as they are.
LEMMA VotesUsePoints ==
  /\ \A s, k, v : Votes!insert(s, k, v) = Points!insert(s, k, v)
  /\ \A s, k : Votes!CanInsert(s, k) <=> Points!CanInsert(s, k)
  /\ \A s : Votes!latest(s) = Points!latest(s)
  /\ \A s, k : Votes!upperLookup(s, k) = Points!upperLookup(s, k)
  /\ \A s, k : Votes!upperLookupRecent(s, k) = Points!upperLookupRecent(s, k)
BY Zenon DEF Votes!insert, Points!insert, Votes!CanInsert, Points!CanInsert, Votes!latest,
  Points!latest, Votes!latestCheckpoint, Points!latestCheckpoint, Votes!unsafeAccess,
  Points!unsafeAccess, Votes!upperLookup, Points!upperLookup, Votes!upperLookupRecent,
  Points!upperLookupRecent, Votes!upperBinaryLookup, Points!upperBinaryLookup,
  Votes!valueBefore, Points!valueBefore, Votes!recentPos, Points!recentPos,
  Votes!average, Points!average, Votes!sqrt, Points!sqrt

LEMMA TestsUsePoints ==
  /\ \A s, k, v : Tests!insert(s, k, v) = Points!insert(s, k, v)
  /\ \A s, k : Tests!CanInsert(s, k) <=> Points!CanInsert(s, k)
  /\ \A s : Tests!latest(s) = Points!latest(s)
  /\ \A s : Tests!latestCheckpoint(s) = Points!latestCheckpoint(s)
  /\ \A s, k : Tests!upperLookup(s, k) = Points!upperLookup(s, k)
  /\ \A s, k : Tests!upperLookupRecent(s, k) = Points!upperLookupRecent(s, k)
  /\ \A s, k : Tests!lowerLookup(s, k) = Points!lowerLookup(s, k)
BY Zenon DEF Tests!insert, Points!insert, Tests!CanInsert, Points!CanInsert, Tests!latest,
  Points!latest, Tests!latestCheckpoint, Points!latestCheckpoint, Tests!unsafeAccess,
  Points!unsafeAccess, Tests!upperLookup, Points!upperLookup, Tests!upperLookupRecent,
  Points!upperLookupRecent, Tests!upperBinaryLookup, Points!upperBinaryLookup,
  Tests!valueBefore, Points!valueBefore, Tests!recentPos, Points!recentPos,
  Tests!average, Points!average, Tests!sqrt, Points!sqrt, Tests!lowerLookup,
  Points!lowerLookup, Tests!lowerBinaryLookup, Points!lowerBinaryLookup

\* The latest checkpoint is the last push, and every push but a duplicate added one.
LastInv ==
  /\ pushes \in Nat /\ lastKey \in Nat /\ lastKey <= MaxTestKey
  /\ lastValue \in Nat /\ duplicates \in Nat
  /\ Rising(ckpts)
  /\ pushes = 0 <=> ckpts = <<>>
  /\ pushes = 0 => lastKey = 0 /\ lastValue = 0
  /\ pushes # 0 => ckpts[Len(ckpts)].key = lastKey /\ ckpts[Len(ckpts)].value = lastValue
  /\ Len(ckpts) = pushes - duplicates
  /\ flavour = "History" => testBlock = lastKey

\* What is expected of each lookup is what the array holds.
ExpectedInv ==
  /\ \A l \in Tests!Key : UpperIs(ckpts, l, upper[l])
  /\ flavour = "Trace" =>
       \A l \in Tests!Key : LowerIs(ckpts, l, MaxTestKey, lowerKey[l], lower[l])

TestInv == LastInv /\ ExpectedInv

LEMMA TestConstants ==
  /\ MaxTestKey \in Nat
  /\ \A k : k \in Tests!Key <=> k \in Nat /\ k <= MaxTestKey
  /\ pushes \in Nat => Tests!valueOf \in Nat
  /\ \A key \in Tests!prepareKeys : lastKey \in Nat => key \in Nat
<1>1. /\ MaxTestKey \in Nat /\ KeyMaxGap \in Nat
      /\ MCValues \in Seq(Nat) /\ MCValues # <<>>
  BY TemplatesAssumption DEF Tests!TraceAssumption
<1>2. Len(MCValues) \in Nat \ {0}
  BY <1>1
<1>3. pushes \in Nat => (pushes % Len(MCValues)) + 1 \in 1 .. Len(MCValues)
  BY <1>2
<1>4. pushes \in Nat => Tests!valueOf \in Nat
  BY <1>1, <1>3 DEF Tests!valueOf
<1> QED BY <1>1, <1>4 DEF Tests!Key, Tests!prepareKeys

LEMMA EmptyRises ==
  /\ Rising(<<>>)
  /\ \A l : UpperIs(<<>>, l, 0)
  /\ \A l, none : LowerIs(<<>>, l, none, none, 0)
<1>1. Len(<<>>) = 0 /\ <<>> \in Seq([key : Nat, value : Nat])
  OBVIOUS
<1>2. Rising(<<>>)
  BY <1>1 DEF Rising
<1>3. \A l : SplitsAt(<<>>, l, 0) /\ SplitsBelow(<<>>, l, 0)
  BY <1>1 DEF SplitsAt, SplitsBelow
<1> QED BY <1>1, <1>2, <1>3 DEF UpperIs, LowerIs

LEMMA TestStarts == Tests!TraceInit => TestInv
<1> SUFFICES ASSUME Tests!TraceInit PROVE TestInv
  OBVIOUS
<1>1. /\ testBlock = 0 /\ ckpts = <<>> /\ pushes = 0 /\ lastKey = 0 /\ lastValue = 0
      /\ duplicates = 0
      /\ \A l \in Tests!Key : upper[l] = 0 /\ lower[l] = 0 /\ lowerKey[l] = MaxTestKey
  BY DEF Tests!TraceInit
<1>2. LastInv
  BY <1>1, EmptyRises, TestConstants DEF LastInv
<1>3. ExpectedInv
  BY <1>1, EmptyRises DEF ExpectedInv
<1> QED BY <1>2, <1>3 DEF TestInv

\* What both tests do with a key that can be pushed.
LEMMA PushCounts ==
  ASSUME TestInv, NEW key \in Nat, NEW v \in Nat, Tests!counted(key, v),
         Tests!trackUpper(key, v), Points!CanInsert(ckpts, key),
         ckpts' = Points!insert(ckpts, key, v), flavour = "History" => testBlock' = key
  PROVE  /\ LastInv'
         /\ \A l \in Tests!Key : UpperIs(ckpts', l, upper'[l])
<1> DEFINE n == Len(ckpts)
<1>1. /\ Rising(ckpts)' /\ Len(ckpts') \in 1 .. n + 1
      /\ ckpts'[Len(ckpts')].key = key /\ ckpts'[Len(ckpts')].value = v
      /\ \/ Len(ckpts') = n /\ ckpts # <<>> /\ ckpts[n].key = key
         \/ Len(ckpts') = n + 1 /\ \A p \in 1 .. n : ckpts[p].key < key
  <2> DEFINE s == Points!insert(ckpts, key, v)
  <2>1. Rising(ckpts)
    BY DEF TestInv, LastInv
  <2>2. /\ Rising(s) /\ Len(s) \in 1 .. n + 1
        /\ s[Len(s)].key = key /\ s[Len(s)].value = v
        /\ \/ Len(s) = n /\ ckpts # <<>> /\ ckpts[n].key = key
           \/ Len(s) = n + 1 /\ \A p \in 1 .. n : ckpts[p].key < key
    BY <2>1, InsertIsLast
  <2> HIDE DEF s
  <2>3. ckpts' = s
    BY DEF s
  <2> QED BY <2>2, <2>3 DEF Rising
<1>2. /\ pushes' = pushes + 1 /\ lastKey' = key /\ lastValue' = v /\ flavour' = flavour
      /\ duplicates' = duplicates + (IF pushes > 0 /\ key = lastKey THEN 1 ELSE 0)
      /\ key <= MaxTestKey
  BY DEF Tests!counted
<1>3. /\ pushes \in Nat /\ duplicates \in Nat /\ n = pushes - duplicates /\ n \in Nat
      /\ pushes = 0 <=> ckpts = <<>>
      /\ pushes # 0 => ckpts[n].key = lastKey
  BY RisingType DEF TestInv, LastInv
<1>4. Len(ckpts') = pushes' - duplicates'
  <2>1. CASE Len(ckpts') = n /\ ckpts # <<>> /\ ckpts[n].key = key
    BY <1>2, <1>3, <2>1
  <2>2. CASE Len(ckpts') = n + 1 /\ \A p \in 1 .. n : ckpts[p].key < key
    <3>1. ~ (pushes > 0 /\ key = lastKey)
      <4> SUFFICES ASSUME pushes > 0, key = lastKey PROVE FALSE
        OBVIOUS
      <4>1. n \in 1 .. n
        <5>1. ckpts # <<>> /\ ckpts \in Seq([key : Nat, value : Nat])
          BY <1>3 DEF TestInv, LastInv, Rising
        <5> QED BY <5>1
      <4> QED BY <1>3, <2>2, <4>1
    <3> QED BY <1>2, <1>3, <2>2, <3>1
  <2> QED BY <1>1, <2>1, <2>2
<1>5. ckpts' # <<>>
  BY <1>1
<1>6. LastInv'
  <2>1. pushes' \in Nat /\ pushes' # 0 /\ duplicates' \in Nat
    BY <1>2, <1>3
  <2> QED BY <1>1, <1>2, <1>4, <1>5, <2>1 DEF LastInv
<1>7. ASSUME NEW l \in Tests!Key PROVE UpperIs(ckpts', l, upper'[l])
  <2>1. upper'[l] = IF key <= l THEN v ELSE upper[l]
    BY DEF Tests!trackUpper
  <2>2. l \in Nat
    BY TestConstants
  <2> QED BY <2>1, <2>2, InsertUpper DEF TestInv, LastInv, ExpectedInv
<1> QED BY <1>6, <1>7

LEMMA TestSteps == TestInv /\ [Tests!TraceNext]_Tests!traceVars => TestInv'
<1> SUFFICES ASSUME TestInv, [Tests!TraceNext]_Tests!traceVars PROVE TestInv'
  OBVIOUS
<1>1. ASSUME Tests!pushKey PROVE TestInv'
  <2> DEFINE v == Tests!valueOf
  <2>1. PICK key \in Tests!prepareKeys :
          /\ flavour = "Trace"
          /\ Tests!counted(key, v)
          /\ Tests!trackUpper(key, v) /\ Tests!trackLower(key, v)
          /\ Tests!CanInsert(ckpts, key)
          /\ ckpts' = Tests!insert(ckpts, key, v)
          /\ UNCHANGED testBlock
    BY <1>1 DEF Tests!pushKey
  <2>2. key \in Nat /\ v \in Nat /\ key <= MaxTestKey
    BY <2>1, TestConstants DEF TestInv, LastInv, Tests!counted
  <2>3. Points!CanInsert(ckpts, key) /\ ckpts' = Points!insert(ckpts, key, v)
    BY <2>1, TestsUsePoints
  <2> HIDE DEF v
  <2>4. flavour # "History"
    BY <2>1
  <2>5. LastInv' /\ \A l \in Tests!Key : UpperIs(ckpts', l, upper'[l])
    BY <2>1, <2>2, <2>3, <2>4, PushCounts
  <2>6. ASSUME NEW l \in Tests!Key
        PROVE  LowerIs(ckpts', l, MaxTestKey, lowerKey'[l], lower'[l])
    <3>1. lowerKey'[l] = IF key >= l /\ (pushes = 0 \/ lastKey < l) THEN key ELSE lowerKey[l]
      BY <2>1 DEF Tests!trackLower
    <3>2. lower'[l] = IF key = lowerKey'[l] THEN v ELSE lower[l]
      BY <2>1 DEF Tests!trackLower
    <3>3. /\ pushes = 0 <=> ckpts = <<>>
          /\ ckpts # <<>> => ckpts[Len(ckpts)].key = lastKey
          /\ Rising(ckpts) /\ LowerIs(ckpts, l, MaxTestKey, lowerKey[l], lower[l])
      BY <2>1 DEF TestInv, LastInv, ExpectedInv
    <3>4. lowerKey'[l] = IF key >= l /\ (ckpts = <<>> \/ ckpts[Len(ckpts)].key < l)
                         THEN key ELSE lowerKey[l]
      BY <3>1, <3>3
    <3>5. l \in Nat /\ l <= MaxTestKey /\ MaxTestKey \in Nat
      BY TestConstants
    <3>6. LowerIs(Points!insert(ckpts, key, v), l, MaxTestKey, lowerKey'[l],
                  IF key = lowerKey'[l] THEN v ELSE lower[l])
      BY <2>2, <2>3, <3>3, <3>4, <3>5, InsertLower
    <3> QED BY <2>3, <3>2, <3>6
  <2>7. ExpectedInv'
    BY <2>5, <2>6 DEF ExpectedInv, Tests!Key
  <2> QED BY <2>5, <2>7 DEF TestInv
<1>2. ASSUME Tests!rollAndPush PROVE TestInv'
  <2> DEFINE v == Tests!valueOf
  <2>1. PICK key \in Tests!prepareKeys :
          /\ flavour = "History"
          /\ testBlock' = key
          /\ Tests!counted(key, v) /\ Tests!trackUpper(key, v)
          /\ Tests!CanInsert(ckpts, testBlock')
          /\ ckpts' = Tests!insert(ckpts, testBlock', v)
    BY <1>2 DEF Tests!rollAndPush
  <2>2. key \in Nat /\ v \in Nat
    BY <2>1, TestConstants DEF TestInv, LastInv
  <2>3. Points!CanInsert(ckpts, key) /\ ckpts' = Points!insert(ckpts, key, v)
    BY <2>1, TestsUsePoints
  <2> HIDE DEF v
  <2>4. flavour' # "Trace"
    BY <2>1 DEF Tests!counted
  <2>5. LastInv' /\ \A l \in Tests!Key : UpperIs(ckpts', l, upper'[l])
    BY <2>1, <2>2, <2>3, PushCounts
  <2>6. ExpectedInv'
    BY <2>4, <2>5 DEF ExpectedInv, Tests!Key
  <2> QED BY <2>5, <2>6 DEF TestInv
<1>3. ASSUME UNCHANGED Tests!traceVars PROVE TestInv'
  BY <1>3 DEF Tests!traceVars, TestInv, LastInv, ExpectedInv, Rising, UpperIs, LowerIs,
     SplitsAt, SplitsBelow, Tests!Key
<1> QED BY <1>1, <1>2, <1>3 DEF Tests!TraceNext

LEMMA TestInvariance == TemplatesSpec => []TestInv
BY TestAlone, TestStarts, TestSteps, PTL DEF Tests!TraceSpec

\* For any keys, values and number of pushes, what the tests expect of the
\* latest checkpoint, of the number of checkpoints and of pushes of past keys
\* is what they get.
THEOREM TheLatestIsExpected == TemplatesSpec => []LatestAsExpected
<1>1. TestInv => LatestAsExpected
  <2> SUFFICES ASSUME TestInv PROVE LatestAsExpected
    OBVIOUS
  <2>1. Len(ckpts) \in Nat /\ (Len(ckpts) - 1) + 1 = Len(ckpts)
    <3>1. ckpts \in Seq([key : Nat, value : Nat])
      BY DEF TestInv, LastInv, Rising
    <3> QED BY <3>1
  <2>2. /\ Tests!latest(ckpts) = lastValue
        /\ Tests!latestCheckpoint(ckpts)
             = [exists |-> pushes > 0, key |-> lastKey, value |-> lastValue]
    <3>1. CASE pushes = 0
      <4>1. ckpts = <<>> /\ lastKey = 0 /\ lastValue = 0 /\ (pushes > 0) = FALSE
        BY <3>1 DEF TestInv, LastInv
      <4> QED BY <4>1 DEF Tests!latest, Tests!latestCheckpoint
    <3>2. CASE pushes # 0
      <4>1. pushes > 0
        BY <3>2 DEF TestInv, LastInv
      <4>2. (pushes > 0) = TRUE
        BY <4>1
      <4>3. /\ ckpts # <<>> /\ ckpts[Len(ckpts)].key = lastKey
            /\ ckpts[Len(ckpts)].value = lastValue
        BY <3>2 DEF TestInv, LastInv
      <4>4. Tests!unsafeAccess(ckpts, Len(ckpts) - 1) = ckpts[Len(ckpts)]
        BY <2>1 DEF Tests!unsafeAccess
      <4> QED BY <4>2, <4>3, <4>4 DEF Tests!latest, Tests!latestCheckpoint
    <3> QED BY <3>1, <3>2
  <2>3. Tests!length(ckpts) = pushes - duplicates
    BY DEF TestInv, LastInv, Tests!length
  <2>4. ASSUME NEW pastKey \in Tests!Key
        PROVE  ~ Tests!CanInsert(ckpts, pastKey) <=> pastKey < lastKey
    <3>1. pastKey \in Nat /\ lastKey \in Nat
      BY TestConstants DEF TestInv, LastInv
    <3>2. pushes = 0 => lastKey = 0
      BY DEF TestInv, LastInv
    <3>3. CASE pushes = 0
      BY <3>1, <3>2, <3>3 DEF TestInv, LastInv, Tests!CanInsert
    <3>4. CASE pushes # 0
      <4>1. Tests!CanInsert(ckpts, pastKey) <=> lastKey <= pastKey
        BY <2>2, <3>4 DEF TestInv, LastInv, Tests!CanInsert
      <4> QED BY <3>1, <4>1
    <3> QED BY <3>3, <3>4
  <2> QED BY <2>2, <2>3, <2>4
          DEF LatestAsExpected, Tests!LatestAsExpected, Tests!pushReverts,
              Tests!rollAndPushReverts
<1> QED BY <1>1, TestInvariance, PTL

\* Every lookup returns what the tests expect, by the binary searches and by
\* the one that tries the recent checkpoints first.
THEOREM LookupsAreExpected == TemplatesSpec => []LookupsAsExpected
<1>1. TestInv => LookupsAsExpected
  <2> SUFFICES ASSUME TestInv, NEW l \in Tests!Key
               PROVE  /\ flavour = "Trace" =>
                           /\ Tests!lowerLookup(ckpts, l) = lower[l]
                           /\ Tests!upperLookup(ckpts, l) = upper[l]
                           /\ Tests!upperLookupRecent(ckpts, l) = upper[l]
                      /\ flavour = "History" /\ pushes > 0 =>
                           /\ l < lastKey => Tests!upperLookup(ckpts, l) = upper[l]
                           /\ l < lastKey => Tests!upperLookupRecent(ckpts, l) = upper[l]
    BY DEF LookupsAsExpected, Tests!LookupsAsExpected
  <2>1. l \in Nat /\ Rising(ckpts) /\ UpperIs(ckpts, l, upper[l])
    BY TestConstants DEF TestInv, LastInv, ExpectedInv
  <2>2. /\ Tests!upperLookup(ckpts, l) = upper[l]
        /\ Tests!upperLookupRecent(ckpts, l) = upper[l]
    BY <2>1, UpperAnswers, TestsUsePoints
  <2>3. flavour = "Trace" => Tests!lowerLookup(ckpts, l) = lower[l]
    BY <2>1, LowerAnswers, TestsUsePoints DEF TestInv, ExpectedInv
  <2> QED BY <2>2, <2>3
<1> QED BY <1>1, TestInvariance, PTL
-----------------------------------------------------------------------------
(* A history. *)

HistoryInv ==
  /\ block \in Nat
  /\ Rising(checkpoints)
  /\ \A p \in 1 .. Len(checkpoints) : checkpoints[p].key <= block

LEMMA HistoryConstants ==
  MaxKey \in Nat /\ MaxBlock \in Nat /\ MaxGap \in Nat /\ Deltas \subseteq Nat
BY TemplatesAssumption DEF Votes!HistoryAssumption

LEMMA LatestIsNat ==
  ASSUME NEW self, Rising(self)
  PROVE  /\ Points!latest(self) \in Nat
         /\ self # <<>> => /\ Len(self) \in 1 .. Len(self)
                           /\ Points!latest(self) = self[Len(self)].value
<1>1. self # <<>> => Len(self) \in 1 .. Len(self) /\ (Len(self) - 1) + 1 = Len(self)
  <2>1. self \in Seq([key : Nat, value : Nat])
    BY DEF Rising
  <2> QED BY <2>1
<1> QED BY <1>1, RisingType DEF Points!latest, Points!unsafeAccess

\* A step lets blocks pass or pushes a value in the current block.
LEMMA HistoryChanges ==
  ASSUME HistoryInv, [Votes!HistoryNext]_Votes!historyVars
  PROVE  \/ block' \in Nat /\ block <= block' /\ checkpoints' = checkpoints
         \/ /\ block' = block /\ Points!CanInsert(checkpoints, block)
            /\ \E value \in Nat : checkpoints' = Points!insert(checkpoints, block, value)
<1>1. CASE Votes!roll
  BY <1>1, HistoryConstants DEF HistoryInv, Votes!roll
<1>2. ASSUME NEW value \in Int, Votes!pushed(value)
      PROVE  /\ block' = block /\ Points!CanInsert(checkpoints, block)
             /\ \E v \in Nat : checkpoints' = Points!insert(checkpoints, block, v)
  <2>1. value \in Nat
    BY <1>2 DEF Votes!pushed
  <2>2. checkpoints' = Votes!insert(checkpoints, block, value) /\ block' = block
        /\ Votes!CanInsert(checkpoints, block)
    BY <1>2 DEF Votes!pushed
  <2> QED BY <2>1, <2>2, VotesUsePoints
<1>3. CASE Votes!push
  BY <1>2, <1>3, HistoryConstants DEF Votes!push
<1>4. CASE Votes!pushOp
  <2>1. Votes!latest(checkpoints) \in Nat
    BY LatestIsNat, VotesUsePoints DEF HistoryInv
  <2>2. PICK delta \in Deltas : \/ Votes!pushed(Votes!latest(checkpoints) + delta)
                                \/ Votes!pushed(Votes!latest(checkpoints) - delta)
    BY <1>4 DEF Votes!pushOp
  <2>3. /\ Votes!latest(checkpoints) + delta \in Int
        /\ Votes!latest(checkpoints) - delta \in Int
    BY <2>1, HistoryConstants
  <2> QED BY <1>2, <2>2, <2>3
<1>5. CASE UNCHANGED Votes!historyVars
  BY <1>5 DEF Votes!historyVars, HistoryInv
<1> QED BY <1>1, <1>3, <1>4, <1>5 DEF Votes!HistoryNext

LEMMA HistoryStarts == Votes!HistoryInit => HistoryInv
<1> SUFFICES ASSUME Votes!HistoryInit PROVE HistoryInv
  OBVIOUS
<1>1. checkpoints = <<>> /\ block \in Nat
  BY HistoryConstants DEF Votes!HistoryInit
<1> QED BY <1>1, EmptyRises DEF HistoryInv

LEMMA HistorySteps == HistoryInv /\ [Votes!HistoryNext]_Votes!historyVars => HistoryInv'
<1> SUFFICES ASSUME HistoryInv, [Votes!HistoryNext]_Votes!historyVars PROVE HistoryInv'
  OBVIOUS
<1>1. CASE block' \in Nat /\ block <= block' /\ checkpoints' = checkpoints
  <2>1. \A p \in 1 .. Len(checkpoints) : checkpoints[p].key <= block'
    BY <1>1, RisingType DEF HistoryInv
  <2> QED BY <1>1, <2>1 DEF HistoryInv, Rising
<1>2. ASSUME NEW value \in Nat, block' = block, Points!CanInsert(checkpoints, block),
             checkpoints' = Points!insert(checkpoints, block, value)
      PROVE  HistoryInv'
  <2> DEFINE s == Points!insert(checkpoints, block, value)
  <2>1. /\ Rising(s) /\ Len(s) \in 1 .. Len(checkpoints) + 1 /\ s[Len(s)].key = block
        /\ \A p \in 1 .. Len(s) - 1 : p \in 1 .. Len(checkpoints) /\ s[p] = checkpoints[p]
    BY <1>2, InsertIsLast DEF HistoryInv
  <2>2. block \in Nat /\ Len(checkpoints) \in Nat
    BY RisingType DEF HistoryInv
  <2> HIDE DEF s
  <2>3. ASSUME NEW p \in 1 .. Len(s) PROVE s[p].key <= block
    <3>1. p = Len(s) \/ p \in 1 .. Len(s) - 1
      BY <2>1, <2>2
    <3> QED BY <2>1, <2>2, <3>1 DEF HistoryInv
  <2>4. checkpoints' = s
    BY <1>2 DEF s
  <2> QED BY <1>2, <2>1, <2>2, <2>3, <2>4 DEF HistoryInv, Rising
<1> QED BY <1>1, <1>2, HistoryChanges

LEMMA HistoryInvariance == TemplatesSpec => []HistoryInv
BY HistoryAlone, HistoryStarts, HistorySteps, PTL DEF Votes!HistorySpec

\* A block has one checkpoint, however often it is pushed to, and the order of
\* the array is the order of the blocks.
THEOREM BlocksAreInOrder == TemplatesSpec => []OneCheckpointPerBlock
<1>1. HistoryInv => OneCheckpointPerBlock
  <2> SUFFICES ASSUME HistoryInv PROVE OneCheckpointPerBlock
    OBVIOUS
  <2>1. DOMAIN checkpoints = 1 .. Len(checkpoints)
    <3>1. checkpoints \in Seq([key : Nat, value : Nat])
      BY DEF HistoryInv, Rising
    <3> QED BY <3>1
  <2> QED BY <2>1 DEF HistoryInv, Rising, OneCheckpointPerBlock, Votes!OneCheckpointPerBlock
<1> QED BY <1>1, HistoryInvariance, PTL
-----------------------------------------------------------------------------
(* What a history promises.  The lookups of the blocks that can be read,   *)
(* the oldest first, are the values these blocks ended with.               *)

\* How many blocks can be read.
Count ==
  LET cap == IF MaxKey < MaxBlock THEN MaxKey + 1 ELSE MaxBlock + 1
  IN  IF block < cap THEN block ELSE cap

Ended == [i \in 1 .. Count |-> Points!upperLookup(checkpoints, i - 1)]

\* e was extended to f with any number of values c.
ExtendedBy(e, f, c) ==
  /\ Len(e) < Len(f) /\ Len(e) <= Len(f)
  /\ SubSeq(e, 1, Len(e)) = SubSeq(f, 1, Len(e))
  /\ \A i \in Len(e) + 1 .. Len(f) : f[i] = c

\* Every key has an answer, and the recent checkpoints give the same.
LEMMA UpperExists ==
  ASSUME NEW self, Rising(self), NEW key \in Nat
  PROVE  /\ UpperIs(self, key, Points!upperLookup(self, key))
         /\ Points!upperLookupRecent(self, key) = Points!upperLookup(self, key)
         /\ Points!upperLookup(self, key) \in Nat
<1> DEFINE r == Points!upperBinaryLookup(self, key, 0, Len(self))
           v == IF r = 0 THEN 0 ELSE self[r].value
<1>1. Len(self) \in Nat /\ \A p \in 1 .. Len(self) : self[p].value \in Nat
  BY RisingType
<1>2. /\ 0 \in 0 .. Len(self) /\ Len(self) \in 0 .. Len(self) /\ 0 <= Len(self)
      /\ \A p \in 1 .. 0 : self[p].key <= key
      /\ \A p \in Len(self) + 1 .. Len(self) : self[p].key > key
  BY <1>1
<1>3. SplitsAt(self, key, r)
  BY <1>2, UpperSearch
<1> HIDE DEF r
<1>4. UpperIs(self, key, v)
  BY <1>3 DEF UpperIs
<1>5. v \in Nat
  BY <1>1, <1>3 DEF SplitsAt
<1> HIDE DEF v
<1> QED BY <1>4, <1>5, UpperAnswers

LEMMA CountIsNat == HistoryInv => Count \in Nat /\ Count <= block
BY HistoryConstants DEF HistoryInv, Count

LEMMA EndedIsSeq ==
  HistoryInv =>
    /\ Ended \in Seq(Nat) /\ Len(Ended) = Count
    /\ \A i \in 1 .. Count : Ended[i] = Points!upperLookup(checkpoints, i - 1)
<1> SUFFICES ASSUME HistoryInv
             PROVE  /\ Ended \in Seq(Nat) /\ Len(Ended) = Count
                    /\ \A i \in 1 .. Count : Ended[i] = Points!upperLookup(checkpoints, i - 1)
  OBVIOUS
<1>1. Count \in Nat
  BY CountIsNat
<1>2. \A i \in 1 .. Count : Points!upperLookup(checkpoints, i - 1) \in Nat
  BY <1>1, UpperExists DEF HistoryInv
<1>3. \A i \in 1 .. Count : Ended[i] = Points!upperLookup(checkpoints, i - 1)
  BY DEF Ended
<1>4. Ended \in [1 .. Count -> Nat]
  BY <1>2 DEF Ended
<1> QED BY <1>1, <1>3, <1>4

\* The blocks that can be read are the first ones, and both lookups answer.
LEMMA ReadableBlocks ==
  HistoryInv =>
    /\ [i \in 1 .. Votes!Cardinality(Votes!Readable) |-> Votes!getAtBlock(i - 1)] = Ended
    /\ [i \in 1 .. Votes!Cardinality(Votes!Readable) |->
          Votes!getAtProbablyRecentBlock(i - 1)] = Ended
<1> SUFFICES ASSUME HistoryInv
             PROVE  /\ [i \in 1 .. Votes!Cardinality(Votes!Readable) |->
                          Votes!getAtBlock(i - 1)] = Ended
                    /\ [i \in 1 .. Votes!Cardinality(Votes!Readable) |->
                          Votes!getAtProbablyRecentBlock(i - 1)] = Ended
  OBVIOUS
<1>1. Count \in Nat
  BY CountIsNat
<1>2. Votes!Readable = 0 .. Count - 1
  BY HistoryConstants
     DEF HistoryInv, Votes!Readable, Votes!CanGet, Votes!CanGetAtBlock, Votes!CanToUint, Count
<1>3. Cardinality(0 .. Count - 1) = Count
  <2>1. 0 \in Int /\ Count - 1 \in Int
    BY <1>1
  <2>2. Cardinality(0 .. Count - 1) = IF 0 > Count - 1 THEN 0 ELSE (Count - 1) - 0 + 1
    BY <2>1, FS_Interval
  <2> QED BY <1>1, <2>2
<1>4. Votes!Cardinality(Votes!Readable) = Count
  <2>1. \A T : Votes!Cardinality(T) = Cardinality(T)
    BY Zenon DEF Votes!Cardinality, Cardinality
  <2> QED BY <1>2, <1>3, <2>1
<1>5. ASSUME NEW i \in 1 .. Count
      PROVE  /\ Votes!getAtBlock(i - 1) = Points!upperLookup(checkpoints, i - 1)
             /\ Votes!getAtProbablyRecentBlock(i - 1) = Points!upperLookup(checkpoints, i - 1)
  <2>1. i - 1 \in Nat
    BY <1>1
  <2>2. Points!upperLookupRecent(checkpoints, i - 1) = Points!upperLookup(checkpoints, i - 1)
    BY <2>1, UpperExists DEF HistoryInv
  <2> QED BY <2>2, VotesUsePoints DEF Votes!getAtBlock, Votes!getAtProbablyRecentBlock
<1> HIDE DEF Count
<1> QED BY <1>4, <1>5 DEF Ended

\* Blocks pass: each new one ended with the latest value.
LEMMA RollExtends ==
  ASSUME HistoryInv, HistoryInv', block <= block', checkpoints' = checkpoints
  PROVE  Ended' = Ended \/ ExtendedBy(Ended, Ended', Points!latest(checkpoints))
<1>1. Count \in Nat /\ Count' \in Nat /\ Count <= Count'
  BY HistoryConstants DEF HistoryInv, Count
<1>2. /\ Ended \in Seq(Nat) /\ Len(Ended) = Count
      /\ \A i \in 1 .. Count : Ended[i] = Points!upperLookup(checkpoints, i - 1)
  BY EndedIsSeq
<1>3. /\ Ended' \in Seq(Nat) /\ Len(Ended') = Count'
      /\ \A i \in 1 .. Count' : Ended'[i] = Points!upperLookup(checkpoints, i - 1)
  <2>1. (HistoryInv =>
           /\ Ended \in Seq(Nat) /\ Len(Ended) = Count
           /\ \A i \in 1 .. Count : Ended[i] = Points!upperLookup(checkpoints, i - 1))'
    BY EndedIsSeq, PTL
  <2> QED BY <2>1
<1>4. CASE Count' = Count
  <2>1. \A i \in 1 .. Len(Ended) : Ended[i] = Ended'[i]
    BY <1>2, <1>3, <1>4
  <2>2. Ended = Ended'
    BY <1>2, <1>3, <1>4, <2>1, SeqEqual
  <2> QED BY <2>2
<1>5. CASE Count < Count'
  <2>1. Count = block
    BY <1>5, HistoryConstants DEF HistoryInv, Count
  <2>2. SubSeq(Ended, 1, Count) = SubSeq(Ended', 1, Count)
    <3>1. \A i \in 1 .. Count : Ended[i] = Ended'[i] /\ Ended[i] \in Nat /\ Ended'[i] \in Nat
      BY <1>1, <1>2, <1>3, <1>5
    <3> DEFINE e == Ended
               f == Ended'
    <3> HIDE DEF e, f
    <3>2. \A i \in 1 .. Count : e[i] = f[i] /\ e[i] \in Nat /\ f[i] \in Nat
      BY <3>1 DEF e, f
    <3> HIDE DEF Count
    <3>3. SubSeq(e, 1, Count) = SubSeq(f, 1, Count)
      BY <1>1, <3>2
    <3> QED BY <3>3 DEF e, f
  <2>3. ASSUME NEW i \in Count + 1 .. Count' PROVE Ended'[i] = Points!latest(checkpoints)
    <3> DEFINE n == Len(checkpoints)
    <3>1. i - 1 \in Nat /\ block <= i - 1 /\ i \in 1 .. Count'
      BY <1>1, <2>1
    <3>2. n \in Nat /\ \A p \in 1 .. n : checkpoints[p].key \in Nat
      BY RisingType DEF HistoryInv
    <3>3. SplitsAt(checkpoints, i - 1, n)
      <4>1. ASSUME NEW p \in 1 .. n PROVE checkpoints[p].key <= i - 1
        BY <3>1, <3>2 DEF HistoryInv
      <4>2. n \in 0 .. n /\ \A p \in n + 1 .. n : FALSE
        BY <3>2
      <4> QED BY <4>1, <4>2 DEF SplitsAt
    <3>4. Points!latest(checkpoints) = IF n = 0 THEN 0 ELSE checkpoints[n].value
      <4>1. checkpoints = <<>> <=> n = 0
        BY LatestIsNat, <3>2 DEF HistoryInv
      <4> QED BY <4>1, LatestIsNat DEF HistoryInv, Points!latest
    <3>5. UpperIs(checkpoints, i - 1, Points!latest(checkpoints))
      BY <3>3, <3>4 DEF UpperIs
    <3> QED BY <1>3, <3>1, <3>5, UpperAnswers DEF HistoryInv
  <2> QED BY <1>1, <1>2, <1>3, <1>5, <2>2, <2>3 DEF ExtendedBy
<1> QED BY <1>1, <1>4, <1>5

\* A push changes the value of no block that can be read.
LEMMA PushKeepsEnded ==
  ASSUME HistoryInv, HistoryInv', block' = block, Points!CanInsert(checkpoints, block),
         NEW value \in Nat, checkpoints' = Points!insert(checkpoints, block, value)
  PROVE  Ended' = Ended
<1>1. Count \in Nat /\ Count <= block /\ block \in Nat
  BY CountIsNat DEF HistoryInv
<1>2. Count' = Count
  BY DEF Count
<1>3. ASSUME NEW i \in 1 .. Count
      PROVE  Points!upperLookup(checkpoints', i - 1) = Points!upperLookup(checkpoints, i - 1)
  <2>1. i - 1 \in Nat /\ ~ (block <= i - 1)
    BY <1>1
  <2>2. UpperIs(checkpoints, i - 1, Points!upperLookup(checkpoints, i - 1))
    BY <2>1, UpperExists DEF HistoryInv
  <2> DEFINE s == Points!insert(checkpoints, block, value)
  <2>3. UpperIs(s, i - 1, Points!upperLookup(checkpoints, i - 1))
    BY <1>1, <2>1, <2>2, InsertUpper DEF HistoryInv
  <2>4. Rising(s)
    BY <1>1, InsertIsLast DEF HistoryInv
  <2> HIDE DEF s
  <2>5. Points!upperLookup(s, i - 1) = Points!upperLookup(checkpoints, i - 1)
    BY <2>1, <2>3, <2>4, UpperAnswers
  <2> QED BY <2>5 DEF s
<1>4. Ended' = [i \in 1 .. Count |-> Points!upperLookup(checkpoints', i - 1)]
  BY <1>2 DEF Ended
<1> HIDE DEF Count
<1> QED BY <1>3, <1>4 DEF Ended

\* The lookup of a mined block gives the value that the block ended with, as
\* soon as it is mined and ever after, and the lookup that tries the recent
\* checkpoints first is as good.
THEOREM HistoryIsImplemented == TemplatesSpec => ImplementsBlockHistory
<1> DEFINE mined == [i \in 1 .. Votes!Cardinality(Votes!Readable) |-> Votes!getAtBlock(i - 1)]
           recent == [i \in 1 .. Votes!Cardinality(Votes!Readable) |->
                        Votes!getAtProbablyRecentBlock(i - 1)]
           now == Votes!latest(checkpoints)
<1>1. Votes!HistoryInit => Votes!Mined!Init /\ Votes!MinedRecently!Init
  <2> SUFFICES ASSUME Votes!HistoryInit PROVE Votes!Mined!Init /\ Votes!MinedRecently!Init
    OBVIOUS
  <2>1. HistoryInv /\ checkpoints = <<>>
    BY HistoryStarts DEF Votes!HistoryInit
  <2>2. mined = Ended /\ recent = Ended
    BY <2>1, ReadableBlocks
  <2>3. now = 0
    BY <2>1 DEF Votes!latest
  <2>4. \A i \in DOMAIN Ended : Ended[i] = 0
    <3> SUFFICES ASSUME NEW i \in DOMAIN Ended PROVE Ended[i] = 0
      OBVIOUS
    <3>1. i \in 1 .. Count /\ i - 1 \in Nat
      BY <2>1, CountIsNat DEF Ended
    <3>2. UpperIs(checkpoints, i - 1, 0)
      BY <2>1, EmptyRises
    <3> QED BY <2>1, <3>1, <3>2, UpperAnswers DEF HistoryInv, Ended
  <2> HIDE DEF mined, recent, now
  <2>5. /\ now = 0
        /\ \A i \in DOMAIN mined : mined[i] = 0
        /\ \A i \in DOMAIN recent : recent[i] = 0
    BY <2>2, <2>3, <2>4
  <2> QED BY <2>5, Zenon DEF Votes!Mined!Init, Votes!MinedRecently!Init, mined, recent, now
<1>2. HistoryInv /\ HistoryInv' /\ [Votes!HistoryNext]_Votes!historyVars =>
        /\ [Votes!Mined!Next]_<<mined, now>>
        /\ [Votes!MinedRecently!Next]_<<recent, now>>
  <2> SUFFICES ASSUME HistoryInv, HistoryInv', [Votes!HistoryNext]_Votes!historyVars
               PROVE  /\ [Votes!Mined!Next]_<<mined, now>>
                      /\ [Votes!MinedRecently!Next]_<<recent, now>>
    OBVIOUS
  <2>1. mined = Ended /\ recent = Ended
    BY ReadableBlocks
  <2>2. mined' = Ended' /\ recent' = Ended'
    <3>1. (HistoryInv => mined = Ended /\ recent = Ended)'
      BY ReadableBlocks, PTL
    <3> QED BY <3>1
  <2>3. now = Points!latest(checkpoints) /\ now' = Points!latest(checkpoints')
    BY VotesUsePoints
  <2>4. now' \in Nat
    BY <2>3, LatestIsNat DEF HistoryInv, Rising
  <2>5. \/ Ended' = Ended /\ now' \in Nat
        \/ ExtendedBy(Ended, Ended', now) /\ now' = now
    <3>1. CASE block' \in Nat /\ block <= block' /\ checkpoints' = checkpoints
      BY <2>3, <2>4, <3>1, RollExtends
    <3>2. ASSUME NEW value \in Nat, block' = block, Points!CanInsert(checkpoints, block),
                 checkpoints' = Points!insert(checkpoints, block, value)
          PROVE  Ended' = Ended
      BY <3>2, PushKeepsEnded
    <3> QED BY <2>4, <3>1, <3>2, HistoryChanges
  <2> HIDE DEF mined, recent, now
  <2>6. /\ \/ mined' = mined /\ now' \in Nat
           \/ ExtendedBy(mined, mined', now) /\ now' = now
        /\ \/ recent' = recent /\ now' \in Nat
           \/ ExtendedBy(recent, recent', now) /\ now' = now
    BY <2>1, <2>2, <2>5
  <2>7. Votes!Mined!Next
    <3>1. \/ now' \in Nat /\ mined' = mined
          \/ /\ Len(mined) < Len(mined')
             /\ /\ Len(mined) <= Len(mined')
                /\ SubSeq(mined, 1, Len(mined)) = SubSeq(mined', 1, Len(mined))
             /\ \A i \in Len(mined) + 1 .. Len(mined') : mined'[i] = now
             /\ now' = now
      BY <2>6 DEF ExtendedBy
    <3> QED BY <3>1, Zenon DEF Votes!Mined!Next, Votes!Mined!Write, Votes!Mined!Mine,
               Votes!Mined!IsPrefix, mined, now
  <2>8. Votes!MinedRecently!Next
    <3>1. \/ now' \in Nat /\ recent' = recent
          \/ /\ Len(recent) < Len(recent')
             /\ /\ Len(recent) <= Len(recent')
                /\ SubSeq(recent, 1, Len(recent)) = SubSeq(recent', 1, Len(recent))
             /\ \A i \in Len(recent) + 1 .. Len(recent') : recent'[i] = now
             /\ now' = now
      BY <2>6 DEF ExtendedBy
    <3> QED BY <3>1, Zenon DEF Votes!MinedRecently!Next, Votes!MinedRecently!Write,
               Votes!MinedRecently!Mine, Votes!MinedRecently!IsPrefix, recent, now
  <2> QED BY <2>7, <2>8
<1> QED BY <1>1, <1>2, HistoryAlone, HistoryInvariance, PTL
    DEF Votes!HistorySpec, ImplementsBlockHistory, Votes!ImplementsBlockHistory,
        Votes!Mined!Spec, Votes!MinedRecently!Spec
=============================================================================
