------------------------ MODULE EnumerableSet_proofs ------------------------
(***************************************************************************)
(* The structure is a set, for words and elements of any size: the array   *)
(* and the mapping agree after any operations, so that what the mapping    *)
(* says is what a loop over the array meets.                               *)
(***************************************************************************)
EXTENDS EnumerableSet, TLAPS

\* A storage whose array holds elements only and whose mapping leads to them.
Agreeing(s) ==
  /\ s \in [values : Seq(Element), indexes : [Word -> Nat]]
  /\ \A i \in 1 .. Len(s.values) : s.indexes[s.values[i]] = i
  /\ \A w \in Word : s.indexes[w] # 0 =>
        /\ s.indexes[w] \in 1 .. Len(s.values)
        /\ s.values[s.indexes[w]] = w

SetInv == Agreeing(inner)
-----------------------------------------------------------------------------
(* The array and the mapping. *)

\* An element is a word, and the same number as a word.
LEMMA ElementsAreWords ==
  ASSUME NEW x \in Element
  PROVE  x \in Word /\ x \in Nat /\ toBytes32(x) = x /\ fromBytes32(x) = x
BY SizeAssumption DEF Element, Word, toBytes32, fromBytes32

LEMMA EmptyAgrees == Agreeing(EmptySet)
<1>1. EmptySet.values = <<>> /\ EmptySet.indexes = [w \in Word |-> 0]
  BY DEF EmptySet
<1>2. EmptySet \in [values : Seq(Element), indexes : [Word -> Nat]]
  BY DEF EmptySet
<1> QED BY <1>1, <1>2 DEF Agreeing

LEMMA AddAgrees ==
  ASSUME NEW s, Agreeing(s), NEW x \in Element
  PROVE  /\ Agreeing(Add(s, x))
         /\ \A y \in Element : Contains(Add(s, x), y) <=> Contains(s, y) \/ y = x
<1> DEFINE t == Add(s, x)
           v == s.values
           n == Len(v)
<1>1. /\ v \in Seq(Element) /\ n \in Nat /\ s.indexes \in [Word -> Nat]
      /\ x \in Word /\ \A y \in Element : y \in Word
  BY ElementsAreWords DEF Agreeing
<1>2. CASE Contains(s, x)
  BY <1>2 DEF Add
<1>3. CASE ~ Contains(s, x)
  <2>1. t = [s EXCEPT !.values = Append(v, x), !.indexes[x] = n + 1]
    BY <1>3 DEF Add
  <2>2. /\ t.values = Append(v, x) /\ t.indexes = [s.indexes EXCEPT ![x] = n + 1]
        /\ t \in [values : Seq(Element), indexes : [Word -> Nat]]
    <3>1. Append(v, x) \in Seq(Element) /\ n + 1 \in Nat
      BY <1>1
    <3>2. [s.indexes EXCEPT ![x] = n + 1] \in [Word -> Nat]
      <4> HIDE DEF n
      <4> QED BY <1>1, <3>1
    <3>3. t = [values |-> Append(v, x), indexes |-> [s.indexes EXCEPT ![x] = n + 1]]
      BY <2>1 DEF Agreeing
    <3> QED BY <3>1, <3>2, <3>3
  <2>3. /\ Len(t.values) = n + 1 /\ t.values[n + 1] = x
        /\ \A i \in 1 .. n : t.values[i] = v[i] /\ v[i] \in Element
    BY <1>1, <2>2
  <2>4. /\ t.indexes[x] = n + 1
        /\ \A w \in Word : w # x => t.indexes[w] = s.indexes[w]
    BY <1>1, <2>2
  <2>5. \A i \in 1 .. n : v[i] # x
    BY <1>1, <1>3, <2>3 DEF Agreeing, Contains
  <2> HIDE DEF t
  <2>6. ASSUME NEW i \in 1 .. n + 1
        PROVE  t.indexes[t.values[i]] = i
    <3>1. CASE i = n + 1
      BY <2>3, <2>4, <3>1
    <3>2. CASE i \in 1 .. n
      BY <1>1, <2>3, <2>4, <2>5, <3>2 DEF Agreeing
    <3> QED BY <1>1, <3>1, <3>2
  <2>7. ASSUME NEW w \in Word, t.indexes[w] # 0
        PROVE  t.indexes[w] \in 1 .. n + 1 /\ t.values[t.indexes[w]] = w
    <3>1. CASE w = x
      BY <1>1, <2>3, <2>4, <3>1
    <3>2. CASE w # x
      <4>1. s.indexes[w] \in 1 .. n /\ v[s.indexes[w]] = w /\ t.indexes[w] = s.indexes[w]
        BY <2>4, <2>7, <3>2 DEF Agreeing
      <4> QED BY <1>1, <2>3, <4>1
    <3> QED BY <3>1, <3>2
  <2>8. Agreeing(t)
    BY <2>2, <2>3, <2>6, <2>7 DEF Agreeing
  <2>9. \A y \in Element : Contains(t, y) <=> Contains(s, y) \/ y = x
    BY <1>1, <2>4 DEF Contains
  <2> QED BY <2>8, <2>9 DEF t
<1> QED BY <1>2, <1>3

\* Swap and pop leaves every other value indexed where it is.
LEMMA RemoveAgrees ==
  ASSUME NEW s, Agreeing(s), NEW x \in Element
  PROVE  /\ Agreeing(Remove(s, x))
         /\ \A y \in Element : Contains(Remove(s, x), y) <=> Contains(s, y) /\ y # x
<1> DEFINE t == Remove(s, x)
           v == s.values
           n == Len(v)
           p == s.indexes[x]
           last == v[n]
<1>1. /\ v \in Seq(Element) /\ n \in Nat /\ s.indexes \in [Word -> Nat]
      /\ x \in Word /\ \A y \in Element : y \in Word
  BY ElementsAreWords DEF Agreeing
<1>2. CASE ~ Contains(s, x)
  BY <1>2 DEF Remove, Contains
<1>3. CASE Contains(s, x)
  <2>1. p \in 1 .. n /\ v[p] = x /\ p # 0
    BY <1>1, <1>3 DEF Agreeing, Contains
  <2>2. /\ n # 0 /\ n \in 1 .. n /\ last \in Element /\ last \in Word
        /\ s.indexes[last] = n
    <3>1. n # 0 /\ n \in 1 .. n
      BY <1>1, <2>1
    <3>2. last \in Element
      BY <1>1, <3>1
    <3> QED BY <1>1, <3>1, <3>2 DEF Agreeing
  <2>3. p = n <=> last = x
    BY <2>1, <2>2
  \* What the array and the mapping are, whether or not the last value moved.
  <2>4. /\ t \in [values : Seq(Element), indexes : [Word -> Nat]]
        /\ Len(t.values) = n - 1
        /\ \A i \in 1 .. n - 1 : t.values[i] = IF i = p THEN last ELSE v[i]
        /\ t.indexes[x] = 0
        /\ last # x => t.indexes[last] = p
        /\ \A w \in Word : w # x /\ w # last => t.indexes[w] = s.indexes[w]
    <3>1. CASE p = n
      <4>1. t = [s EXCEPT !.values = SubSeq(v, 1, n - 1), !.indexes[x] = 0]
        BY <1>3, <3>1 DEF Remove
      <4>2. /\ t.values = SubSeq(v, 1, n - 1)
            /\ t.indexes = [s.indexes EXCEPT ![x] = 0]
            /\ t = [values |-> SubSeq(v, 1, n - 1), indexes |-> [s.indexes EXCEPT ![x] = 0]]
        BY <1>1, <4>1 DEF Agreeing
      <4>3. /\ SubSeq(v, 1, n - 1) \in Seq(Element)
            /\ Len(SubSeq(v, 1, n - 1)) = n - 1
            /\ \A i \in 1 .. n - 1 : SubSeq(v, 1, n - 1)[i] = v[i]
        BY <1>1, <2>2
      <4> QED BY <1>1, <2>1, <2>3, <3>1, <4>2, <4>3
    <3>2. CASE p # n
      <4> DEFINE u == [v EXCEPT ![p] = last]
      <4>1. t = [s EXCEPT !.values = SubSeq(u, 1, n - 1),
                          !.indexes = [[s.indexes EXCEPT ![last] = p] EXCEPT ![x] = 0]]
        <5>1. Len(v) = n
          OBVIOUS
        <5>2. [s EXCEPT !.values[p] = last, !.indexes[last] = p].values = u
          BY <1>1 DEF Agreeing
        <5> QED BY <1>1, <1>3, <3>2, <5>2 DEF Remove, Agreeing
      <4>2. u \in Seq(Element) /\ Len(u) = n /\ \A i \in 1 .. n : u[i] = IF i = p THEN last ELSE v[i]
        BY <1>1, <2>1, <2>2
      <4> HIDE DEF u
      <4>3. /\ SubSeq(u, 1, n - 1) \in Seq(Element)
            /\ Len(SubSeq(u, 1, n - 1)) = n - 1
            /\ \A i \in 1 .. n - 1 : SubSeq(u, 1, n - 1)[i] = u[i]
        BY <1>1, <2>2, <4>2
      <4>4. /\ t.values = SubSeq(u, 1, n - 1)
            /\ t.indexes = [[s.indexes EXCEPT ![last] = p] EXCEPT ![x] = 0]
            /\ t = [values |-> SubSeq(u, 1, n - 1),
                    indexes |-> [[s.indexes EXCEPT ![last] = p] EXCEPT ![x] = 0]]
        BY <1>1, <4>1 DEF Agreeing
      <4>5. p \in Nat
        BY <2>1
      <4>6. t.indexes \in [Word -> Nat]
        <5>1. [s.indexes EXCEPT ![last] = p] \in [Word -> Nat]
          <6> HIDE DEF p
          <6> QED BY <1>1, <4>5
        <5>2. 0 \in Nat
          OBVIOUS
        <5> HIDE DEF t, p, last
        <5>3. [[s.indexes EXCEPT ![last] = p] EXCEPT ![x] = 0] \in [Word -> Nat]
          BY <5>1, <5>2
        <5> QED BY <4>4, <5>3
      <4>7. /\ t.indexes[x] = 0
            /\ last # x => t.indexes[last] = p
            /\ \A w \in Word : w # x /\ w # last => t.indexes[w] = s.indexes[w]
        BY <1>1, <2>2, <4>4
      <4>8. \A i \in 1 .. n - 1 : t.values[i] = IF i = p THEN last ELSE v[i]
        BY <1>1, <4>2, <4>3, <4>4
      <4> QED BY <4>3, <4>4, <4>6, <4>7, <4>8
    <3> QED BY <3>1, <3>2
  <2> HIDE DEF t
  <2>5. \A i \in 1 .. n : v[i] \in Word /\ s.indexes[v[i]] = i
    BY <1>1 DEF Agreeing
  <2>6. ASSUME NEW i \in 1 .. n - 1
        PROVE  t.indexes[t.values[i]] = i
    <3>1. i \in 1 .. n /\ i # n
      BY <1>1
    <3>2. CASE i = p
      BY <2>3, <2>4, <3>1, <3>2
    <3>3. CASE i # p
      <4>1. t.values[i] = v[i] /\ v[i] # x /\ v[i] # last
        BY <2>2, <2>4, <2>5, <3>1, <3>3
      <4> QED BY <2>4, <2>5, <3>1, <4>1
    <3> QED BY <3>2, <3>3
  <2>7. ASSUME NEW w \in Word, t.indexes[w] # 0
        PROVE  t.indexes[w] \in 1 .. n - 1 /\ t.values[t.indexes[w]] = w
    <3>1. w # x
      BY <2>4, <2>7
    <3>2. CASE w = last
      <4>1. t.indexes[w] = p /\ p \in 1 .. n - 1
        BY <1>1, <2>1, <2>3, <2>4, <3>1, <3>2
      <4> QED BY <2>4, <3>2, <4>1
    <3>3. CASE w # last
      <4>1. /\ t.indexes[w] = s.indexes[w]
            /\ s.indexes[w] \in 1 .. n /\ v[s.indexes[w]] = w
        BY <2>4, <2>7, <3>1, <3>3 DEF Agreeing
      <4>2. s.indexes[w] # n /\ s.indexes[w] # p
        BY <2>1, <3>1, <3>3, <4>1
      <4>3. s.indexes[w] \in 1 .. n - 1
        BY <1>1, <4>1, <4>2
      <4> QED BY <2>4, <4>1, <4>2, <4>3
    <3> QED BY <3>2, <3>3
  <2>8. Agreeing(t)
    BY <2>4, <2>6, <2>7 DEF Agreeing
  <2>9. \A y \in Element : Contains(t, y) <=> Contains(s, y) /\ y # x
    BY <1>1, <2>1, <2>2, <2>4 DEF Contains
  <2> QED BY <2>8, <2>9 DEF t
<1> QED BY <1>2, <1>3
-----------------------------------------------------------------------------
(* The typed set. *)

LEMMA SetInvariance == SetSpec => []SetInv
<1>1. SetInit => SetInv
  BY EmptyAgrees DEF SetInit, SetInv
<1>2. SetInv /\ [SetNext]_setVars => SetInv'
  <2> SUFFICES ASSUME SetInv, [SetNext]_setVars PROVE SetInv'
    OBVIOUS
  <2>1. ASSUME NEW x \in Element, add(x) PROVE SetInv'
    BY <2>1, AddAgrees, ElementsAreWords DEF add, SetInv
  <2>2. ASSUME NEW x \in Element, remove(x) PROVE SetInv'
    BY <2>2, RemoveAgrees, ElementsAreWords DEF remove, SetInv
  <2>3. CASE UNCHANGED setVars
    BY <2>3 DEF setVars, SetInv
  <2> QED BY <2>1, <2>2, <2>3 DEF SetNext
<1> QED BY <1>1, <1>2, PTL DEF SetSpec

\* Whatever was added and removed, every position of the array is indexed and
\* every index leads to its value.
THEOREM IndexesAlwaysAgree == SetSpec => []IndexesAgree
<1>1. SetInv => IndexesAgree
  BY DEF SetInv, Agreeing, IndexesAgree, Contains
<1> QED BY <1>1, SetInvariance, PTL

\* A loop over the positions, or over values, meets each element of the set
\* once and nothing else.
THEOREM LoopsMeetEachElementOnce == SetSpec => []EnumeratesOnce
<1>1. SetInv => EnumeratesOnce
  <2> SUFFICES ASSUME SetInv PROVE EnumeratesOnce
    OBVIOUS
  <2> DEFINE n == Len(inner.values)
             positions == {i \in 0 .. Length(inner) : CanAt(inner, i)}
  <2>1. n \in Nat /\ inner.values \in Seq(Element)
    BY DEF SetInv, Agreeing
  <2>2. \A i : i \in positions <=> i \in 0 .. n - 1
    BY <2>1 DEF CanAt, Length
  <2>3. \A i \in 0 .. n - 1 : i + 1 \in 1 .. n /\ inner.values[i + 1] \in Element
    BY <2>1
  <2>4. \A i \in 0 .. n - 1 : at(i) = inner.values[i + 1] /\ values[i + 1] = inner.values[i + 1]
    BY <2>1, <2>3, ElementsAreWords DEF at, At, values, Length
  <2> HIDE DEF positions
  <2>5. ASSUME NEW x \in Element
        PROVE  contains(x) <=>
                 \E i \in positions :
                   /\ at(i) = x /\ values[i + 1] = x
                   /\ \A j \in positions : at(j) = x => j = i
    <3>1. x \in Word /\ (contains(x) <=> inner.indexes[x] # 0)
      BY ElementsAreWords DEF contains, Contains
    <3>2. ASSUME contains(x)
          PROVE  \E i \in positions :
                   /\ at(i) = x /\ values[i + 1] = x
                   /\ \A j \in positions : at(j) = x => j = i
      <4> DEFINE i == inner.indexes[x] - 1
      <4>1. inner.indexes[x] \in 1 .. n /\ inner.values[inner.indexes[x]] = x
        BY <3>1, <3>2 DEF SetInv, Agreeing
      <4>2. i \in 0 .. n - 1 /\ i + 1 = inner.indexes[x]
        BY <2>1, <4>1
      <4>3. at(i) = x /\ values[i + 1] = x
        BY <2>4, <4>1, <4>2
      <4>4. ASSUME NEW j \in positions, at(j) = x PROVE j = i
        <5>1. j \in 0 .. n - 1 /\ j + 1 \in 1 .. n /\ inner.values[j + 1] = x
          BY <2>2, <2>3, <2>4, <4>4
        <5>2. inner.indexes[x] = j + 1
          BY <5>1 DEF SetInv, Agreeing
        <5> QED BY <5>1, <5>2
      <4> QED BY <2>2, <4>2, <4>3, <4>4
    <3>3. ASSUME NEW i \in positions, at(i) = x
          PROVE  contains(x)
      <4>1. i \in 0 .. n - 1 /\ i + 1 \in 1 .. n /\ inner.values[i + 1] = x
        BY <2>2, <2>3, <2>4, <3>3
      <4>2. inner.indexes[x] = i + 1
        BY <4>1 DEF SetInv, Agreeing
      <4> QED BY <3>1, <4>1, <4>2
    <3> QED BY <3>2, <3>3
  <2> QED BY <2>5 DEF EnumeratesOnce, positions
<1> QED BY <1>1, SetInvariance, PTL

\* To its user the structure is a set, and add and remove say whether they
\* changed it.
THEOREM SetIsImplemented == SetSpec => ImplementsSet
<1> DEFINE members == {x \in Element : contains(x)}
<1>1. SetInit => Abstract!Init
  <2> SUFFICES ASSUME SetInit PROVE Abstract!Init
    OBVIOUS
  <2>1. \A x \in Element : ~ contains(x)
    BY ElementsAreWords DEF SetInit, EmptySet, contains, Contains
  <2> QED BY <2>1 DEF SetInit, Abstract!Init
<1>2. SetInv /\ [SetNext]_setVars => [Abstract!Next]_<<members, answer>>
  <2> SUFFICES ASSUME SetInv, [SetNext]_setVars
               PROVE  Abstract!Next \/ UNCHANGED <<members, answer>>
    OBVIOUS
  <2>1. ASSUME NEW x \in Element, add(x) PROVE Abstract!Insert(x)
    <3>1. \A y \in Element : contains(y)' <=> contains(y) \/ y = x
      BY <2>1, AddAgrees, ElementsAreWords DEF add, SetInv, contains
    <3>2. members' = members \cup {x}
      BY <3>1
    <3>3. answer' = <<"add", x, x \notin members>>
      BY <2>1 DEF add, contains
    <3> QED BY <3>2, <3>3 DEF Abstract!Insert
  <2>2. ASSUME NEW x \in Element, remove(x) PROVE Abstract!Delete(x)
    <3>1. \A y \in Element : contains(y)' <=> contains(y) /\ y # x
      BY <2>2, RemoveAgrees, ElementsAreWords DEF remove, SetInv, contains
    <3>2. members' = members \ {x}
      BY <3>1
    <3>3. answer' = <<"remove", x, x \in members>>
      <4>1. (x \in members) = contains(x)
        BY DEF contains, Contains
      <4>2. answer' = <<"remove", x, contains(x)>>
        BY <2>2 DEF remove, contains
      <4> QED BY <4>1, <4>2
    <3> QED BY <3>2, <3>3 DEF Abstract!Delete
  <2>3. CASE UNCHANGED setVars
    BY <2>3 DEF setVars, contains
  <2> QED BY <2>1, <2>2, <2>3 DEF SetNext, Abstract!Next
<1> QED BY <1>1, <1>2, SetInvariance, PTL DEF SetSpec, ImplementsSet, Abstract!Spec
=============================================================================
