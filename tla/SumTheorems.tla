---------------------------- MODULE SumTheorems ----------------------------
(***************************************************************************)
(* Facts about SumFunctionOnSet(f, S), the sum of f over a finite set S,   *)
(* for integer-valued f.  They are consequences of its recursion equation, *)
(* proved by induction over the subsets of S in a first-order form: a set  *)
(* of subsets that has {} and is closed under adding an element has all.   *)
(***************************************************************************)
EXTENDS Integers, FiniteSets, Functions, FiniteSetTheorems,
        WellFoundedInduction, TLAPS

(* Induction over the natural numbers, for sets of numbers. *)

\* The relation that the library builds from < holds of smaller numbers.
LEMMA LessThanRelation ==
  \A m, n \in Nat : m < n => <<m, n>> \in OpToRel(<, Nat)
BY Zenon DEF OpToRel

\* Every non-empty set of natural numbers has a least element.
LEMMA NatMin ==
  ASSUME NEW T \in SUBSET Nat, T # {}
  PROVE  \E n \in T : \A k \in T : n <= k
<1>1. IsWellFoundedOn(OpToRel(<, Nat), Nat)
  BY NatLessThanWellFounded, Zenon
<1>2. PICK n \in T : \A k \in T : ~ (<<k, n>> \in OpToRel(<, Nat))
  BY <1>1, WFMin, Zenon
<1>3. \A k \in T : ~ (k < n)
  BY <1>2, LessThanRelation, Zenon
<1> QED BY <1>3

\* A set with 0 that is closed under successor has all natural numbers.
LEMMA NatIndSet ==
  ASSUME NEW T \in SUBSET Nat, 0 \in T, \A n \in Nat : n \in T => n+1 \in T
  PROVE  T = Nat
<1>1. SUFFICES ASSUME NEW m \in Nat, m \notin T PROVE FALSE
  OBVIOUS
<1>2. PICK n \in Nat \ T : \A k \in Nat \ T : n <= k
  BY NatMin, <1>1
<1>3. n # 0 /\ n-1 \in T
  BY <1>2
<1> QED BY <1>2, <1>3

-----------------------------------------------------------------------------
(* Induction over the subsets of a finite set. *)

\* A set of subsets of S with {} and with s \cup {x} for each s in it and each
\* x in S outside s has all subsets of S.
LEMMA FiniteInd ==
  ASSUME NEW S, IsFiniteSet(S), NEW C \in SUBSET SUBSET S, {} \in C,
         \A s \in SUBSET S, x \in S : x \notin s /\ s \in C => s \cup {x} \in C
  PROVE  C = SUBSET S
<1> DEFINE T == {n \in Nat : \A s \in SUBSET S : Cardinality(s) = n => s \in C}
<1> SUFFICES T = Nat
  <2>1. \A s \in SUBSET S : Cardinality(s) \in Nat
    BY FS_Subset, FS_CardinalityType
  <2> QED BY <2>1, Zenon
<1>1. 0 \in T
  <2>1. \A s \in SUBSET S : Cardinality(s) = 0 => s = {}
    BY FS_Subset, FS_EmptySet
  <2> QED BY <2>1
<1>2. ASSUME NEW n \in Nat, n \in T PROVE n+1 \in T
  <2>1. SUFFICES ASSUME NEW s \in SUBSET S, Cardinality(s) = n+1 PROVE s \in C
    OBVIOUS
  <2>2. IsFiniteSet(s)
    BY FS_Subset
  <2>3. PICK x : x \in s
    BY <2>1, <2>2, FS_EmptySet
  <2>4. Cardinality(s \ {x}) = n
    <3>1. Cardinality(s \ {x}) = Cardinality(s) - 1
      BY <2>2, <2>3, FS_RemoveElement, Zenon
    <3> QED BY <2>1, <3>1
  <2>5. s \ {x} \in C
    BY <2>4, <1>2
  <2>6. (s \ {x}) \cup {x} \in C
    BY <2>5, <2>3
  <2>7. (s \ {x}) \cup {x} = s
    BY <2>3
  <2> QED BY <2>6, <2>7
<1> HIDE DEF T
<1>3. T \in SUBSET Nat BY DEF T
<1> QED BY <1>1, <1>2, <1>3, NatIndSet

-----------------------------------------------------------------------------
(* The recursion equation. *)

SumEq(iter, f, S) ==
  iter = [s \in SUBSET S |->
             IF s = {} THEN 0
             ELSE f[CHOOSE x \in s : TRUE] + iter[s \ {CHOOSE x \in s : TRUE}]]

\* The sums of f over the subsets of S.
Sums(f, S) == CHOOSE iter : SumEq(iter, f, S)

\* SumFunctionOnSet is the last value of this recursion.
LEMMA SumIsLast ==
  ASSUME NEW f, NEW S
  PROVE  SumFunctionOnSet(f, S) = Sums(f, S)[S]
BY DEF SumFunctionOnSet, FoldFunctionOnSet, MapThenFoldSet, Sums, SumEq

\* On a finite set the recursion has a solution.
LEMMA IterExists ==
  ASSUME NEW S, IsFiniteSet(S), NEW f 
  PROVE  \E iter : SumEq(iter, f, S)
<1> DEFINE Pick(s) == CHOOSE x \in s : TRUE
           Upto(n) == {s \in SUBSET S : Cardinality(s) <= n}
           Good(g, n) == g = [s \in Upto(n) |-> IF s = {} THEN 0 ELSE f[Pick(s)] + g[s \ {Pick(s)}]]
           T == {n \in Nat : \E g : Good(g, n)}
<1>0. \A s \in SUBSET S : IsFiniteSet(s) /\ Cardinality(s) \in Nat
  BY FS_Subset, FS_CardinalityType
<1>1. 0 \in T
  <2>1. Upto(0) = {{}}
    BY <1>0, FS_EmptySet
  <2>2. Good([s \in {{}} |-> 0], 0)
    BY <2>1
  <2> QED BY <2>2
<1>2. ASSUME NEW n \in Nat, n \in T PROVE n+1 \in T
  <2>1. PICK g : Good(g, n)
    BY <1>2
  <2> DEFINE h == [s \in Upto(n+1) |-> IF s = {} THEN 0 ELSE f[Pick(s)] + g[s \ {Pick(s)}]]
  <2>2. ASSUME NEW s \in Upto(n+1), s # {} PROVE s \ {Pick(s)} \in Upto(n) /\ s \ {Pick(s)} \in Upto(n+1)
    <3>1. Pick(s) \in s
      BY <2>2
    <3>2. IsFiniteSet(s) 
      BY <1>0
    <3> HIDE DEF Pick
    <3>3. Cardinality(s \ {Pick(s)}) = Cardinality(s) - 1
      BY <3>1, <3>2, FS_RemoveElement, Zenon
    <3> QED BY <3>3, <1>0
  <2>3. ASSUME NEW s \in Upto(n) PROVE s \in Upto(n+1) /\ g[s] = h[s]
    <3>1. s \in Upto(n+1)
      BY <1>0
    <3>2. g[s] = IF s = {} THEN 0 ELSE f[Pick(s)] + g[s \ {Pick(s)}]
      BY <2>1, Zenon
    <3> QED BY <3>1, <3>2
  <2>4. \A s \in Upto(n+1) : h[s] = IF s = {} THEN 0 ELSE f[Pick(s)] + h[s \ {Pick(s)}]
    <3> SUFFICES ASSUME NEW s \in Upto(n+1), s # {}
                 PROVE  h[s] = f[Pick(s)] + h[s \ {Pick(s)}]
      OBVIOUS
    <3>1. h[s] = f[Pick(s)] + g[s \ {Pick(s)}]
      OBVIOUS
    <3>2. g[s \ {Pick(s)}] = h[s \ {Pick(s)}]
      BY <2>2, <2>3
    <3> QED BY <3>1, <3>2
  <2> HIDE DEF Upto
  <2>5. h = [s \in Upto(n+1) |-> IF s = {} THEN 0 ELSE f[Pick(s)] + h[s \ {Pick(s)}]]
    BY <2>4
  <2> HIDE DEF h
  <2>6. \E hh : Good(hh, n+1)
    BY <2>5
  <2> QED BY <2>6
<1>3. Cardinality(S) \in T
  <2> HIDE DEF T
  <2>1. T \in SUBSET Nat BY DEF T
  <2> QED BY <1>0, <1>1, <1>2, <2>1, NatIndSet
<1>4. Upto(Cardinality(S)) = SUBSET S
  BY FS_Subset
<1>5. PICK g : Good(g, Cardinality(S))
  BY <1>3
<1>6. SumEq(g, f, S)
  BY <1>4, <1>5, Zenon DEF SumEq
<1> QED BY <1>6

\* So the sums satisfy the recursion equation.
LEMMA SumsEq ==
  ASSUME NEW S, IsFiniteSet(S), NEW f
  PROVE  SumEq(Sums(f, S), f, S)
<1>1. \E iter : SumEq(iter, f, S)
  BY IterExists
<1> QED BY <1>1, Zenon DEF Sums

\* What the sums over subsets are: integers, 0 for {}, and f[x] more with x, whichever element
\* x the recursion itself takes out first.
LEMMA SumsStep ==
  ASSUME NEW S, IsFiniteSet(S), NEW f \in [S -> Int]
  PROVE  /\ Sums(f, S)[{}] = 0
         /\ \A s \in SUBSET S : Sums(f, S)[s] \in Int
         /\ \A s \in SUBSET S, x \in S :
               x \notin s => Sums(f, S)[s \cup {x}] = f[x] + Sums(f, S)[s]
<1> DEFINE iter == Sums(f, S)
           Pick(s) == CHOOSE x \in s : TRUE
           Good(s) == iter[s] \in Int /\ (\A x \in s : iter[s] = f[x] + iter[s \ {x}])
           T == {n \in Nat : \A s \in SUBSET S : Cardinality(s) <= n => Good(s)}
<1>s. SumEq(iter, f, S)
  BY SumsEq
<1> HIDE DEF iter
<1>e. iter[{}] = 0
  BY <1>s DEF SumEq
<1>c. \A s \in SUBSET S : IsFiniteSet(s) /\ Cardinality(s) \in Nat
  BY FS_Subset, FS_CardinalityType
<1>r. ASSUME NEW s \in SUBSET S, NEW x \in s PROVE Cardinality(s \ {x}) = Cardinality(s) - 1
  BY <1>c, FS_RemoveElement, Zenon
<1>0. 0 \in T
  BY <1>c, <1>e, FS_EmptySet
<1>1. ASSUME NEW n \in Nat, n \in T PROVE n+1 \in T
  <2> SUFFICES ASSUME NEW s \in SUBSET S, Cardinality(s) <= n+1 PROVE Good(s)
    OBVIOUS
  <2>1. CASE s = {}
    BY <2>1, <1>e
  <2>2. CASE s # {}
    <3> DEFINE c == Pick(s)
    <3>1. c \in s
      BY <2>2
    <3>2. iter[s] = f[c] + iter[s \ {c}]
      BY <2>2, <1>s DEF SumEq
    <3> HIDE DEF c
    <3>3. Good(s \ {c})
      BY <1>r, <1>c, <1>1, <3>1
    <3>4. iter[s] \in Int
      BY <3>2, <3>3, <3>1
    <3>5. ASSUME NEW x \in s, x # c PROVE iter[s] = f[x] + iter[s \ {x}]
      <4>1. Good(s \ {x})
        <5>1. Cardinality(s \ {x}) = Cardinality(s) - 1
          BY <1>r
        <5>2. Cardinality(s \ {x}) <= n /\ s \ {x} \in SUBSET S
          BY <5>1, <1>c
        <5> QED BY <5>2, <1>1
      <4>2. iter[s \ {c}] = f[x] + iter[(s \ {c}) \ {x}]
        BY <3>3, <3>5
      <4>3. iter[s \ {x}] = f[c] + iter[(s \ {x}) \ {c}]
        BY <4>1, <3>1, <3>5
      <4>4. (s \ {x}) \ {c} = (s \ {c}) \ {x}
        OBVIOUS
      <4>5. Good((s \ {c}) \ {x})
        <5>1. x \in s \ {c} /\ s \ {c} \in SUBSET S
          BY <3>5
        <5>2. Cardinality(s \ {c}) = Cardinality(s) - 1
          BY <1>r, <3>1
        <5>3. Cardinality((s \ {c}) \ {x}) = Cardinality(s \ {c}) - 1
          BY <1>r, <5>1
        <5>4. Cardinality((s \ {c}) \ {x}) <= n
          BY <5>2, <5>3, <1>c
        <5>5. (s \ {c}) \ {x} \in SUBSET S
          OBVIOUS
        <5> QED BY <5>4, <5>5, <1>1
      <4>6. f[x] \in Int /\ f[c] \in Int /\ iter[(s \ {c}) \ {x}] \in Int
        BY <4>5, <3>1
      <4>7. iter[s \ {x}] = f[c] + iter[(s \ {c}) \ {x}]
        BY <4>3, <4>4
      <4> HIDE DEF Good
      <4> QED BY <4>2, <4>7, <4>6, <3>2
    <3> QED BY <3>2, <3>4, <3>5
  <2> QED BY <2>1, <2>2
<1> HIDE DEF T
<1>2. T \in SUBSET Nat BY DEF T
<1>3. T = Nat
  BY <1>0, <1>1, <1>2, NatIndSet
<1>4. \A s \in SUBSET S : Good(s)
  BY <1>3, <1>c DEF T
<1>5. ASSUME NEW s \in SUBSET S, NEW x \in S, x \notin s
      PROVE  iter[s \cup {x}] = f[x] + iter[s]
  <2>1. s \cup {x} \in SUBSET S /\ x \in s \cup {x}
    OBVIOUS
  <2>2. iter[s \cup {x}] = f[x] + iter[(s \cup {x}) \ {x}]
    BY <2>1, <1>4
  <2>3. (s \cup {x}) \ {x} = s
    BY <1>5
  <2> QED BY <2>2, <2>3
<1>6. \A s \in SUBSET S : iter[s] \in Int
  BY <1>4
<1> QED BY <1>e, <1>5, <1>6 DEF iter

-----------------------------------------------------------------------------
(* The facts to cite. *)

\* A sum of integers is an integer.
LEMMA SumType ==
  ASSUME NEW S, IsFiniteSet(S), NEW f \in [S -> Int]
  PROVE  SumFunctionOnSet(f, S) \in Int
BY SumsStep, SumIsLast

\* Functions that differ at one element have sums that differ by as much.
LEMMA SumUpdate ==
  ASSUME NEW S, IsFiniteSet(S), NEW f \in [S -> Int], NEW g \in [S -> Int], NEW x \in S,
         \A y \in S : y # x => g[y] = f[y]
  PROVE  SumFunctionOnSet(g, S) = (SumFunctionOnSet(f, S) - f[x]) + g[x]
<1> DEFINE F == Sums(f, S)
           G == Sums(g, S)
           C == {s \in SUBSET S : x \notin s => F[s] = G[s]}
<1>1. /\ F[{}] = 0
      /\ \A s \in SUBSET S : F[s] \in Int
      /\ \A s \in SUBSET S, y \in S : y \notin s => F[s \cup {y}] = f[y] + F[s]
  BY SumsStep
<1>2. /\ G[{}] = 0
      /\ \A s \in SUBSET S : G[s] \in Int
      /\ \A s \in SUBSET S, y \in S : y \notin s => G[s \cup {y}] = g[y] + G[s]
  BY SumsStep
<1>3. SumFunctionOnSet(f, S) = F[S] /\ SumFunctionOnSet(g, S) = G[S]
  BY SumIsLast
<1> HIDE DEF F, G
<1>4. {} \in C
  BY <1>1, <1>2
<1>5. ASSUME NEW s \in SUBSET S, NEW y \in S, y \notin s, s \in C
      PROVE  s \cup {y} \in C
  <2>1. SUFFICES ASSUME x \notin s, y # x
                 PROVE  F[s \cup {y}] = G[s \cup {y}]
    OBVIOUS
  <2>2. F[s \cup {y}] = f[y] + F[s] /\ G[s \cup {y}] = g[y] + G[s]
    BY <1>1, <1>2, <1>5
  <2>3. f[y] = g[y] /\ F[s] = G[s]
    BY <2>1, <1>5
  <2> QED BY <2>2, <2>3
<1>6. S \ {x} \in C
  <2> HIDE DEF C
  <2>1. C \in SUBSET SUBSET S
    BY DEF C
  <2>2. C = SUBSET S
    BY <1>4, <1>5, <2>1, FiniteInd
  <2> QED BY <2>2
<1>7. F[S] = f[x] + F[S \ {x}] /\ G[S] = g[x] + G[S \ {x}]
  <2>1. (S \ {x}) \cup {x} = S /\ x \notin S \ {x} /\ S \ {x} \in SUBSET S
    OBVIOUS
  <2> QED BY <2>1, <1>1, <1>2
<1>8. F[S \ {x}] = G[S \ {x}] /\ F[S \ {x}] \in Int /\ f[x] \in Int /\ g[x] \in Int
  BY <1>6, <1>1
<1>9. G[S] = (F[S] - f[x]) + g[x]
  BY <1>7, <1>8
<1> QED BY <1>3, <1>9

\* Sums are linear.
LEMMA SumLinear ==
  ASSUME NEW S, IsFiniteSet(S), NEW f \in [S -> Int], NEW g \in [S -> Int],
         NEW h \in [S -> Int], NEW d \in Int, \A x \in S : h[x] = f[x] + d * g[x]
  PROVE  SumFunctionOnSet(h, S) = SumFunctionOnSet(f, S) + d * SumFunctionOnSet(g, S)
<1> DEFINE F == Sums(f, S)
           G == Sums(g, S)
           H == Sums(h, S)
           C == {s \in SUBSET S : H[s] = F[s] + d * G[s]}
<1>1. /\ F[{}] = 0
      /\ \A s \in SUBSET S : F[s] \in Int
      /\ \A s \in SUBSET S, y \in S : y \notin s => F[s \cup {y}] = f[y] + F[s]
  BY SumsStep
<1>2. /\ G[{}] = 0
      /\ \A s \in SUBSET S : G[s] \in Int
      /\ \A s \in SUBSET S, y \in S : y \notin s => G[s \cup {y}] = g[y] + G[s]
  BY SumsStep
<1>3. /\ H[{}] = 0
      /\ \A s \in SUBSET S : H[s] \in Int
      /\ \A s \in SUBSET S, y \in S : y \notin s => H[s \cup {y}] = h[y] + H[s]
  BY SumsStep
<1>4. /\ SumFunctionOnSet(f, S) = F[S]
      /\ SumFunctionOnSet(g, S) = G[S]
      /\ SumFunctionOnSet(h, S) = H[S]
  BY SumIsLast
<1> HIDE DEF F, G, H
<1>5. {} \in C
  BY <1>1, <1>2, <1>3
<1>6. ASSUME NEW s \in SUBSET S, NEW y \in S, y \notin s, s \in C
      PROVE  s \cup {y} \in C
  <2>1. F[s \cup {y}] = f[y] + F[s] /\ F[s] \in Int
    BY <1>1, <1>6
  <2>2. G[s \cup {y}] = g[y] + G[s] /\ G[s] \in Int
    BY <1>2, <1>6
  <2>3. H[s \cup {y}] = h[y] + H[s] /\ H[s] = F[s] + d * G[s]
    BY <1>3, <1>6
  <2>4. h[y] = f[y] + d * g[y] /\ f[y] \in Int /\ g[y] \in Int
    OBVIOUS
  <2>5. d * (g[y] + G[s]) = d * g[y] + d * G[s]
    BY <2>2, <2>4
  <2>6. d * g[y] \in Int /\ d * G[s] \in Int
    BY <2>2, <2>4
  <2>7. H[s \cup {y}] = F[s \cup {y}] + d * G[s \cup {y}]
    BY <2>1, <2>2, <2>3, <2>4, <2>5, <2>6
  <2> QED BY <2>7
<1>7. S \in C
  <2> HIDE DEF C
  <2>1. C \in SUBSET SUBSET S
    BY DEF C
  <2>2. \A s \in SUBSET S, y \in S : y \notin s /\ s \in C => s \cup {y} \in C
    BY <1>6
  <2>3. C = SUBSET S
    BY <1>5, <2>1, <2>2, FiniteInd, Zenon
  <2> QED BY <2>3
<1> QED BY <1>4, <1>7

\* The sum of a function that is 0 everywhere is 0.
LEMMA SumZero ==
  ASSUME NEW S, IsFiniteSet(S), NEW f \in [S -> Int], \A x \in S : f[x] = 0
  PROVE  SumFunctionOnSet(f, S) = 0
<1>1. \A x \in S : f[x] = f[x] + 1 * f[x]
  OBVIOUS
<1>2. SumFunctionOnSet(f, S) = SumFunctionOnSet(f, S) + 1 * SumFunctionOnSet(f, S)
  BY <1>1, SumLinear
<1>3. SumFunctionOnSet(f, S) \in Int
  BY SumType
<1> DEFINE t == SumFunctionOnSet(f, S)
<1> HIDE DEF t
<1>4. t \in Int /\ t = t + 1 * t
  BY <1>2, <1>3 DEF t
<1>5. t = 0
  BY <1>4
<1> QED BY <1>5 DEF t

\* A sum of natural numbers is one, and no summand exceeds it.
LEMMA SumNonNeg ==
  ASSUME NEW S, IsFiniteSet(S), NEW f \in [S -> Int], \A x \in S : f[x] >= 0
  PROVE  /\ SumFunctionOnSet(f, S) >= 0
         /\ \A x \in S : f[x] <= SumFunctionOnSet(f, S)
<1> DEFINE F == Sums(f, S)
           C == {s \in SUBSET S : F[s] >= 0}
<1>1. /\ F[{}] = 0
      /\ \A s \in SUBSET S : F[s] \in Int
      /\ \A s \in SUBSET S, y \in S : y \notin s => F[s \cup {y}] = f[y] + F[s]
  BY SumsStep
<1>2. SumFunctionOnSet(f, S) = F[S]
  BY SumIsLast
<1> HIDE DEF F
<1>3. {} \in C
  BY <1>1
<1>4. ASSUME NEW s \in SUBSET S, NEW y \in S, y \notin s, s \in C
      PROVE  s \cup {y} \in C
  <2>1. F[s \cup {y}] = f[y] + F[s] /\ F[s] \in Int /\ F[s] >= 0
    BY <1>1, <1>4
  <2>2. f[y] \in Int /\ f[y] >= 0
    OBVIOUS
  <2>3. F[s \cup {y}] >= 0
    BY <2>1, <2>2
  <2> QED BY <2>3
<1>5. C = SUBSET S
  <2> HIDE DEF C
  <2>1. C \in SUBSET SUBSET S
    BY DEF C
  <2> QED BY <1>3, <1>4, <2>1, FiniteInd
<1>6. F[S] >= 0
  BY <1>5
<1>7. ASSUME NEW x \in S PROVE f[x] <= F[S]
  <2>1. (S \ {x}) \cup {x} = S /\ x \notin S \ {x} /\ S \ {x} \in SUBSET S
    OBVIOUS
  <2>2. F[S] = f[x] + F[S \ {x}] /\ F[S \ {x}] \in Int
    BY <2>1, <1>1
  <2>3. F[S \ {x}] >= 0
    BY <2>1, <1>5
  <2>4. f[x] \in Int
    OBVIOUS
  <2> QED BY <2>2, <2>3, <2>4
<1> QED BY <1>2, <1>6, <1>7

\* Sums are monotone.
LEMMA SumMonotone ==
  ASSUME NEW S, IsFiniteSet(S), NEW f \in [S -> Int], NEW g \in [S -> Int],
         \A x \in S : f[x] <= g[x]
  PROVE  SumFunctionOnSet(f, S) <= SumFunctionOnSet(g, S)
<1> DEFINE h == [x \in S |-> g[x] - f[x]]
<1>1. h \in [S -> Int] /\ \A x \in S : h[x] >= 0 /\ g[x] = f[x] + 1 * h[x]
  OBVIOUS
<1> HIDE DEF h
<1>2. SumFunctionOnSet(g, S) = SumFunctionOnSet(f, S) + 1 * SumFunctionOnSet(h, S)
  BY <1>1, SumLinear
<1>3. SumFunctionOnSet(h, S) >= 0
  BY <1>1, SumNonNeg
<1>4. SumFunctionOnSet(f, S) \in Int /\ SumFunctionOnSet(h, S) \in Int
  BY <1>1, SumType
<1> QED BY <1>2, <1>3, <1>4

\* The sum of a constant.
LEMMA SumConstant ==
  ASSUME NEW S, IsFiniteSet(S), NEW m \in Int
  PROVE  SumFunctionOnSet([x \in S |-> m], S) = m * Cardinality(S)
<1> DEFINE f == [x \in S |-> m]
           F == Sums(f, S)
           C == {s \in SUBSET S : F[s] = m * Cardinality(s)}
<1>1. f \in [S -> Int] /\ \A x \in S : f[x] = m
  OBVIOUS
<1> HIDE DEF f
<1>2. /\ F[{}] = 0
      /\ \A s \in SUBSET S : F[s] \in Int
      /\ \A s \in SUBSET S, y \in S : y \notin s => F[s \cup {y}] = f[y] + F[s]
  BY <1>1, SumsStep
<1>3. SumFunctionOnSet(f, S) = F[S]
  BY SumIsLast
<1> HIDE DEF F
<1>4. {} \in C
  <2>1. Cardinality({}) = 0
    BY FS_EmptySet
  <2>2. m * 0 = 0
    OBVIOUS
  <2> QED BY <1>2, <2>1, <2>2
<1>5. ASSUME NEW s \in SUBSET S, NEW y \in S, y \notin s, s \in C
      PROVE  s \cup {y} \in C
  <2>1. IsFiniteSet(s) /\ Cardinality(s) \in Nat
    BY FS_Subset, FS_CardinalityType
  <2>2. Cardinality(s \cup {y}) = Cardinality(s) + 1
    BY <1>5, <2>1, FS_AddElement
  <2>3. F[s \cup {y}] = m + m * Cardinality(s)
    BY <1>1, <1>2, <1>5
  <2>4. m * (Cardinality(s) + 1) = m + m * Cardinality(s)
    BY <2>1
  <2> QED BY <2>2, <2>3, <2>4
<1>6. C = SUBSET S
  <2> HIDE DEF C
  <2>1. C \in SUBSET SUBSET S
    BY DEF C
  <2>2. \A s \in SUBSET S, y \in S : y \notin s /\ s \in C => s \cup {y} \in C
    BY <1>5
  <2> QED BY <1>4, <2>1, <2>2, FiniteInd, Zenon
<1>7. F[S] = m * Cardinality(S)
  BY <1>6
<1> QED BY <1>3, <1>7 DEF f
=============================================================================
