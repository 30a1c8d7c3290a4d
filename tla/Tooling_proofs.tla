--------------------------- MODULE Tooling_proofs ---------------------------
(***************************************************************************)
(* Proofs about the library's tooling: the prover runner, the release      *)
(* workflow, the update of the docs branches, the comparison of gas        *)
(* reports, the import migration and the check of the inheritance order.   *)
(* Each starts from an inductive invariant of its process.                 *)
(***************************************************************************)
EXTENDS CertoraRun, ReleaseCycle, DocsBranch, GasReport, MigrateImports,
        InheritanceOrder, SumTheorems, FiniteSetTheorems, SequenceTheorems, TLAPS

(***************************************************************************)
(* The prover runner.                                                      *)
(***************************************************************************)
\* What a row may begin with.
Label == Entries \cup {Header.row}

\* Types of the variables of the runner.
RunType ==
  /\ process \in {"up", "exited"} /\ exitCode \in {0, 1}
  /\ queue \in Seq(Entries)
  /\ active \in SUBSET Entries /\ closing \in SUBSET Entries
  /\ child \in [Entries -> {"none", "alive", "ok", "failed"}]
  /\ unread \in [Entries -> Int] /\ collected \in [Entries -> Int]
  /\ table \in Seq([row : Label, failed : BOOLEAN, link : BOOLEAN])

\* The rows: the header, then one row for each child that was reported.
TableInv ==
  /\ table # <<>> => table[1] = Header
  /\ \A i \in DOMAIN table : i # 1 =>
       /\ table[i].row \in Entries
       /\ child[table[i].row] = (IF table[i].failed THEN "failed" ELSE "ok")
  /\ \A i, j \in DOMAIN table : table[i].row = table[j].row => i = j

\* A call waits for a place, for the exit of its child, for its output, or is
\* reported, and its child is as far.
PlacesInv ==
  /\ \A i \in DOMAIN queue : child[queue[i]] = "none"
  /\ \A i, j \in DOMAIN queue : queue[i] = queue[j] => i = j
  /\ \A e \in active : child[e] # "none" /\ e \notin closing /\ e \notin Reported
  /\ \A e \in closing : child[e] \in {"ok", "failed"} /\ e \notin Reported
  /\ \A e \in Entries : child[e] = "alive" => e \in active

\* The exit code: nothing that was selected or asked for is lost without it.
ExitInv ==
  /\ \A e \in closing \cup Reported : child[e] = "failed" => exitCode = 1
  /\ process = "up" \/ exitCode = 0 =>
       /\ NotFound = {}
       /\ \A s \in Selected : \/ \E i \in DOMAIN queue : queue[i] = s
                              \/ s \in active \cup closing \cup Reported
  /\ process = "exited" /\ exitCode = 0 => queue = <<>> /\ Running = {}

RunInv == RunType /\ TableInv /\ PlacesInv /\ ExitInv

-----------------------------------------------------------------------------
(* specs.filter: the sequence has what is kept, each once. *)

FilterEq(upto, kept) ==
  upto = [n \in 0 .. Len(Specs) |->
            IF n = 0 THEN <<>>
            ELSE IF Specs[n] \in kept THEN Append(upto[n - 1], Specs[n]) ELSE upto[n - 1]]

\* What is kept of the first entries.
Filtered(kept) == CHOOSE upto : FilterEq(upto, kept)

LEMMA FilterIsLast ==
  ASSUME NEW kept
  PROVE  filter(kept) = Filtered(kept)[Len(Specs)]
BY DEF filter, Filtered, FilterEq

\* The recursion has a solution.
LEMMA FilterExists ==
  ASSUME NEW kept
  PROVE  \E upto : FilterEq(upto, kept)
<1> DEFINE Step(g, n) == IF n = 0 THEN <<>>
                         ELSE IF Specs[n] \in kept THEN Append(g[n - 1], Specs[n]) ELSE g[n - 1]
           Good(g, m) == g = [n \in 0 .. m |-> Step(g, n)]
           T == {m \in Nat : \E g : Good(g, m)}
<1>1. 0 \in T
  <2>1. Good([n \in 0 .. 0 |-> <<>>], 0)
    OBVIOUS
  <2> QED BY <2>1
<1>2. ASSUME NEW m \in Nat, m \in T PROVE m + 1 \in T
  <2>1. PICK g : Good(g, m)
    BY <1>2
  <2> DEFINE h == [n \in 0 .. m + 1 |-> Step(g, n)]
  <2>2. \A n \in 0 .. m : g[n] = h[n]
    <3>1. \A n \in 0 .. m : g[n] = Step(g, n)
      BY <2>1, Zenon
    <3>2. \A n \in 0 .. m : n \in 0 .. m + 1
      OBVIOUS
    <3> QED BY <3>1, <3>2, Zenon
  <2>3. \A n \in 0 .. m + 1 : n # 0 => n - 1 \in 0 .. m
    OBVIOUS
  <2> HIDE DEF h
  <2>4. \A n \in 0 .. m + 1 : Step(g, n) = Step(h, n)
    BY <2>2, <2>3
  <2> HIDE DEF Step
  <2>5. h = [n \in 0 .. m + 1 |-> Step(h, n)]
    BY <2>4 DEF h
  <2>6. Good(h, m + 1)
    BY <2>5
  <2> QED BY <2>6
<1>3. T = Nat
  <2> HIDE DEF Good
  <2>1. T \in SUBSET Nat
    OBVIOUS
  <2> HIDE DEF T
  <2> QED BY <1>1, <1>2, <2>1, NatIndSet
<1>4. Len(Specs) \in Nat
  BY CertoraAssumption
<1>5. PICK g : Good(g, Len(Specs))
  BY <1>3, <1>4
<1>6. FilterEq(g, kept)
  BY <1>5, Zenon DEF FilterEq
<1> QED BY <1>6

LEMMA FilterKeeps ==
  ASSUME NEW kept
  PROVE  /\ filter(kept) \in Seq(Entries)
         /\ \A i, j \in DOMAIN filter(kept) : filter(kept)[i] = filter(kept)[j] => i = j
         /\ \A e \in Entries : e \in kept => \E i \in DOMAIN filter(kept) : filter(kept)[i] = e
<1> DEFINE f == Filtered(kept)
           Upto(n) == {Specs[i] : i \in 1 .. n}
           Good(n) == /\ f[n] \in Seq(Entries)
                      /\ \A i \in DOMAIN f[n] : f[n][i] \in Upto(n)
                      /\ \A i, j \in DOMAIN f[n] : f[n][i] = f[n][j] => i = j
                      /\ \A e \in Upto(n) : e \in kept => \E i \in DOMAIN f[n] : f[n][i] = e
           T == {n \in Nat : n <= Len(Specs) => Good(n)}
<1>s. /\ Len(Specs) \in Nat /\ DOMAIN Specs = 1 .. Len(Specs)
      /\ \A i, j \in 1 .. Len(Specs) : Specs[i] = Specs[j] => i = j
      /\ Entries = Upto(Len(Specs))
  BY CertoraAssumption DEF Entries, Range, IsInjective
<1>e. FilterEq(f, kept)
  BY FilterExists, Zenon DEF Filtered
<1> HIDE DEF f
<1>f. \A n \in 0 .. Len(Specs) :
        f[n] = IF n = 0 THEN <<>>
               ELSE IF Specs[n] \in kept THEN Append(f[n - 1], Specs[n]) ELSE f[n - 1]
  BY <1>e, Zenon DEF FilterEq
<1>1. 0 \in T
  <2>1. f[0] = <<>>
    BY <1>f, <1>s
  <2>2. Upto(0) = {}
    OBVIOUS
  <2>3. Good(0)
    BY <2>1, <2>2
  <2> QED BY <2>3
<1>2. ASSUME NEW m \in Nat, m \in T PROVE m + 1 \in T
  <2> SUFFICES ASSUME m + 1 <= Len(Specs) PROVE Good(m + 1)
    OBVIOUS
  <2> DEFINE n == m + 1
  <2>1. Good(m)
    BY <1>2, <1>s
  <2>2. f[n] = IF Specs[n] \in kept THEN Append(f[m], Specs[n]) ELSE f[m]
    BY <1>f, <1>s
  <2>3. Specs[n] \in Entries /\ Specs[n] \notin Upto(m) /\ Upto(n) = Upto(m) \cup {Specs[n]}
    <3>1. Specs[n] \in Entries
      BY <1>s
    <3>2. Specs[n] \notin Upto(m)
      BY <1>s
    <3>3. Upto(n) = Upto(m) \cup {Specs[n]}
      <4>1. 1 .. n = (1 .. m) \cup {n}
        OBVIOUS
      <4> HIDE DEF n
      <4> QED BY <4>1
    <3> QED BY <3>1, <3>2, <3>3
  <2> DEFINE s == f[m]
             x == Specs[n]
             U == Upto(m)
             V == Upto(n)
  <2> HIDE DEF n, s, x, U, V
  <2>4. CASE x \notin kept
    <3>1. f[n] = s
      BY <2>2, <2>4 DEF s, x
    <3>2. s \in Seq(Entries) /\ (\A i \in DOMAIN s : s[i] \in U)
           /\ (\A i, j \in DOMAIN s : s[i] = s[j] => i = j)
           /\ (\A e \in U : e \in kept => \E i \in DOMAIN s : s[i] = e)
      BY <2>1, Zenon DEF s, U
    <3>3. V = U \cup {x}
      BY <2>3 DEF V, U, x
    <3>4. /\ s \in Seq(Entries) /\ (\A i \in DOMAIN s : s[i] \in V)
          /\ (\A i, j \in DOMAIN s : s[i] = s[j] => i = j)
          /\ (\A e \in V : e \in kept => \E i \in DOMAIN s : s[i] = e)
      BY <3>2, <3>3, <2>4, Zenon
    <3> QED BY <3>1, <3>4, Zenon DEF V, n
  <2>5. CASE x \in kept
    <3>1. f[n] = Append(s, x)
      BY <2>2, <2>5 DEF s, x
    <3>2. s \in Seq(Entries) /\ (\A i \in DOMAIN s : s[i] \in U)
           /\ (\A i, j \in DOMAIN s : s[i] = s[j] => i = j)
           /\ (\A e \in U : e \in kept => \E i \in DOMAIN s : s[i] = e)
      BY <2>1, Zenon DEF s, U
    <3>3. V = U \cup {x} /\ x \notin U /\ x \in Entries
      BY <2>3 DEF V, U, x
    <3> DEFINE t == Append(s, x)
    <3>4. /\ t \in Seq(Entries) /\ Len(s) \in Nat /\ Len(t) = Len(s) + 1
          /\ DOMAIN s = 1 .. Len(s) /\ DOMAIN t = 1 .. Len(t)
          /\ \A i \in 1 .. Len(s) : t[i] = s[i]
          /\ t[Len(s) + 1] = x
      BY <3>2, <3>3
    <3> HIDE DEF t
    <3>5. \A i \in DOMAIN t : t[i] \in V
      BY <3>2, <3>3, <3>4
    <3>6. \A i, j \in DOMAIN t : t[i] = t[j] => i = j
      BY <3>2, <3>3, <3>4
    <3>7. \A e \in V : e \in kept => \E i \in DOMAIN t : t[i] = e
      BY <3>2, <3>3, <3>4
    <3> QED BY <3>1, <3>4, <3>5, <3>6, <3>7, Zenon DEF V, n, t
  <2> QED BY <2>4, <2>5
<1>3. T = Nat
  <2> HIDE DEF Good
  <2>1. T \in SUBSET Nat
    OBVIOUS
  <2> HIDE DEF T
  <2> QED BY <1>1, <1>2, <2>1, NatIndSet
<1>4. Good(Len(Specs))
  <2> HIDE DEF Good
  <2> QED BY <1>3, <1>s
<1>5. filter(kept) = f[Len(Specs)]
  BY FilterIsLast DEF f
<1> QED BY <1>4, <1>5, <1>s, Zenon

-----------------------------------------------------------------------------
(* The invariant of the runner. *)

LEMMA LabelFacts == Entries \subseteq Label /\ Header.row \in Label /\ Header.row \notin Entries
<1>1. Header.row = [spec |-> "spec", contract |-> "contract"]
  BY DEF Header, Row
<1> QED BY <1>1, CertoraAssumption, Zenon DEF Entries, Label

LEMMA RunInitInv == RunInit => RunInv
<1> SUFFICES ASSUME RunInit PROVE RunInv
  OBVIOUS
<1>1. /\ filter(Selected) \in Seq(Entries)
      /\ \A i, j \in DOMAIN filter(Selected) : filter(Selected)[i] = filter(Selected)[j] => i = j
      /\ \A e \in Entries : e \in Selected => \E i \in DOMAIN filter(Selected) : filter(Selected)[i] = e
  BY FilterKeeps
<1>2. /\ queue \in Seq(Entries)
      /\ \A i, j \in DOMAIN queue : queue[i] = queue[j] => i = j
      /\ process \in {"up", "exited"} /\ exitCode \in {0, 1}
      /\ process = "up" \/ exitCode = 0 =>
           NotFound = {} /\ \A s \in Selected : \E i \in DOMAIN queue : queue[i] = s
      /\ process = "exited" => exitCode # 0
  <2>1. CASE NotFound # {}
    BY <2>1 DEF RunInit
  <2>2. CASE NotFound = {}
    <3>1. Selected \subseteq Entries
      BY DEF Selected
    <3>2. queue = filter(Selected) /\ process = "up" /\ exitCode = 0
      BY <2>2 DEF RunInit
    <3> QED BY <1>1, <2>2, <3>1, <3>2
  <2> QED BY <2>1, <2>2
<1>3. /\ active = {} /\ closing = {} /\ table = <<>>
      /\ child = [e \in Entries |-> "none"]
      /\ unread = [e \in Entries |-> 0] /\ collected = [e \in Entries |-> 0]
  BY DEF RunInit
<1>4. Reported = {}
  BY <1>3 DEF Reported
<1>5. RunType
  BY <1>2, <1>3 DEF RunType
<1>6. TableInv
  BY <1>3 DEF TableInv
<1>7. PlacesInv
  BY <1>2, <1>3 DEF PlacesInv
<1>8. ExitInv
  BY <1>2, <1>3, <1>4 DEF ExitInv
<1> QED BY <1>5, <1>6, <1>7, <1>8 DEF RunInv

\* What a step that leaves the requests and the table alone does not change.
LEMMA RunSame ==
  ASSUME UNCHANGED <<args, table>>
  PROVE  Selected' = Selected /\ NotFound' = NotFound /\ Reported' = Reported
BY DEF args, Selected, NotFound, Reported

LEMMA SpawnInv ==
  ASSUME RunInv, spawn
  PROVE  /\ RunInv'
         /\ Head(queue) \in Entries
         /\ Head(queue) \notin active \cup closing \cup Reported
<1> DEFINE q == Head(queue)
<1>q. q = Head(queue)
  OBVIOUS
<1>1. /\ queue \in Seq(Entries) /\ queue # <<>> /\ Len(queue) \in Nat
      /\ process = "up" /\ queue' = Tail(queue)
      /\ active' = active \cup {q} /\ child' = [child EXCEPT ![q] = "alive"]
      /\ UNCHANGED <<args, process, exitCode, closing, unread, collected, table>>
  BY DEF RunInv, RunType, spawn, CanStart
<1>2. /\ q = queue[1] /\ q \in Entries /\ 1 \in DOMAIN queue
      /\ queue' \in Seq(Entries) /\ DOMAIN queue' = 1 .. Len(queue) - 1
      /\ \A i \in DOMAIN queue' : queue'[i] = queue[i + 1] /\ i + 1 \in DOMAIN queue /\ i + 1 # 1
      /\ \A i \in DOMAIN queue : i # 1 => i - 1 \in DOMAIN queue' /\ queue'[i - 1] = queue[i]
  BY <1>1, HeadTailProperties
<1> HIDE DEF q
<1>3. Selected' = Selected /\ NotFound' = NotFound /\ Reported' = Reported
  BY <1>1, RunSame
<1>4. child[q] = "none" /\ q \notin active /\ q \notin closing /\ q \notin Reported
  <2>1. child[q] = "none"
    BY <1>2 DEF RunInv, PlacesInv
  <2>2. q \notin active /\ q \notin closing
    BY <2>1 DEF RunInv, PlacesInv
  <2>3. q \notin Reported
    <3>1. SUFFICES ASSUME NEW i \in DOMAIN table, table[i].row = q PROVE FALSE
      BY DEF Reported
    <3>2. i # 1
      <4>1. table # <<>>
        BY <3>1
      <4> QED BY <4>1, <3>1, <1>2, LabelFacts DEF RunInv, TableInv
    <3> QED BY <3>1, <3>2, <2>1 DEF RunInv, TableInv
  <2> QED BY <2>1, <2>2, <2>3
<1>5. child' \in [Entries -> {"none", "alive", "ok", "failed"}]
      /\ child'[q] = "alive" /\ \A e \in Entries : e # q => child'[e] = child[e]
  BY <1>1, <1>2 DEF RunInv, RunType
<1>6. RunType'
  BY <1>1, <1>2, <1>5 DEF RunInv, RunType
<1>7. TableInv'
  <2>1. \A i \in DOMAIN table : i # 1 => table[i].row \in Entries /\ table[i].row # q
    BY <1>4 DEF RunInv, TableInv, Reported
  <2> QED BY <1>1, <1>5, <2>1 DEF RunInv, TableInv
<1>8. PlacesInv'
  <2>1. \A i \in DOMAIN queue : i # 1 => queue[i] # q /\ queue[i] \in Entries
    BY <1>1, <1>2 DEF RunInv, PlacesInv
  <2>2. \A i \in DOMAIN queue' : child'[queue'[i]] = "none"
    <3>1. \A i \in DOMAIN queue : i # 1 => child'[queue[i]] = "none"
      BY <2>1, <1>5 DEF RunInv, PlacesInv
    <3> QED BY <3>1, <1>2
  <2>3. \A i, j \in DOMAIN queue' : queue'[i] = queue'[j] => i = j
    <3>1. SUFFICES ASSUME NEW i \in DOMAIN queue', NEW j \in DOMAIN queue', queue'[i] = queue'[j]
                   PROVE i = j
      OBVIOUS
    <3>2. i + 1 = j + 1
      BY <3>1, <1>2 DEF RunInv, PlacesInv
    <3> QED BY <3>2, <1>2, <1>1
  <2>4. \A e \in active' : child'[e] # "none" /\ e \notin closing' /\ e \notin Reported'
    BY <1>1, <1>3, <1>4, <1>5 DEF RunInv, PlacesInv, RunType
  <2>5. \A e \in closing' : child'[e] \in {"ok", "failed"} /\ e \notin Reported'
    BY <1>1, <1>3, <1>4, <1>5 DEF RunInv, PlacesInv, RunType
  <2>6. \A e \in Entries' : child'[e] = "alive" => e \in active'
    <3>1. Entries' = Entries /\ \A e \in Entries : e # q => child'[e] = child[e]
      BY <1>1, <1>2 DEF Entries, RunInv, RunType
    <3> QED BY <1>1, <3>1 DEF RunInv, PlacesInv
  <2> QED BY <2>2, <2>3, <2>4, <2>5, <2>6 DEF PlacesInv
<1>9. ExitInv'
  <2>1. \A e \in closing' \cup Reported' : child'[e] = "failed" => exitCode' = 1
    BY <1>1, <1>3, <1>4, <1>5 DEF RunInv, ExitInv, RunType, Reported
  <2>2. \A s \in Selected' : \/ \E i \in DOMAIN queue' : queue'[i] = s
                             \/ s \in active' \cup closing' \cup Reported'
    <3>1. SUFFICES ASSUME NEW s \in Selected, NEW i \in DOMAIN queue, queue[i] = s
                   PROVE  s \in active' \/ \E j \in DOMAIN queue' : queue'[j] = s
      BY <1>1, <1>3 DEF RunInv, ExitInv
    <3>2. CASE i = 1
      BY <3>1, <3>2, <1>1, <1>2
    <3>3. CASE i # 1
      BY <3>1, <3>3, <1>2
    <3> QED BY <3>2, <3>3
  <2>3. NotFound' = {}
    BY <1>1, <1>3 DEF RunInv, ExitInv
  <2> QED BY <1>1, <2>1, <2>2, <2>3 DEF ExitInv
<1> QED BY <1>q, <1>2, <1>4, <1>6, <1>7, <1>8, <1>9 DEF RunInv

\* The children and the events that move no call.
LEMMA QuietInv ==
  ASSUME RunInv, UNCHANGED <<args, exitCode, queue, active, closing, child, table>>,
         process' = process \/ (process' = "exited" /\ queue = <<>> /\ Running = {}),
         unread' \in [Entries -> Int], collected' \in [Entries -> Int]
  PROVE  RunInv'
<1>1. Selected' = Selected /\ NotFound' = NotFound /\ Reported' = Reported
  BY RunSame
<1>2. Running' = Running
  BY DEF Running
<1>3. RunType'
  BY DEF RunInv, RunType
<1>4. TableInv'
  BY DEF RunInv, TableInv
<1>5. PlacesInv'
  BY <1>1 DEF RunInv, PlacesInv
<1>6. ExitInv'
  BY <1>1, <1>2 DEF RunInv, ExitInv, RunType
<1> QED BY <1>3, <1>4, <1>5, <1>6 DEF RunInv

LEMMA SpawnFailsInv ==
  ASSUME RunInv, spawnFails
  PROVE  RunInv'
<1>1. process' = "exited" /\ exitCode' = 1 /\ UNCHANGED <<args, jobVars>>
  BY DEF spawnFails
<1>2. Selected' = Selected /\ NotFound' = NotFound /\ Reported' = Reported
  BY <1>1, RunSame DEF jobVars
<1>3. RunType'
  BY <1>1 DEF RunInv, RunType, jobVars
<1>4. TableInv'
  BY <1>1 DEF RunInv, TableInv, jobVars
<1>5. PlacesInv'
  BY <1>1, <1>2 DEF RunInv, PlacesInv, jobVars
<1>6. ExitInv'
  BY <1>1 DEF ExitInv
<1> QED BY <1>3, <1>4, <1>5, <1>6 DEF RunInv

LEMMA ChildExitsInv ==
  ASSUME RunInv, NEW e \in Entries, childExits(e)
  PROVE  RunInv'
<1>1. PICK status \in {"ok", "failed"} :
        /\ child[e] = "alive" /\ child' = [child EXCEPT ![e] = status]
        /\ UNCHANGED <<args, process, exitCode, queue, active, closing, unread, collected, table>>
  BY DEF childExits
<1>2. Selected' = Selected /\ NotFound' = NotFound /\ Reported' = Reported
  BY <1>1, RunSame
<1>3. Running' = Running
  BY <1>1 DEF Running
<1>4. child' \in [Entries -> {"none", "alive", "ok", "failed"}]
      /\ child'[e] \in {"ok", "failed"} /\ \A d \in Entries : d # e => child'[d] = child[d]
  BY <1>1 DEF RunInv, RunType
<1>5. \A i \in DOMAIN table : i # 1 => table[i].row # e
  BY <1>1 DEF RunInv, TableInv
<1>6. e \notin closing /\ e \notin Reported
  <2>1. e \notin closing
    BY <1>1 DEF RunInv, PlacesInv
  <2>2. e \notin Reported
    <3>1. \A i \in DOMAIN table : table # <<>>
      OBVIOUS
    <3> QED BY <3>1, <1>5, LabelFacts DEF RunInv, TableInv, Reported
  <2> QED BY <2>1, <2>2
<1>7. RunType'
  BY <1>1, <1>4 DEF RunInv, RunType
<1>8. TableInv'
  BY <1>1, <1>4, <1>5 DEF RunInv, TableInv
<1>9. PlacesInv'
  <2>1. \A i \in DOMAIN queue : queue[i] \in Entries /\ queue[i] # e
    BY <1>1 DEF RunInv, RunType, PlacesInv
  <2> QED BY <1>1, <1>2, <1>4, <1>6, <2>1 DEF RunInv, RunType, PlacesInv
<1>10. ExitInv'
  <2>1. \A d \in closing \cup Reported : d \in Entries /\ d # e
    BY <1>6 DEF RunInv, RunType, Reported
  <2> QED BY <1>1, <1>2, <1>3, <1>4, <2>1 DEF RunInv, ExitInv
<1> QED BY <1>7, <1>8, <1>9, <1>10 DEF RunInv

LEMMA OnExitInv ==
  ASSUME RunInv, NEW e \in Entries, onExit(e)
  PROVE  RunInv'
<1>1. /\ process = "up" /\ e \in active /\ child[e] \in {"ok", "failed"}
      /\ exitCode' = IF child[e] = "failed" THEN 1 ELSE exitCode
      /\ active' = active \ {e} /\ closing' = closing \cup {e}
      /\ UNCHANGED <<args, process, queue, child, unread, collected, table>>
  BY DEF onExit, noteFailure, endStream
<1>2. Selected' = Selected /\ NotFound' = NotFound /\ Reported' = Reported
  BY <1>1, RunSame
<1>3. RunType'
  BY <1>1 DEF RunInv, RunType
<1>4. TableInv'
  BY <1>1 DEF RunInv, TableInv
<1>5. PlacesInv'
  BY <1>1, <1>2 DEF RunInv, PlacesInv
<1>6. ExitInv'
  <2>1. \A d \in closing' \cup Reported' : child'[d] = "failed" => exitCode' = 1
    BY <1>1, <1>2 DEF RunInv, ExitInv
  <2>2. NotFound' = {} /\ \A s \in Selected' : \/ \E i \in DOMAIN queue' : queue'[i] = s
                                             \/ s \in active' \cup closing' \cup Reported'
    BY <1>1, <1>2 DEF RunInv, ExitInv
  <2> QED BY <1>1, <2>1, <2>2 DEF ExitInv
<1> QED BY <1>3, <1>4, <1>5, <1>6 DEF RunInv

LEMMA OnCollectedInv ==
  ASSUME RunInv, NEW e \in Entries, onCollected(e)
  PROVE  RunInv' /\ Reported' = Reported \cup {e} /\ e \notin Reported
<1> DEFINE r == Row(e, child[e] = "failed", collected[e] >= LinkChunk)
           t == IF table = <<>> THEN <<Header>> ELSE table
           R == [row : Label, failed : BOOLEAN, link : BOOLEAN]
<1>1. /\ process = "up" /\ e \in closing /\ table' = t \o <<r>>
      /\ closing' = closing \ {e}
      /\ UNCHANGED <<args, process, exitCode, queue, active, child, unread, collected>>
  BY DEF onCollected, writeEntry
<1>2. /\ r \in R /\ Header \in R /\ r.row = e /\ r.failed = (child[e] = "failed")
  <2>1. r = [row |-> e, failed |-> child[e] = "failed", link |-> collected[e] >= LinkChunk]
    BY DEF Row
  <2> HIDE DEF r
  <2>2. r.row = e /\ r.failed = (child[e] = "failed")
    BY <2>1, Zenon
  <2>3. r \in R
    BY <2>1, LabelFacts
  <2>4. Header \in R
    <3> DEFINE h == Header.row
    <3>1. Header = [row |-> h, failed |-> FALSE, link |-> FALSE]
      BY Zenon DEF Header, Row
    <3>2. h \in Label
      BY LabelFacts
    <3> HIDE DEF h
    <3>3. [row |-> h, failed |-> FALSE, link |-> FALSE] \in R
      BY <3>2
    <3> QED BY <3>1, <3>3, Zenon
  <2> QED BY <2>2, <2>3, <2>4
<1> HIDE DEF r
<1>3. /\ t \in Seq(R) /\ t # <<>> /\ Len(t) \in Nat \ {0} /\ DOMAIN t = 1 .. Len(t) /\ t[1] = Header
      /\ \A i \in DOMAIN t : i # 1 =>
           /\ t[i].row \in Entries
           /\ child[t[i].row] = (IF t[i].failed THEN "failed" ELSE "ok")
      /\ \A i, j \in DOMAIN t : t[i].row = t[j].row => i = j
      /\ \A i \in DOMAIN table : i \in DOMAIN t /\ t[i] = table[i]
      /\ \A i \in DOMAIN t : t[i].row \in Entries => t[i].row \in Reported
  <2>1. CASE table = <<>>
    <3>1. t = <<Header>>
      BY <2>1
    <3> HIDE DEF t, R
    <3>2. Len(t) = 1 /\ t \in Seq(R) /\ t[1] = Header /\ DOMAIN t = {1} /\ DOMAIN table = {}
      BY <3>1, <2>1, <1>2
    <3>3. Header.row \notin Entries
      BY LabelFacts
    <3> HIDE DEF Header
    <3> QED BY <3>1, <3>2, <3>3
  <2>2. CASE table # <<>>
    <3>1. t = table
      BY <2>2
    <3>2. table \in Seq(R)
      BY DEF RunInv, RunType
    <3> HIDE DEF t, R
    <3>3. table[1] = Header /\ Len(table) \in Nat \ {0} /\ DOMAIN table = 1 .. Len(table)
      BY <2>2, <3>2 DEF RunInv, TableInv
    <3>4. \A i \in DOMAIN table : table[i].row \in Entries => table[i].row \in Reported
      BY DEF Reported
    <3> QED BY <2>2, <3>1, <3>2, <3>3, <3>4, Zenon DEF RunInv, TableInv
  <2> QED BY <2>1, <2>2
<1> HIDE DEF t, R
<1> DEFINE n == Len(t) + 1
<1>4. /\ table' \in Seq(R) /\ DOMAIN table' = DOMAIN t \cup {n}
      /\ table'[n] = r /\ n \notin DOMAIN t /\ n # 1 /\ 1 \in DOMAIN t /\ table' # <<>>
      /\ \A i \in DOMAIN t : table'[i] = t[i]
  BY <1>1, <1>2, <1>3
<1> HIDE DEF n
<1>5. child[e] \in {"ok", "failed"} /\ e \notin Reported
  BY <1>1 DEF RunInv, PlacesInv
<1>6. RunType'
  BY <1>1, <1>4 DEF RunInv, RunType, R
<1>7. TableInv'
  <2>1. child[r.row] = (IF r.failed THEN "failed" ELSE "ok")
    BY <1>2, <1>5
  <2>2. \A i \in DOMAIN table' : i # 1 =>
           /\ table'[i].row \in Entries
           /\ child'[table'[i].row] = (IF table'[i].failed THEN "failed" ELSE "ok")
    <3> SUFFICES ASSUME NEW i \in DOMAIN table', i # 1
                 PROVE  /\ table'[i].row \in Entries
                        /\ child'[table'[i].row] = (IF table'[i].failed THEN "failed" ELSE "ok")
      BY Zenon
    <3>0. child' = child
      BY <1>1
    <3>1. CASE i = n
      <4>1. table'[i] = r /\ r.row \in Entries
        BY <3>1, <1>4, <1>2
      <4> QED BY <4>1, <3>0, <2>1, Zenon
    <3>2. CASE i \in DOMAIN t
      <4>1. table'[i] = t[i]
        BY <3>2, <1>4
      <4> QED BY <3>2, <4>1, <3>0, <1>3, Zenon
    <3> QED BY <3>1, <3>2, <1>4
  <2>3. \A i \in DOMAIN t : t[i].row # e
    BY <1>3, <1>5
  <2>4. \A i, j \in DOMAIN table' : table'[i].row = table'[j].row => i = j
    BY <1>2, <1>3, <1>4, <2>3
  <2>5. table'[1] = Header
    BY <1>3, <1>4
  <2> QED BY <2>2, <2>4, <2>5 DEF TableInv
<1>8. Reported' = Reported \cup {e}
  <2>1. \A d \in Entries : (\E i \in DOMAIN t : t[i].row = d) <=> (\E i \in DOMAIN table : table[i].row = d)
    BY <1>3 DEF Reported
  <2>2. \A d \in Entries : (\E i \in DOMAIN table' : table'[i].row = d) <=>
                           ((\E i \in DOMAIN t : t[i].row = d) \/ d = e)
    BY <1>2, <1>4
  <2> QED BY <2>1, <2>2 DEF Reported
<1>9. Selected' = Selected /\ NotFound' = NotFound
  BY <1>1 DEF args, Selected, NotFound
<1>10. PlacesInv'
  BY <1>1, <1>8 DEF RunInv, PlacesInv
<1>11. ExitInv'
  <2>1. \A d \in closing' \cup Reported' : child'[d] = "failed" => exitCode' = 1
    BY <1>1, <1>8 DEF RunInv, ExitInv
  <2>2. NotFound' = {} /\ \A s \in Selected' : \/ \E i \in DOMAIN queue' : queue'[i] = s
                                             \/ s \in active' \cup closing' \cup Reported'
    BY <1>1, <1>8, <1>9 DEF RunInv, ExitInv
  <2> QED BY <1>1, <2>1, <2>2 DEF ExitInv
<1> QED BY <1>5, <1>6, <1>7, <1>8, <1>10, <1>11 DEF RunInv

LEMMA RunNextInv == RunInv /\ [RunNext]_runVars => RunInv'
<1> SUFFICES ASSUME RunInv, [RunNext]_runVars PROVE RunInv'
  OBVIOUS
<1>t. unread \in [Entries -> Int] /\ collected \in [Entries -> Int]
  BY DEF RunInv, RunType
<1>1. CASE spawn
  BY <1>1, SpawnInv
<1>2. CASE spawnFails
  BY <1>2, SpawnFailsInv
<1>3. CASE exits
  BY <1>3, <1>t, QuietInv DEF exits, jobVars
<1>4. ASSUME NEW e \in Entries, childWrites(e) PROVE RunInv'
  BY <1>4, <1>t, QuietInv DEF childWrites
<1>5. ASSUME NEW e \in Entries, childExits(e) PROVE RunInv'
  BY <1>5, ChildExitsInv
<1>6. ASSUME NEW e \in Entries, onData(e) PROVE RunInv'
  BY <1>6, <1>t, QuietInv DEF onData
<1>7. ASSUME NEW e \in Entries, onExit(e) PROVE RunInv'
  BY <1>7, OnExitInv
<1>8. ASSUME NEW e \in Entries, onCollected(e) PROVE RunInv'
  BY <1>8, OnCollectedInv
<1>9. CASE UNCHANGED runVars
  BY <1>9, <1>t, QuietInv DEF runVars, args, jobVars
<1> QED BY <1>1, <1>2, <1>3, <1>4, <1>5, <1>6, <1>7, <1>8, <1>9 DEF RunNext

\* Every state of the runner satisfies the invariant.
THEOREM RunInvariant == RunSpec => []RunInv
<1>1. RunInit => RunInv
  BY RunInitInv
<1>2. RunInv /\ [RunNext]_runVars => RunInv'
  BY RunNextInv
<1> QED BY <1>1, <1>2, PTL DEF RunSpec

\* The table of certora/run.js has its header first and once, one row for each
\* child that was reported, and in each row how the child ended.
THEOREM RunTable == RunSpec => []TableIsOne
<1>1. RunInv => TableIsOne
  <2> SUFFICES ASSUME RunInv PROVE TableIsOne
    OBVIOUS
  <2>1. table # <<>> => table[1] = Header
    BY DEF RunInv, TableInv
  <2>2. IsInjective([i \in DOMAIN table |-> table[i].row])
    <3> DEFINE f == [i \in DOMAIN table |-> table[i].row]
    <3>1. \A i, j \in DOMAIN f : f[i] = f[j] => i = j
      BY DEF RunInv, TableInv
    <3> QED BY <3>1, Zenon DEF IsInjective
  <2>3. \A i \in DOMAIN table : table[i] # Header =>
          child[table[i].row] = (IF table[i].failed THEN "failed" ELSE "ok")
    <3>1. \A i \in DOMAIN table : table # <<>>
      OBVIOUS
    <3> QED BY <2>1, <3>1, Zenon DEF RunInv, TableInv
  <2> QED BY <2>1, <2>2, <2>3 DEF TableIsOne
<1> QED BY <1>1, RunInvariant, PTL

\* When certora/run.js exits with code 0, every requested spec was found, and
\* every selected one was run and reported as a success.
THEOREM ExitCodeZero == RunSpec => []ZeroMeansVerified
<1>1. RunInv => ZeroMeansVerified
  <2> SUFFICES ASSUME RunInv, process = "exited", exitCode = 0
               PROVE  /\ \A r \in requests : \E s \in Reported : match(s, r)
                      /\ \A s \in Selected : s \in Reported /\ child[s] = "ok"
    BY DEF ZeroMeansVerified
  <2>1. queue = <<>> /\ active = {} /\ closing = {} /\ NotFound = {}
    BY DEF RunInv, ExitInv, Running
  <2>2. \A s \in Selected : s \in Reported
    BY <2>1 DEF RunInv, ExitInv
  <2>3. \A r \in requests : \E s \in Reported : match(s, r)
    BY <2>1, <2>2 DEF NotFound
  <2>4. ASSUME NEW s \in Selected PROVE child[s] = "ok"
    <3>1. s \in Entries /\ s \in Reported
      BY <2>2 DEF Selected
    <3>2. PICK i \in DOMAIN table : table[i].row = s
      BY <3>1 DEF Reported
    <3>3. i # 1
      <4>1. table # <<>>
        BY <3>2
      <4> QED BY <4>1, <3>1, <3>2, LabelFacts DEF RunInv, TableInv
    <3>4. child[s] # "failed"
      BY <3>1 DEF RunInv, ExitInv
    <3> QED BY <3>2, <3>3, <3>4 DEF RunInv, TableInv
  <2> QED BY <2>2, <2>3, <2>4
<1> QED BY <1>1, RunInvariant, PTL

(* The core of the liveness of the runner: what RunEnds needs besides the   *)
(* fairness of the steps.                                                  *)

\* How far the call for an entry is: it waits for a place, for the exit of its
\* child, for the event of that exit, for its output, or is reported.
stageOf(e) ==
  IF e \in Reported THEN 4
  ELSE IF e \in closing THEN 3
  ELSE IF e \in active THEN IF child[e] = "alive" THEN 1 ELSE 2
  ELSE 0

\* A step ends the program, or takes one call one stage on, or moves no more
\* than a chunk of output.
RunAdvances ==
  \/ process = "up" /\ process' = "exited" /\ \A e \in Entries : stageOf(e)' = stageOf(e)
  \/ /\ process' = process
     /\ \E e \in Entries : /\ stageOf(e)' = stageOf(e) + 1
                           /\ \A d \in Entries \ {e} : stageOf(d)' = stageOf(d)
  \/ UNCHANGED <<args, process, exitCode, queue, active, closing, child, table>>

\* While the program is up, something it waits for fairly is there: a call that
\* can start, a child that will exit, an event, or nothing more to wait for.
RunGoesOn ==
  process = "up" =>
    \/ CanStart
    \/ \E e \in active : child[e] = "alive" \/ child[e] \in {"ok", "failed"}
    \/ closing # {}
    \/ queue = <<>> /\ Running = {}

LEMMA StageSame ==
  ASSUME UNCHANGED <<active, closing, child, table>>
  PROVE  \A d \in Entries : stageOf(d)' = stageOf(d)
BY DEF stageOf, Reported

LEMMA RunStepAdvances ==
  ASSUME RunInv, [RunNext]_runVars
  PROVE  RunAdvances
<1>0. child \in [Entries -> {"none", "alive", "ok", "failed"}]
  BY DEF RunInv, RunType
<1>1. CASE spawn
  <2>1. PICK q \in Entries :
          q = Head(queue) /\ q \notin active /\ q \notin closing /\ q \notin Reported
    BY <1>1, SpawnInv
  <2>2. /\ active' = active \cup {q} /\ child' = [child EXCEPT ![q] = "alive"]
        /\ process' = process /\ closing' = closing /\ Reported' = Reported
    BY <1>1, <2>1 DEF spawn, Reported
  <2>3. child'[q] = "alive" /\ \A d \in Entries \ {q} : child'[d] = child[d]
    BY <1>0, <2>1, <2>2
  <2>4. stageOf(q)' = stageOf(q) + 1
    BY <2>1, <2>2, <2>3 DEF stageOf
  <2>5. \A d \in Entries \ {q} : stageOf(d)' = stageOf(d)
    BY <2>2, <2>3 DEF stageOf
  <2> QED BY <2>2, <2>4, <2>5 DEF RunAdvances
<1>2. CASE spawnFails \/ exits
  BY <1>2, StageSame DEF spawnFails, CanStart, exits, jobVars, RunAdvances
<1>3. ASSUME NEW e \in Entries, childWrites(e) \/ onData(e) PROVE RunAdvances
  BY <1>3 DEF childWrites, onData, RunAdvances, args
<1>4. ASSUME NEW e \in Entries, childExits(e) PROVE RunAdvances
  <2>1. PICK status \in {"ok", "failed"} :
          /\ child[e] = "alive" /\ child' = [child EXCEPT ![e] = status]
          /\ UNCHANGED <<process, active, closing, table>>
    BY <1>4 DEF childExits
  <2>2. Reported' = Reported /\ child'[e] # "alive" /\ \A d \in Entries \ {e} : child'[d] = child[d]
    BY <1>0, <2>1 DEF Reported
  <2>4. e \in active /\ e \notin closing /\ e \notin Reported
    BY <2>1 DEF RunInv, PlacesInv
  <2>3. \A d \in Entries \ {e} : stageOf(d)' = stageOf(d)
    BY <2>1, <2>2 DEF stageOf
  <2>5. stageOf(e)' = stageOf(e) + 1
    BY <2>1, <2>2, <2>4 DEF stageOf
  <2> QED BY <2>1, <2>3, <2>5 DEF RunAdvances
<1>5. ASSUME NEW e \in Entries, onExit(e) PROVE RunAdvances
  <2>1. /\ e \in active /\ child[e] \in {"ok", "failed"} /\ Reported' = Reported
        /\ active' = active \ {e} /\ closing' = closing \cup {e}
        /\ UNCHANGED <<process, child>>
    BY <1>5 DEF onExit, endStream, Reported
  <2>2. e \notin closing /\ e \notin Reported
    BY <2>1 DEF RunInv, PlacesInv
  <2>3. \A d \in Entries \ {e} : stageOf(d)' = stageOf(d)
    BY <2>1 DEF stageOf
  <2> QED BY <2>1, <2>2, <2>3 DEF RunAdvances, stageOf
<1>6. ASSUME NEW e \in Entries, onCollected(e) PROVE RunAdvances
  <2>1. /\ e \in closing /\ closing' = closing \ {e}
        /\ UNCHANGED <<process, active, child>>
    BY <1>6 DEF onCollected
  <2>2. Reported' = Reported \cup {e} /\ e \notin Reported
    BY <1>6, OnCollectedInv
  <2>3. \A d \in Entries \ {e} : stageOf(d)' = stageOf(d)
    BY <2>1, <2>2 DEF stageOf
  <2> QED BY <2>1, <2>2, <2>3 DEF RunAdvances, stageOf
<1>7. CASE UNCHANGED runVars
  BY <1>7 DEF runVars, jobVars, args, RunAdvances
<1> QED BY <1>1, <1>2, <1>3, <1>4, <1>5, <1>6, <1>7 DEF RunNext

\* While it is up, certora/run.js is never left with nothing to wait for: a
\* call can start, a child will exit, an event is due, or it is done.  And
\* every step but those that move a chunk of output takes one call one stage
\* on, of four, and no call back, or ends the program.  So at most four steps
\* for each entry and one more keep the program from its end, and RunEnds
\* follows once each of those steps is taken in time.
THEOREM RunMakesProgress == RunSpec => []RunGoesOn /\ [][RunAdvances]_runVars
<1>1. RunInv => RunGoesOn
  <2> SUFFICES ASSUME RunInv, process = "up", queue # <<>>, active = {}, closing = {}
               PROVE  CanStart
    BY DEF RunGoesOn, RunInv, RunType, PlacesInv, Running
  <2>1. Cardinality(Running) = 0
    BY FS_EmptySet DEF Running
  <2> QED BY <2>1, CertoraAssumption DEF CanStart
<1>2. RunInv /\ [RunNext]_runVars => [RunAdvances]_runVars
  BY RunStepAdvances
<1> QED BY <1>1, <1>2, RunInvariant, PTL DEF RunSpec

(***************************************************************************)
(* The release workflow.                                                   *)
(***************************************************************************)
Versions == [number : Nat, final : BOOLEAN]

Trees == [mode : {"pre", "exit", "none"}, files : SUBSET Changesets,
          used : SUBSET Changesets, version : Versions]

JobNames == {"promote", "rerun", "changesets", "publish", "merge"}

WorkflowRuns == [event : {"push", "dispatch"}, bot : BOOLEAN, commit : Nat,
                 jobs : SUBSET JobNames, failed : SUBSET JobNames, again : BOOLEAN]

\* The runs that are over can only be run again.
PastRuns == {r \in WorkflowRuns : r.again}

AtMostOne(runQueue) == runQueue \in Seq(WorkflowRuns) /\ Len(runQueue) <= 1

\* Types of the variables of the workflow.
ReleaseType ==
  /\ history \in Seq(Trees)
  /\ starting \in {{}, {"branch"}, {"rerun"}}
  /\ AtMostOne(running) /\ AtMostOne(waiting) /\ past \in SUBSET PastRuns
  /\ proposal \in 0 .. Latest /\ back \in 0 .. Latest
  /\ releases \in Seq([version : Versions, prerelease : BOOLEAN])
  /\ latest \in Versions

\* Along the branch the version stays or its number grows; in prerelease mode
\* it is a candidate's, without pre.json it is final, and until the version
\* that ends the prereleases there are changesets.
HistoryInv ==
  /\ \A i, j \in 1 .. Latest : i < j =>
       \/ history[i].version.number < history[j].version.number
       \/ history[i].version = history[j].version
  /\ \A i \in 1 .. Latest :
       /\ history[i].mode = "pre" => history[i].version.number = 0 \/ ~ history[i].version.final
       /\ history[i].mode = "none" => history[i].version.final
       /\ history[i].mode # "none" => history[i].files # {}
  /\ history # <<>> => history[1].version = Version(0, TRUE)

\* The runs in progress, that wait, and that are over.
AllRuns ==
  {r \in WorkflowRuns :
     (running # <<>> /\ r = running[1]) \/ (waiting # <<>> /\ r = waiting[1]) \/ r \in past}

\* Whether the run has to publish, or failed to.
Publishes(r) == "publish" \in r.jobs \cup r.failed

\* Every run is for a commit of the branch; one that publishes, however late,
\* publishes what its tree says it is.  A run that waits for the first time has
\* not looked at the state and is for no older commit than the one in progress.
RunsInv ==
  /\ \A r \in AllRuns :
       /\ r.commit \in 1 .. Latest
       /\ Publishes(r) => prerelease(history[r.commit]) = ~ history[r.commit].version.final
  /\ waiting # <<>> /\ ~ waiting[1].again =>
       /\ waiting[1].jobs = {}
       /\ running # <<>> => running[1].commit <= waiting[1].commit
  /\ starting = {"rerun"} => history # <<>>

\* What is on npm was the version before the branch, or of a commit up to c.
PublishedUpTo(c) ==
  \A i \in DOMAIN releases :
    \/ releases[i].version = Version(0, TRUE)
    \/ \E k \in 1 .. c : releases[i].version = history[k].version

\* Of what comes after the commit of a run, nothing is out before the run is
\* over, unless it is one that is run again.
PublishedInv ==
  /\ isPublishedOnNpm(Version(0, TRUE))
  /\ PublishedUpTo(Latest)
  /\ running # <<>> /\ ~ running[1].again => PublishedUpTo(running[1].commit)
  /\ waiting # <<>> /\ ~ waiting[1].again => PublishedUpTo(waiting[1].commit)

\* A version to be published for the first time is not on npm yet.
ToPublishInv ==
  HasJob("publish") /\ ~ running[1].again => ~ isPublishedOnNpm(history[Commit].version)

DistinctReleases ==
  \A i, j \in DOMAIN releases : releases[i].version = releases[j].version => i = j

ReleaseInv ==
  /\ ReleaseType /\ HistoryInv /\ RunsInv /\ PublishedInv /\ ToPublishInv
  /\ DistinctReleases /\ TaggedAsWhatItIs

-----------------------------------------------------------------------------
(* Steps and what they leave of the invariant. *)

LEMMA ReleaseInitInv == ReleaseInit => ReleaseInv
<1> SUFFICES ASSUME ReleaseInit PROVE ReleaseInv
  OBVIOUS
<1> DEFINE zero == Version(0, TRUE)
           first == [version |-> zero, prerelease |-> FALSE]
           Releases == [version : Versions, prerelease : BOOLEAN]
<1>1. /\ history = <<>> /\ starting = {} /\ running = <<>> /\ waiting = <<>> /\ past = {}
      /\ proposal = 0 /\ back = 0 /\ releases = <<first>> /\ latest = zero
  BY DEF ReleaseInit
<1>2. Len(history) = 0 /\ Latest = 0
  BY <1>1 DEF Latest
<1>3. zero \in Versions /\ zero.final /\ zero.number = 0
  BY DEF Version, Versions
<1> HIDE DEF zero
<1>4. first \in Releases /\ first.version = zero /\ first.prerelease = FALSE
  BY <1>3
<1> HIDE DEF first, Releases
<1>5. releases \in Seq(Releases) /\ DOMAIN releases = {1} /\ releases[1] = first
  BY <1>1, <1>4
<1>6. AtMostOne(running) /\ AtMostOne(waiting) /\ past \in SUBSET PastRuns
  BY <1>1 DEF AtMostOne
<1>7. ReleaseType
  BY <1>1, <1>2, <1>3, <1>5, <1>6 DEF ReleaseType, Releases
<1>8. HistoryInv
  BY <1>1, <1>2 DEF HistoryInv
<1>9. RunsInv
  BY <1>1 DEF RunsInv, AllRuns
<1>10. PublishedInv
  BY <1>1, <1>4, <1>5 DEF PublishedInv, PublishedUpTo, isPublishedOnNpm, zero
<1>11. ToPublishInv
  BY <1>1 DEF ToPublishInv, HasJob
<1>12. DistinctReleases
  BY <1>5 DEF DistinctReleases
<1>13. TaggedAsWhatItIs
  <2>1. \A i \in DOMAIN releases : releases[i] = first
    BY <1>5
  <2>2. first.prerelease = ~ first.version.final
    BY <1>3, <1>4, Zenon
  <2>3. first.version.number <= latest.number /\ latest.final
    BY <1>1, <1>3, <1>4
  <2> QED BY <2>1, <2>2, <2>3, Zenon DEF TaggedAsWhatItIs
<1> QED BY <1>7, <1>8, <1>9, <1>10, <1>11, <1>12, <1>13 DEF ReleaseInv

LEMMA OnlyElement ==
  ASSUME NEW S, NEW s \in Seq(S), Len(s) <= 1, s # <<>>
  PROVE  s[1] \in S /\ s = <<s[1]>>
<1>1. Len(s) \in Nat \ {0}
  BY EmptySeq, Zenon
<1>2. Len(s) = 1
  BY <1>1
<1> QED BY <1>2

\* What the invariant says of the lengths and elements.
LEMMA ReleaseTypeFacts ==
  ASSUME ReleaseType
  PROVE  /\ Latest \in Nat /\ DOMAIN history = 1 .. Latest /\ (history # <<>> <=> Latest >= 1)
         /\ \A i \in 1 .. Latest :
              /\ history[i] \in Trees
              /\ history[i].version.number \in Nat /\ history[i].version.final \in BOOLEAN
         /\ running # <<>> =>
              running[1] \in WorkflowRuns /\ running = <<running[1]>> /\ running[1] \in AllRuns
         /\ waiting # <<>> =>
              waiting[1] \in WorkflowRuns /\ waiting = <<waiting[1]>> /\ waiting[1] \in AllRuns
         /\ past \subseteq AllRuns
<1>1. Latest \in Nat /\ DOMAIN history = 1 .. Latest /\ (history # <<>> <=> Latest >= 1)
  BY DEF ReleaseType, Latest
<1>2. \A i \in 1 .. Latest : history[i] \in Trees
  BY <1>1 DEF ReleaseType
<1>3. \A i \in 1 .. Latest : history[i].version.number \in Nat /\ history[i].version.final \in BOOLEAN
  BY <1>2 DEF Trees, Versions
<1>4. ASSUME NEW runQueue, AtMostOne(runQueue), runQueue # <<>>
      PROVE  runQueue[1] \in WorkflowRuns /\ runQueue = <<runQueue[1]>>
  <2>1. runQueue \in Seq(WorkflowRuns) /\ Len(runQueue) <= 1
    BY <1>4 DEF AtMostOne
  <2> QED BY <1>4, <2>1, OnlyElement, Zenon
<1>5. /\ running # <<>> => running[1] \in WorkflowRuns /\ running = <<running[1]>>
      /\ waiting # <<>> => waiting[1] \in WorkflowRuns /\ waiting = <<waiting[1]>>
      /\ past \subseteq WorkflowRuns
  BY <1>4 DEF ReleaseType, PastRuns
<1>6. /\ running # <<>> => running[1] \in AllRuns
      /\ waiting # <<>> => waiting[1] \in AllRuns
      /\ past \subseteq AllRuns
  BY <1>5, Zenon DEF AllRuns
<1> QED BY <1>1, <1>2, <1>3, <1>5, <1>6

\* The branch only grows.
HistoryGrows == Latest <= Latest' /\ \A i \in 1 .. Latest : history'[i] = history[i]

\* A run is for the commit of another and publishes at most what that would.
Follows(r, q) == r.commit = q.commit /\ (Publishes(r) => Publishes(q))

\* The run in progress goes on, or ends.
RunningGoesOn ==
  running' # <<>> =>
    /\ running # <<>> /\ Follows(running'[1], running[1])
    /\ running'[1].again = running[1].again
    /\ "publish" \in running'[1].jobs => "publish" \in running[1].jobs

\* What waits is as before, or a new run, or one that is run again.
WaitingFollows ==
  waiting' # <<>> =>
    \/ waiting' = waiting
    \/ /\ waiting'[1].commit = Latest' /\ history' # <<>>
       /\ waiting'[1].jobs = {} /\ waiting'[1].failed = {}
    \/ waiting'[1].again /\ \E q \in AllRuns : Follows(waiting'[1], q)

PastFollows == \A r \in past' : \E q \in AllRuns : Follows(r, q)

\* The runs, after a step that publishes nothing and begins no run.
LEMMA RunsKept ==
  ASSUME ReleaseInv, HistoryGrows, Latest' \in Nat, UNCHANGED npmVars,
         RunningGoesOn, WaitingFollows, PastFollows,
         history' # <<>> => Latest' >= 1,
         starting' = {"rerun"} => history' # <<>>
  PROVE  RunsInv' /\ PublishedInv' /\ ToPublishInv' /\ DistinctReleases' /\ TaggedAsWhatItIs'
<1> DEFINE Right(r) == prerelease(history[r.commit]) = ~ history[r.commit].version.final
           RightNext(r) == prerelease(history'[r.commit]) = ~ history'[r.commit].version.final
<1>a. UNCHANGED releases /\ UNCHANGED latest
  BY DEF npmVars
<1>0. /\ Latest \in Nat
      /\ \A r \in AllRuns : r.commit \in 1 .. Latest /\ (Publishes(r) => Right(r))
      /\ running # <<>> => running[1] \in AllRuns
      /\ waiting # <<>> => waiting[1] \in AllRuns
      /\ waiting # <<>> /\ ~ waiting[1].again =>
           /\ waiting[1].jobs = {}
           /\ running # <<>> => running[1].commit <= waiting[1].commit
  <2>1. \A r \in AllRuns : r.commit \in 1 .. Latest /\ (Publishes(r) => Right(r))
    BY Zenon DEF ReleaseInv, RunsInv
  <2> HIDE DEF Right
  <2> QED BY <2>1, ReleaseTypeFacts DEF ReleaseInv, RunsInv
<1>1. ASSUME NEW r, NEW q \in AllRuns, Follows(r, q)
      PROVE  r.commit \in 1 .. Latest' /\ (Publishes(r) => RightNext(r))
  <2>1. r.commit = q.commit /\ q.commit \in 1 .. Latest /\ (Publishes(r) => Right(q))
    BY <1>0, <1>1, Zenon DEF Follows
  <2>2. history'[q.commit] = history[q.commit] /\ q.commit \in 1 .. Latest'
    BY <2>1, <1>0 DEF HistoryGrows
  <2> QED BY <2>1, <2>2, Zenon
<1>2. ASSUME NEW r, r.commit = Latest', history' # <<>>, r.jobs = {}, r.failed = {}
      PROVE  r.commit \in 1 .. Latest' /\ ~ Publishes(r)
  <2>1. Latest' \in 1 .. Latest'
    BY <1>2
  <2> QED BY <1>2, <2>1 DEF Publishes
<1>3. \A r \in AllRuns : Follows(r, r)
  BY DEF Follows
<1>4. RunsInv'
  <2>1. \A r \in AllRuns' : r.commit \in 1 .. Latest' /\ (Publishes(r) => RightNext(r))
    <3> SUFFICES ASSUME NEW r \in AllRuns'
                 PROVE  r.commit \in 1 .. Latest' /\ (Publishes(r) => RightNext(r))
      OBVIOUS
    <3> HIDE DEF RightNext
    <3>1. CASE running' # <<>> /\ r = running'[1]
      BY <3>1, <1>0, <1>1 DEF RunningGoesOn
    <3>2. CASE waiting' # <<>> /\ r = waiting'[1]
      <4>1. CASE waiting' = waiting
        BY <3>2, <4>1, <1>0, <1>1, <1>3
      <4>2. CASE waiting' # waiting
        BY <3>2, <4>2, <1>1, <1>2 DEF WaitingFollows
      <4> QED BY <4>1, <4>2
    <3>3. CASE r \in past'
      BY <3>3, <1>1 DEF PastFollows
    <3> QED BY <3>1, <3>2, <3>3 DEF AllRuns
  <2>2. waiting' # <<>> /\ ~ waiting'[1].again =>
          /\ waiting'[1].jobs = {}
          /\ running' # <<>> => running'[1].commit <= waiting'[1].commit
    BY <1>0 DEF RunningGoesOn, WaitingFollows, HistoryGrows, Follows
  <2>3. (\A r \in AllRuns :
          /\ r.commit \in 1 .. Latest
          /\ Publishes(r) => prerelease(history[r.commit]) = ~ history[r.commit].version.final)'
    BY <2>1, Zenon DEF Publishes, prerelease, readChangesetState
  <2> HIDE DEF RightNext, Right
  <2> QED BY <2>2, <2>3, Zenon DEF RunsInv
<1> HIDE DEF Right, RightNext
<1> DEFINE UpTo(c) == \A i \in DOMAIN releases' :
                        \/ releases'[i].version = Version(0, TRUE)
                        \/ \E k \in 1 .. c : releases'[i].version = history'[k].version
<1>5. ASSUME NEW c \in Nat, NEW d \in Nat, PublishedUpTo(c), c <= Latest, c <= d
      PROVE  UpTo(d)
  <2>1. \A k \in 1 .. c : k \in 1 .. d /\ history'[k] = history[k]
    BY <1>0, <1>5 DEF HistoryGrows
  <2> QED BY <2>1, <1>5, <1>a, Zenon DEF PublishedUpTo
<1>6. PublishedInv'
  <2> HIDE DEF UpTo
  <2>1. isPublishedOnNpm(Version(0, TRUE))'
    BY <1>a DEF ReleaseInv, PublishedInv, isPublishedOnNpm, Version
  <2>2. /\ PublishedUpTo(Latest)
        /\ running # <<>> /\ ~ running[1].again => PublishedUpTo(running[1].commit)
        /\ waiting # <<>> /\ ~ waiting[1].again => PublishedUpTo(waiting[1].commit)
    BY DEF ReleaseInv, PublishedInv
  <2>3. UpTo(Latest')
    BY <1>0, <1>5, <2>2 DEF HistoryGrows
  <2>4. running' # <<>> /\ ~ running'[1].again => UpTo(running'[1].commit)
    <3> DEFINE c == running[1].commit
    <3> SUFFICES ASSUME running' # <<>>, ~ running'[1].again PROVE UpTo(running'[1].commit)
      OBVIOUS
    <3>1. running'[1].commit = c /\ c \in 1 .. Latest /\ PublishedUpTo(c)
      BY <1>0, <2>2 DEF RunningGoesOn, Follows
    <3> HIDE DEF c
    <3>2. c \in Nat /\ c <= Latest /\ c <= c
      BY <3>1, <1>0
    <3>3. UpTo(c)
      BY <3>1, <3>2, <1>5, Zenon
    <3> QED BY <3>1, <3>3, Zenon
  <2>5. waiting' # <<>> /\ ~ waiting'[1].again => UpTo(waiting'[1].commit)
    <3> SUFFICES ASSUME waiting' # <<>>, ~ waiting'[1].again PROVE UpTo(waiting'[1].commit)
      OBVIOUS
    <3>1. CASE waiting' = waiting
      <4> DEFINE c == waiting[1].commit
      <4>1. waiting'[1].commit = c /\ c \in 1 .. Latest /\ PublishedUpTo(c)
        BY <3>1, <1>0, <2>2
      <4> HIDE DEF c
      <4>2. c \in Nat /\ c <= Latest /\ c <= c
        BY <4>1, <1>0
      <4>3. UpTo(c)
        BY <4>1, <4>2, <1>5, Zenon
      <4> QED BY <4>1, <4>3, Zenon
    <3>2. CASE waiting'[1].commit = Latest'
      BY <3>2, <2>3, Zenon
    <3> QED BY <3>1, <3>2 DEF WaitingFollows
  <2>6. /\ PublishedUpTo(Latest)'
        /\ (running # <<>> /\ ~ running[1].again => PublishedUpTo(running[1].commit))'
        /\ (waiting # <<>> /\ ~ waiting[1].again => PublishedUpTo(waiting[1].commit))'
    BY <2>3, <2>4, <2>5, Zenon DEF UpTo, PublishedUpTo, Version
  <2> QED BY <2>1, <2>6, Zenon DEF PublishedInv
<1>7. ToPublishInv'
  <2> SUFFICES ASSUME HasJob("publish")', ~ running'[1].again
               PROVE  (~ isPublishedOnNpm(history[Commit].version))'
    BY Zenon DEF ToPublishInv
  <2>1. /\ history'[running'[1].commit] = history[Commit]
        /\ HasJob("publish") /\ ~ running[1].again
    BY <1>0 DEF HistoryGrows, Commit, HasJob, RunningGoesOn, Follows
  <2>2. ~ isPublishedOnNpm(history[Commit].version)
    BY <2>1, Zenon DEF ReleaseInv, ToPublishInv
  <2> QED BY <1>a, <2>1, <2>2, Zenon DEF isPublishedOnNpm, Commit
<1>8. DistinctReleases' /\ TaggedAsWhatItIs'
  BY <1>a DEF ReleaseInv, DistinctReleases, TaggedAsWhatItIs
<1> QED BY <1>4, <1>6, <1>7, <1>8

\* A job that is done leaves the run, and may leave it something to do.
LEMMA JobDone ==
  ASSUME ReleaseType, NEW job, HasJob(job), NEW todo \in SUBSET {"rerun"}, finishJob(job, todo)
  PROVE  /\ AtMostOne(running') /\ running # <<>> /\ running' # <<>> /\ RunningGoesOn
         /\ job = "publish" => "publish" \notin running'[1].jobs
<1> DEFINE new == [running[1] EXCEPT !.jobs = (@ \ {job}) \cup todo]
<1>1. running # <<>> /\ running[1] \in WorkflowRuns /\ running' = <<new>>
  BY ReleaseTypeFacts DEF HasJob, finishJob
<1>2. new \in WorkflowRuns /\ new.commit = running[1].commit /\ new.again = running[1].again
      /\ new.jobs = (running[1].jobs \ {job}) \cup todo /\ new.failed = running[1].failed
  BY <1>1 DEF WorkflowRuns, JobNames
<1>3. "publish" \notin todo
  OBVIOUS
<1> HIDE DEF new
<1>4. AtMostOne(running') /\ running' # <<>> /\ running'[1] = new
  BY <1>1, <1>2 DEF AtMostOne
<1> QED BY <1>1, <1>2, <1>3, <1>4 DEF RunningGoesOn, Follows, Publishes

\* A job that fails leaves the run too.
LEMMA JobFailed ==
  ASSUME ReleaseType, NEW job, HasJob(job), failJob(job)
  PROVE  /\ AtMostOne(running') /\ running # <<>> /\ running' # <<>> /\ RunningGoesOn
         /\ job = "publish" => "publish" \notin running'[1].jobs
<1> DEFINE noted == IF job = "rerun" THEN "promote" ELSE job
           left == IF Repeatable THEN running[1].failed \cup {noted} ELSE running[1].failed
           new == [running[1] EXCEPT !.jobs = @ \ {job}, !.failed = left]
<1>1. running # <<>> /\ running[1] \in WorkflowRuns /\ job \in running[1].jobs
  BY ReleaseTypeFacts DEF HasJob
<1>2. running' = <<new>>
  BY DEF failJob
<1>3. /\ left \in SUBSET JobNames /\ job \in JobNames
      /\ "publish" \in left => "publish" \in running[1].failed \/ job = "publish"
  <2>1. running[1].failed \in SUBSET JobNames /\ job \in JobNames
    BY <1>1 DEF WorkflowRuns
  <2>2. noted \in JobNames /\ (noted = "publish" => job = "publish")
    BY <2>1 DEF JobNames
  <2> HIDE DEF noted
  <2> QED BY <2>1, <2>2
<1> HIDE DEF left
<1>4. new \in WorkflowRuns /\ new.commit = running[1].commit /\ new.again = running[1].again
      /\ new.jobs = running[1].jobs \ {job} /\ new.failed = left
  BY <1>1, <1>3 DEF WorkflowRuns
<1> HIDE DEF new
<1>5. AtMostOne(running') /\ running' # <<>> /\ running'[1] = new
  BY <1>2, <1>4 DEF AtMostOne
<1> QED BY <1>1, <1>3, <1>4, <1>5 DEF RunningGoesOn, Follows, Publishes

\* A run that is over, as it may be run again.
LEMMA EndedFollows ==
  ASSUME NEW q \in WorkflowRuns, NEW todo \in SUBSET (q.jobs \cup q.failed)
  PROVE  Ended(q, todo) \in PastRuns /\ Follows(Ended(q, todo), q)
<1> DEFINE new == Ended(q, todo)
<1>a. /\ q.event \in {"push", "dispatch"} /\ q.commit \in Nat
      /\ q.jobs \in SUBSET JobNames /\ q.failed \in SUBSET JobNames
  BY DEF WorkflowRuns
<1>b. /\ new.commit = q.commit /\ new.jobs = todo /\ new.failed = {} /\ new.again = TRUE
      /\ new \in WorkflowRuns
  BY <1>a DEF Ended, WorkflowRuns
<1>1. /\ new \in PastRuns /\ new.commit = q.commit /\ new.jobs = todo /\ new.failed = {}
  BY <1>b DEF PastRuns
<1> HIDE DEF new
<1> QED BY <1>1 DEF Follows, Publishes, new

LEMMA OverKeeps ==
  ASSUME NEW runsOver, NEW kept \in over(runsOver)
  PROVE  kept \subseteq runsOver
BY DEF over

\* What is cancelled for another run is among the runs.
LEMMA CancelledFollows ==
  ASSUME ReleaseType, NEW kept \in over(Cancelled)
  PROVE  \A r \in kept : r \in PastRuns /\ \E q \in AllRuns : Follows(r, q)
<1> SUFFICES ASSUME NEW r \in Cancelled PROVE r \in PastRuns /\ \E q \in AllRuns : Follows(r, q)
  BY OverKeeps
<1>1. PICK w \in ToSet(waiting) : r = Ended(w, w.jobs)
  BY DEF Cancelled
<1>2. waiting # <<>> /\ w = waiting[1]
  <2>1. w \in {waiting[i] : i \in DOMAIN waiting}
    BY <1>1 DEF ToSet
  <2>2. waiting \in Seq(WorkflowRuns) /\ Len(waiting) <= 1
    BY DEF ReleaseType, AtMostOne
  <2> QED BY <2>1, <2>2
<1>3. w \in WorkflowRuns /\ w \in AllRuns
  BY <1>2, ReleaseTypeFacts
<1>4. w.jobs \in SUBSET (w.jobs \cup w.failed)
  OBVIOUS
<1> QED BY <1>1, <1>3, <1>4, EndedFollows

\* A run that is triggered, and the one that is cancelled for it.
LEMMA Triggered ==
  ASSUME ReleaseType, NEW event \in {"push", "dispatch"}, NEW bot \in BOOLEAN, NEW c \in Nat,
         trigger(event, bot, c), c = Latest', history' # <<>>
  PROVE  /\ AtMostOne(waiting') /\ WaitingFollows
         /\ past' \in SUBSET PastRuns /\ PastFollows
<1> DEFINE new == [event |-> event, bot |-> bot, commit |-> c,
                   jobs |-> {}, failed |-> {}, again |-> FALSE]
<1>1. waiting' = <<new>> /\ \E kept \in over(Cancelled) : past' = past \cup kept
  BY DEF trigger, enqueue
<1>2. new \in WorkflowRuns /\ new.commit = c /\ new.jobs = {} /\ new.failed = {}
  BY DEF WorkflowRuns
<1> HIDE DEF new
<1>3. AtMostOne(waiting') /\ waiting'[1] = new
  BY <1>1, <1>2 DEF AtMostOne
<1>4. PICK kept \in over(Cancelled) : past' = past \cup kept
  BY <1>1
<1>5. past \subseteq PastRuns /\ past \subseteq AllRuns
  BY ReleaseTypeFacts DEF ReleaseType
<1>6. \A r \in kept : r \in PastRuns /\ \E q \in AllRuns : Follows(r, q)
  BY <1>4, CancelledFollows
<1>7. past' \in SUBSET PastRuns /\ PastFollows
  BY <1>4, <1>5, <1>6 DEF PastFollows, Follows
<1> QED BY <1>2, <1>3, <1>7 DEF WaitingFollows

\* A commit on the branch: its version and mode follow from the last one's.
LEMMA CommitAppended ==
  ASSUME ReleaseInv, history # <<>>, NEW tree \in Trees, history' = Append(history, tree),
         \/ tree.version = history[Latest].version
         \/ history[Latest].version.number < tree.version.number,
         tree.mode = "pre" => tree.version.number = 0 \/ ~ tree.version.final,
         tree.mode = "none" => tree.version.final,
         tree.mode # "none" => tree.files # {}
  PROVE  HistoryInv' /\ HistoryGrows /\ history' \in Seq(Trees) /\ Latest' = Latest + 1
         /\ history' # <<>> /\ Latest \in Nat
<1>1. /\ Latest \in Nat /\ Latest >= 1 /\ history \in Seq(Trees)
      /\ \A i \in 1 .. Latest : history[i].version.number \in Nat
  BY ReleaseTypeFacts DEF ReleaseInv, ReleaseType
<1>2. /\ history' \in Seq(Trees) /\ Latest' = Latest + 1 /\ history' # <<>>
      /\ history'[Latest + 1] = tree /\ \A i \in 1 .. Latest : history'[i] = history[i]
  BY <1>1 DEF Latest
<1>3. tree.version.number \in Nat
  BY DEF Trees, Versions
<1> DEFINE ver(i) == history'[i].version
<1>4. \A i, j \in 1 .. Latest + 1 : i < j => ver(i).number < ver(j).number \/ ver(i) = ver(j)
  <2> SUFFICES ASSUME NEW i \in 1 .. Latest + 1, NEW j \in 1 .. Latest + 1, i < j
               PROVE  ver(i).number < ver(j).number \/ ver(i) = ver(j)
    OBVIOUS
  <2>0. i \in 1 .. Latest
    BY <1>1
  <2>1. i \in 1 .. Latest /\ ver(i) = history[i].version /\ ver(i).number \in Nat
    BY <2>0, <1>1, <1>2, Zenon
  <2>2. CASE j \in 1 .. Latest
    <3>1. ver(j) = history[j].version
      BY <2>2, <1>2
    <3> QED BY <2>1, <2>2, <3>1, Zenon DEF ReleaseInv, HistoryInv
  <2>3. CASE j = Latest + 1
    <3>1. ver(j) = tree.version
      BY <2>3, <1>2
    <3>2. ver(i).number < history[Latest].version.number \/ ver(i) = history[Latest].version
      <4>1. CASE i = Latest
        BY <2>1, <4>1, Zenon
      <4>2. CASE i < Latest
        <5>1. Latest \in 1 .. Latest
          BY <1>1
        <5> QED BY <2>1, <4>2, <5>1, Zenon DEF ReleaseInv, HistoryInv
      <4> QED BY <4>1, <4>2, <2>1, <1>1
    <3>3. history[Latest].version.number \in Nat
      BY <1>1
    <3> DEFINE a == ver(i)
               b == history[Latest].version
               c == tree.version
    <3> HIDE DEF a, b, c
    <3>4. /\ a.number < b.number \/ a = b
          /\ c = b \/ b.number < c.number
          /\ a.number \in Nat /\ b.number \in Nat /\ c.number \in Nat
      BY <3>2, <3>3, <1>3, <2>1, Zenon DEF a, b, c
    <3>5. a.number < c.number \/ a = c
      BY <3>4
    <3>6. a = ver(i) /\ c = ver(j)
      BY <3>1 DEF a, c
    <3> HIDE DEF ver
    <3> QED BY <3>5, <3>6
  <2>4. j \in 1 .. Latest \/ j = Latest + 1
    BY <1>1
  <2> HIDE DEF ver
  <2> QED BY <2>2, <2>3, <2>4, Zenon
<1>5. \A i \in 1 .. Latest + 1 :
       /\ history'[i].mode = "pre" => history'[i].version.number = 0 \/ ~ history'[i].version.final
       /\ history'[i].mode = "none" => history'[i].version.final
       /\ history'[i].mode # "none" => history'[i].files # {}
  <2>1. \A i \in 1 .. Latest + 1 : i \in 1 .. Latest \/ i = Latest + 1
    BY <1>1
  <2> QED BY <2>1, <1>2, Zenon DEF ReleaseInv, HistoryInv
<1>6. history'[1].version = Version(0, TRUE)
  <2>1. history'[1] = history[1]
    BY <1>1, <1>2
  <2> QED BY <2>1, Zenon DEF ReleaseInv, HistoryInv
<1>7. HistoryInv'
  <2>1. (\A i, j \in 1 .. Latest : i < j =>
           \/ history[i].version.number < history[j].version.number
           \/ history[i].version = history[j].version)'
    BY <1>2, <1>4, Zenon
  <2>2. (\A i \in 1 .. Latest :
          /\ history[i].mode = "pre" => history[i].version.number = 0 \/ ~ history[i].version.final
          /\ history[i].mode = "none" => history[i].version.final
          /\ history[i].mode # "none" => history[i].files # {})'
    BY <1>2, <1>5, Zenon
  <2>3. (history # <<>> => history[1].version = Version(0, TRUE))'
    BY <1>6, Zenon DEF Version
  <2> QED BY <2>1, <2>2, <2>3, Zenon DEF HistoryInv
<1>8. HistoryGrows
  <2>1. Latest <= Latest'
    BY <1>1, <1>2
  <2> QED BY <2>1, <1>2, Zenon DEF HistoryGrows
<1> QED BY <1>1, <1>2, <1>7, <1>8

\* A step that publishes nothing keeps the invariant when it keeps the runs.
LEMMA ReleaseStep ==
  ASSUME ReleaseInv, HistoryInv', HistoryGrows, history' \in Seq(Trees), UNCHANGED npmVars,
         starting' \in {{}, {"branch"}, {"rerun"}}, starting' = {"rerun"} => history' # <<>>,
         AtMostOne(running'), RunningGoesOn,
         AtMostOne(waiting'), WaitingFollows,
         past' \in SUBSET PastRuns, PastFollows,
         proposal' \in 0 .. Latest', back' \in 0 .. Latest'
  PROVE  ReleaseInv'
<1>1. Latest' \in Nat /\ (history' # <<>> => Latest' >= 1)
  BY DEF Latest
<1>2. RunsInv' /\ PublishedInv' /\ ToPublishInv' /\ DistinctReleases' /\ TaggedAsWhatItIs'
  BY <1>1, RunsKept
<1>3. ReleaseType'
  BY DEF ReleaseInv, ReleaseType, AtMostOne, npmVars
<1> QED BY <1>2, <1>3 DEF ReleaseInv

\* Runs that stay as they are.
LEMMA RunsStay ==
  ASSUME ReleaseType
  PROVE  /\ UNCHANGED running => AtMostOne(running') /\ RunningGoesOn
         /\ UNCHANGED waiting => AtMostOne(waiting') /\ WaitingFollows
         /\ UNCHANGED past => past' \in SUBSET PastRuns /\ PastFollows
<1>1. UNCHANGED running => AtMostOne(running') /\ RunningGoesOn
  BY DEF ReleaseType, RunningGoesOn, Follows
<1>2. UNCHANGED waiting => AtMostOne(waiting') /\ WaitingFollows
  BY DEF ReleaseType, WaitingFollows
<1>3. UNCHANGED past => past' \in SUBSET PastRuns /\ PastFollows
  BY ReleaseTypeFacts DEF ReleaseType, PastFollows, Follows
<1> QED BY <1>1, <1>2, <1>3

\* A step that leaves the branch alone.
LEMMA BranchSame ==
  ASSUME ReleaseInv, UNCHANGED history
  PROVE  /\ HistoryInv' /\ HistoryGrows /\ history' \in Seq(Trees) /\ Latest' = Latest
         /\ starting' = starting => (starting' = {"rerun"} => history' # <<>>)
         /\ starting' = starting => starting' \in {{}, {"branch"}, {"rerun"}}
         /\ Latest \in Nat /\ proposal \in 0 .. Latest /\ back \in 0 .. Latest
<1>1. Latest' = Latest /\ Latest \in Nat
  BY ReleaseTypeFacts DEF ReleaseInv, Latest
<1>2. HistoryInv'
  BY <1>1 DEF ReleaseInv, HistoryInv
<1>3. HistoryGrows
  BY <1>1 DEF HistoryGrows
<1>4. starting' = starting => (starting' = {"rerun"} => history' # <<>>)
  BY DEF ReleaseInv, RunsInv
<1> QED BY <1>1, <1>2, <1>3, <1>4 DEF ReleaseInv, ReleaseType

\* The jobs that neither push nor publish, done or failed.
LEMMA QuietJobInv ==
  ASSUME ReleaseInv, NEW job, HasJob(job),
         \/ \E todo \in SUBSET {"rerun"} : finishJob(job, todo)
         \/ failJob(job),
         UNCHANGED <<history, starting, waiting, past, npmVars>>,
         proposal' \in {proposal, Commit}, back' \in {back, Commit}
  PROVE  ReleaseInv'
<1>1. AtMostOne(running') /\ running # <<>> /\ RunningGoesOn
  BY JobDone, JobFailed DEF ReleaseInv
<1>2. /\ HistoryInv' /\ HistoryGrows /\ history' \in Seq(Trees) /\ Latest' = Latest
      /\ starting' = {"rerun"} => history' # <<>>
      /\ starting' \in {{}, {"branch"}, {"rerun"}}
      /\ Latest \in Nat /\ proposal \in 0 .. Latest /\ back \in 0 .. Latest
  BY BranchSame
<1>3. Commit \in 1 .. Latest
  BY <1>1, ReleaseTypeFacts DEF ReleaseInv, RunsInv, Commit
<1>4. proposal' \in 0 .. Latest' /\ back' \in 0 .. Latest'
  BY <1>2, <1>3
<1>5. /\ AtMostOne(waiting') /\ WaitingFollows
      /\ past' \in SUBSET PastRuns /\ PastFollows
  BY RunsStay DEF ReleaseInv
<1>6. UNCHANGED npmVars
  OBVIOUS
<1> QED BY <1>1, <1>2, <1>4, <1>5, <1>6, ReleaseStep

\* The steps that trigger, end or repeat a run and leave the branch alone.
LEMMA QuietRunInv ==
  ASSUME ReleaseInv, UNCHANGED history, UNCHANGED npmVars,
         AtMostOne(running'), RunningGoesOn, AtMostOne(waiting'), WaitingFollows,
         past' \in SUBSET PastRuns, PastFollows,
         starting' \in {starting, {}, {"branch"}},
         proposal' = proposal, back' \in {back, 0}
  PROVE  ReleaseInv'
<1>1. /\ HistoryInv' /\ HistoryGrows /\ history' \in Seq(Trees) /\ Latest' = Latest
      /\ starting' = starting => (starting' = {"rerun"} => history' # <<>>)
      /\ starting' = starting => starting' \in {{}, {"branch"}, {"rerun"}}
      /\ Latest \in Nat /\ proposal \in 0 .. Latest /\ back \in 0 .. Latest
  BY BranchSame
<1>2. proposal' \in 0 .. Latest' /\ back' \in 0 .. Latest'
  BY <1>1
<1>3. {"rerun"} # {} /\ {"rerun"} # {"branch"}
  OBVIOUS
<1>4. starting' = {"rerun"} => history' # <<>>
  BY <1>1, <1>3
<1>5. starting' \in {{}, {"branch"}, {"rerun"}}
  BY <1>1
<1> QED BY <1>1, <1>2, <1>4, <1>5, ReleaseStep

\* A run that is triggered on the last commit, the branch being left alone.
LEMMA DispatchedInv ==
  ASSUME ReleaseInv, history # <<>>, UNCHANGED <<history, npmVars, proposal, back>>,
         NEW bot \in BOOLEAN, trigger("dispatch", bot, Latest),
         AtMostOne(running'), RunningGoesOn, starting' \in {starting, {}}
  PROVE  ReleaseInv'
<1>1. Latest \in Nat /\ Latest' = Latest
  BY BranchSame
<1>2. "dispatch" \in {"push", "dispatch"}
  OBVIOUS
<1>3. ReleaseType
  BY DEF ReleaseInv
<1>4. /\ AtMostOne(waiting') /\ WaitingFollows
      /\ past' \in SUBSET PastRuns /\ PastFollows
  BY <1>1, <1>2, <1>3, Triggered
<1>5. UNCHANGED history /\ UNCHANGED npmVars /\ proposal' = proposal /\ back' \in {back, 0}
  OBVIOUS
<1>6. starting' \in {starting, {}, {"branch"}}
  OBVIOUS
<1> QED BY <1>4, <1>5, <1>6, QuietRunInv

\* A run on a pushed commit, which was made from the last one.
LEMMA PushedInv ==
  ASSUME ReleaseInv, history # <<>>, NEW tree \in Trees, pushed(tree),
         UNCHANGED <<starting, running, npmVars>>,
         proposal' \in {proposal, 0}, back' = back,
         \/ tree.version = history[Latest].version
         \/ history[Latest].version.number < tree.version.number,
         tree.mode = "pre" => tree.version.number = 0 \/ ~ tree.version.final,
         tree.mode = "none" => tree.version.final,
         tree.mode # "none" => tree.files # {}
  PROVE  ReleaseInv'
<1>1. history' = Append(history, tree) /\ trigger("push", FALSE, Latest + 1)
  BY DEF pushed
<1>2. HistoryInv' /\ HistoryGrows /\ history' \in Seq(Trees) /\ Latest' = Latest + 1
      /\ history' # <<>> /\ Latest \in Nat
  BY <1>1, CommitAppended
<1>3. /\ AtMostOne(waiting') /\ WaitingFollows
      /\ past' \in SUBSET PastRuns /\ PastFollows
  <2>1. Latest + 1 \in Nat /\ Latest + 1 = Latest'
    BY <1>2
  <2>2. "push" \in {"push", "dispatch"} /\ FALSE \in BOOLEAN
    OBVIOUS
  <2>3. ReleaseType
    BY DEF ReleaseInv
  <2> QED BY <1>1, <1>2, <2>1, <2>2, <2>3, Triggered
<1>4. proposal' \in 0 .. Latest' /\ back' \in 0 .. Latest'
  BY <1>2 DEF ReleaseInv, ReleaseType
<1>5. AtMostOne(running') /\ RunningGoesOn
  BY RunsStay DEF ReleaseInv
<1>6. starting' \in {{}, {"branch"}, {"rerun"}} /\ UNCHANGED npmVars
  BY DEF ReleaseInv, ReleaseType
<1> QED BY <1>2, <1>3, <1>4, <1>5, <1>6, ReleaseStep

\* The version before the branch is the first commit's, and the only number 0.
LEMMA FirstVersion ==
  ASSUME ReleaseInv, NEW c \in 1 .. Latest
  PROVE  /\ 1 \in 1 .. c /\ history[1].version = Version(0, TRUE)
         /\ history[c].version.number = 0 => history[c].version = Version(0, TRUE)
<1>1. Latest \in Nat /\ c \in Nat /\ c >= 1 /\ Latest >= 1 /\ 1 \in 1 .. Latest
  BY ReleaseTypeFacts DEF ReleaseInv
<1>2. history[1].version = Version(0, TRUE)
  <2>1. history # <<>>
    BY <1>1, ReleaseTypeFacts DEF ReleaseInv
  <2> QED BY <2>1, Zenon DEF ReleaseInv, HistoryInv
<1>3. history[1].version.number = 0
  <2>1. Version(0, TRUE).number = 0
    BY DEF Version
  <2> QED BY <1>2, <2>1
<1>4. ASSUME history[c].version.number = 0 PROVE history[c].version = Version(0, TRUE)
  <2>1. CASE c = 1
    BY <2>1, <1>2
  <2>2. CASE 1 < c
    <3>1. history[1].version.number < history[c].version.number \/ history[1].version = history[c].version
      BY <1>1, <2>2, Zenon DEF ReleaseInv, HistoryInv
    <3>2. ~ history[1].version.number < history[c].version.number
      BY <1>3, <1>4
    <3> QED BY <3>1, <3>2, <1>2
  <2>3. c = 1 \/ 1 < c
    BY <1>1
  <2> QED BY <2>1, <2>2, <2>3
<1>5. 1 \in 1 .. c
  BY <1>1
<1> QED BY <1>2, <1>4, <1>5

\* A run begins, with what the state asks for, with the jobs it still had, or
\* with none.
LEMMA BeganInv ==
  ASSUME ReleaseInv, running = <<>>, waiting # <<>>,
         NEW todo, todo = waiting[1].jobs \/ (todo = jobsOf(waiting[1])),
         running' = <<[waiting[1] EXCEPT !.jobs = todo]>>, waiting' = <<>>,
         UNCHANGED <<history, starting, past, proposal, back, npmVars>>
  PROVE  ReleaseInv'
<1> DEFINE w == waiting[1]
           new == [w EXCEPT !.jobs = todo]
           t == history[w.commit]
           Right == prerelease(t) = ~ t.version.final
<1>0. UNCHANGED releases /\ UNCHANGED latest
  BY DEF npmVars
<1>1. running' = <<new>>
  OBVIOUS
<1>2. /\ w \in WorkflowRuns /\ w.commit \in 1 .. Latest /\ Latest \in Nat
      /\ Publishes(w) => Right
      /\ ~ w.again => w.jobs = {}
  <2>1. w \in WorkflowRuns /\ w \in AllRuns /\ Latest \in Nat
    BY ReleaseTypeFacts DEF ReleaseInv
  <2>2. w.commit \in 1 .. Latest /\ (Publishes(w) => Right)
    BY <2>1, Zenon DEF ReleaseInv, RunsInv
  <2>3. ~ w.again => w.jobs = {}
    BY DEF ReleaseInv, RunsInv
  <2> HIDE DEF w, Right
  <2> QED BY <2>1, <2>2, <2>3
<1>3. /\ t \in Trees /\ t.version.number \in Nat /\ t.version.final \in BOOLEAN
      /\ t.mode = "pre" => t.version.number = 0 \/ ~ t.version.final
      /\ t.mode = "none" => t.version.final
      /\ t.mode # "none" => t.files # {}
      /\ t.version.number = 0 => t.version = Version(0, TRUE)
  <2>1. t.version.number = 0 => t.version = Version(0, TRUE)
    BY <1>2, FirstVersion
  <2> QED BY <2>1, <1>2, ReleaseTypeFacts, Zenon DEF ReleaseInv, HistoryInv
<1>4. "publish" \in jobsOf(w) => ~ isPublishedOnNpm(t.version) /\ Right
  <2> SUFFICES ASSUME "publish" \in jobsOf(w)
               PROVE  ~ isPublishedOnNpm(t.version) /\ prerelease(t) = ~ t.version.final
    OBVIOUS
  <2>1. ~ hasPendingChangesets(t) /\ ~ isPublishedOnNpm(t.version)
    <3>1. shouldRunPublish(w)
      BY DEF jobsOf
    <3> QED BY <3>1 DEF shouldRunPublish
  <2>2. isPublishedOnNpm(Version(0, TRUE))
    BY DEF ReleaseInv, PublishedInv
  <2>3. t.version.number # 0
    BY <1>3, <2>1, <2>2, Zenon
  <2> HIDE DEF t
  <2>4. t.mode \in {"pre", "none"}
    <3>1. t.mode \in {"pre", "exit", "none"}
      BY <1>3 DEF Trees
    <3>2. t.mode # "exit"
      <4> SUFFICES ASSUME t.mode = "exit" PROVE FALSE
        OBVIOUS
      <4>1. t.mode # "pre" /\ t.mode # "none"
        OBVIOUS
      <4>2. readChangesetState(t).changesets = t.files
        BY <4>1 DEF readChangesetState
      <4> QED BY <4>1, <4>2, <2>1, <1>3 DEF hasPendingChangesets
    <3> QED BY <3>1, <3>2
  <2>5. prerelease(t) = (t.mode = "pre")
    BY DEF prerelease, readChangesetState
  <2>6. CASE t.mode = "pre"
    BY <2>1, <2>3, <2>5, <2>6, <1>3
  <2>7. CASE t.mode = "none"
    <3>1. t.mode # "pre"
      BY <2>7
    <3> QED BY <3>1, <2>1, <2>5, <2>7, <1>3
  <2> QED BY <2>4, <2>6, <2>7
<1>5. todo \in SUBSET JobNames
  <2>1. jobsOf(w) \in SUBSET JobNames
    BY DEF jobsOf, JobNames
  <2>2. w.jobs \in SUBSET JobNames
    BY <1>2 DEF WorkflowRuns
  <2> QED BY <2>1, <2>2
<1>6. /\ new \in WorkflowRuns /\ new.commit = w.commit /\ new.jobs = todo
      /\ new.failed = w.failed /\ new.again = w.again
  BY <1>2, <1>5 DEF WorkflowRuns
<1>b. todo = w.jobs \/ todo = jobsOf(w)
  OBVIOUS
<1> HIDE DEF w, new, t, Right
<1>c. /\ Publishes(new) => Right
      /\ "publish" \in new.jobs /\ ~ new.again => ~ isPublishedOnNpm(t.version)
  BY <1>2, <1>4, <1>6, <1>b DEF Publishes
<1>7. AtMostOne(running') /\ running' # <<>> /\ running'[1] = new /\ AtMostOne(waiting')
  BY <1>1, <1>6 DEF AtMostOne
<1>8. /\ HistoryInv' /\ HistoryGrows /\ history' \in Seq(Trees) /\ Latest' = Latest
  BY BranchSame
<1>9. ReleaseType'
  BY <1>0, <1>7, <1>8 DEF ReleaseInv, ReleaseType, AtMostOne
<1>10. RunsInv'
  <2>1. ASSUME NEW r \in AllRuns'
        PROVE  (/\ r.commit \in 1 .. Latest
                /\ Publishes(r) => prerelease(history[r.commit]) = ~ history[r.commit].version.final)'
    <3>1. CASE r = new
      <4>1. r.commit \in 1 .. Latest'
        BY <3>1, <1>2, <1>6, <1>8
      <4>2. history'[r.commit] = t
        BY <3>1, <1>6 DEF t
      <4> QED BY <3>1, <4>1, <4>2, <1>c, Zenon DEF Right, Publishes
    <3>2. CASE r \in past
      <4>1. r \in AllRuns
        BY <3>2, ReleaseTypeFacts DEF ReleaseInv
      <4> QED BY <4>1, <1>8, Zenon DEF ReleaseInv, RunsInv, Publishes
    <3> QED BY <2>1, <3>1, <3>2, <1>7 DEF AllRuns
  <2>2. (starting = {"rerun"} => history # <<>>)'
    BY DEF ReleaseInv, RunsInv
  <2> QED BY <2>1, <2>2 DEF RunsInv
<1>11. PublishedInv'
  <2>1. /\ ~ w.again => PublishedUpTo(w.commit)
        /\ PublishedUpTo(Latest) /\ isPublishedOnNpm(Version(0, TRUE))
    BY DEF ReleaseInv, PublishedInv, w
  <2>2. running'[1].commit = w.commit /\ running'[1].again = w.again
    BY <1>6, <1>7
  <2>3. isPublishedOnNpm(Version(0, TRUE))'
    BY <1>0, <2>1, Zenon DEF isPublishedOnNpm, Version
  <2>4. PublishedUpTo(Latest)'
    BY <1>0, <1>8, <2>1, Zenon DEF PublishedUpTo, Version
  <2>5. ~ running'[1].again => PublishedUpTo(running[1].commit)'
    BY <1>0, <2>1, <2>2, Zenon DEF PublishedUpTo, Version
  <2> QED BY <2>3, <2>4, <2>5 DEF PublishedInv
<1>12. ToPublishInv'
  <2> SUFFICES ASSUME HasJob("publish")', ~ running'[1].again
               PROVE  (~ isPublishedOnNpm(history[Commit].version))'
    BY Zenon DEF ToPublishInv
  <2>1. history'[Commit'] = t /\ "publish" \in new.jobs /\ ~ new.again
    BY <1>6, <1>7 DEF t, Commit, HasJob
  <2>2. ~ isPublishedOnNpm(t.version)
    BY <2>1, <1>c
  <2> QED BY <1>0, <2>1, <2>2, Zenon DEF isPublishedOnNpm
<1>13. DistinctReleases' /\ TaggedAsWhatItIs'
  BY <1>0 DEF ReleaseInv, DistinctReleases, TaggedAsWhatItIs
<1> QED BY <1>8, <1>9, <1>10, <1>11, <1>12, <1>13 DEF ReleaseInv

\* What is about to be published for the first time is newer than all that is.
LEMMA PublishIsNewer ==
  ASSUME ReleaseInv
  PROVE  ReleasesIncrease
<1> SUFFICES ASSUME HasJob("publish"), ~ running[1].again, NEW i \in DOMAIN releases
             PROVE  releases[i].version.number < history[Commit].version.number
  BY DEF ReleasesIncrease, ReleaseInv, DistinctReleases
<1>1. Commit \in 1 .. Latest /\ Latest \in Nat /\ running # <<>> /\ running[1].commit = Commit
  BY ReleaseTypeFacts DEF ReleaseInv, RunsInv, HasJob, Commit
<1>2. releases[i].version # history[Commit].version
  BY DEF ReleaseInv, ToPublishInv, isPublishedOnNpm
<1>3. PICK k \in 1 .. Commit : releases[i].version = history[k].version
  <2>1. PublishedUpTo(Commit)
    BY <1>1, Zenon DEF ReleaseInv, PublishedInv
  <2>2. history[1].version = Version(0, TRUE) /\ 1 \in 1 .. Commit
    BY <1>1, FirstVersion
  <2> QED BY <2>1, <2>2, Zenon DEF PublishedUpTo
<1>4. k # Commit
  BY <1>2, <1>3
<1>5. k < Commit /\ k \in 1 .. Latest
  BY <1>1, <1>4
<1>6. history[k].version.number < history[Commit].version.number \/ history[k].version = history[Commit].version
  BY <1>1, <1>5, Zenon DEF ReleaseInv, HistoryInv
<1> QED BY <1>2, <1>3, <1>6, Zenon

LEMMA PublishInv ==
  ASSUME ReleaseInv, publish
  PROVE  ReleaseInv'
<1> DEFINE t == history[Commit]
           new == [version |-> t.version, prerelease |-> prerelease(t)]
           n == Len(releases) + 1
<1>1. /\ HasJob("publish") /\ ~ isPublishedOnNpm(t.version) /\ releases' = Append(releases, new)
      /\ latest' = IF dist_tag(t) = "latest" THEN t.version ELSE latest
      /\ finishJob("publish", {}) \/ failJob("publish")
      /\ UNCHANGED <<history, starting, waiting, past, proposal, back>>
  BY DEF publish
<1>2. /\ AtMostOne(running') /\ running # <<>> /\ running' # <<>> /\ RunningGoesOn
      /\ "publish" \notin running'[1].jobs
  <2>1. {} \in SUBSET {"rerun"}
    OBVIOUS
  <2> QED BY <1>1, <2>1, JobDone, JobFailed DEF ReleaseInv
<1>3. /\ Commit \in 1 .. Latest /\ Latest \in Nat /\ running[1].commit = Commit
      /\ prerelease(t) = ~ t.version.final
  <2>1. running[1] \in AllRuns /\ Latest \in Nat /\ running[1].commit = Commit
    BY <1>2, ReleaseTypeFacts DEF ReleaseInv, Commit
  <2>2. Publishes(running[1])
    BY <1>1 DEF HasJob, Publishes
  <2> QED BY <2>1, <2>2, Zenon DEF ReleaseInv, RunsInv
<1>4. t.version \in Versions /\ t.version.number \in Nat /\ t.version.final \in BOOLEAN /\ prerelease(t) \in BOOLEAN
  <2>1. t \in Trees
    BY <1>3, ReleaseTypeFacts DEF ReleaseInv
  <2>2. prerelease(t) \in BOOLEAN
    BY DEF prerelease, readChangesetState
  <2> HIDE DEF t
  <2> QED BY <2>1, <2>2 DEF Trees, Versions
<1>5. new.version = t.version /\ new.prerelease = prerelease(t)
      /\ new \in [version : Versions, prerelease : BOOLEAN]
  BY <1>4
<1>6. latest \in Versions /\ latest.number \in Nat /\ latest.final
  BY DEF ReleaseInv, ReleaseType, TaggedAsWhatItIs, Versions
<1>7. /\ latest' \in Versions /\ latest'.final /\ latest.number <= latest'.number
      /\ t.version.final => t.version.number <= latest'.number
  <2>1. CASE dist_tag(t) = "latest"
    <3>1. latest' = t.version
      BY <1>1, <2>1
    <3>2. t.version.final /\ t.version.number > latest.number
      BY <2>1 DEF dist_tag
    <3> HIDE DEF t
    <3> QED BY <3>1, <3>2, <1>4, <1>6
  <2>2. CASE dist_tag(t) # "latest"
    <3>1. latest' = latest
      BY <1>1, <2>2
    <3>2. prerelease(t) \/ ~ (t.version.final /\ t.version.number > latest.number)
      BY <2>2 DEF dist_tag
    <3> HIDE DEF t
    <3>3. t.version.final => ~ (t.version.number > latest.number)
      BY <3>2, <1>3, Zenon
    <3> QED BY <3>1, <3>3, <1>4, <1>6
  <2> QED BY <2>1, <2>2
<1> HIDE DEF new, t
<1>8. /\ releases' \in Seq([version : Versions, prerelease : BOOLEAN])
      /\ DOMAIN releases' = DOMAIN releases \cup {n} /\ n \notin DOMAIN releases
      /\ \A i \in DOMAIN releases : releases'[i] = releases[i]
      /\ releases'[n] = new
  BY <1>1, <1>5 DEF ReleaseInv, ReleaseType
<1> HIDE DEF n
<1>9. HistoryInv' /\ HistoryGrows /\ history' \in Seq(Trees) /\ Latest' = Latest
  BY <1>1, BranchSame
<1>10. ReleaseType'
  BY <1>1, <1>2, <1>7, <1>8, <1>9 DEF ReleaseInv, ReleaseType, AtMostOne
<1>11. RunsInv'
  <2>1. ASSUME NEW r \in AllRuns'
        PROVE  \E q \in AllRuns : Follows(r, q)
    <3>1. CASE r = running'[1]
      BY <3>1, <1>2, ReleaseTypeFacts DEF ReleaseInv, RunningGoesOn
    <3>2. CASE r \in past \/ (waiting # <<>> /\ r = waiting[1])
      BY <3>2, ReleaseTypeFacts DEF ReleaseInv, Follows
    <3> QED BY <1>1, <2>1, <3>1, <3>2 DEF AllRuns
  <2>2. (\A r \in AllRuns :
          /\ r.commit \in 1 .. Latest
          /\ Publishes(r) => prerelease(history[r.commit]) = ~ history[r.commit].version.final)'
    <3> SUFFICES ASSUME NEW r \in AllRuns'
                 PROVE  (/\ r.commit \in 1 .. Latest
                         /\ Publishes(r) => prerelease(history[r.commit]) = ~ history[r.commit].version.final)'
      BY Zenon
    <3>1. PICK q \in AllRuns : Follows(r, q)
      BY <2>1
    <3>2. /\ q.commit \in 1 .. Latest
          /\ Publishes(q) => prerelease(history[q.commit]) = ~ history[q.commit].version.final
      BY Zenon DEF ReleaseInv, RunsInv
    <3>3. r.commit = q.commit /\ (Publishes(r) => Publishes(q))
      BY <3>1 DEF Follows
    <3> QED BY <3>2, <3>3, <1>1, <1>9, Zenon DEF Publishes
  <2>3. /\ running[1].commit = running'[1].commit
        /\ starting' = {"rerun"} => history' # <<>>
        /\ waiting # <<>> /\ ~ waiting[1].again =>
             waiting[1].jobs = {} /\ running[1].commit <= waiting[1].commit
    BY <1>1, <1>2 DEF ReleaseInv, RunsInv, RunningGoesOn, Follows
  <2> QED BY <1>1, <2>2, <2>3 DEF RunsInv
<1>12. PublishedInv'
  <2>1. ASSUME NEW c \in Nat, PublishedUpTo(c), Commit <= c
        PROVE  \A i \in DOMAIN releases' :
                 \/ releases'[i].version = Version(0, TRUE)
                 \/ \E k \in 1 .. c : releases'[i].version = history'[k].version
    <3> SUFFICES ASSUME NEW i \in DOMAIN releases', releases'[i].version # Version(0, TRUE)
                 PROVE  \E k \in 1 .. c : releases'[i].version = history'[k].version
      OBVIOUS
    <3>1. CASE i = n
      <4>1. Commit \in 1 .. c /\ releases'[i].version = history'[Commit].version
        BY <3>1, <2>1, <1>1, <1>3, <1>5, <1>8 DEF t
      <4> QED BY <4>1
    <3>2. CASE i \in DOMAIN releases
      <4>1. releases'[i] = releases[i]
        BY <3>2, <1>8
      <4> QED BY <3>2, <4>1, <2>1, <1>1 DEF PublishedUpTo
    <3> QED BY <3>1, <3>2, <1>8
  <2>2. isPublishedOnNpm(Version(0, TRUE))'
    <3>1. isPublishedOnNpm(Version(0, TRUE))
      BY DEF ReleaseInv, PublishedInv
    <3>2. PICK i \in DOMAIN releases : releases[i].version = Version(0, TRUE)
      BY <3>1, Zenon DEF isPublishedOnNpm
    <3>3. i \in DOMAIN releases' /\ releases'[i] = releases[i]
      BY <1>8
    <3> QED BY <3>2, <3>3, Zenon DEF isPublishedOnNpm, Version
  <2>3. PublishedUpTo(Latest)'
    <3>1. PublishedUpTo(Latest) /\ Commit <= Latest
      BY <1>3 DEF ReleaseInv, PublishedInv
    <3> QED BY <3>1, <2>1, <1>3, <1>9, Zenon DEF PublishedUpTo, Version
  <2>4. ~ running'[1].again => PublishedUpTo(running[1].commit)'
    <3> SUFFICES ASSUME ~ running'[1].again PROVE PublishedUpTo(running[1].commit)'
      BY Zenon
    <3>0. Commit <= Commit /\ Commit \in Nat
      BY <1>3
    <3>1. PublishedUpTo(Commit) /\ running'[1].commit = Commit
      BY <1>2, <1>3 DEF ReleaseInv, PublishedInv, RunningGoesOn, Follows
    <3> QED BY <3>0, <3>1, <2>1, Zenon DEF PublishedUpTo, Version
  <2>5. waiting' # <<>> /\ ~ waiting'[1].again => PublishedUpTo(waiting[1].commit)'
    <3> SUFFICES ASSUME waiting # <<>>, ~ waiting[1].again PROVE PublishedUpTo(waiting[1].commit)'
      BY <1>1
    <3> DEFINE c == waiting[1].commit
    <3>0. waiting[1] \in AllRuns /\ Latest \in Nat
      BY ReleaseTypeFacts DEF ReleaseInv
    <3>1. PublishedUpTo(c) /\ Commit <= c /\ c \in Nat /\ waiting'[1].commit = c
      BY <1>1, <1>2, <1>3, <3>0 DEF ReleaseInv, PublishedInv, RunsInv
    <3> HIDE DEF c
    <3> QED BY <3>1, <2>1, Zenon DEF PublishedUpTo, Version
  <2> QED BY <2>2, <2>3, <2>4, <2>5, Zenon DEF PublishedInv
<1>13. ToPublishInv'
  BY <1>2 DEF ToPublishInv, HasJob
<1>14. DistinctReleases'
  <2>1. \A i \in DOMAIN releases : releases'[i].version # releases'[n].version
    BY <1>1, <1>5, <1>8, Zenon DEF isPublishedOnNpm
  <2> SUFFICES ASSUME NEW i \in DOMAIN releases', NEW j \in DOMAIN releases',
                      releases'[i].version = releases'[j].version
               PROVE  i = j
    BY DEF DistinctReleases
  <2>2. CASE i \in DOMAIN releases /\ j \in DOMAIN releases
    BY <2>2, <1>8, Zenon DEF ReleaseInv, DistinctReleases
  <2>3. CASE i = n \/ j = n
    BY <2>1, <2>3, <1>8, Zenon
  <2> QED BY <2>2, <2>3, <1>8
<1>15. TaggedAsWhatItIs'
  <2> SUFFICES ASSUME NEW i \in DOMAIN releases'
               PROVE  /\ releases'[i].prerelease = ~ releases'[i].version.final
                      /\ releases'[i].version.final => releases'[i].version.number <= latest'.number
    BY <1>7 DEF TaggedAsWhatItIs
  <2>1. CASE i = n
    BY <2>1, <1>3, <1>5, <1>7, <1>8, Zenon
  <2>2. CASE i \in DOMAIN releases
    <3>0. releases[i] \in [version : Versions, prerelease : BOOLEAN]
      <4> DEFINE R == [version : Versions, prerelease : BOOLEAN]
      <4>1. releases \in Seq(R)
        BY DEF ReleaseInv, ReleaseType
      <4> HIDE DEF R
      <4>2. releases[i] \in R
        BY <2>2, <4>1
      <4> QED BY <4>2 DEF R
    <3>1. releases'[i] = releases[i] /\ releases[i].version.number \in Nat /\ latest'.number \in Nat
      BY <2>2, <3>0, <1>7, <1>8 DEF Versions
    <3>2. /\ releases[i].prerelease = ~ releases[i].version.final
          /\ releases[i].version.final => releases[i].version.number <= latest.number
      BY <2>2, Zenon DEF ReleaseInv, TaggedAsWhatItIs
    <3>3. releases[i].version.final => releases[i].version.number <= latest'.number
      BY <3>1, <3>2, <1>6, <1>7
    <3> QED BY <3>1, <3>2, <3>3, Zenon
  <2> QED BY <2>1, <2>2, <1>8
<1> QED BY <1>9, <1>10, <1>11, <1>12, <1>13, <1>14, <1>15 DEF ReleaseInv

LEMMA StartBranchInv ==
  ASSUME ReleaseInv, startBranch
  PROVE  ReleaseInv'
<1>1. PICK sets \in NewChangesets \ {{}} :
        history' = <<Tree("pre", sets, {}, Version(0, TRUE))>>
  BY DEF startBranch
<1>2. /\ history = <<>> /\ starting' = {"rerun"}
      /\ UNCHANGED <<running, waiting, past, proposal, back, npmVars>>
  BY DEF startBranch
<1> DEFINE tree == Tree("pre", sets, {}, Version(0, TRUE))
<1>3. /\ tree \in Trees /\ tree.version = Version(0, TRUE) /\ tree.version.number = 0
      /\ tree.mode = "pre" /\ tree.files # {}
  <2> DEFINE v == Version(0, TRUE)
  <2>1. v.number = 0 /\ v \in Versions
    BY DEF Version, Versions
  <2> HIDE DEF v
  <2>2. tree = [mode |-> "pre", files |-> sets, used |-> {}, version |-> v]
    BY DEF Tree, v
  <2> HIDE DEF tree
  <2>0. sets \subseteq Changesets
    BY DEF NewChangesets
  <2>3. tree \in Trees /\ tree.version = v /\ tree.mode = "pre" /\ tree.files = sets
    BY <2>0, <2>1, <2>2 DEF Trees
  <2>4. v = Version(0, TRUE) /\ sets # {}
    BY DEF v
  <2>5. tree.version = Version(0, TRUE) /\ tree.version.number = 0 /\ tree.files # {}
    BY <2>1, <2>3, <2>4
  <2> QED BY <2>3, <2>5
<1>4. history' = <<tree>>
  BY <1>1
<1> HIDE DEF tree
<1>5. /\ history' \in Seq(Trees) /\ Latest' = 1 /\ history' # <<>> /\ history'[1] = tree /\ Latest = 0
  BY <1>2, <1>3, <1>4 DEF Latest
<1>6. HistoryInv'
  <2>1. \A i \in 1 .. 1 : i = 1
    OBVIOUS
  <2>2. (\A i, j \in 1 .. Latest : i < j =>
           \/ history[i].version.number < history[j].version.number
           \/ history[i].version = history[j].version)'
    BY <1>5, <2>1, Zenon
  <2>3. tree.mode # "none"
    BY <1>3
  <2>4. (\A i \in 1 .. Latest :
          /\ history[i].mode = "pre" => history[i].version.number = 0 \/ ~ history[i].version.final
          /\ history[i].mode = "none" => history[i].version.final
          /\ history[i].mode # "none" => history[i].files # {})'
    BY <1>3, <1>5, <2>1, <2>3, Zenon
  <2>5. (history # <<>> => history[1].version = Version(0, TRUE))'
    BY <1>3, <1>5, Zenon DEF Version
  <2> QED BY <2>2, <2>4, <2>5, Zenon DEF HistoryInv
<1>7. HistoryGrows
  BY <1>5 DEF HistoryGrows
<1>8. proposal' \in 0 .. Latest' /\ back' \in 0 .. Latest'
  BY <1>2, <1>5 DEF ReleaseInv, ReleaseType
<1>9. /\ AtMostOne(running') /\ RunningGoesOn /\ AtMostOne(waiting') /\ WaitingFollows
      /\ past' \in SUBSET PastRuns /\ PastFollows
  BY <1>2, RunsStay DEF ReleaseInv
<1>10. UNCHANGED npmVars
  BY <1>2
<1> QED BY <1>2, <1>5, <1>6, <1>7, <1>8, <1>9, <1>10, ReleaseStep

LEMMA PromoteInv ==
  ASSUME ReleaseInv, promote
  PROVE  ReleaseInv'
<1>1. HasJob("promote") /\ finishJob("promote", {"rerun"}) /\
        UNCHANGED <<starting, waiting, past, proposal, back, npmVars>>
  BY DEF promote
<1>2. CASE UNCHANGED history
  <2>1. {"rerun"} \in SUBSET {"rerun"} /\ proposal' \in {proposal, Commit} /\ back' \in {back, Commit}
    BY <1>1
  <2> QED BY <1>1, <1>2, <2>1, QuietJobInv
<1>3. CASE /\ prerelease(history[Commit]) /\ Commit = Latest
           /\ history' = Append(history, [history[Commit] EXCEPT !.mode = "exit"])
  <2> DEFINE last == history[Latest]
             tree == [last EXCEPT !.mode = "exit"]
  <2>1. last.mode = "pre" /\ history' = Append(history, tree)
    BY <1>3 DEF prerelease, readChangesetState
  <2>2. AtMostOne(running') /\ running # <<>> /\ RunningGoesOn
    BY <1>1, JobDone DEF ReleaseInv
  <2>3. Latest \in 1 .. Latest /\ history # <<>> /\ last \in Trees
    <3>1. Latest \in Nat /\ running[1].commit \in 1 .. Latest
      BY <2>2, ReleaseTypeFacts, Zenon DEF ReleaseInv, RunsInv
    <3> QED BY <3>1, ReleaseTypeFacts DEF ReleaseInv
  <2>4. last.files # {}
    <3>1. last.mode # "none"
      BY <2>1
    <3> QED BY <3>1, <2>3, Zenon DEF ReleaseInv, HistoryInv
  <2>5. /\ tree \in Trees /\ tree.version = last.version /\ tree.mode = "exit"
        /\ tree.files = last.files
    <3> HIDE DEF last
    <3> QED BY <2>3 DEF Trees
  <2> HIDE DEF tree
  <2>6. tree.mode # "pre" /\ tree.mode # "none" /\ tree.version = history[Latest].version /\ tree.files # {}
    BY <2>4, <2>5
  <2>7. HistoryInv' /\ HistoryGrows /\ history' \in Seq(Trees) /\ Latest' = Latest + 1
        /\ history' # <<>> /\ Latest \in Nat
    <3> HIDE DEF last
    <3> QED BY <2>1, <2>3, <2>5, <2>6, CommitAppended
  <2>8. proposal' \in 0 .. Latest' /\ back' \in 0 .. Latest'
    BY <1>1, <2>7 DEF ReleaseInv, ReleaseType
  <2>9. starting' \in {{}, {"branch"}, {"rerun"}}
    BY <1>1 DEF ReleaseInv, ReleaseType
  <2>10. /\ AtMostOne(waiting') /\ WaitingFollows
         /\ past' \in SUBSET PastRuns /\ PastFollows
    BY <1>1, RunsStay DEF ReleaseInv
  <2>11. UNCHANGED npmVars
    BY <1>1
  <2> QED BY <2>2, <2>7, <2>8, <2>9, <2>10, <2>11, ReleaseStep
<1> QED BY <1>1, <1>2, <1>3 DEF promote

LEMMA CommitInv ==
  ASSUME ReleaseInv, commit
  PROVE  ReleaseInv'
<1> DEFINE last == history[Latest]
<1>1. PICK new \in NewChangesets : pushed([last EXCEPT !.files = @ \cup new])
  BY DEF commit
<1> DEFINE tree == [last EXCEPT !.files = @ \cup new]
<1>2. history # <<>> /\ UNCHANGED <<starting, running, proposal, back, npmVars>>
  BY DEF commit
<1>3. Latest \in 1 .. Latest /\ last \in Trees
  <2>1. Latest \in Nat /\ Latest >= 1
    BY <1>2, ReleaseTypeFacts DEF ReleaseInv
  <2> QED BY <2>1, ReleaseTypeFacts DEF ReleaseInv
<1>4. /\ last.mode = "pre" => last.version.number = 0 \/ ~ last.version.final
      /\ last.mode = "none" => last.version.final
      /\ last.mode # "none" => last.files # {}
  BY <1>3, Zenon DEF ReleaseInv, HistoryInv
<1>5. /\ tree \in Trees /\ tree.version = last.version /\ tree.mode = last.mode
      /\ tree.files = last.files \cup new
  <2>1. new \subseteq Changesets
    BY DEF NewChangesets
  <2> HIDE DEF last
  <2> QED BY <1>3, <2>1 DEF Trees
<1>6. pushed(tree)
  BY <1>1
<1> HIDE DEF tree
<1>7. /\ tree.version = history[Latest].version
      /\ tree.mode = "pre" => tree.version.number = 0 \/ ~ tree.version.final
      /\ tree.mode = "none" => tree.version.final
      /\ tree.mode # "none" => tree.files # {}
  BY <1>4, <1>5
<1> HIDE DEF last
<1> QED BY <1>2, <1>5, <1>6, <1>7, PushedInv

LEMMA MergeProposalInv ==
  ASSUME ReleaseInv, mergeProposal
  PROVE  ReleaseInv'
<1> DEFINE from == history[proposal]
           onto == history[Latest]
           tree == versioned(from, onto)
           next == from.version.number + 1
<1>1. /\ proposal # 0 /\ proposal' = 0 /\ from.mode = onto.mode /\ from.version = onto.version
      /\ pushed(tree) /\ UNCHANGED <<starting, running, back, npmVars>>
  BY DEF mergeProposal
<1>2. /\ history # <<>> /\ Latest \in 1 .. Latest /\ from \in Trees /\ onto \in Trees
      /\ from.version.number \in Nat /\ onto.version.number \in Nat
  <2>1. Latest \in Nat /\ proposal \in 1 .. Latest /\ Latest \in 1 .. Latest
    BY <1>1, ReleaseTypeFacts DEF ReleaseInv, ReleaseType
  <2> QED BY <2>1, ReleaseTypeFacts DEF ReleaseInv
<1>3. onto.mode # "none" => onto.files # {}
  BY <1>2, Zenon DEF ReleaseInv, HistoryInv
<1>4. \A final \in BOOLEAN :
        /\ Version(next, final) \in Versions /\ Version(next, final).number = next
        /\ Version(next, final).final = final
  <2>1. next \in Nat
    BY <1>2
  <2> HIDE DEF next
  <2> QED BY <2>1 DEF Version, Versions
<1>5. onto.version.number < next
  BY <1>1, <1>2
<1>6. /\ tree \in Trees /\ tree.version.number = next
      /\ tree.mode = "pre" => ~ tree.version.final
      /\ tree.mode = "none" => tree.version.final
      /\ tree.mode # "none" => tree.files # {}
  <2>1. CASE from.mode = "pre"
    <3>1. tree = [onto EXCEPT !.used = from.files, !.version = Version(next, FALSE)]
      BY <2>1 DEF versioned
    <3>2. from.files \in SUBSET Changesets
      BY <1>2 DEF Trees
    <3> HIDE DEF tree, from, onto, next
    <3>3. /\ tree \in Trees /\ tree.version = Version(next, FALSE)
          /\ tree.files = onto.files /\ tree.mode = onto.mode
      BY <3>1, <3>2, <1>2, <1>4 DEF Trees
    <3>4. tree.mode # "none" /\ onto.mode # "none"
      BY <3>3, <2>1, <1>1
    <3> QED BY <3>3, <3>4, <1>3, <1>4
  <2>2. CASE from.mode # "pre"
    <3>1. tree = Tree("none", onto.files \ from.files, {}, Version(next, TRUE))
      BY <2>2 DEF versioned
    <3>2. onto.files \in SUBSET Changesets
      BY <1>2 DEF Trees
    <3> HIDE DEF tree, from, onto, next
    <3>3. tree \in Trees /\ tree.version = Version(next, TRUE) /\ tree.mode = "none"
      BY <3>1, <3>2, <1>4 DEF Tree, Trees
    <3>4. tree.mode # "pre"
      BY <3>3
    <3> QED BY <3>3, <3>4, <1>4
  <2> QED BY <2>1, <2>2
<1>7. history[Latest].version.number < tree.version.number
  BY <1>5, <1>6
<1> HIDE DEF tree, from, onto, next
<1> QED BY <1>1, <1>2, <1>6, <1>7, PushedInv

LEMMA ReleaseNextInv == ReleaseInv /\ [ReleaseNext]_releaseVars => ReleaseInv'
<1> SUFFICES ASSUME ReleaseInv, [ReleaseNext]_releaseVars PROVE ReleaseInv'
  OBVIOUS
<1>a. ReleaseType
  BY DEF ReleaseInv
<1>b. /\ {} \in SUBSET {"rerun"} /\ TRUE \in BOOLEAN /\ FALSE \in BOOLEAN
      /\ AtMostOne(<<>>)
  BY DEF AtMostOne
<1>c. Latest \in Nat
  BY <1>a, ReleaseTypeFacts
<1>d. running' = <<>> => AtMostOne(running') /\ RunningGoesOn
  BY <1>b DEF RunningGoesOn
<1>1. CASE begin
  <2> DEFINE todo == IF waiting[1].jobs = {} THEN jobsOf(waiting[1]) ELSE waiting[1].jobs
  <2>1. /\ running = <<>> /\ waiting # <<>> /\ waiting' = <<>>
        /\ UNCHANGED <<history, starting, past, proposal, back, npmVars>>
        /\ running' = <<[waiting[1] EXCEPT !.jobs = todo]>>
    BY <1>1 DEF begin
  <2>2. todo = waiting[1].jobs \/ todo = jobsOf(waiting[1])
    OBVIOUS
  <2> HIDE DEF todo
  <2> QED BY <2>1, <2>2, BeganInv
<1>2. CASE stateFails
  <2> DEFINE todo == waiting[1].jobs
  <2>1. /\ running = <<>> /\ waiting # <<>> /\ waiting' = <<>> /\ running' = waiting
        /\ UNCHANGED <<history, starting, past, proposal, back, npmVars>>
    BY <1>2 DEF stateFails
  <2>2. waiting = <<[waiting[1] EXCEPT !.jobs = todo]>>
    <3>1. waiting[1] \in WorkflowRuns /\ waiting = <<waiting[1]>>
      BY <1>a, <2>1, ReleaseTypeFacts
    <3>2. \A r \in WorkflowRuns : r = [r EXCEPT !.jobs = r.jobs]
      BY DEF WorkflowRuns
    <3> QED BY <3>1, <3>2
  <2> QED BY <2>1, <2>2, BeganInv
<1>3. CASE end
  <2>1. /\ running # <<>> /\ running' = <<>>
        /\ UNCHANGED <<history, starting, waiting, proposal, back, npmVars>>
    BY <1>3 DEF end
  <2>2. PICK kept \in over({Ended(running[1], running[1].failed)}) : past' = past \cup kept
    BY <1>3 DEF end
  <2>3. running[1] \in WorkflowRuns /\ running[1] \in AllRuns
    BY <1>a, <2>1, ReleaseTypeFacts
  <2>4. \A r \in kept : r \in PastRuns /\ Follows(r, running[1])
    <3>1. running[1].failed \in SUBSET (running[1].jobs \cup running[1].failed)
      OBVIOUS
    <3> QED BY <2>2, <2>3, <3>1, OverKeeps, EndedFollows
  <2>5. past' \in SUBSET PastRuns /\ PastFollows
    BY <1>a, <2>2, <2>3, <2>4, ReleaseTypeFacts DEF ReleaseType, PastFollows, Follows
  <2>6. AtMostOne(waiting') /\ WaitingFollows
    BY <1>a, <2>1, RunsStay
  <2>7. /\ UNCHANGED history /\ UNCHANGED npmVars /\ proposal' = proposal /\ back' \in {back, 0}
        /\ starting' \in {starting, {}, {"branch"}}
    BY <2>1
  <2> QED BY <1>d, <2>1, <2>5, <2>6, <2>7, QuietRunInv
<1>4. CASE startBranch
  BY <1>4, StartBranchInv
<1>5. CASE rerunStart
  <2>1. history # <<>>
    BY <1>5 DEF ReleaseInv, RunsInv, rerunStart
  <2>2. /\ UNCHANGED <<history, npmVars, proposal, back>> /\ starting' \in {starting, {}}
        /\ trigger("dispatch", TRUE, Latest) /\ UNCHANGED running
    BY <1>5 DEF rerunStart
  <2>3. AtMostOne(running') /\ RunningGoesOn
    BY <1>a, <2>2, RunsStay
  <2> QED BY <1>b, <2>1, <2>2, <2>3, DispatchedInv
<1>6. CASE startFails
  <2>1. /\ UNCHANGED history /\ UNCHANGED npmVars /\ proposal' = proposal /\ back' \in {back, 0}
        /\ starting' \in {starting, {}, {"branch"}}
        /\ UNCHANGED running /\ UNCHANGED waiting /\ UNCHANGED past
    BY <1>6 DEF startFails
  <2> QED BY <1>a, <2>1, RunsStay, QuietRunInv
<1>7. CASE promote
  BY <1>7, PromoteInv
<1>8. CASE rerun
  <2>1. /\ UNCHANGED <<history, npmVars, proposal, back>> /\ starting' \in {starting, {}}
        /\ trigger("dispatch", TRUE, Latest) /\ HasJob("rerun") /\ finishJob("rerun", {})
    BY <1>8 DEF rerun
  <2>2. AtMostOne(running') /\ RunningGoesOn /\ running # <<>>
    BY <1>a, <1>b, <2>1, JobDone
  <2>3. history # <<>>
    <3>1. running[1].commit \in 1 .. Latest
      BY <1>a, <2>2, ReleaseTypeFacts DEF ReleaseInv, RunsInv
    <3> QED BY <1>a, <1>c, <3>1, ReleaseTypeFacts
  <2> QED BY <1>b, <2>1, <2>2, <2>3, DispatchedInv
<1>9. CASE changesets
  BY <1>9, <1>b, QuietJobInv DEF changesets
<1>10. CASE changesetsStops
  BY <1>10, QuietJobInv DEF changesetsStops
<1>11. CASE publish
  BY <1>11, PublishInv
<1>12. CASE mergeJob
  BY <1>12, <1>b, QuietJobInv DEF mergeJob
<1>13. CASE jobFails
  <2>1. PICK job \in {"promote", "rerun", "changesets", "publish", "merge"} : HasJob(job) /\ failJob(job)
    BY <1>13 DEF jobFails
  <2>2. /\ UNCHANGED <<history, starting, waiting, past, npmVars>>
        /\ proposal' \in {proposal, Commit} /\ back' \in {back, Commit}
    BY <1>13 DEF jobFails
  <2> QED BY <2>1, <2>2, QuietJobInv
<1>14. CASE dispatchStart
  <2>1. /\ UNCHANGED history /\ UNCHANGED npmVars /\ proposal' = proposal /\ back' \in {back, 0}
        /\ starting' \in {starting, {}, {"branch"}}
        /\ UNCHANGED running /\ UNCHANGED waiting /\ UNCHANGED past
    BY <1>14 DEF dispatchStart
  <2> QED BY <1>a, <2>1, RunsStay, QuietRunInv
<1>15. CASE dispatch
  <2>1. /\ UNCHANGED <<history, npmVars, proposal, back>> /\ starting' \in {starting, {}}
        /\ history # <<>> /\ trigger("dispatch", FALSE, Latest) /\ UNCHANGED running
    BY <1>15 DEF dispatch
  <2>2. AtMostOne(running') /\ RunningGoesOn
    BY <1>a, <2>1, RunsStay
  <2> QED BY <1>b, <2>1, <2>2, DispatchedInv
<1>16. CASE retry
  <2>1. PICK run \in past :
          /\ \/ waiting' = <<[run EXCEPT !.jobs = {}]>>
             \/ run.jobs # {} /\ waiting' = <<run>>
          /\ \E kept \in over(Cancelled) : past' = (past \ {run}) \cup kept
    BY <1>16 DEF retry
  <2>2. PICK kept \in over(Cancelled) : past' = (past \ {run}) \cup kept
    BY <2>1
  <2>3. /\ run \in WorkflowRuns /\ run.again /\ run \in AllRuns
        /\ past \subseteq PastRuns /\ past \subseteq AllRuns
    BY <1>a, ReleaseTypeFacts DEF ReleaseType, PastRuns
  <2>4. past' \in SUBSET PastRuns /\ PastFollows
    <3>1. \A r \in kept : r \in PastRuns /\ \E q \in AllRuns : Follows(r, q)
      BY <1>a, <2>2, CancelledFollows
    <3> QED BY <2>2, <2>3, <3>1 DEF PastFollows, Follows
  <2>5. AtMostOne(waiting') /\ WaitingFollows
    <3> DEFINE blank == [run EXCEPT !.jobs = {}]
    <3>1. /\ blank \in WorkflowRuns /\ Follows(blank, run) /\ blank.again = run.again
          /\ Follows(run, run)
      BY <2>3 DEF WorkflowRuns, Follows, Publishes
    <3> HIDE DEF blank
    <3>2. PICK new \in {blank, run} : waiting' = <<new>>
      BY <2>1 DEF blank
    <3>3. new \in WorkflowRuns /\ new.again /\ Follows(new, run)
      BY <2>3, <3>1, <3>2
    <3>4. AtMostOne(waiting') /\ waiting'[1] = new
      BY <3>2, <3>3 DEF AtMostOne
    <3> QED BY <2>3, <3>3, <3>4 DEF WaitingFollows
  <2>6. /\ UNCHANGED history /\ UNCHANGED npmVars /\ proposal' = proposal /\ back' \in {back, 0}
        /\ starting' \in {starting, {}, {"branch"}} /\ UNCHANGED running
    BY <1>16 DEF retry
  <2>7. AtMostOne(running') /\ RunningGoesOn
    BY <1>a, <2>6, RunsStay
  <2> QED BY <2>4, <2>5, <2>6, <2>7, QuietRunInv
<1>17. CASE commit
  BY <1>17, CommitInv
<1>18. CASE mergeProposal
  BY <1>18, MergeProposalInv
<1>19. CASE mergeBack
  <2>1. /\ UNCHANGED history /\ UNCHANGED npmVars /\ proposal' = proposal /\ back' \in {back, 0}
        /\ starting' \in {starting, {}, {"branch"}}
        /\ UNCHANGED running /\ UNCHANGED waiting /\ UNCHANGED past
    BY <1>19 DEF mergeBack
  <2> QED BY <1>a, <2>1, RunsStay, QuietRunInv
<1>20. CASE UNCHANGED releaseVars
  <2>1. /\ UNCHANGED history /\ UNCHANGED npmVars /\ proposal' = proposal /\ back' \in {back, 0}
        /\ starting' \in {starting, {}, {"branch"}}
        /\ UNCHANGED running /\ UNCHANGED waiting /\ UNCHANGED past
    BY <1>20 DEF releaseVars
  <2> QED BY <1>a, <2>1, RunsStay, QuietRunInv
<1> QED BY <1>1, <1>2, <1>3, <1>4, <1>5, <1>6, <1>7, <1>8, <1>9, <1>10, <1>11, <1>12, <1>13,
           <1>14, <1>15, <1>16, <1>17, <1>18, <1>19, <1>20 DEF ReleaseNext, Automation, Maintainers

\* Every state of the release branch satisfies the invariant.
THEOREM ReleaseInvariant == ReleaseSpec => []ReleaseInv
<1>1. ReleaseInit => ReleaseInv
  BY ReleaseInitInv
<1>2. ReleaseInv /\ [ReleaseNext]_releaseVars => ReleaseInv'
  BY ReleaseNextInv
<1> QED BY <1>1, <1>2, PTL DEF ReleaseSpec

\* However runs, pushes, merges, failures and repeated runs interleave, the
\* workflow publishes a version at most once, and a run that was not repeated
\* publishes none after a later one.
THEOREM VersionsIncrease == ReleaseSpec => []ReleasesIncrease
<1>1. ReleaseInv => ReleasesIncrease
  BY PublishIsNewer
<1> QED BY <1>1, ReleaseInvariant, PTL

\* A release candidate is published as a prerelease, a final version is not, and
\* npm's latest is the newest final version, whatever is published late.
THEOREM ReleasesTagged == ReleaseSpec => []TaggedAsWhatItIs
<1>1. ReleaseInv => TaggedAsWhatItIs
  BY DEF ReleaseInv
<1> QED BY <1>1, ReleaseInvariant, PTL

(***************************************************************************)
(* The docs branch.                                                        *)
(***************************************************************************)
\* The minors that are asked for, and those that a package.json may have.
PackageMinors == Minors \cup {BeforeFirst}

DocsCommits == [branch : Minors, minor : PackageMinors, id : Nat]

\* What NeverOlder says of the remote, of any docs branch.
Rising(docs) == \A i \in 1 .. Len(docs) - 1 : docs[i + 1].branch >= docs[i].minor

\* All minors are written with as many digits.
SameWidth == \A m, n \in PackageMinors : m < 10 <=> n < 10

DocsType ==
  /\ origin \in Seq(DocsCommits) /\ commits \in Nat
  /\ local \in [Clones -> Seq(DocsCommits)]
  /\ tracking \in [Clones -> Seq(DocsCommits)]
  /\ documenting \in [Clones -> SUBSET ReleaseTrees]

\* A clone that documents has in its branch all that it fetched.
FetchedInv ==
  \A c \in Clones : documenting[c] # {} => IsPrefix(tracking[c], local[c])

DocsInv == DocsType /\ FetchedInv

\* Every branch is as the remote's has to be, and would be with the docs that
\* are being prepared, as long as the strings of the minors are compared as
\* their numbers.
RisingInv ==
  /\ SameWidth /\ Rising(origin)
  /\ \A c \in Clones :
       /\ Rising(local[c])
       /\ \A tree \in documenting[c] :
            local[c] # <<>> => tree.branch >= publishedMinor(local[c])

-----------------------------------------------------------------------------
(* Trees, prefixes and strings of digits. *)

LEMMA PackageMinorsAreNumbers == PackageMinors \subseteq 0 .. 99 /\ Minors \subseteq PackageMinors
BY DocsAssumption DEF PackageMinors, Minors

\* Whatever state it is in, a branch has its own minor or the one before.
LEMMA TreeType ==
  ASSUME NEW tree \in ReleaseTrees
  PROVE  tree.branch \in Minors /\ tree.minor \in PackageMinors
<1>1. PICK m \in Minors : tree \in {Unbumped(m), Candidate(m), Released(m)}
  BY DEF ReleaseTrees
<1>2. tree.branch = m
  BY <1>1 DEF Unbumped, Candidate, Released
<1>3. tree.minor \in {m, IF m = FirstMinor THEN BeforeFirst ELSE m - 1}
  BY <1>1 DEF Unbumped, Candidate, Released
<1>4. m # FirstMinor => m - 1 \in Minors
  BY DocsAssumption DEF Minors
<1> QED BY <1>2, <1>3, <1>4 DEF PackageMinors

\* With as many digits, the order of the strings is that of the numbers.
LEMMA LessIsLess ==
  ASSUME SameWidth, NEW m \in PackageMinors, NEW n \in PackageMinors
  PROVE  Less(digits(m), digits(n)) <=> m < n
<1>1. m \in 0 .. 99 /\ n \in 0 .. 99 /\ (m < 10 <=> n < 10)
  BY PackageMinorsAreNumbers DEF SameWidth
<1>2. CASE m < 10
  <2> DEFINE s == <<m>>
             t == <<n>>
  <2>1. digits(m) = s /\ digits(n) = t
    BY <1>1, <1>2 DEF digits
  <2>2. Len(s) = 1 /\ Len(t) = 1 /\ s[1] = m /\ t[1] = n
    OBVIOUS
  <2>3. SubSeq(s, 1, 0) = <<>> /\ SubSeq(t, 1, 0) = <<>>
    BY SubSeqEmpty
  <2> HIDE DEF s, t
  <2>4. Less(s, t) <=> m < n
    BY <1>1, <2>2, <2>3 DEF Less
  <2> QED BY <2>1, <2>4
<1>3. CASE ~ (m < 10)
  <2> DEFINE a == m \div 10
             b == m % 10
             e == n \div 10
             f == n % 10
             s == <<a, b>>
             t == <<e, f>>
  <2>1. digits(m) = s /\ digits(n) = t
    BY <1>1, <1>3 DEF digits
  <2>2. /\ a \in Nat /\ b \in 0 .. 9 /\ e \in Nat /\ f \in 0 .. 9
        /\ m = 10 * a + b /\ n = 10 * e + f
    BY <1>1
  <2> HIDE DEF a, b, e, f
  <2>3. Len(s) = 2 /\ Len(t) = 2 /\ s[1] = a /\ s[2] = b /\ t[1] = e /\ t[2] = f
        /\ s \in Seq(Nat) /\ t \in Seq(Nat)
    BY <2>2
  <2> HIDE DEF s, t
  <2>4. SubSeq(s, 1, 0) = <<>> /\ SubSeq(t, 1, 0) = <<>>
    BY SubSeqEmpty
  <2>5. SubSeq(s, 1, 1) = SubSeq(t, 1, 1) <=> a = e
    <3> DEFINE u == SubSeq(s, 1, 1)
               v == SubSeq(t, 1, 1)
    <3>0. ASSUME NEW w \in Seq(Nat), Len(w) = 2
          PROVE  SubSeq(w, 1, 1) \in Seq(Nat) /\ Len(SubSeq(w, 1, 1)) = 1 /\ SubSeq(w, 1, 1)[1] = w[1]
      <4>1. \A i \in 1 .. 1 : w[i] \in Nat
        <5>1. \A i \in 1 .. 1 : i \in 1 .. Len(w)
          BY <3>0
        <5> QED BY <5>1, ElementOfSeq
      <4>2. 1 \in Int /\ 1 <= 1 /\ 1 \in 1 .. 1 - 1 + 1 /\ 1 - 1 + 1 = 1 /\ 1 + 1 - 1 = 1
        OBVIOUS
      <4> QED BY <4>1, <4>2, SubSeqProperties
    <3>1. u \in Seq(Nat) /\ Len(u) = 1 /\ u[1] = a
      BY <2>3, <3>0
    <3>2. v \in Seq(Nat) /\ Len(v) = 1 /\ v[1] = e
      BY <2>3, <3>0
    <3> HIDE DEF u, v
    <3>3. a = e => u = v
      <4> SUFFICES ASSUME a = e PROVE u = v
        OBVIOUS
      <4>1. Len(u) = Len(v) /\ \A i \in 1 .. Len(u) : u[i] = v[i]
        BY <3>1, <3>2
      <4> QED BY <3>1, <3>2, <4>1, SeqEqual
    <3>4. u = v => a = e
      BY <3>1, <3>2
    <3>5. u = v <=> a = e
      BY <3>3, <3>4
    <3> QED BY <3>5 DEF u, v
  <2>6. Less(s, t) <=> a < e \/ (a = e /\ b < f)
    <3>1. Less(s, t) <=> \E i \in {1, 2} :
            /\ SubSeq(s, 1, i - 1) = SubSeq(t, 1, i - 1)
            /\ i - 1 = Len(s) \/ (i <= Len(s) /\ s[i] < t[i])
      <4>1. 1 .. Len(t) = {1, 2}
        BY <2>3
      <4> QED BY <4>1, Zenon DEF Less
    <3>2. 1 - 1 = 0 /\ 2 - 1 = 1
      OBVIOUS
    <3> QED BY <3>1, <3>2, <2>3, <2>4, <2>5
  <2>7. m < n <=> a < e \/ (a = e /\ b < f)
    BY <2>2
  <2> QED BY <2>1, <2>6, <2>7
<1> QED BY <1>2, <1>3

LEMMA PrefixElements ==
  ASSUME NEW S, NEW s \in Seq(S), NEW t \in Seq(S)
  PROVE  IsPrefix(s, t) <=> /\ Len(s) <= Len(t)
                            /\ \A i \in 1 .. Len(s) : s[i] = t[i]
<1>1. Len(s) \in Nat /\ Len(t) \in Nat
  OBVIOUS
<1>2. ASSUME Len(s) <= Len(t)
      PROVE  SubSeq(s, 1, Len(s)) = SubSeq(t, 1, Len(s)) <=> \A i \in 1 .. Len(s) : s[i] = t[i]
  <2> DEFINE u == SubSeq(t, 1, Len(s))
  <2>1. SubSeq(s, 1, Len(s)) = s
    BY SubSeqFull
  <2>2. u \in Seq(S) /\ Len(u) = Len(s) /\ \A i \in 1 .. Len(s) : u[i] = t[i]
    BY <1>1, <1>2
  <2> HIDE DEF u
  <2>3. s = u <=> \A i \in 1 .. Len(s) : s[i] = u[i]
    BY <2>2, SeqEqual
  <2> QED BY <2>1, <2>2, <2>3 DEF u
<1> QED BY <1>2 DEF IsPrefix

-----------------------------------------------------------------------------
(* The steps. *)

\* The types of the clones.
LEMMA DocsCloneType ==
  ASSUME DocsInv, NEW c \in Clones
  PROVE  /\ origin \in Seq(DocsCommits) /\ local[c] \in Seq(DocsCommits)
         /\ tracking[c] \in Seq(DocsCommits) /\ Len(local[c]) \in Nat
         /\ DOMAIN local[c] = 1 .. Len(local[c])
BY DEF DocsInv, DocsType

\* What a check that goes on finds: the branch of the clone, if there is one,
\* and the one it fetched are the same, and not newer.
LEMMA CheckFinds ==
  ASSUME DocsInv, NEW c \in Clones, NEW tree \in ReleaseTrees,
         noOthers(c, origin), notNewer(c, tree, origin)
  PROVE  LET found == IF local[c] = <<>> THEN origin ELSE local[c]
         IN  /\ IsPrefix(origin, found)
             /\ found # <<>> => ~ Less(digits(tree.branch), digits(publishedMinor(found)))
<1> DEFINE found == IF local[c] = <<>> THEN origin ELSE local[c]
<1>1. origin \in Seq(DocsCommits) /\ local[c] \in Seq(DocsCommits)
  BY DocsCloneType
<1>2. origin = <<>> \/ origin = found
  BY DEF noOthers, matchingDocsBranches
<1>3. found # <<>> => found \in matchingDocsBranches(c, origin)
  BY DEF matchingDocsBranches
<1>4. found \in Seq(DocsCommits)
  BY <1>1
<1> HIDE DEF found
<1>5. IsPrefix(origin, found)
  BY <1>1, <1>2, <1>4, PrefixElements
<1>6. found # <<>> => ~ Less(digits(tree.branch), digits(publishedMinor(found)))
  BY <1>3, Zenon DEF notNewer
<1> QED BY <1>5, <1>6 DEF found

\* A commit comes after what there was.
LEMMA PrefixOfAppend ==
  ASSUME NEW S, NEW s \in Seq(S), NEW t \in Seq(S), NEW x \in S, IsPrefix(s, t)
  PROVE  IsPrefix(s, Append(t, x))
<1> DEFINE u == Append(t, x)
<1>1. Len(s) \in Nat /\ Len(t) \in Nat /\ Len(s) <= Len(t) /\ \A i \in 1 .. Len(s) : s[i] = t[i]
  BY PrefixElements
<1>2. u \in Seq(S) /\ Len(u) = Len(t) + 1 /\ \A i \in 1 .. Len(t) : u[i] = t[i]
  BY <1>1
<1> HIDE DEF u
<1>3. Len(s) <= Len(u) /\ \A i \in 1 .. Len(s) : s[i] = u[i]
  BY <1>1, <1>2
<1>4. IsPrefix(s, u)
  BY <1>2, <1>3, PrefixElements
<1> QED BY <1>4 DEF u

LEMMA DocsInitInv == DocsInit => DocsInv /\ (SameWidth => RisingInv)
<1> SUFFICES ASSUME DocsInit PROVE DocsInv /\ (SameWidth => RisingInv)
  OBVIOUS
<1>1. DocsInv
  BY DEF DocsInit, DocsInv, DocsType, FetchedInv
<1>2. Rising(<<>>)
  BY DEF Rising
<1>3. SameWidth => RisingInv
  BY <1>2 DEF DocsInit, RisingInv
<1> QED BY <1>1, <1>3

\* What commitDocs adds.
LEMMA CommitIsOfTree ==
  ASSUME DocsInv, NEW tree \in ReleaseTrees
  PROVE  [branch |-> tree.branch, minor |-> tree.minor, id |-> commits] \in DocsCommits
BY TreeType DEF DocsCommits, DocsInv, DocsType

LEMMA DocsNextInv == DocsInv /\ [DocsNext]_docsVars => DocsInv'
<1> SUFFICES ASSUME DocsInv, [DocsNext]_docsVars PROVE DocsInv'
  OBVIOUS
<1>t. /\ origin \in Seq(DocsCommits) /\ commits \in Nat
      /\ local \in [Clones -> Seq(DocsCommits)] /\ tracking \in [Clones -> Seq(DocsCommits)]
      /\ documenting \in [Clones -> SUBSET ReleaseTrees]
      /\ \A c \in Clones : documenting[c] # {} => IsPrefix(tracking[c], local[c])
  BY DEF DocsInv, DocsType, FetchedInv
<1>1. ASSUME NEW c \in Clones, check(c) PROVE DocsInv'
  <2>1. PICK tree \in ReleaseTrees :
          /\ documenting[c] = {}
          /\ tracking' = [tracking EXCEPT ![c] = origin]
          /\ IF noOthers(c, origin) /\ notNewer(c, tree, origin)
             THEN /\ documenting' = [documenting EXCEPT ![c] = {tree}]
                  /\ local' = [local EXCEPT ![c] = IF @ = <<>> THEN origin ELSE @]
             ELSE UNCHANGED <<documenting, local>>
          /\ UNCHANGED <<origin, commits>>
    BY <1>1 DEF check
  <2>2. CASE noOthers(c, origin) /\ notNewer(c, tree, origin)
    <3> DEFINE found == IF local[c] = <<>> THEN origin ELSE local[c]
    <3>1. IsPrefix(origin, found)
      BY <2>2, CheckFinds
    <3>2. found \in Seq(DocsCommits) /\ local' = [local EXCEPT ![c] = found]
          /\ documenting' = [documenting EXCEPT ![c] = {tree}]
      BY <2>1, <2>2, <1>t
    <3> HIDE DEF found
    <3>3. DocsType'
      BY <1>t, <2>1, <3>2 DEF DocsType
    <3>4. FetchedInv'
      BY <1>t, <2>1, <3>1, <3>2 DEF FetchedInv
    <3> QED BY <3>3, <3>4 DEF DocsInv
  <2>3. CASE ~ (noOthers(c, origin) /\ notNewer(c, tree, origin))
    <3>1. DocsType'
      BY <1>t, <2>1, <2>3 DEF DocsType
    <3>2. FetchedInv'
      BY <1>t, <2>1, <2>3 DEF FetchedInv
    <3> QED BY <3>1, <3>2 DEF DocsInv
  <2> QED BY <2>2, <2>3
<1>2. ASSUME NEW c \in Clones, commitDocs(c) PROVE DocsInv'
  <2>0. PICK tree \in documenting[c] :
          /\ commits' = commits + 1
          /\ local' = [local EXCEPT ![c] =
               Append(@, [branch |-> tree.branch, minor |-> tree.minor, id |-> commits])]
          /\ documenting' = [documenting EXCEPT ![c] = {}]
          /\ UNCHANGED <<origin, tracking>>
    BY <1>2 DEF commitDocs
  <2> DEFINE new == [branch |-> tree.branch, minor |-> tree.minor, id |-> commits]
  <2>1. new \in DocsCommits
    BY <1>t, CommitIsOfTree
  <2> HIDE DEF new
  <2>2. local' = [local EXCEPT ![c] = Append(@, new)]
    BY <2>0 DEF new
  <2>3. DocsType'
    BY <1>t, <2>0, <2>1, <2>2 DEF DocsType
  <2>4. FetchedInv'
    BY <1>t, <2>0, <2>2 DEF FetchedInv
  <2> QED BY <2>3, <2>4 DEF DocsInv
<1>3. ASSUME NEW c \in Clones, fail(c) PROVE DocsInv'
  BY <1>t, <1>3 DEF fail, DocsInv, DocsType, FetchedInv
<1>4. ASSUME NEW c \in Clones, push(c) PROVE DocsInv'
  <2>1. DocsType'
    BY <1>t, <1>4 DEF push, DocsType
  <2>2. FetchedInv'
    BY <1>t, <1>4 DEF push, FetchedInv
  <2> QED BY <2>1, <2>2 DEF DocsInv
<1>5. ASSUME NEW c \in Clones, clone(c) PROVE DocsInv'
  <2>1. DocsType'
    BY <1>t, <1>5 DEF clone, DocsType
  <2>2. FetchedInv'
    BY <1>t, <1>5 DEF clone, FetchedInv
  <2> QED BY <2>1, <2>2 DEF DocsInv
<1>6. CASE UNCHANGED docsVars
  BY <1>t, <1>6 DEF docsVars, DocsInv, DocsType, FetchedInv
<1> QED BY <1>1, <1>2, <1>3, <1>4, <1>5, <1>6 DEF DocsNext

\* The minor of the last commit is one of a package.json.
LEMMA PublishedIsMinor ==
  ASSUME NEW docs \in Seq(DocsCommits), docs # <<>>
  PROVE  publishedMinor(docs) = docs[Len(docs)].minor /\ publishedMinor(docs) \in PackageMinors
<1>1. Len(docs) \in DOMAIN docs
  BY EmptySeq
<1>2. docs[Len(docs)] \in DocsCommits
  BY <1>1
<1> QED BY <1>2 DEF publishedMinor, Last, DocsCommits

LEMMA RisingNextInv == DocsInv /\ RisingInv /\ [DocsNext]_docsVars => RisingInv'
<1> SUFFICES ASSUME DocsInv, RisingInv, [DocsNext]_docsVars PROVE RisingInv'
  OBVIOUS
<1>t. /\ origin \in Seq(DocsCommits) /\ local \in [Clones -> Seq(DocsCommits)]
      /\ documenting \in [Clones -> SUBSET ReleaseTrees]
      /\ SameWidth /\ Rising(origin)
      /\ \A c \in Clones :
           /\ Rising(local[c])
           /\ \A tree \in documenting[c] :
                local[c] # <<>> => tree.branch >= publishedMinor(local[c])
  BY DEF DocsInv, DocsType, RisingInv
<1>r. Rising(<<>>)
  BY DEF Rising
<1>s. \A m \in PackageMinors : m \in Nat
  BY PackageMinorsAreNumbers
<1>1. ASSUME NEW c \in Clones, check(c) PROVE RisingInv'
  <2>1. PICK tree \in ReleaseTrees :
          /\ IF noOthers(c, origin) /\ notNewer(c, tree, origin)
             THEN /\ documenting' = [documenting EXCEPT ![c] = {tree}]
                  /\ local' = [local EXCEPT ![c] = IF @ = <<>> THEN origin ELSE @]
             ELSE UNCHANGED <<documenting, local>>
          /\ UNCHANGED origin
    BY <1>1 DEF check
  <2>2. CASE noOthers(c, origin) /\ notNewer(c, tree, origin)
    <3> DEFINE found == IF local[c] = <<>> THEN origin ELSE local[c]
    <3>1. found # <<>> => ~ Less(digits(tree.branch), digits(publishedMinor(found)))
      BY <2>2, CheckFinds
    <3>2. found \in Seq(DocsCommits) /\ Rising(found) /\ local' = [local EXCEPT ![c] = found]
          /\ documenting' = [documenting EXCEPT ![c] = {tree}]
      BY <2>1, <2>2, <1>t
    <3> HIDE DEF found
    <3>3. found # <<>> => tree.branch >= publishedMinor(found)
      <4> SUFFICES ASSUME found # <<>> PROVE tree.branch >= publishedMinor(found)
        OBVIOUS
      <4>1. publishedMinor(found) \in PackageMinors /\ tree.branch \in PackageMinors
        BY <3>2, PublishedIsMinor, TreeType, PackageMinorsAreNumbers
      <4>2. ~ (tree.branch < publishedMinor(found))
        BY <3>1, <4>1, <1>t, LessIsLess
      <4> QED BY <4>1, <4>2, <1>s
    <3> QED BY <1>t, <2>1, <3>2, <3>3 DEF RisingInv
  <2>3. CASE ~ (noOthers(c, origin) /\ notNewer(c, tree, origin))
    BY <1>t, <2>1, <2>3 DEF RisingInv
  <2> QED BY <2>2, <2>3
<1>2. ASSUME NEW c \in Clones, commitDocs(c) PROVE RisingInv'
  <2>0. PICK tree \in documenting[c] :
          /\ local' = [local EXCEPT ![c] =
               Append(@, [branch |-> tree.branch, minor |-> tree.minor, id |-> commits])]
          /\ documenting' = [documenting EXCEPT ![c] = {}]
          /\ UNCHANGED origin
    BY <1>2 DEF commitDocs
  <2> DEFINE new == [branch |-> tree.branch, minor |-> tree.minor, id |-> commits]
             l == local[c]
             b == Append(l, new)
  <2>1. new \in DocsCommits /\ new.branch = tree.branch
    BY <1>t, CommitIsOfTree
  <2>2. l \in Seq(DocsCommits) /\ Rising(l) /\ (l # <<>> => new.branch >= publishedMinor(l))
    BY <1>t, <2>1
  <2>3. local' = [local EXCEPT ![c] = b]
    BY <2>0, <1>t
  <2> HIDE DEF new, l
  <2>4. /\ Len(l) \in Nat /\ Len(b) = Len(l) + 1
        /\ b[Len(l) + 1] = new /\ \A i \in 1 .. Len(l) : b[i] = l[i]
    BY <2>1, <2>2
  <2> HIDE DEF b
  <2>5. Rising(b)
    <3> SUFFICES ASSUME NEW i \in 1 .. Len(b) - 1 PROVE b[i + 1].branch >= b[i].minor
      BY DEF Rising
    <3>1. CASE i = Len(l)
      <4>1. l # <<>>
        BY <2>4, <3>1
      <4>2. b[i].minor = publishedMinor(l)
        BY <2>2, <2>4, <3>1, <4>1, PublishedIsMinor
      <4> QED BY <2>2, <2>4, <3>1, <4>1, <4>2
    <3>2. CASE i \in 1 .. Len(l) - 1
      <4>1. i \in 1 .. Len(l) /\ i + 1 \in 1 .. Len(l)
        BY <2>4, <3>2
      <4>2. b[i] = l[i] /\ b[i + 1] = l[i + 1]
        BY <2>4, <4>1
      <4> QED BY <2>2, <3>2, <4>2 DEF Rising
    <3> QED BY <2>4, <3>1, <3>2
  <2> QED BY <1>t, <2>0, <2>3, <2>5 DEF RisingInv
<1>3. ASSUME NEW c \in Clones, fail(c) PROVE RisingInv'
  BY <1>t, <1>3 DEF fail, RisingInv
<1>4. ASSUME NEW c \in Clones, push(c) PROVE RisingInv'
  BY <1>t, <1>4 DEF push, RisingInv
<1>5. ASSUME NEW c \in Clones, clone(c) PROVE RisingInv'
  BY <1>t, <1>5, <1>r DEF clone, RisingInv
<1>6. CASE UNCHANGED docsVars
  BY <1>t, <1>6 DEF docsVars, RisingInv
<1> QED BY <1>1, <1>2, <1>3, <1>4, <1>5, <1>6 DEF DocsNext

\* The commit of a clone comes after all that it fetched from the remote.
THEOREM DocsBuildOnPublished == DocsSpec => BuildsOnPublished
<1>1. DocsInit => DocsInv
  BY DocsInitInv
<1>2. DocsInv /\ [DocsNext]_docsVars => DocsInv'
  BY DocsNextInv
<1>3. DocsInv /\ [DocsNext]_docsVars =>
        [\A c \in Clones : commitDocs(c) => IsPrefix(tracking[c], local'[c])]_docsVars
  <2> SUFFICES ASSUME DocsInv, NEW c \in Clones, commitDocs(c)
               PROVE  IsPrefix(tracking[c], local'[c])
    OBVIOUS
  <2>1. PICK tree \in documenting[c] :
          local' = [local EXCEPT ![c] =
            Append(@, [branch |-> tree.branch, minor |-> tree.minor, id |-> commits])]
    BY DEF commitDocs
  <2> DEFINE new == [branch |-> tree.branch, minor |-> tree.minor, id |-> commits]
  <2>2. IsPrefix(tracking[c], local[c])
    BY <2>1 DEF DocsInv, FetchedInv
  <2>3. tree \in ReleaseTrees
    BY DEF DocsInv, DocsType
  <2>4. new \in DocsCommits /\ local'[c] = Append(local[c], new)
    BY <2>1, <2>3, CommitIsOfTree DEF DocsInv, DocsType
  <2> HIDE DEF new
  <2> QED BY <2>2, <2>4, DocsCloneType, PrefixOfAppend
<1> QED BY <1>1, <1>2, <1>3, PTL DEF DocsSpec, BuildsOnPublished

\* As long as the minors have as many digits, so that their strings compare as
\* their numbers do, docs are followed only by those of a release branch that is
\* not for an older minor than they are of, whichever clones race.  That minor is
\* the one of the package.json that was committed: a new release branch, which
\* still has the version before, leaves room for that one's docs after its own.
THEOREM DocsNeverOlder == SameWidth /\ DocsSpec => []NeverOlder
<1>1. SameWidth /\ DocsInit => DocsInv /\ RisingInv
  BY DocsInitInv
<1>2. DocsInv /\ RisingInv /\ [DocsNext]_docsVars => (DocsInv /\ RisingInv)'
  BY DocsNextInv, RisingNextInv
<1>3. RisingInv => NeverOlder
  BY DEF RisingInv, Rising, NeverOlder
<1> QED BY <1>1, <1>2, <1>3, PTL DEF DocsSpec

\* A bounded set of numbers has a greatest element.
LEMMA MaxOfBounded ==
  ASSUME NEW S \in SUBSET Nat, S # {}, NEW b \in Nat, \A k \in S : k <= b
  PROVE  Max(S) \in S /\ \A k \in S : Max(S) >= k
<1> DEFINE T == {b - k : k \in S}
<1>1. T \in SUBSET Nat /\ T # {}
  <2>1. \A k \in S : b - k \in Nat
    OBVIOUS
  <2> QED BY <2>1
<1>2. PICK n \in T : \A k \in T : n <= k
  BY <1>1, NatMin, Zenon
<1>3. PICK x \in S : n = b - x
  OBVIOUS
<1>4. \A k \in S : x >= k
  <2> TAKE k \in S
  <2>1. n <= b - k
    BY <1>2
  <2> QED BY <1>3, <2>1
<1>5. \E y \in S : \A k \in S : y >= k
  BY <1>4
<1> QED BY <1>5, Zenon DEF Max

(***************************************************************************)
(* The gas report.                                                         *)
(***************************************************************************)
IsReport(report) ==
  \E D \in SUBSET Names :
    report \in [methods : [D -> Seq(Nat)], deployments : [D -> [length : Nat, gasData : Seq(Nat)]]]

\* A report of calls, listing the same methods as contracts.
GasInv == IsReport(update) /\ IsReport(ref)

LEMMA GasInvariance == GasSpec => []GasInv
<1> DEFINE Data == Seq(Nat)
           Deployed == [length : Nat, gasData : Data]
<1>1. GasInit => GasInv
  <2>1. ASSUME NEW D \in SUBSET Names, NEW length \in Lengths
        PROVE  IsReport(Blank(D, length))
    <3>1. length \in Nat /\ <<>> \in Data
      BY GasAssumption
    <3>2. [length |-> length, gasData |-> <<>>] \in Deployed
      BY <3>1
    <3> HIDE DEF Data, Deployed
    <3>3. Blank(D, length) \in [methods : [D -> Data], deployments : [D -> Deployed]]
      BY <3>1, <3>2 DEF Blank
    <3> QED BY <3>3 DEF IsReport, Data, Deployed
  <2> QED BY <2>1 DEF GasInit, GasInv
<1>2. ASSUME NEW r, IsReport(r), NEW name \in DOMAIN r.methods, NEW gas \in Gas,
             NEW s \in Measured(r, name, gas)
      PROVE  IsReport(s)
  <2>1. PICK D \in SUBSET Names :
          r \in [methods : [D -> Data], deployments : [D -> Deployed]]
    BY <1>2 DEF IsReport
  <2>2. gas \in Nat
    BY GasAssumption
  <2>3. \A d \in Data : Append(d, gas) \in Data
    BY <2>2
  <2>4. \A d \in Deployed : d.gasData \in Data /\ [d EXCEPT !.gasData = Append(d.gasData, gas)] \in Deployed
    <3> HIDE DEF Data
    <3> QED BY <2>3
  <2> HIDE DEF Data, Deployed
  <2>5. name \in D /\ r.methods \in [D -> Data] /\ r.deployments \in [D -> Deployed]
    BY <2>1
  <2>6. CASE s = [r EXCEPT !.methods[name] = Append(r.methods[name], gas)]
    <3>1. [r.methods EXCEPT ![name] = Append(r.methods[name], gas)] \in [D -> Data]
      BY <2>3, <2>5
    <3>2. s = [r EXCEPT !.methods = [r.methods EXCEPT ![name] = Append(r.methods[name], gas)]]
      BY <2>1, <2>6
    <3>3. s \in [methods : [D -> Data], deployments : [D -> Deployed]]
      BY <2>1, <3>1, <3>2
    <3> QED BY <3>3 DEF IsReport, Data, Deployed
  <2>7. CASE s = [r EXCEPT !.deployments[name].gasData
                    = Append(r.deployments[name].gasData, gas)]
    <3> DEFINE d == [r.deployments[name] EXCEPT !.gasData = Append(r.deployments[name].gasData, gas)]
    <3>1. d \in Deployed
      BY <2>4, <2>5
    <3> HIDE DEF d
    <3>2. [r.deployments EXCEPT ![name] = d] \in [D -> Deployed]
      BY <2>5, <3>1
    <3>3. s = [r EXCEPT !.deployments = [r.deployments EXCEPT ![name] = d]]
      BY <2>1, <2>7 DEF d
    <3>4. s \in [methods : [D -> Data], deployments : [D -> Deployed]]
      BY <2>1, <3>2, <3>3
    <3> QED BY <3>4 DEF IsReport, Data, Deployed
  <2> QED BY <2>6, <2>7 DEF Measured
<1>3. GasInv /\ [measure]_gasVars => GasInv'
  <2> SUFFICES ASSUME GasInv, [measure]_gasVars PROVE GasInv'
    OBVIOUS
  <2>1. CASE measure
    <3>1. \/ (\E gas \in Gas : \E name \in DOMAIN update.methods : update' \in Measured(update, name, gas))
             /\ ref' = ref
          \/ (\E gas \in Gas : \E name \in DOMAIN ref.methods : ref' \in Measured(ref, name, gas))
             /\ update' = update
      BY <2>1 DEF measure
    <3> QED BY <1>2, <3>1 DEF GasInv, IsReport
  <2>2. CASE UNCHANGED gasVars
    BY <2>2 DEF gasVars, GasInv, IsReport
  <2> QED BY <2>1, <2>2
<1> QED BY <1>1, <1>3, PTL DEF GasSpec

\* The sum of a list of calls is the sum of a function.
LEMMA SumOfList == \A g : sum(g) = SumFunctionOnSet(g, DOMAIN g)
BY Zenon DEF sum, FoldFunction, SumFunctionOnSet

\* What a call cost is a natural number, and the calls are finitely many.
LEMMA ListFacts ==
  ASSUME NEW g \in Seq(Nat), g # <<>>
  PROVE  /\ Len(g) \in Nat \ {0} /\ DOMAIN g = 1 .. Len(g) /\ g \in [DOMAIN g -> Nat]
         /\ IsFiniteSet(DOMAIN g) /\ Cardinality(DOMAIN g) = Len(g)
<1>1. Len(g) \in Nat \ {0} /\ DOMAIN g = 1 .. Len(g) /\ g \in [DOMAIN g -> Nat]
  OBVIOUS
<1>2. IsFiniteSet(1 .. Len(g)) /\ Cardinality(1 .. Len(g)) = Len(g)
  <2>1. Len(g) \in Nat /\ 1 \in Int /\ Len(g) \in Int
    BY <1>1
  <2>2. /\ IsFiniteSet(1 .. Len(g))
        /\ Cardinality(1 .. Len(g)) = IF 1 > Len(g) THEN 0 ELSE Len(g) - 1 + 1
    BY <2>1, FS_Interval, Zenon
  <2> QED BY <1>1, <2>2
<1> QED BY <1>1, <1>2

\* The sum of a list is between its length times any lower bound of its
\* elements and its length times any upper bound.
LEMMA SumBounds ==
  ASSUME NEW g \in Seq(Nat), g # <<>>, NEW m \in Int
  PROVE  /\ sum(g) \in Nat
         /\ \A i \in DOMAIN g : g[i] <= sum(g)
         /\ (\A i \in DOMAIN g : m <= g[i]) => m * Len(g) <= sum(g)
         /\ (\A i \in DOMAIN g : g[i] <= m) => sum(g) <= m * Len(g)
<1> DEFINE D == DOMAIN g
           c == [i \in D |-> m]
<1>1. /\ IsFiniteSet(D) /\ Cardinality(D) = Len(g) /\ g \in [D -> Int]
      /\ \A i \in D : g[i] >= 0
  BY ListFacts
<1>2. c \in [D -> Int] /\ \A i \in D : c[i] = m
  OBVIOUS
<1>3. sum(g) = SumFunctionOnSet(g, D)
  BY SumOfList, Zenon
<1>4. SumFunctionOnSet(c, D) = m * Len(g)
  BY <1>1, SumConstant, Zenon
<1> HIDE DEF c, D
<1>5. SumFunctionOnSet(g, D) \in Int
  BY <1>1, SumType, Zenon
<1>6. SumFunctionOnSet(g, D) >= 0 /\ \A i \in D : g[i] <= SumFunctionOnSet(g, D)
  BY <1>1, SumNonNeg, Zenon
<1>7. (\A i \in D : c[i] <= g[i]) => SumFunctionOnSet(c, D) <= SumFunctionOnSet(g, D)
  BY <1>1, <1>2, SumMonotone, Zenon
<1>8. (\A i \in D : g[i] <= c[i]) => SumFunctionOnSet(g, D) <= SumFunctionOnSet(c, D)
  BY <1>1, <1>2, SumMonotone, Zenon
<1>9. sum(g) \in Nat
  BY <1>3, <1>5, <1>6
<1>10. \A i \in D : g[i] <= sum(g)
  BY <1>3, <1>6
<1>11. (\A i \in D : m <= g[i]) => m * Len(g) <= sum(g)
  BY <1>2, <1>3, <1>4, <1>7
<1>12. (\A i \in D : g[i] <= m) => sum(g) <= m * Len(g)
  BY <1>2, <1>3, <1>4, <1>8
<1> QED BY <1>9, <1>10, <1>11, <1>12 DEF D

\* A list of calls has a cheapest one and a dearest one.
LEMMA Extremes ==
  ASSUME NEW g \in Seq(Nat), g # <<>>
  PROVE  /\ \E i \in DOMAIN g : Min(Range(g)) = g[i]
         /\ \E i \in DOMAIN g : Max(Range(g)) = g[i]
         /\ \A i \in DOMAIN g : Min(Range(g)) <= g[i] /\ g[i] <= Max(Range(g))
<1>1. DOMAIN g # {} /\ \A i \in DOMAIN g : g[i] \in Nat
  <2>1. Len(g) \in Nat \ {0} /\ DOMAIN g = 1 .. Len(g) /\ g \in [DOMAIN g -> Nat]
    BY ListFacts
  <2>2. 1 \in DOMAIN g
    BY <2>1
  <2> QED BY <2>1, <2>2
<1>2. Range(g) = {g[i] : i \in DOMAIN g}
  BY DEF Range
<1>3. Range(g) \in SUBSET Nat /\ Range(g) # {}
  BY <1>1, <1>2
<1>4. \E n \in Range(g) : \A k \in Range(g) : n <= k
  BY <1>3, NatMin, Zenon
<1>5. Min(Range(g)) \in Range(g) /\ \A k \in Range(g) : Min(Range(g)) <= k
  BY <1>4, Zenon DEF Min
<1>6. sum(g) \in Nat /\ \A k \in Range(g) : k <= sum(g)
  <2>1. sum(g) \in Nat /\ \A i \in DOMAIN g : g[i] <= sum(g)
    BY SumBounds
  <2> QED BY <1>2, <2>1
<1>7. Max(Range(g)) \in Range(g) /\ \A k \in Range(g) : Max(Range(g)) >= k
  BY <1>3, <1>6, MaxOfBounded
<1>8. Max(Range(g)) \in Nat
  BY <1>3, <1>7
<1>9. \A i \in DOMAIN g : Min(Range(g)) <= g[i] /\ g[i] <= Max(Range(g))
  BY <1>1, <1>2, <1>5, <1>7, <1>8
<1> QED BY <1>2, <1>5, <1>7, <1>9

\* Rounding a quotient: it is the greatest number that fits.
LEMMA Quotient ==
  ASSUME NEW a \in Nat, NEW b \in Nat \ {0}, NEW m \in Int
  PROVE  /\ a \div b \in Int
         /\ m * b <= a => m <= a \div b
         /\ a < (m + 1) * b => a \div b <= m
<1> DEFINE q == a \div b
<1>1. q \in Int /\ q * b <= a /\ a < (q + 1) * b
  OBVIOUS
<1> HIDE DEF q
<1>2. ASSUME m * b <= a, m >= q + 1 PROVE FALSE
  <2>1. (q + 1) * b <= m * b
    <3>1. m - (q + 1) \in Nat
      BY <1>1, <1>2
    <3>2. (m - (q + 1)) * b >= 0
      BY <3>1
    <3>3. (m - (q + 1)) * b = m * b - (q + 1) * b
      BY <1>1
    <3> QED BY <1>1, <3>2, <3>3
  <2> QED BY <1>1, <1>2, <2>1
<1>3. ASSUME a < (m + 1) * b, q >= m + 1 PROVE FALSE
  <2>1. (m + 1) * b <= q * b
    <3>1. q - (m + 1) \in Nat
      BY <1>1, <1>3
    <3>2. (q - (m + 1)) * b >= 0
      BY <3>1
    <3>3. (q - (m + 1)) * b = q * b - (m + 1) * b
      BY <1>1
    <3> QED BY <1>1, <3>2, <3>3
  <2> QED BY <1>1, <1>3, <2>1
<1> QED BY <1>1, <1>2, <1>3 DEF q

\* The average of a list of calls, rounded, is between the bounds of its
\* elements.
LEMMA AverageBounds ==
  ASSUME NEW g \in Seq(Nat), g # <<>>, NEW m \in Int
  PROVE  /\ average(g) \in Int
         /\ (\A i \in DOMAIN g : m <= g[i]) => m <= average(g)
         /\ (\A i \in DOMAIN g : g[i] <= m) => average(g) <= m
<1> DEFINE n == Len(g)
           s == sum(g)
<1>1. n \in Nat \ {0}
  BY ListFacts
<1>2. /\ s \in Nat
      /\ (\A i \in DOMAIN g : m <= g[i]) => m * n <= s
      /\ (\A i \in DOMAIN g : g[i] <= m) => s <= m * n
  BY SumBounds
<1>3. average(g) = (2 * s + n) \div (2 * n)
  BY DEF average
<1> HIDE DEF n, s
<1>4. 2 * s + n \in Nat /\ 2 * n \in Nat \ {0}
  BY <1>1, <1>2
<1>5. m * (2 * n) = 2 * (m * n) /\ (m + 1) * (2 * n) = 2 * (m * n) + 2 * n
  BY <1>1
<1>6. m * n \in Int
  BY <1>1
<1>7. m * n <= s => m * (2 * n) <= 2 * s + n
  BY <1>1, <1>2, <1>5, <1>6
<1>8. s <= m * n => 2 * s + n < (m + 1) * (2 * n)
  BY <1>1, <1>2, <1>5, <1>6
<1>9. /\ average(g) \in Int
      /\ m * (2 * n) <= 2 * s + n => m <= average(g)
      /\ 2 * s + n < (m + 1) * (2 * n) => average(g) <= m
  BY <1>3, <1>4, Quotient
<1> QED BY <1>2, <1>7, <1>8, <1>9

\* The lists of a report.
LEMMA ReportLists ==
  ASSUME NEW r, IsReport(r)
  PROVE  /\ \A name \in DOMAIN r.methods : r.methods[name] \in Seq(Nat)
         /\ \A name \in DOMAIN r.deployments :
              /\ r.deployments[name].gasData \in Seq(Nat)
              /\ r.deployments[name].length \in Nat
<1>1. PICK D \in SUBSET Names :
        r \in [methods : [D -> Seq(Nat)], deployments : [D -> [length : Nat, gasData : Seq(Nat)]]]
  BY DEF IsReport
<1>2. r.methods \in [D -> Seq(Nat)] /\ r.deployments \in [D -> [length : Nat, gasData : Seq(Nat)]]
  BY <1>1
<1>3. \A d \in [length : Nat, gasData : Seq(Nat)] : d.gasData \in Seq(Nat) /\ d.length \in Nat
  OBVIOUS
<1> QED BY <1>2, <1>3

\* What the cells of a row are computed from are integers.
LEMMA Measures ==
  ASSUME NEW g \in Seq(Nat), g # <<>>
  PROVE  Min(Range(g)) \in Int /\ Max(Range(g)) \in Int /\ average(g) \in Int
<1>1. \A i \in DOMAIN g : g[i] \in Nat
  BY ListFacts
<1>2. /\ \E i \in DOMAIN g : Min(Range(g)) = g[i]
      /\ \E i \in DOMAIN g : Max(Range(g)) = g[i]
  BY Extremes
<1>3. average(g) \in Int
  BY AverageBounds
<1> QED BY <1>1, <1>2, <1>3

\* The fields of a variation.
LEMMA VariationFields ==
  ASSUME NEW v \in Int, NEW w \in Int
  PROVE  /\ variation(v, w).finite
         /\ variation(v, w).value = v
         /\ variation(v, w).delta = v - w
<1>1. variation(v, w).finite
  BY DEF variation
<1>2. variation(v, w).value = v /\ variation(v, w).delta = v - w
  BY DEF variation
<1> QED BY <1>1, <1>2

\* The opposite of a variation is that of the opposite comparison.
LEMMA OppositeCell ==
  ASSUME NEW v \in Int, NEW w \in Int
  PROVE  [finite |-> variation(v, w).finite, value |-> variation(v, w).value - variation(v, w).delta,
          delta |-> - variation(v, w).delta] = variation(w, v)
<1>1. v - (v - w) = w /\ - (v - w) = w - v
  OBVIOUS
<1> QED BY <1>1 DEF variation

\* A row of variations.
RowOf(name, what, from, to) ==
  [name |-> name, what |-> what,
   cells |-> [column \in DOMAIN from |-> variation(from[column], to[column])]]

\* Rows of integers: the opposite of a row is that of the opposite comparison,
\* and one is equal when the other is.
LEMMA OppositeRow ==
  ASSUME NEW C, NEW f \in [C -> Int], NEW g \in [C -> Int], NEW name, NEW what
  PROVE  /\ Opposite(RowOf(name, what, f, g)) = RowOf(name, what, g, f)
         /\ Equal(RowOf(name, what, f, g)) <=> Equal(RowOf(name, what, g, f))
<1> DEFINE row == RowOf(name, what, f, g)
           other == RowOf(name, what, g, f)
<1>1. DOMAIN f = C /\ DOMAIN g = C
  OBVIOUS
<1>2. row = [name |-> name, what |-> what, cells |-> [column \in C |-> variation(f[column], g[column])]]
  BY <1>1 DEF RowOf
<1>3. other = [name |-> name, what |-> what, cells |-> [column \in C |-> variation(g[column], f[column])]]
  BY <1>1 DEF RowOf
<1> HIDE DEF row, other
<1>4. DOMAIN row.cells = C /\ DOMAIN other.cells = C
  BY <1>2, <1>3
<1>5. \A column \in C :
        /\ row.cells[column] = variation(f[column], g[column])
        /\ other.cells[column] = variation(g[column], f[column])
  BY <1>2, <1>3
<1>6. \A column \in C : f[column] \in Int /\ g[column] \in Int
  OBVIOUS
<1> DEFINE Is(cell, v, w) == cell.finite /\ cell.value = v /\ cell.delta = v - w
<1>9. \A column \in C :
        /\ Is(row.cells[column], f[column], g[column])
        /\ Is(other.cells[column], g[column], f[column])
  <2> TAKE column \in C
  <2>1. Is(variation(f[column], g[column]), f[column], g[column])
    BY <1>6, VariationFields
  <2>2. Is(variation(g[column], f[column]), g[column], f[column])
    BY <1>6, VariationFields
  <2> HIDE DEF Is
  <2> QED BY <1>5, <2>1, <2>2
<1>7. Equal(row) <=> Equal(other)
  <2>1. \A column \in C : row.cells[column].finite /\ other.cells[column].finite
    BY <1>9, Zenon
  <2>2. \A column \in C :
          row.cells[column].delta = f[column] - g[column] /\ other.cells[column].delta = g[column] - f[column]
    BY <1>9, Zenon
  <2>3. \A column \in C : row.cells[column].delta = 0 <=> other.cells[column].delta = 0
    BY <1>6, <2>2
  <2> QED BY <1>4, <2>1, <2>3, Zenon DEF Equal
<1>8. Opposite(row) = other
  <2> DEFINE cell(column) ==
        [finite |-> row.cells[column].finite, value |-> row.cells[column].value - row.cells[column].delta,
         delta |-> - row.cells[column].delta]
  <2>1. Opposite(row) = [row EXCEPT !.cells = [column \in C |-> cell(column)]]
    BY <1>4 DEF Opposite
  <2>2. \A column \in C : cell(column) = variation(g[column], f[column])
    <3> TAKE column \in C
    <3>1. row.cells[column] = variation(f[column], g[column])
      BY <1>5
    <3>2. f[column] \in Int /\ g[column] \in Int
      BY <1>6
    <3> QED BY <3>1, <3>2, OppositeCell, Zenon
  <2> HIDE DEF cell
  <2>3. [column \in C |-> cell(column)] = [column \in C |-> variation(g[column], f[column])]
    BY <2>2
  <2> QED BY <1>2, <1>3, <2>1, <2>3
<1> QED BY <1>7, <1>8 DEF row, other

\* A row of one column, and a row of three.
OneColumn(name, what, v, w) == [name |-> name, what |-> what, cells |-> [avg |-> variation(v, w)]]

ThreeColumns(name, new, old) ==
  [name |-> name, what |-> "call",
   cells |-> [min |-> variation(Min(Range(new)), Min(Range(old))),
              max |-> variation(Max(Range(new)), Max(Range(old))),
              avg |-> variation(average(new), average(old))]]

\* What is true of the opposite of a row.
IsOpposite(row, other) ==
  Opposite(row) = other /\ Opposite(other) = row /\ (Equal(row) <=> Equal(other))

LEMMA OneOpposite ==
  ASSUME NEW v \in Int, NEW w \in Int, NEW name, NEW what
  PROVE  IsOpposite(OneColumn(name, what, v, w), OneColumn(name, what, w, v))
<1> DEFINE C == {"avg"}
           f == [column \in C |-> v]
           g == [column \in C |-> w]
<1>1. f \in [C -> Int] /\ g \in [C -> Int]
  OBVIOUS
<1>2. OneColumn(name, what, v, w) = RowOf(name, what, f, g)
  <2>1. [avg |-> variation(v, w)] = [column \in DOMAIN f |-> variation(f[column], g[column])]
    OBVIOUS
  <2> QED BY <2>1 DEF OneColumn, RowOf
<1>3. OneColumn(name, what, w, v) = RowOf(name, what, g, f)
  <2>1. [avg |-> variation(w, v)] = [column \in DOMAIN g |-> variation(g[column], f[column])]
    OBVIOUS
  <2> QED BY <2>1 DEF OneColumn, RowOf
<1> HIDE DEF f, g, C
<1> QED BY <1>1, <1>2, <1>3, OppositeRow, Zenon DEF IsOpposite

LEMMA ThreeOpposite ==
  ASSUME NEW new \in Seq(Nat), NEW old \in Seq(Nat), new # <<>>, old # <<>>, NEW name
  PROVE  IsOpposite(ThreeColumns(name, new, old), ThreeColumns(name, old, new))
<1> DEFINE C == {"min", "max", "avg"}
           f == [column \in C |-> CASE column = "min" -> Min(Range(new))
                                    [] column = "max" -> Max(Range(new))
                                    [] column = "avg" -> average(new)]
           g == [column \in C |-> CASE column = "min" -> Min(Range(old))
                                    [] column = "max" -> Max(Range(old))
                                    [] column = "avg" -> average(old)]
<1>1. /\ Min(Range(new)) \in Int /\ Max(Range(new)) \in Int /\ average(new) \in Int
      /\ Min(Range(old)) \in Int /\ Max(Range(old)) \in Int /\ average(old) \in Int
  BY Measures
<1>2. f \in [C -> Int] /\ g \in [C -> Int]
  BY <1>1
<1>3. /\ f["min"] = Min(Range(new)) /\ f["max"] = Max(Range(new)) /\ f["avg"] = average(new)
      /\ g["min"] = Min(Range(old)) /\ g["max"] = Max(Range(old)) /\ g["avg"] = average(old)
  OBVIOUS
<1> HIDE DEF f, g
<1>4. ThreeColumns(name, new, old) = RowOf(name, "call", f, g)
  <2>1. [min |-> variation(f["min"], g["min"]), max |-> variation(f["max"], g["max"]),
         avg |-> variation(f["avg"], g["avg"])]
          = [column \in C |-> variation(f[column], g[column])]
    OBVIOUS
  <2>2. DOMAIN f = C
    BY <1>2
  <2> HIDE DEF C
  <2> QED BY <1>3, <2>1, <2>2 DEF ThreeColumns, RowOf
<1>5. ThreeColumns(name, old, new) = RowOf(name, "call", g, f)
  <2>1. [min |-> variation(g["min"], f["min"]), max |-> variation(g["max"], f["max"]),
         avg |-> variation(g["avg"], f["avg"])]
          = [column \in C |-> variation(g[column], f[column])]
    OBVIOUS
  <2>2. DOMAIN g = C
    BY <1>2
  <2> HIDE DEF C
  <2> QED BY <1>3, <2>1, <2>2 DEF ThreeColumns, RowOf
<1> HIDE DEF C
<1> QED BY <1>2, <1>4, <1>5, OppositeRow, Zenon DEF IsOpposite

\* With strict testing every row has an opposite in the opposite comparison.
StrictRows(new, old) == deploymentRows(new, old) \cup methodRows(new, old, TRUE)

LEMMA StrictOpposite ==
  ASSUME NEW a, NEW b, IsReport(a), IsReport(b), NEW row \in StrictRows(a, b)
  PROVE  \E other \in StrictRows(b, a) : IsOpposite(row, other)
<1>1. ASSUME row \in deploymentRows(a, b)
      PROVE  \E other \in deploymentRows(b, a) : IsOpposite(row, other)
  <2>1. PICK name \in DOMAIN a.deployments \cap DOMAIN b.deployments :
          /\ a.deployments[name].gasData # <<>> /\ b.deployments[name].gasData # <<>>
          /\ row \in {OneColumn(name, "[bytecode length]",
                                a.deployments[name].length, b.deployments[name].length),
                      OneColumn(name, "[construction cost]",
                                average(a.deployments[name].gasData),
                                average(b.deployments[name].gasData))}
    BY <1>1 DEF deploymentRows, OneColumn
  <2>2. /\ a.deployments[name].gasData \in Seq(Nat) /\ b.deployments[name].gasData \in Seq(Nat)
        /\ a.deployments[name].length \in Int /\ b.deployments[name].length \in Int
    BY ReportLists
  <2>3. average(a.deployments[name].gasData) \in Int /\ average(b.deployments[name].gasData) \in Int
    BY <2>1, <2>2, Measures
  <2>4. {OneColumn(name, "[bytecode length]", b.deployments[name].length, a.deployments[name].length),
         OneColumn(name, "[construction cost]", average(b.deployments[name].gasData),
                   average(a.deployments[name].gasData))} \subseteq deploymentRows(b, a)
    BY <2>1 DEF deploymentRows, OneColumn
  <2>5. CASE row = OneColumn(name, "[bytecode length]",
                             a.deployments[name].length, b.deployments[name].length)
    BY <2>2, <2>4, <2>5, OneOpposite
  <2>6. CASE row = OneColumn(name, "[construction cost]", average(a.deployments[name].gasData),
                             average(b.deployments[name].gasData))
    BY <2>3, <2>4, <2>6, OneOpposite
  <2> QED BY <2>1, <2>5, <2>6
<1>2. ASSUME row \in methodRows(a, b, TRUE)
      PROVE  \E other \in methodRows(b, a, TRUE) : IsOpposite(row, other)
  <2>1. PICK name \in compared(a, b, TRUE) :
          row = [name |-> name, what |-> "call", cells |-> cellsOf(a.methods[name], b.methods[name])]
    BY <1>2 DEF methodRows
  <2>2. /\ name \in DOMAIN a.methods /\ name \in DOMAIN b.methods /\ a.methods[name] # <<>>
        /\ Len(a.methods[name]) = Len(b.methods[name])
    BY DEF compared
  <2>3. a.methods[name] \in Seq(Nat) /\ b.methods[name] \in Seq(Nat)
    BY <2>2, ReportLists
  <2>4. b.methods[name] # <<>>
    BY <2>2, <2>3
  <2>5. row = ThreeColumns(name, a.methods[name], b.methods[name])
    BY <2>1, <2>4 DEF cellsOf, ThreeColumns
  <2>6. name \in compared(b, a, TRUE)
    BY <2>2, <2>4 DEF compared
  <2>7. ThreeColumns(name, b.methods[name], a.methods[name]) \in methodRows(b, a, TRUE)
    BY <2>2, <2>6 DEF methodRows, cellsOf, ThreeColumns
  <2>8. IsOpposite(row, ThreeColumns(name, b.methods[name], a.methods[name]))
    BY <2>2, <2>3, <2>4, <2>5, ThreeOpposite
  <2> QED BY <2>7, <2>8
<1> QED BY <1>1, <1>2 DEF StrictRows

\* With strict testing, the base branch compared with the pull request gives
\* the same rows with the opposite changes, whatever the calls were.
THEOREM ComparesBothWays == GasSpec => []StrictIsSymmetric
<1>1. ASSUME NEW a, NEW b, IsReport(a), IsReport(b), NEW hideEqual \in BOOLEAN,
             NEW row \in compare(a, b, hideEqual, TRUE)
      PROVE  \E other \in compare(b, a, hideEqual, TRUE) : IsOpposite(row, other)
  <2>1. row \in StrictRows(a, b) /\ (hideEqual => ~ Equal(row))
    BY Zenon DEF compare, StrictRows
  <2>2. PICK other \in StrictRows(b, a) : IsOpposite(row, other)
    BY <1>1, <2>1, StrictOpposite, Zenon
  <2>3. other \in compare(b, a, hideEqual, TRUE)
    BY <2>1, <2>2, Zenon DEF compare, StrictRows, IsOpposite
  <2> QED BY <2>2, <2>3
<1>2. GasInv => StrictIsSymmetric
  <2> SUFFICES ASSUME GasInv, NEW hideEqual \in BOOLEAN
               PROVE  compare(ref, update, hideEqual, TRUE)
                        = {Opposite(row) : row \in compare(update, ref, hideEqual, TRUE)}
    BY Zenon DEF StrictIsSymmetric
  <2> DEFINE here == compare(update, ref, hideEqual, TRUE)
             there == compare(ref, update, hideEqual, TRUE)
  <2>1. \A row \in here : \E other \in there : IsOpposite(row, other)
    BY <1>1, Zenon DEF GasInv
  <2>2. \A row \in there : \E other \in here : IsOpposite(row, other)
    BY <1>1, Zenon DEF GasInv
  <2> HIDE DEF here, there
  <2>3. there = {Opposite(row) : row \in here}
    BY <2>1, <2>2 DEF IsOpposite
  <2> QED BY <2>3 DEF here, there
<1> QED BY <1>2, GasInvariance, PTL

\* A method each call of which costs more than every call did before is shown
\* as dearer in all three columns; one that was never called before is listed,
\* with no column that looks like a comparison.
THEOREM RegressionsAreShown == GasSpec => []RegressionsShown
<1>1. ASSUME GasInv, NEW name \in DOMAIN update.methods \cap DOMAIN ref.methods,
             update.methods[name] # <<>>,
             \A i \in DOMAIN update.methods[name], j \in DOMAIN ref.methods[name] :
               update.methods[name][i] > ref.methods[name][j]
      PROVE  \E row \in compare(update, ref, TRUE, FALSE) :
               /\ row.name = name /\ row.what = "call"
               /\ \A column \in DOMAIN row.cells :
                    /\ row.cells[column].finite <=> ref.methods[name] # <<>>
                    /\ row.cells[column].finite => row.cells[column].delta > 0
  <2> DEFINE new == update.methods[name]
             old == ref.methods[name]
             row == [name |-> name, what |-> "call", cells |-> cellsOf(new, old)]
             Dearer(cell) == (cell.finite <=> old # <<>>) /\ (cell.finite => cell.delta > 0)
  <2>1. new \in Seq(Nat) /\ old \in Seq(Nat) /\ new # <<>>
    BY <1>1, ReportLists DEF GasInv
  <2>2. name \in compared(update, ref, FALSE)
    BY <1>1 DEF compared
  <2>3. row \in methodRows(update, ref, FALSE)
    BY <2>2 DEF methodRows
  <2>4. \A i \in DOMAIN new, j \in DOMAIN old : new[i] > old[j]
    BY <1>1
  <2> HIDE DEF new, old
  <2>5. row.cells = cellsOf(new, old) /\ row.name = name /\ row.what = "call"
    OBVIOUS
  <2>6. /\ DOMAIN cellsOf(new, old) = {"min", "max", "avg"}
        /\ Dearer(cellsOf(new, old).min) /\ Dearer(cellsOf(new, old).max) /\ Dearer(cellsOf(new, old).avg)
        /\ ~ (cellsOf(new, old).min.finite /\ cellsOf(new, old).min.delta = 0)
    <3>1. CASE old = <<>>
      <4>1. \A v : ~ unmeasured(v).finite
        BY DEF unmeasured
      <4> QED BY <3>1, <4>1 DEF cellsOf
    <3>2. CASE old # <<>>
      <4>1. /\ Min(Range(new)) \in Int /\ Max(Range(new)) \in Int /\ average(new) \in Int
            /\ Min(Range(old)) \in Int /\ Max(Range(old)) \in Int /\ average(old) \in Int
        BY <2>1, <3>2, Measures
      <4>2. /\ \A i \in DOMAIN new : new[i] \in Nat /\ Min(Range(new)) <= new[i] /\ new[i] <= Max(Range(new))
            /\ \A j \in DOMAIN old : old[j] \in Nat /\ Min(Range(old)) <= old[j] /\ old[j] <= Max(Range(old))
        <5>1. new \in [DOMAIN new -> Nat] /\ old \in [DOMAIN old -> Nat]
          BY <2>1, <3>2, ListFacts
        <5> QED BY <2>1, <3>2, <5>1, Extremes
      <4>3. /\ \E i \in DOMAIN new : Min(Range(new)) = new[i]
            /\ \E j \in DOMAIN old : Max(Range(old)) = old[j]
        BY <2>1, <3>2, Extremes
      <4>4. Min(Range(new)) > Max(Range(old))
        BY <2>4, <4>3
      <4>5. Min(Range(new)) > Min(Range(old)) /\ Max(Range(new)) > Max(Range(old))
        BY <4>1, <4>2, <4>3, <4>4
      <4>6. average(new) >= Min(Range(new))
        BY <2>1, <4>1, <4>2, AverageBounds
      <4>7. average(old) <= Max(Range(old))
        BY <2>1, <3>2, <4>1, <4>2, AverageBounds
      <4>8. average(new) > average(old)
        BY <4>1, <4>4, <4>6, <4>7
      <4>9. \A v, w \in Int : v > w => variation(v, w).finite /\ variation(v, w).delta > 0
        <5> TAKE v, w \in Int
        <5>1. variation(v, w).finite /\ variation(v, w).delta = v - w
          BY VariationFields DEF variation
        <5> QED BY <5>1
      <4>10. cellsOf(new, old) = [min |-> variation(Min(Range(new)), Min(Range(old))),
                                  max |-> variation(Max(Range(new)), Max(Range(old))),
                                  avg |-> variation(average(new), average(old))]
        BY <3>2 DEF cellsOf
      <4>11. /\ Dearer(variation(Min(Range(new)), Min(Range(old))))
             /\ Dearer(variation(Max(Range(new)), Max(Range(old))))
             /\ Dearer(variation(average(new), average(old)))
             /\ variation(Min(Range(new)), Min(Range(old))).delta > 0
        BY <3>2, <4>1, <4>5, <4>8, <4>9
      <4> HIDE DEF row
      <4> QED BY <4>10, <4>11
    <3> QED BY <3>1, <3>2
  <2>7. ~ Equal(row)
    BY <2>5, <2>6 DEF Equal
  <2>8. row \in compare(update, ref, TRUE, FALSE)
    BY <2>3, <2>7, Zenon DEF compare
  <2>9. \A column \in DOMAIN row.cells : Dearer(row.cells[column])
    BY <2>5, <2>6
  <2> HIDE DEF row
  <2> QED BY <2>5, <2>8, <2>9 DEF old
<1>2. GasInv => RegressionsShown
  BY <1>1, Zenon DEF RegressionsShown
<1> QED BY <1>2, GasInvariance, PTL

(***************************************************************************)
(* The import migration.                                                   *)
(***************************************************************************)
Imports == [package : {"contracts", "upgradeable"}, path : STRING]

\* Facts about the table and about what moves.
LEMMA TableFacts ==
  /\ Len(pathUpdates) \in Nat /\ DOMAIN pathUpdates = 1 .. Len(pathUpdates)
  /\ \A i \in DOMAIN pathUpdates : pathUpdates[i][1] \in STRING /\ pathUpdates[i][2] \in STRING
  /\ \A i, j \in DOMAIN pathUpdates : pathUpdates[i][1] = pathUpdates[j][1] => i = j
  /\ \A i \in DOMAIN pathUpdates : pathUpdates[i][2] \notin OldPaths
<1>1. pathUpdates \in Seq(STRING \X STRING)
  BY ImportsAssumption
<1>2. /\ \A i, j \in DOMAIN pathUpdates : pathUpdates[i][1] = pathUpdates[j][1] => i = j
      /\ \A i, j \in DOMAIN pathUpdates : pathUpdates[i][2] # pathUpdates[j][1]
  BY ImportsAssumption
<1> QED BY <1>1, <1>2 DEF OldPaths

\* An import with an old path moves to one whose path is not old.
LEMMA MovedOld ==
  ASSUME NEW x \in Imports, x.path \in OldPaths
  PROVE  Moved(x) \in Imports /\ Moved(x).path \notin OldPaths
<1> DEFINE rows == {i \in DOMAIN pathUpdates : pathUpdates[i][1] = x.path}
<1>1. PICK n \in rows : n = CHOOSE i \in rows : TRUE
  <2>1. rows # {}
    BY DEF OldPaths
  <2> QED BY <2>1, Zenon
<1>2. Moved(x) = [x EXCEPT !.path = pathUpdates[n][2]]
  BY <1>1, Zenon DEF Moved
<1> QED BY <1>2, TableFacts DEF Imports

\* Row k moves the import of its old path from either package.
LEMMA MovedRow ==
  ASSUME NEW k \in DOMAIN pathUpdates, NEW p \in {"contracts", "upgradeable"}
  PROVE  LET from == Import(p, pathUpdates[k][1])
             to == Import(p, pathUpdates[k][2])
         IN  /\ from \in Imports /\ to \in Imports /\ Moved(from) = to
             /\ from.path \in OldPaths /\ to.path \notin OldPaths
<1> DEFINE from == Import(p, pathUpdates[k][1])
           to == Import(p, pathUpdates[k][2])
           rows == {i \in DOMAIN pathUpdates : pathUpdates[i][1] = from.path}
<1>1. from \in Imports /\ to \in Imports /\ from.path \in OldPaths /\ to.path \notin OldPaths
  BY TableFacts DEF Import, Imports, OldPaths
<1>2. rows = {k}
  BY TableFacts DEF Import
<1>3. rows # {} /\ (CHOOSE i \in rows : TRUE) = k
  BY <1>2, Zenon
<1>4. Moved(from) = [from EXCEPT !.path = pathUpdates[k][2]]
  BY <1>3, Zenon DEF Moved
<1>5. Moved(from) = to
  BY <1>4 DEF Import
<1> QED BY <1>1, <1>5

\* A part of the way from one source to another: some imports that have moved
\* are replaced.
Migrating(source, result) ==
  /\ result \in Seq(Imports) /\ DOMAIN result = DOMAIN source
  /\ \A i \in DOMAIN source :
       result[i] # source[i] => source[i].path \in OldPaths /\ result[i] = Moved(source[i])

\* It takes one place of an import at least, if there is one.
Takes(source, result, x) ==
  (\E i \in DOMAIN source : source[i] = x) =>
    \E i \in DOMAIN source : source[i] = x /\ result[i] # x

LEMMA MigratingTwice ==
  ASSUME NEW r \in Seq(Imports), NEW s, NEW t, Migrating(r, s), Migrating(s, t)
  PROVE  /\ Migrating(r, t)
         /\ \A x \in Imports : x.path \in OldPaths =>
              /\ Takes(r, s, x) => Takes(r, t, x)
              /\ Takes(s, t, x) => Takes(r, t, x)
<1>1. /\ s \in Seq(Imports) /\ t \in Seq(Imports) /\ DOMAIN s = DOMAIN r /\ DOMAIN t = DOMAIN r
      /\ \A i \in DOMAIN r : r[i] \in Imports
  BY DEF Migrating
<1>2. ASSUME NEW i \in DOMAIN r
      PROVE  \/ s[i] = r[i] /\ t[i] = r[i]
             \/ s[i] = r[i] /\ r[i].path \in OldPaths /\ t[i] = Moved(r[i])
             \/ r[i].path \in OldPaths /\ s[i] = Moved(r[i]) /\ t[i] = Moved(r[i])
  <2>1. CASE s[i] = r[i]
    BY <1>1, <2>1 DEF Migrating
  <2>2. CASE s[i] # r[i]
    <3>1. r[i].path \in OldPaths /\ s[i] = Moved(r[i])
      BY <2>2 DEF Migrating
    <3>2. s[i].path \notin OldPaths
      BY <1>1, <3>1, MovedOld
    <3>3. t[i] = s[i]
      BY <1>1, <3>2 DEF Migrating
    <3> QED BY <3>1, <3>3
  <2> QED BY <2>1, <2>2
<1>3. Migrating(r, t)
  BY <1>1, <1>2 DEF Migrating
<1>4. ASSUME NEW x \in Imports, x.path \in OldPaths, NEW i \in DOMAIN r
      PROVE  /\ r[i] = x /\ s[i] # x => t[i] # x
             /\ s[i] = x => r[i] = x
  <2>1. r[i].path \in OldPaths => Moved(r[i]).path \notin OldPaths
    BY <1>1, MovedOld
  <2>2. r[i].path \in OldPaths => Moved(r[i]) # x
    BY <1>4, <2>1
  <2> QED BY <1>2, <2>2
<1>5. ASSUME NEW x \in Imports, x.path \in OldPaths
      PROVE  /\ Takes(r, s, x) => Takes(r, t, x)
             /\ Takes(s, t, x) => Takes(r, t, x)
  <2>1. Takes(r, s, x) => Takes(r, t, x)
    BY <1>4, <1>5 DEF Takes
  <2>2. ASSUME Takes(s, t, x), NEW j \in DOMAIN r, r[j] = x
        PROVE  \E i \in DOMAIN r : r[i] = x /\ t[i] # x
    <3>1. CASE s[j] = x
      <4>1. \E i \in DOMAIN s : s[i] = x
        BY <1>1, <3>1
      <4>2. PICK i \in DOMAIN s : s[i] = x /\ t[i] # x
        BY <2>2, <4>1 DEF Takes
      <4> QED BY <1>1, <1>4, <1>5, <4>2
    <3>2. CASE s[j] # x
      BY <1>4, <1>5, <2>2, <3>2
    <3> QED BY <3>1, <3>2
  <2>3. Takes(s, t, x) => Takes(r, t, x)
    BY <2>2 DEF Takes
  <2> QED BY <2>1, <2>3
<1> QED BY <1>3, <1>5

LEMMA MigratingNot ==
  ASSUME NEW source \in Seq(Imports)
  PROVE  Migrating(source, source)
BY DEF Migrating

\* String.replace changes the first occurrence, or nothing.
LEMMA ReplaceFirst ==
  ASSUME NEW source \in Seq(Imports), NEW from, NEW to
  PROVE  \/ /\ \A i \in DOMAIN source : source[i] # from
            /\ replace(source, from, to) = source
         \/ \E n \in DOMAIN source :
              source[n] = from /\ replace(source, from, to) = [source EXCEPT ![n] = to]
<1>1. DOMAIN source = 1 .. Len(source) /\ Len(source) \in Nat
  OBVIOUS
<1>2. CASE Contains(source, from)
  <2> DEFINE I == {i \in 1 .. Len(source) : source[i] = from}
  <2>1. I \in SUBSET Nat /\ I # {}
    BY <1>1, <1>2 DEF Contains
  <2>2. PICK n \in I : \A k \in I : n <= k
    BY <2>1, NatMin, Zenon
  <2>3. \E x \in I : \A y \in I : x =< y
    BY <2>2
  <2>4. Min(I) \in I
    BY <2>3, Zenon DEF Min
  <2>5. SelectInSeq(source, LAMBDA i : i = from) = Min(I)
    BY <2>1, Zenon DEF SelectInSeq
  <2>6. replace(source, from, to) = [source EXCEPT ![Min(I)] = to]
    BY <1>2, <2>5, Zenon DEF replace
  <2> QED BY <1>1, <2>4, <2>6
<1>3. CASE ~ Contains(source, from)
  <2>1. \A i \in DOMAIN source : source[i] # from
    BY <1>1, <1>3 DEF Contains
  <2>2. replace(source, from, to) = source
    BY <1>3 DEF replace
  <2> QED BY <2>1, <2>2
<1> QED BY <1>2, <1>3

LEMMA ReplaceMigrates ==
  ASSUME NEW source \in Seq(Imports), NEW k \in DOMAIN pathUpdates,
         NEW p \in {"contracts", "upgradeable"}
  PROVE  LET from == Import(p, pathUpdates[k][1])
             result == replace(source, from, Import(p, pathUpdates[k][2]))
         IN  Migrating(source, result) /\ Takes(source, result, from)
<1> DEFINE from == Import(p, pathUpdates[k][1])
           to == Import(p, pathUpdates[k][2])
           result == replace(source, from, to)
<1>1. /\ from \in Imports /\ to \in Imports /\ Moved(from) = to
      /\ from.path \in OldPaths /\ to.path \notin OldPaths
  BY MovedRow
<1> HIDE DEF from, to
<1>2. \/ (\A i \in DOMAIN source : source[i] # from) /\ result = source
      \/ \E n \in DOMAIN source : source[n] = from /\ result = [source EXCEPT ![n] = to]
  BY ReplaceFirst
<1> HIDE DEF result
<1>3. ASSUME \A i \in DOMAIN source : source[i] # from, result = source
      PROVE  Migrating(source, result) /\ Takes(source, result, from)
  BY <1>3, MigratingNot DEF Takes
<1>4. ASSUME \E n \in DOMAIN source : source[n] = from /\ result = [source EXCEPT ![n] = to]
      PROVE  Migrating(source, result) /\ Takes(source, result, from)
  <2>1. PICK n \in DOMAIN source : source[n] = from /\ result = [source EXCEPT ![n] = to]
    BY <1>4
  <2>2. result \in Seq(Imports) /\ DOMAIN result = DOMAIN source
        /\ \A i \in DOMAIN source : result[i] = IF i = n THEN to ELSE source[i]
    BY <1>1, <2>1
  <2>3. from # to
    BY <1>1
  <2> QED BY <1>1, <2>1, <2>2, <2>3 DEF Migrating, Takes
<1>5. Migrating(source, result) /\ Takes(source, result, from)
  BY <1>2, <1>3, <1>4
<1> QED BY <1>5 DEF from, to, result

\* One row of the table.
LEMMA RowMigrates ==
  ASSUME NEW source \in Seq(Imports), NEW k \in DOMAIN pathUpdates
  PROVE  LET result == updated(source, pathUpdates[k])
         IN  /\ Migrating(source, result)
             /\ \A x \in Imports : x.path = pathUpdates[k][1] => Takes(source, result, x)
<1> DEFINE c == Import("contracts", pathUpdates[k][1])
           u == Import("upgradeable", pathUpdates[k][1])
           mid == replace(source, c, Import("contracts", pathUpdates[k][2]))
           result == replace(mid, u, Import("upgradeable", pathUpdates[k][2]))
<1>1. Migrating(source, mid) /\ Takes(source, mid, c)
  BY ReplaceMigrates
<1>2. mid \in Seq(Imports)
  BY <1>1 DEF Migrating
<1>3. Migrating(mid, result) /\ Takes(mid, result, u)
  BY <1>2, ReplaceMigrates
<1>4. c \in Imports /\ u \in Imports /\ c.path \in OldPaths /\ u.path \in OldPaths
  BY MovedRow
<1>5. \A x \in Imports : x.path = pathUpdates[k][1] => x = c \/ x = u
  BY DEF Imports, Import
<1>6. updated(source, pathUpdates[k]) = result
  BY Zenon DEF updated
<1> HIDE DEF c, u, mid, result
<1>7. /\ Migrating(source, result)
      /\ Takes(source, result, c) /\ Takes(source, result, u)
  BY <1>1, <1>3, <1>4, MigratingTwice
<1> QED BY <1>5, <1>6, <1>7

\* The recursion of updateImportPaths over the rows, as the library's folds
\* write it: the last row is applied to the result of the others.
RowsEq(iter, source) ==
  iter = [s \in SUBSET DOMAIN pathUpdates |->
            IF s = {} THEN source ELSE updated(iter[s \ {Max(s)}], pathUpdates[Max(s)])]

AfterRows(source) == CHOOSE iter : RowsEq(iter, source)

LEMMA UpdateIsLast ==
  ASSUME NEW source
  PROVE  updateImportPaths(source) = AfterRows(source)[DOMAIN pathUpdates]
BY DEF updateImportPaths, FoldLeft, MapThenFoldSet, AfterRows, RowsEq

\* The recursion has a solution, built up by the size of the sets of rows.
LEMMA RowsExist ==
  ASSUME NEW source
  PROVE  \E iter : RowsEq(iter, source)
<1> DEFINE S == DOMAIN pathUpdates
           Upto(n) == {s \in SUBSET S : Cardinality(s) <= n}
           Value(g, s) == IF s = {} THEN source ELSE updated(g[s \ {Max(s)}], pathUpdates[Max(s)])
           Good(g, n) == g = [s \in Upto(n) |-> Value(g, s)]
           T == {n \in Nat : \E g : Good(g, n)}
<1>0. /\ IsFiniteSet(S) /\ S \in SUBSET S
      /\ \A s \in SUBSET S : IsFiniteSet(s) /\ Cardinality(s) \in Nat
      /\ \A s \in SUBSET S : s # {} => Max(s) \in s
  <2>1. S = 1 .. Len(pathUpdates) /\ Len(pathUpdates) \in Nat
    BY TableFacts
  <2>2. ASSUME NEW s \in SUBSET S, s # {} PROVE Max(s) \in s
    <3>1. s \in SUBSET Nat /\ \A k \in s : k <= Len(pathUpdates)
      BY <2>1
    <3> QED BY <2>1, <2>2, <3>1, MaxOfBounded, Zenon
  <2>3. IsFiniteSet(S)
    BY <2>1, FS_Interval
  <2> HIDE DEF S
  <2> QED BY <2>2, <2>3, FS_Subset, FS_CardinalityType
<1> HIDE DEF S
<1>1. 0 \in T
  <2>1. Upto(0) = {{}}
    BY <1>0, FS_EmptySet
  <2>2. Good([s \in {{}} |-> source], 0)
    BY <2>1
  <2> QED BY <2>2
<1>2. ASSUME NEW n \in Nat, n \in T PROVE n + 1 \in T
  <2>1. PICK g : Good(g, n)
    BY <1>2
  <2> DEFINE h == [s \in Upto(n + 1) |-> Value(g, s)]
  <2>2. ASSUME NEW s \in Upto(n + 1), s # {} PROVE s \ {Max(s)} \in Upto(n)
    <3>1. Max(s) \in s /\ IsFiniteSet(s)
      BY <1>0, <2>2
    <3>2. Cardinality(s \ {Max(s)}) = Cardinality(s) - 1
      BY <3>1, FS_RemoveElement, Zenon
    <3> QED BY <3>2, <1>0
  <2>3. ASSUME NEW s \in Upto(n) PROVE s \in Upto(n + 1) /\ g[s] = h[s]
    <3>1. s \in Upto(n + 1)
      BY <1>0
    <3>2. g[s] = Value(g, s)
      BY <2>1, Zenon
    <3> HIDE DEF Upto
    <3>3. h[s] = Value(g, s)
      BY <3>1
    <3> QED BY <3>1, <3>2, <3>3
  <2> HIDE DEF Upto
  <2>4. \A s \in Upto(n + 1) : h[s] = Value(h, s)
    <3> SUFFICES ASSUME NEW s \in Upto(n + 1), s # {}
                 PROVE  h[s] = updated(h[s \ {Max(s)}], pathUpdates[Max(s)])
      OBVIOUS
    <3>1. h[s] = updated(g[s \ {Max(s)}], pathUpdates[Max(s)])
      OBVIOUS
    <3> HIDE DEF h
    <3>2. g[s \ {Max(s)}] = h[s \ {Max(s)}]
      BY <2>2, <2>3
    <3> QED BY <3>1, <3>2, Zenon
  <2>5. h = [s \in Upto(n + 1) |-> Value(h, s)]
    <3>1. h = [s \in Upto(n + 1) |-> h[s]]
      OBVIOUS
    <3> HIDE DEF h, Value
    <3> QED BY <2>4, <3>1
  <2> HIDE DEF h
  <2>6. \E hh : Good(hh, n + 1)
    BY <2>5, Zenon
  <2> QED BY <2>6
<1>3. Cardinality(S) \in T
  <2> HIDE DEF T
  <2>1. T \in SUBSET Nat BY DEF T
  <2> QED BY <1>0, <1>1, <1>2, <2>1, NatIndSet
<1>4. Upto(Cardinality(S)) = SUBSET S
  <2>1. \A s \in SUBSET S : Cardinality(s) <= Cardinality(S)
    BY <1>0, FS_Subset
  <2> QED BY <2>1
<1>5. PICK g : Good(g, Cardinality(S))
  BY <1>3
<1>6. RowsEq(g, source)
  BY <1>4, <1>5, Zenon DEF RowsEq, S
<1> QED BY <1>6

\* So every import that has moved is replaced in one place at least, and
\* nothing else changes.
LEMMA UpdateMigrates ==
  ASSUME NEW source \in Seq(Imports)
  PROVE  /\ Migrating(source, updateImportPaths(source))
         /\ \A x \in Imports : x.path \in OldPaths => Takes(source, updateImportPaths(source), x)
<1> DEFINE n == Len(pathUpdates)
           iter == AfterRows(source)
           Done(result, k) ==
             /\ Migrating(source, result)
             /\ \A j \in 1 .. k : \A x \in Imports :
                  x.path = pathUpdates[j][1] => Takes(source, result, x)
           T == {k \in Nat : k <= n => Done(iter[1 .. k], k)}
<1>1. RowsEq(iter, source)
  BY RowsExist, Zenon DEF AfterRows
<1>2. n \in Nat /\ DOMAIN pathUpdates = 1 .. n
  BY TableFacts
<1> HIDE DEF n, iter
<1>4. \A s \in SUBSET (1 .. n) :
        iter[s] = IF s = {} THEN source ELSE updated(iter[s \ {Max(s)}], pathUpdates[Max(s)])
  BY <1>1, <1>2 DEF RowsEq
<1>5. 0 \in T
  <2>1. 1 .. 0 = {} /\ {} \in SUBSET (1 .. n)
    OBVIOUS
  <2>2. iter[1 .. 0] = source
    BY <1>4, <2>1
  <2> QED BY <2>1, <2>2, MigratingNot
<1>6. ASSUME NEW m \in Nat, m \in T PROVE m + 1 \in T
  <2> DEFINE k == m + 1
  <2> SUFFICES ASSUME k <= n PROVE Done(iter[1 .. k], k)
    OBVIOUS
  <2>1. k \in 1 .. n /\ k - 1 = m /\ m <= n
    BY <1>2
  <2>2. Done(iter[1 .. m], m)
    BY <1>6, <2>1
  <2> HIDE DEF T
  <2>3. Max(1 .. k) = k
    <3>0. k \in Nat /\ k \in 1 .. k
      BY <2>1
    <3>1. 1 .. k \in SUBSET Nat /\ 1 .. k # {} /\ \A y \in 1 .. k : y <= k
      BY <3>0
    <3>2. Max(1 .. k) \in 1 .. k /\ \A y \in 1 .. k : Max(1 .. k) >= y
      BY <3>0, <3>1, MaxOfBounded, Zenon
    <3> QED BY <3>0, <3>2
  <2>4. (1 .. k) \ {k} = 1 .. m /\ 1 .. k \in SUBSET (1 .. n) /\ 1 .. k # {}
    BY <1>2, <2>1
  <2>0. \A j \in 1 .. k : j = k \/ j \in 1 .. m
    OBVIOUS
  <2> HIDE DEF k
  <2>5. iter[1 .. k] = updated(iter[(1 .. k) \ {Max(1 .. k)}], pathUpdates[Max(1 .. k)])
    BY <1>4, <2>4, Zenon
  <2> DEFINE earlier == iter[1 .. m]
             later == iter[1 .. k]
  <2>6. later = updated(earlier, pathUpdates[k])
    BY <2>3, <2>4, <2>5, Zenon
  <2>7. Migrating(source, earlier) /\ earlier \in Seq(Imports)
    BY <2>2 DEF Migrating
  <2> HIDE DEF later
  <2>8. /\ Migrating(earlier, later)
        /\ \A x \in Imports : x.path = pathUpdates[k][1] => Takes(earlier, later, x)
    <3>1. k \in DOMAIN pathUpdates
      BY <1>2, <2>1
    <3> HIDE DEF earlier
    <3> QED BY <2>6, <2>7, <3>1, RowMigrates
  <2>9. \A j \in 1 .. m : \A x \in Imports : x.path = pathUpdates[j][1] => Takes(source, earlier, x)
    BY <2>2
  <2> HIDE DEF earlier, Done
  <2>10. \A j \in 1 .. n : pathUpdates[j][1] \in OldPaths
    BY <1>2 DEF OldPaths
  <2>11. ASSUME NEW j \in 1 .. k, NEW x \in Imports, x.path = pathUpdates[j][1]
         PROVE  Takes(source, later, x)
    <3>1. x.path \in OldPaths
      BY <1>2, <2>1, <2>10, <2>11
    <3>2. Takes(source, earlier, x) \/ Takes(earlier, later, x)
      BY <2>0, <2>8, <2>9, <2>11
    <3> QED BY <2>7, <2>8, <3>1, <3>2, MigratingTwice
  <2>12. Migrating(source, later)
    BY <2>7, <2>8, MigratingTwice
  <2> QED BY <2>11, <2>12 DEF Done, later
<1>7. n \in T
  <2> HIDE DEF T
  <2>1. T \in SUBSET Nat
    BY DEF T
  <2> QED BY <1>2, <1>5, <1>6, <2>1, NatIndSet
<1>8. updateImportPaths(source) = iter[1 .. n]
  BY <1>2, UpdateIsLast DEF iter
<1>9. Done(updateImportPaths(source), n)
  BY <1>2, <1>7, <1>8
<1>10. \A x \in Imports : x.path \in OldPaths => \E j \in 1 .. n : x.path = pathUpdates[j][1]
  BY <1>2 DEF OldPaths
<1> QED BY <1>9, <1>10

\* A source from which n places of each import that has moved were replaced,
\* unless it had fewer.
MigratedIn(source, result, n) ==
  /\ Migrating(source, result)
  /\ \A x \in Imports : x.path \in OldPaths /\ Occurrences(result, x) # {} =>
       Cardinality(Occurrences(result, x)) + n <= Cardinality(Occurrences(source, x))

LEMMA OccurrencesFinite ==
  ASSUME NEW source \in Seq(Imports), NEW x
  PROVE  IsFiniteSet(Occurrences(source, x)) /\ Cardinality(Occurrences(source, x)) \in Nat
<1>1. DOMAIN source = 1 .. Len(source) /\ Len(source) \in Nat
  OBVIOUS
<1>2. IsFiniteSet(DOMAIN source)
  BY <1>1, FS_Interval
<1>3. Occurrences(source, x) \subseteq DOMAIN source
  BY DEF Occurrences
<1> QED BY <1>2, <1>3, FS_Subset, FS_CardinalityType

LEMMA MigratedNot ==
  ASSUME NEW source \in Seq(Imports)
  PROVE  MigratedIn(source, source, 0)
BY MigratingNot, OccurrencesFinite DEF MigratedIn

LEMMA MigratedFewer ==
  ASSUME NEW source \in Seq(Imports), NEW result, NEW n \in Nat, NEW m \in Nat, m <= n,
         MigratedIn(source, result, n)
  PROVE  MigratedIn(source, result, m)
<1>1. result \in Seq(Imports)
  BY DEF MigratedIn, Migrating
<1> QED BY <1>1, OccurrencesFinite DEF MigratedIn

\* Another update replaces one place more.
LEMMA MigratedAgain ==
  ASSUME NEW source \in Seq(Imports), NEW middle, NEW n \in Nat, MigratedIn(source, middle, n)
  PROVE  MigratedIn(source, updateImportPaths(middle), n + 1)
<1> DEFINE result == updateImportPaths(middle)
<1>1. middle \in Seq(Imports) /\ Migrating(source, middle)
  BY DEF MigratedIn, Migrating
<1>2. Migrating(middle, result)
      /\ \A x \in Imports : x.path \in OldPaths => Takes(middle, result, x)
  BY <1>1, UpdateMigrates
<1> HIDE DEF result
<1>3. Migrating(source, result)
  BY <1>1, <1>2, MigratingTwice
<1>4. ASSUME NEW x \in Imports, x.path \in OldPaths, Occurrences(result, x) # {}
      PROVE  Cardinality(Occurrences(result, x)) + (n + 1) <= Cardinality(Occurrences(source, x))
  <2>1. Occurrences(result, x) \subseteq Occurrences(middle, x)
    <3> SUFFICES ASSUME NEW i \in DOMAIN middle, result[i] = x PROVE middle[i] = x
      BY <1>2 DEF Occurrences, Migrating
    <3>1. middle[i] \in Imports
      BY <1>1
    <3>2. middle[i].path \in OldPaths => Moved(middle[i]) # x
      BY <1>4, <3>1, MovedOld
    <3> QED BY <1>2, <3>2 DEF Migrating
  <2>2. PICK j \in Occurrences(middle, x) : j \notin Occurrences(result, x)
    <3>1. \E i \in DOMAIN middle : middle[i] = x
      BY <1>4, <2>1 DEF Occurrences
    <3>2. PICK i \in DOMAIN middle : middle[i] = x /\ result[i] # x
      BY <1>2, <1>4, <3>1 DEF Takes
    <3> QED BY <3>2 DEF Occurrences
  <2>3. IsFiniteSet(Occurrences(middle, x)) /\ Cardinality(Occurrences(middle, x)) \in Nat
    BY <1>1, OccurrencesFinite
  <2>4. Occurrences(result, x) # Occurrences(middle, x)
    BY <2>2
  <2>5. /\ Cardinality(Occurrences(result, x)) <= Cardinality(Occurrences(middle, x))
        /\ Cardinality(Occurrences(result, x)) # Cardinality(Occurrences(middle, x))
    BY <2>1, <2>3, <2>4, FS_Subset, Zenon
  <2>6. Cardinality(Occurrences(middle, x)) + n <= Cardinality(Occurrences(source, x))
    BY <1>4, <2>2 DEF MigratedIn
  <2>7. Cardinality(Occurrences(result, x)) \in Nat /\ Cardinality(Occurrences(source, x)) \in Nat
    <3>1. result \in Seq(Imports)
      BY <1>2 DEF Migrating
    <3> QED BY <3>1, OccurrencesFinite
  <2> QED BY <2>3, <2>5, <2>6, <2>7
<1> QED BY <1>3, <1>4 DEF MigratedIn, result

Known == DOMAIN Directories \cup Solidity

\* The walk: there is a set of paths looked at so far such that what they lead
\* to is in it or still to be looked at, with each Solidity file of it listed.
WalkInv ==
  phase = "listing" =>
    \E V \in SUBSET Known :
      /\ Root \in V \cup ToSet(paths)
      /\ \A d \in V \cap DOMAIN Directories :
           ToSet(Directories[d]) \cap Known \subseteq V \cup ToSet(paths)
      /\ V \cap Solidity \subseteq ToSet(files)

\* The runs in which a file was updated: those that ended and, if the file left
\* its list, the current one.
Updates(f) == runs + (IF phase = "updating" /\ f \notin ToSet(files) THEN 1 ELSE 0)

\* A file that no interrupted write spoiled was migrated in each of its updates;
\* while it is written, what is written was.
DiskInv ==
  \A f \in Solidity \ cut :
    /\ ~ (buffer # {} /\ f = Head(files)) => MigratedIn(original[f], disk[f], Updates(f))
    /\ \A content \in buffer : f = Head(files) => MigratedIn(original[f], content, runs + 1)

\* A run that was started ended, spoiled a file at most, or is not over.
StartsInv == Cardinality(cut) + runs + (IF phase = "idle" THEN 0 ELSE 1) <= starts

ImportsType ==
  /\ original \in [Solidity -> Seq(Imports)] /\ disk \in [Solidity -> Seq(Imports)]
  /\ phase \in {"idle", "listing", "updating"}
  /\ paths \in Seq(STRING) /\ files \in Seq(Solidity)
  /\ buffer \in SUBSET Seq(Imports)
  /\ buffer # {} => phase = "updating" /\ files # <<>>
  /\ cut \in SUBSET Solidity /\ IsFiniteSet(cut)
  /\ starts \in Nat /\ runs \in Nat

ImportsInv == ImportsType /\ WalkInv /\ DiskInv /\ StartsInv

\* Facts about a queue of which the head is taken.
LEMMA HeadOrTail ==
  ASSUME NEW S, NEW q \in Seq(S), q # <<>>
  PROVE  /\ Head(q) \in S /\ Tail(q) \in Seq(S)
         /\ ToSet(q) = {Head(q)} \cup ToSet(Tail(q))
<1>1. Head(q) \in S /\ Tail(q) \in Seq(S) /\ Len(q) \in Nat \ {0} /\ Len(Tail(q)) = Len(q) - 1
  OBVIOUS
<1>2. Head(q) = q[1] /\ \A i \in 1 .. Len(q) - 1 : Tail(q)[i] = q[i + 1]
  OBVIOUS
<1>3. ToSet(q) = {q[i] : i \in 1 .. Len(q)} /\ ToSet(Tail(q)) = {Tail(q)[i] : i \in 1 .. Len(q) - 1}
  <2>1. DOMAIN q = 1 .. Len(q) /\ DOMAIN Tail(q) = 1 .. Len(Tail(q))
    BY <1>1
  <2> QED BY <1>1, <2>1, Zenon DEF ToSet
<1>4. \A i \in 1 .. Len(q) : i = 1 \/ (i - 1 \in 1 .. Len(q) - 1 /\ q[i] = Tail(q)[i - 1])
  BY <1>1, <1>2
<1>5. 1 \in 1 .. Len(q) /\ \A i \in 1 .. Len(q) - 1 : i + 1 \in 1 .. Len(q)
  BY <1>1
<1>6. ToSet(q) \subseteq {Head(q)} \cup ToSet(Tail(q))
  BY <1>2, <1>3, <1>4
<1>7. {Head(q)} \cup ToSet(Tail(q)) \subseteq ToSet(q)
  BY <1>2, <1>3, <1>5
<1> QED BY <1>1, <1>6, <1>7

LEMMA ToSetOne == \A x : ToSet(<<x>>) = {x}
<1> TAKE x
<1>1. DOMAIN <<x>> = {1} /\ <<x>>[1] = x
  OBVIOUS
<1> DEFINE q == <<x>>
<1> HIDE DEF q
<1>2. DOMAIN q = {1} /\ q[1] = x
  BY <1>1 DEF q
<1>3. ToSet(q) = {x}
  BY <1>2 DEF ToSet
<1> QED BY <1>3 DEF q

LEMMA ToSetJoined ==
  ASSUME NEW S, NEW q \in Seq(S), NEW r \in Seq(S)
  PROVE  q \o r \in Seq(S) /\ ToSet(q \o r) = ToSet(q) \cup ToSet(r)
<1>1. /\ q \o r \in Seq(S) /\ Len(q) \in Nat /\ Len(r) \in Nat /\ Len(q \o r) = Len(q) + Len(r)
      /\ DOMAIN q = 1 .. Len(q) /\ DOMAIN r = 1 .. Len(r) /\ DOMAIN (q \o r) = 1 .. Len(q) + Len(r)
  OBVIOUS
<1>2. \A i \in 1 .. Len(q) + Len(r) : (q \o r)[i] = IF i <= Len(q) THEN q[i] ELSE r[i - Len(q)]
  OBVIOUS
<1> DEFINE t == q \o r
<1> HIDE DEF t
<1>3. /\ ToSet(t) = {t[i] : i \in 1 .. Len(q) + Len(r)}
      /\ ToSet(q) = {q[i] : i \in 1 .. Len(q)} /\ ToSet(r) = {r[i] : i \in 1 .. Len(r)}
  BY <1>1 DEF ToSet, t
<1>4. \A i \in 1 .. Len(q) + Len(r) : t[i] = IF i <= Len(q) THEN q[i] ELSE r[i - Len(q)]
  BY <1>2 DEF t
<1>5. ToSet(t) \subseteq ToSet(q) \cup ToSet(r)
  <2>1. \A i \in 1 .. Len(q) + Len(r) : i \in 1 .. Len(q) \/ i - Len(q) \in 1 .. Len(r)
    BY <1>1
  <2>2. \A i \in 1 .. Len(q) + Len(r) : t[i] \in ToSet(q) \cup ToSet(r)
    BY <1>1, <1>3, <1>4, <2>1
  <2> QED BY <1>3, <2>2
<1>6. ToSet(q) \subseteq ToSet(t)
  <2>1. \A i \in 1 .. Len(q) : i \in 1 .. Len(q) + Len(r) /\ t[i] = q[i]
    BY <1>1, <1>4
  <2> QED BY <1>3, <2>1
<1>7. ToSet(r) \subseteq ToSet(t)
  <2>1. \A i \in 1 .. Len(r) : i + Len(q) \in 1 .. Len(q) + Len(r) /\ t[i + Len(q)] = r[i]
    BY <1>1, <1>4
  <2> QED BY <1>3, <2>1
<1> QED BY <1>1, <1>5, <1>6, <1>7 DEF t

LEMMA ImportsNextInv ==
  AllUnderRoot /\ ImportsInv /\ [ImportsNext]_importVars => ImportsInv'
<1> SUFFICES ASSUME AllUnderRoot, ImportsInv, [ImportsNext]_importVars
             PROVE  ImportsInv'
  OBVIOUS
<1> USE DEF ImportsInv
<1>1. CASE main
  <2>1. /\ phase = "idle" /\ phase' = "listing" /\ paths' = <<Root>> /\ files' = <<>>
        /\ disk' = disk /\ original' = original /\ buffer' = buffer /\ cut' = cut
        /\ starts' = starts + 1 /\ runs' = runs /\ buffer = {}
    BY <1>1 DEF main, ImportsType
  <2>2. ImportsType'
    <3>1. <<Root>> \in Seq(STRING) /\ <<>> \in Seq(Solidity)
      BY ImportsAssumption
    <3> QED BY <2>1, <3>1 DEF ImportsType
  <2>3. Root \in ToSet(<<Root>>)
    BY ToSetOne
  <2>4. WalkInv'
    <3>1. /\ Root \in {} \cup ToSet(paths')
          /\ \A d \in {} \cap DOMAIN Directories :
               ToSet(Directories[d]) \cap Known \subseteq {} \cup ToSet(paths')
          /\ {} \cap Solidity \subseteq ToSet(files')
      BY <2>1, <2>3
    <3> QED BY <3>1 DEF WalkInv
  <2>5. DiskInv'
    BY <2>1 DEF DiskInv, Updates
  <2>6. StartsInv'
    <3>1. Cardinality(cut) \in Nat
      BY FS_CardinalityType DEF ImportsType
    <3> QED BY <2>1, <3>1 DEF StartsInv, ImportsType
  <2> QED BY <2>2, <2>4, <2>5, <2>6
<1>2. CASE list
  <2> DEFINE top == Head(paths)
             more == IF top \in DOMAIN Directories THEN Directories[top] ELSE <<>>
  <2>1. /\ phase = "listing" /\ paths # <<>>
        /\ files' = IF top \in Solidity THEN Append(files, top) ELSE files
        /\ paths' = Tail(paths) \o more
        /\ disk' = disk /\ original' = original /\ phase' = phase
        /\ buffer' = buffer /\ cut' = cut /\ starts' = starts /\ runs' = runs /\ phase # "updating"
        /\ buffer = {}
    BY <1>2 DEF list, ImportsType
  <2>2. /\ top \in STRING /\ Tail(paths) \in Seq(STRING) /\ ToSet(paths) = {top} \cup ToSet(Tail(paths))
    BY <2>1, HeadOrTail DEF ImportsType
  <2>3. more \in Seq(STRING)
    <3>1. \A d \in DOMAIN Directories : Directories[d] \in Seq(STRING)
      BY ImportsAssumption, Zenon
    <3>2. CASE top \in DOMAIN Directories
      BY <3>1, <3>2, Zenon
    <3>3. CASE top \notin DOMAIN Directories
      <4>1. <<>> \in Seq(STRING)
        OBVIOUS
      <4> QED BY <3>3, <4>1, Zenon
    <3> QED BY <3>2, <3>3
  <2>4. /\ top \in DOMAIN Directories => more = Directories[top]
        /\ top \in Solidity => top \notin DOMAIN Directories
    BY ImportsAssumption
  <2> HIDE DEF top, more
  <2>5. paths' \in Seq(STRING) /\ ToSet(paths') = ToSet(Tail(paths)) \cup ToSet(more)
    <3>1. /\ Tail(paths) \o more \in Seq(STRING)
          /\ ToSet(Tail(paths) \o more) = ToSet(Tail(paths)) \cup ToSet(more)
      <4> DEFINE rest == Tail(paths)
      <4>1. rest \in Seq(STRING)
        BY <2>2
      <4> HIDE DEF rest
      <4>2. rest \o more \in Seq(STRING) /\ ToSet(rest \o more) = ToSet(rest) \cup ToSet(more)
        BY <2>3, <4>1, ToSetJoined
      <4> QED BY <4>2 DEF rest
    <3> QED BY <2>1, <3>1
  <2>6. files' \in Seq(Solidity) /\ ToSet(files) \subseteq ToSet(files')
        /\ (top \in Solidity => top \in ToSet(files'))
    <3>1. CASE top \in Solidity
      <4>1. files' = files \o <<top>> /\ <<top>> \in Seq(Solidity) /\ files \in Seq(Solidity)
        BY <2>1, <3>1 DEF ImportsType
      <4>2. top \in ToSet(<<top>>)
        BY ToSetOne
      <4>3. files \o <<top>> \in Seq(Solidity) /\ ToSet(files \o <<top>>) = ToSet(files) \cup ToSet(<<top>>)
        BY <4>1, ToSetJoined, Zenon
      <4> QED BY <4>1, <4>2, <4>3
    <3>2. CASE top \notin Solidity
      BY <2>1, <3>2 DEF ImportsType
    <3> QED BY <3>1, <3>2
  <2>7. ImportsType'
    BY <2>1, <2>5, <2>6 DEF ImportsType
  <2>8. WalkInv'
    <3>1. PICK V \in SUBSET Known :
            /\ Root \in V \cup ToSet(paths)
            /\ \A d \in V \cap DOMAIN Directories :
                 ToSet(Directories[d]) \cap Known \subseteq V \cup ToSet(paths)
            /\ V \cap Solidity \subseteq ToSet(files)
      BY <2>1 DEF WalkInv
    <3> DEFINE W == V \cup ({top} \cap Known)
    <3>2. W \in SUBSET Known /\ V \subseteq W
      OBVIOUS
    <3>3. top \in Known => top \in W
      OBVIOUS
    <3>4. Root \in W \cup ToSet(paths')
      <4>1. Root \in Known
        BY ImportsAssumption DEF Known
      <4> QED BY <2>2, <2>5, <3>1, <4>1
    <3>5. ASSUME NEW d \in W \cap DOMAIN Directories
          PROVE  ToSet(Directories[d]) \cap Known \subseteq W \cup ToSet(paths')
      <4>1. CASE d = top
        BY <2>4, <2>5, <3>5, <4>1
      <4>2. CASE d # top
        <5>1. ToSet(Directories[d]) \cap Known \subseteq V \cup ToSet(paths)
          BY <3>1, <3>5, <4>2
        <5> QED BY <2>2, <2>5, <5>1
      <4> QED BY <4>1, <4>2
    <3>6. W \cap Solidity \subseteq ToSet(files')
      BY <2>6, <3>1
    <3> HIDE DEF W
    <3> QED BY <3>2, <3>4, <3>5, <3>6 DEF WalkInv
  <2>9. DiskInv' /\ StartsInv'
    BY <2>1 DEF DiskInv, StartsInv, Updates
  <2> QED BY <2>7, <2>8, <2>9
<1>3. CASE listed
  <2>1. /\ phase = "listing" /\ paths = <<>> /\ phase' = "updating"
        /\ disk' = disk /\ original' = original /\ paths' = paths /\ files' = files
        /\ buffer' = buffer /\ cut' = cut /\ starts' = starts /\ runs' = runs /\ buffer = {}
    BY <1>3 DEF listed, ImportsType
  <2>2. ToSet(paths) = {}
    BY <2>1 DEF ToSet
  <2>3. PICK V \in SUBSET Known :
          /\ Root \in V \cup ToSet(paths)
          /\ \A d \in V \cap DOMAIN Directories :
               ToSet(Directories[d]) \cap Known \subseteq V \cup ToSet(paths)
          /\ V \cap Solidity \subseteq ToSet(files)
    BY <2>1 DEF WalkInv
  <2>4. Solidity \subseteq V
    BY <2>2, <2>3 DEF AllUnderRoot, Known
  <2>5. Solidity \subseteq ToSet(files)
    BY <2>3, <2>4
  <2>6. \A f \in Solidity : Updates(f)' = Updates(f)
    BY <2>1, <2>5 DEF Updates
  <2>7. DiskInv'
    BY <2>1, <2>6 DEF DiskInv
  <2>8. StartsInv'
    BY <2>1 DEF StartsInv
  <2> QED BY <2>1, <2>7, <2>8 DEF ImportsType, WalkInv
<1>4. CASE updateFile
  <2> DEFINE f == Head(files)
             content == updateImportPaths(disk[f])
  <2>1. /\ phase = "updating" /\ files # <<>> /\ buffer = {}
        /\ original' = original /\ phase' = phase /\ paths' = paths /\ cut' = cut
        /\ starts' = starts /\ runs' = runs
        /\ \/ content = disk[f] /\ files' = Tail(files) /\ disk' = disk /\ buffer' = buffer
           \/ /\ buffer' = {content} /\ disk' = [disk EXCEPT ![f] = <<>>] /\ files' = files
    BY <1>4 DEF updateFile
  <2>2. f \in Solidity /\ Tail(files) \in Seq(Solidity) /\ ToSet(files) = {f} \cup ToSet(Tail(files))
    BY <2>1, HeadOrTail DEF ImportsType
  <2>3. content \in Seq(Imports)
    BY <2>2, UpdateMigrates DEF ImportsType, Migrating
  <2>4. f \notin cut => MigratedIn(original[f], content, runs + 1)
    <3> SUFFICES ASSUME f \notin cut PROVE MigratedIn(original[f], content, runs + 1)
      OBVIOUS
    <3> HIDE DEF f
    <3>1. MigratedIn(original[f], disk[f], Updates(f))
      BY <2>1, <2>2 DEF DiskInv
    <3>2. Updates(f) = runs /\ runs \in Nat /\ original[f] \in Seq(Imports)
      BY <2>2 DEF Updates, ImportsType
    <3> QED BY <3>1, <3>2, MigratedAgain
  <2>5. \A g \in Solidity \ cut : MigratedIn(original[g], disk[g], Updates(g))
    BY <2>1 DEF DiskInv
  <2>6. WalkInv' /\ StartsInv'
    BY <2>1 DEF WalkInv, StartsInv
  <2>7. CASE content = disk[f] /\ files' = Tail(files) /\ disk' = disk /\ buffer' = buffer
    <3> HIDE DEF f, content
    <3>1. ImportsType'
      BY <2>1, <2>2, <2>7 DEF ImportsType
    <3>2. ASSUME NEW g \in Solidity \ cut PROVE MigratedIn(original[g], disk[g], Updates(g)')
      <4>1. CASE g = f /\ f \notin ToSet(Tail(files))
        <5>1. Updates(g)' = runs + 1
          BY <2>1, <2>7, <4>1 DEF Updates
        <5> QED BY <2>4, <2>7, <3>2, <4>1, <5>1
      <4>2. CASE g # f \/ f \in ToSet(Tail(files))
        <5>1. Updates(g)' = Updates(g)
          BY <2>1, <2>2, <2>7, <4>2 DEF Updates
        <5> QED BY <2>5, <5>1
      <4> QED BY <4>1, <4>2
    <3>3. DiskInv'
      BY <2>1, <2>7, <3>2 DEF DiskInv
    <3> QED BY <2>6, <3>1, <3>3
  <2>8. CASE buffer' = {content} /\ disk' = [disk EXCEPT ![f] = <<>>] /\ files' = files
    <3>1. ImportsType'
      <4>1. <<>> \in Seq(Imports)
        OBVIOUS
      <4> HIDE DEF f, content
      <4> QED BY <2>1, <2>2, <2>3, <2>8, <4>1 DEF ImportsType
    <3>2. \A g \in Solidity : Updates(g)' = Updates(g)
      BY <2>1, <2>8 DEF Updates
    <3>3. \A g \in Solidity : g # f => disk'[g] = disk[g]
      BY <2>8 DEF ImportsType
    <3>4. f = Head(files)'
      BY <2>8
    <3> HIDE DEF f, content
    <3>5. ASSUME NEW g \in Solidity \ cut
          PROVE  /\ g # f => MigratedIn(original[g], disk'[g], Updates(g)')
                 /\ g = f => MigratedIn(original[g], content, runs + 1)
      BY <2>4, <2>5, <3>2, <3>3, <3>5
    <3>6. DiskInv'
      BY <2>1, <2>8, <3>4, <3>5 DEF DiskInv
    <3> QED BY <2>6, <3>1, <3>6
  <2> QED BY <2>1, <2>7, <2>8
<1>5. CASE written
  <2> DEFINE f == Head(files)
  <2>1. PICK content \in buffer :
          /\ phase = "updating" /\ files # <<>>
          /\ disk' = [disk EXCEPT ![f] = content] /\ files' = Tail(files) /\ buffer' = {}
          /\ original' = original /\ phase' = phase /\ paths' = paths /\ cut' = cut
          /\ starts' = starts /\ runs' = runs
    BY <1>5 DEF written
  <2>2. f \in Solidity /\ Tail(files) \in Seq(Solidity) /\ ToSet(files) = {f} \cup ToSet(Tail(files))
    BY <2>1, HeadOrTail DEF ImportsType
  <2>3. content \in Seq(Imports)
    BY DEF ImportsType
  <2>4. /\ f \notin cut => MigratedIn(original[f], content, runs + 1)
        /\ \A g \in Solidity \ cut : g # f => MigratedIn(original[g], disk[g], Updates(g))
    BY <2>1, <2>2 DEF DiskInv
  <2> HIDE DEF f
  <2>5. ImportsType'
    BY <2>1, <2>2, <2>3 DEF ImportsType
  <2>6. ASSUME NEW g \in Solidity \ cut PROVE MigratedIn(original[g], disk'[g], Updates(g)')
    <3>1. disk'[g] = IF g = f THEN content ELSE disk[g]
      BY <2>1, <2>2 DEF ImportsType
    <3>2. CASE g # f
      <4>1. Updates(g)' = Updates(g)
        BY <2>1, <2>2, <3>2 DEF Updates
      <4> QED BY <2>4, <3>1, <3>2, <4>1
    <3>3. CASE g = f
      <4>1. MigratedIn(original[g], content, runs + 1)
        BY <2>4, <2>6, <3>3
      <4>2. Updates(g)' \in Nat /\ Updates(g)' <= runs + 1 /\ runs + 1 \in Nat
        BY <2>1 DEF Updates, ImportsType
      <4>3. original[g] \in Seq(Imports)
        BY DEF ImportsType
      <4> QED BY <3>1, <3>3, <4>1, <4>2, <4>3, MigratedFewer
    <3> QED BY <3>2, <3>3
  <2>7. DiskInv'
    BY <2>1, <2>6 DEF DiskInv
  <2>8. WalkInv' /\ StartsInv'
    BY <2>1 DEF WalkInv, StartsInv
  <2> QED BY <2>5, <2>7, <2>8
<1>6. CASE done
  <2>1. /\ phase = "updating" /\ files = <<>> /\ phase' = "idle" /\ runs' = runs + 1
        /\ disk' = disk /\ original' = original /\ paths' = paths /\ files' = files
        /\ buffer' = buffer /\ cut' = cut /\ starts' = starts /\ buffer = {}
    BY <1>6 DEF done, ImportsType
  <2>2. ToSet(files) = {}
    BY <2>1 DEF ToSet
  <2>3. \A f \in Solidity : Updates(f)' = Updates(f)
    BY <2>1, <2>2 DEF Updates, ImportsType
  <2>4. DiskInv'
    BY <2>1, <2>3 DEF DiskInv
  <2>5. StartsInv'
    <3>1. Cardinality(cut) \in Nat
      BY FS_CardinalityType DEF ImportsType
    <3> QED BY <2>1, <3>1 DEF StartsInv, ImportsType
  <2>6. ImportsType' /\ WalkInv'
    BY <2>1 DEF ImportsType, WalkInv
  <2> QED BY <2>4, <2>5, <2>6
<1>7. CASE interrupt
  <2>1. /\ phase # "idle" /\ phase' = "idle" /\ runs' = runs /\ buffer = {}
        /\ disk' = disk /\ original' = original /\ paths' = paths /\ files' = files
        /\ buffer' = buffer /\ cut' = cut /\ starts' = starts
    BY <1>7 DEF interrupt
  <2>2. DiskInv'
    <3> SUFFICES ASSUME NEW f \in Solidity \ cut PROVE MigratedIn(original[f], disk[f], Updates(f)')
      BY <2>1 DEF DiskInv
    <3>1. MigratedIn(original[f], disk[f], Updates(f)) /\ original[f] \in Seq(Imports)
      BY <2>1 DEF DiskInv, ImportsType
    <3>2. Updates(f)' \in Nat /\ Updates(f) \in Nat /\ Updates(f)' <= Updates(f)
      BY <2>1 DEF Updates, ImportsType
    <3> QED BY <3>1, <3>2, MigratedFewer
  <2>3. StartsInv'
    <3>1. Cardinality(cut) \in Nat
      BY FS_CardinalityType DEF ImportsType
    <3> QED BY <2>1, <3>1 DEF StartsInv, ImportsType
  <2>4. ImportsType' /\ WalkInv'
    BY <2>1 DEF ImportsType, WalkInv
  <2> QED BY <2>2, <2>3, <2>4
<1>8. CASE interruptWrite
  <2> DEFINE f == Head(files)
  <2>1. PICK content \in buffer :
          /\ files # <<>>
          /\ \E n \in 0 .. Len(content) : disk' = [disk EXCEPT ![f] = SubSeq(content, 1, n)]
          /\ phase' = "idle" /\ buffer' = {} /\ cut' = cut \cup {f}
          /\ original' = original /\ paths' = paths /\ files' = files
          /\ starts' = starts /\ runs' = runs
    BY <1>8 DEF interruptWrite
  <2>2. PICK n \in 0 .. Len(content) : disk' = [disk EXCEPT ![f] = SubSeq(content, 1, n)]
    BY <2>1
  <2>3. f \in Solidity /\ phase = "updating" /\ content \in Seq(Imports)
    BY <2>1, HeadOrTail DEF ImportsType
  <2>4. \A g \in Solidity \ cut : g # f => MigratedIn(original[g], disk[g], Updates(g))
    BY <2>1 DEF DiskInv
  <2>5. SubSeq(content, 1, n) \in Seq(Imports)
    BY <2>3
  <2> HIDE DEF f
  <2>6. IsFiniteSet(cut') /\ Cardinality(cut) \in Nat /\ Cardinality(cut') \in Nat
        /\ Cardinality(cut') <= Cardinality(cut) + 1
    <3>1. IsFiniteSet(cut)
      BY DEF ImportsType
    <3>2. IsFiniteSet(cut')
      BY <2>1, <3>1, FS_AddElement
    <3>3. Cardinality(cut') = Cardinality(cut) \/ Cardinality(cut') = Cardinality(cut) + 1
      BY <2>1, <3>1, FS_AddElement, Zenon
    <3> QED BY <3>1, <3>2, <3>3, FS_CardinalityType
  <2>7. ImportsType'
    BY <2>1, <2>2, <2>3, <2>5, <2>6 DEF ImportsType
  <2>8. DiskInv'
    <3> SUFFICES ASSUME NEW g \in Solidity \ cut, g # f PROVE MigratedIn(original[g], disk'[g], Updates(g)')
      BY <2>1 DEF DiskInv
    <3>1. disk'[g] = disk[g]
      BY <2>2 DEF ImportsType
    <3>2. MigratedIn(original[g], disk[g], Updates(g)) /\ original[g] \in Seq(Imports)
      BY <2>4 DEF ImportsType
    <3>3. Updates(g)' \in Nat /\ Updates(g) \in Nat /\ Updates(g)' <= Updates(g)
      BY <2>1 DEF Updates, ImportsType
    <3> QED BY <3>1, <3>2, <3>3, MigratedFewer
  <2>9. StartsInv'
    BY <2>1, <2>3, <2>6 DEF StartsInv, ImportsType
  <2>10. WalkInv'
    BY <2>1 DEF WalkInv
  <2> QED BY <2>7, <2>8, <2>9, <2>10
<1>9. CASE UNCHANGED importVars
  <2>1. \A f \in Solidity : Updates(f)' = Updates(f)
    BY <1>9 DEF importVars, Updates
  <2> QED BY <1>9, <2>1 DEF importVars, ImportsType, WalkInv, DiskInv, StartsInv
<1> QED BY <1>1, <1>2, <1>3, <1>4, <1>5, <1>6, <1>7, <1>8, <1>9 DEF ImportsNext

\* "the package includes a script that will migrate import statements
\* automatically" (CHANGELOG.md:427), of which a replacement stops at the first
\* occurrence: for any table, any files below the root and any interruptions, a
\* file whose write was never interrupted has its imports in their places, each
\* as it was or moved, and after n runs that ended n places of each import that
\* has moved are replaced, or all of them.  One run is enough only where an
\* import is in a file once.  Interrupted writes spoil one file per run at most.
THEOREM ImportsAreMigrated ==
  AllUnderRoot /\ ImportsSpec => []MigratesImports
<1> SUFFICES ASSUME AllUnderRoot PROVE ImportsSpec => []MigratesImports
  OBVIOUS
<1>1. ImportsInit => ImportsInv
  <2> SUFFICES ASSUME ImportsInit PROVE ImportsInv
    OBVIOUS
  <2>1. disk \in [Solidity -> Contents] /\ Contents \subseteq Seq(Imports)
    BY ImportsAssumption DEF ImportsInit, Imports
  <2>2. disk \in [Solidity -> Seq(Imports)]
    BY <2>1
  <2>3. <<>> \in Seq(STRING) /\ <<>> \in Seq(Solidity)
    OBVIOUS
  <2>4. IsFiniteSet(cut) /\ Cardinality(cut) = 0
    BY FS_EmptySet DEF ImportsInit
  <2>5. ImportsType
    BY <2>2, <2>3, <2>4 DEF ImportsInit, ImportsType
  <2>6. \A f \in Solidity : MigratedIn(original[f], disk[f], 0) /\ Updates(f) = 0
    BY <2>2, MigratedNot DEF ImportsInit, Updates
  <2>7. DiskInv
    BY <2>6 DEF ImportsInit, DiskInv
  <2>8. WalkInv /\ StartsInv
    BY <2>4 DEF ImportsInit, WalkInv, StartsInv
  <2> QED BY <2>5, <2>7, <2>8 DEF ImportsInv
<1>2. ImportsInv => MigratesImports
  <2> SUFFICES ASSUME ImportsInv, phase = "idle" PROVE MigratesImports
    BY DEF MigratesImports
  <2>1. Cardinality(cut) + runs <= starts
    <3>1. Cardinality(cut) \in Nat
      BY FS_CardinalityType DEF ImportsInv, ImportsType
    <3> QED BY <3>1 DEF ImportsInv, StartsInv, ImportsType
  <2>2. buffer = {} /\ \A f \in Solidity : Updates(f) = runs
    BY DEF ImportsInv, ImportsType, Updates
  <2>3. ASSUME NEW f \in Solidity \ cut
        PROVE  /\ DOMAIN disk[f] = DOMAIN original[f]
               /\ \A i \in DOMAIN disk[f] :
                    /\ disk[f][i] \in {original[f][i], Moved(original[f][i])}
                    /\ disk[f][i].path \in OldPaths =>
                         Cardinality(Occurrences(disk[f], disk[f][i])) + runs
                           <= Cardinality(Occurrences(original[f], disk[f][i]))
    <3>1. MigratedIn(original[f], disk[f], runs)
      BY <2>2 DEF ImportsInv, DiskInv
    <3>2. disk[f] \in Seq(Imports)
      BY DEF ImportsInv, ImportsType
    <3>3. \A i \in DOMAIN disk[f] : disk[f][i] \in Imports /\ Occurrences(disk[f], disk[f][i]) # {}
      BY <3>2 DEF Occurrences
    <3> QED BY <3>1, <3>3 DEF MigratedIn, Migrating
  <2> QED BY <2>1, <2>3 DEF MigratesImports
<1>3. ImportsInv /\ [ImportsNext]_importVars => ImportsInv'
  BY ImportsNextInv
<1> QED BY <1>1, <1>2, <1>3, PTL DEF ImportsSpec

(***************************************************************************)
(* The inheritance order.  A chain is merged from the chains of the bases, *)
(* each of which goes into it in its order, so what a contract inherits is *)
(* nowhere in another order in its own chain.                              *)
(***************************************************************************)

MergeEq(step, lists, n) ==
  step = [k \in 0 .. n |->
            IF k = 0 THEN [chain |-> <<>>, lists |-> lists] ELSE MergeStep(step[k - 1])]

MergeSteps(lists, n) == CHOOSE step : MergeEq(step, lists, n)

LEMMA MergeIsLast ==
  ASSUME NEW lists, NEW n
  PROVE  Merge(lists, n) = MergeSteps(lists, n)[n]
BY DEF Merge, MergeSteps, MergeEq

\* The recursion has a solution.
LEMMA MergeExists ==
  ASSUME NEW lists, NEW n \in Nat
  PROVE  \E step : MergeEq(step, lists, n)
<1> DEFINE Value(g, k) == IF k = 0 THEN [chain |-> <<>>, lists |-> lists] ELSE MergeStep(g[k - 1])
           Good(g, m) == g = [k \in 0 .. m |-> Value(g, k)]
           T == {m \in Nat : \E g : Good(g, m)}
<1>1. 0 \in T
  <2>1. Good([k \in 0 .. 0 |-> [chain |-> <<>>, lists |-> lists]], 0)
    OBVIOUS
  <2> QED BY <2>1
<1>2. ASSUME NEW m \in Nat, m \in T PROVE m + 1 \in T
  <2>1. PICK g : Good(g, m)
    BY <1>2
  <2> DEFINE h == [k \in 0 .. m + 1 |-> Value(g, k)]
  <2>2. \A k \in 0 .. m : g[k] = h[k]
    <3>1. \A k \in 0 .. m : g[k] = Value(g, k)
      BY <2>1, Zenon
    <3>2. \A k \in 0 .. m : k \in 0 .. m + 1
      OBVIOUS
    <3> QED BY <3>1, <3>2, Zenon
  <2>3. \A k \in 0 .. m + 1 : k # 0 => k - 1 \in 0 .. m
    OBVIOUS
  <2> HIDE DEF h
  <2>4. \A k \in 0 .. m + 1 : Value(g, k) = Value(h, k)
    BY <2>2, <2>3, Zenon
  <2> HIDE DEF Value
  <2>5. h = [k \in 0 .. m + 1 |-> Value(h, k)]
    BY <2>4 DEF h
  <2>6. Good(h, m + 1)
    BY <2>5
  <2> QED BY <2>6
<1>3. T = Nat
  <2> HIDE DEF Good
  <2>1. T \in SUBSET Nat
    OBVIOUS
  <2> HIDE DEF T
  <2> QED BY <1>1, <1>2, <2>1, NatIndSet
<1>5. PICK g : Good(g, n)
  BY <1>3
<1>6. MergeEq(g, lists, n)
  BY <1>5, Zenon DEF MergeEq
<1> QED BY <1>6

\* A contract appended to a chain that does not have it is after all others.
LEMMA AppendLast ==
  ASSUME NEW S, NEW chain \in Seq(S), NEW c \in S, IsInjective(chain), c \notin ToSet(chain)
  PROVE  /\ Append(chain, c) \in Seq(S) /\ IsInjective(Append(chain, c))
         /\ ToSet(Append(chain, c)) = ToSet(chain) \cup {c}
         /\ \A x, y : before(chain, x, y) => before(Append(chain, c), x, y)
         /\ \A x \in ToSet(chain) : before(Append(chain, c), x, c)
<1> DEFINE t == Append(chain, c)
           n == Len(chain)
<1>1. /\ t \in Seq(S) /\ n \in Nat /\ Len(t) = n + 1 
      /\ DOMAIN chain = 1 .. n /\ DOMAIN t = 1 .. n + 1
      /\ \A i \in 1 .. n : t[i] = chain[i]
      /\ t[n + 1] = c
  OBVIOUS
<1> HIDE DEF t, n
<1>2. \A i \in 1 .. n : chain[i] # c
  BY <1>1 DEF ToSet
<1>3. IsInjective(t)
  <2> SUFFICES ASSUME NEW i \in 1 .. n + 1, NEW j \in 1 .. n + 1, t[i] = t[j] PROVE i = j
    BY <1>1 DEF IsInjective
  <2>1. \A k, l \in 1 .. n : chain[k] = chain[l] => k = l
    BY <1>1, Zenon DEF IsInjective
  <2> QED BY <1>1, <1>2, <2>1
<1>4. ToSet(t) = ToSet(chain) \cup {c}
  <2>1. ToSet(t) = {t[i] : i \in 1 .. n + 1} /\ ToSet(chain) = {chain[i] : i \in 1 .. n}
    BY <1>1 DEF ToSet
  <2>2. \A i \in 1 .. n + 1 : i \in 1 .. n \/ i = n + 1
    BY <1>1
  <2>3. n + 1 \in 1 .. n + 1 /\ \A i \in 1 .. n : i \in 1 .. n + 1
    BY <1>1
  <2> QED BY <1>1, <2>1, <2>2, <2>3
<1>5. ASSUME NEW x, NEW y, before(chain, x, y) PROVE before(t, x, y)
  BY <1>1, <1>5 DEF before
<1>6. ASSUME NEW x \in ToSet(chain) PROVE before(t, x, c)
  <2>1. PICK i \in 1 .. n : chain[i] = x
    BY <1>1 DEF ToSet
  <2> QED BY <1>1, <2>1 DEF before
<1> QED BY <1>1, <1>3, <1>4, <1>5, <1>6 DEF t

\* If there are candidates, one of them comes next.
LEMMA NextIsCandidate ==
  ASSUME NEW m \in Nat, NEW lists, DOMAIN lists = 1 .. m, Candidates(lists) # {}
  PROVE  /\ NextOf(lists) \in Candidates(lists)
         /\ \E i \in 1 .. m : lists[i] # <<>> /\ NextOf(lists) = lists[i][1]
<1> DEFINE Heads(i) == lists[i] # <<>> /\ lists[i][1] \in Candidates(lists)
           T == {i \in 1 .. m : Heads(i)}
           First(i) == Heads(i) /\ \A j \in 1 .. i - 1 : lists[j] = <<>> \/ lists[j][1] \notin Candidates(lists)
<1>1. T # {}
  <2>1. PICK c : c \in Candidates(lists)
    OBVIOUS
  <2>2. c \in {lists[i][1] : i \in {j \in DOMAIN lists : lists[j] # <<>>}}
    BY <2>1 DEF Candidates
  <2>3. PICK i \in DOMAIN lists : lists[i] # <<>> /\ lists[i][1] = c
    BY <2>2
  <2> QED BY <2>1, <2>3
<1>2. T \in SUBSET Nat
  OBVIOUS
<1>3. PICK i \in T : \A k \in T : i <= k
  <2> HIDE DEF T
  <2> QED BY <1>1, <1>2, NatMin
<1>4. First(i)
  <2> HIDE DEF Heads
  <2>1. \A j \in 1 .. i - 1 : j \in 1 .. m /\ ~ (i <= j)
    BY <1>3
  <2>2. \A j \in 1 .. i - 1 : ~ Heads(j)
    BY <1>3, <2>1
  <2>3. Heads(i)
    BY <1>3
  <2> QED BY <2>2, <2>3 DEF Heads
<1> DEFINE k == CHOOSE l \in DOMAIN lists : First(l)
<1>5. k \in DOMAIN lists /\ First(k)
  <2>1. i \in DOMAIN lists
    BY <1>3
  <2> HIDE DEF First
  <2> QED BY <1>4, <2>1, Zenon
<1>6. NextOf(lists) = lists[k][1]
  BY DEF NextOf
<1> HIDE DEF k
<1> QED BY <1>5, <1>6

\* The merge after some steps: of each list a beginning is in the chain, in
\* its order, and the rest is still there.
MergeInv(S, lists, st) ==
  /\ st.chain \in Seq(S) /\ IsInjective(st.chain)
  /\ DOMAIN st.lists = DOMAIN lists
  /\ \A x \in ToSet(st.chain) : \E i \in DOMAIN lists : x \in ToSet(lists[i])
  /\ \A i \in DOMAIN lists : \E p \in 0 .. Len(lists[i]) :
       /\ st.lists[i] = SubSeq(lists[i], p + 1, Len(lists[i]))
       /\ \A j \in 1 .. Len(lists[i]) : lists[i][j] \in ToSet(st.chain) <=> j <= p
  /\ \A i \in DOMAIN lists : \A j, k \in 1 .. Len(lists[i]) :
       j < k /\ lists[i][k] \in ToSet(st.chain) => before(st.chain, lists[i][j], lists[i][k])

\* What may be merged: lists without repetition.
Mergeable(S, lists) ==
  /\ \E m \in Nat : DOMAIN lists = 1 .. m
  /\ \A i \in DOMAIN lists : lists[i] \in Seq(S) /\ IsInjective(lists[i])

LEMMA MergeStarts ==
  ASSUME NEW S, NEW lists, Mergeable(S, lists)
  PROVE  MergeInv(S, lists, [chain |-> <<>>, lists |-> lists])
<1>1. <<>> \in Seq(S) /\ IsInjective(<<>>) /\ ToSet(<<>>) = {}
  BY DEF IsInjective, ToSet
<1>2. ASSUME NEW i \in DOMAIN lists
      PROVE  /\ 0 \in 0 .. Len(lists[i]) /\ lists[i] = SubSeq(lists[i], 0 + 1, Len(lists[i]))
             /\ \A j \in 1 .. Len(lists[i]) : lists[i][j] \in {} <=> j <= 0
  <2>1. lists[i] \in Seq(S)
    BY <1>2 DEF Mergeable
  <2> DEFINE s == lists[i]
  <2> HIDE DEF s
  <2>2. s \in Seq(S)
    BY <2>1 DEF s
  <2>3. Len(s) \in Nat /\ s = SubSeq(s, 1, Len(s))
    BY <2>2
  <2> QED BY <2>3 DEF s
<1> DEFINE st == [chain |-> <<>>, lists |-> lists]
<1>3. st.chain = <<>> /\ st.lists = lists
  OBVIOUS
<1> HIDE DEF st
<1>4. \A i \in DOMAIN lists : \E p \in 0 .. Len(lists[i]) :
        /\ st.lists[i] = SubSeq(lists[i], p + 1, Len(lists[i]))
        /\ \A j \in 1 .. Len(lists[i]) : lists[i][j] \in ToSet(st.chain) <=> j <= p
  BY <1>1, <1>2, <1>3, Zenon
<1> HIDE DEF Mergeable
<1>5. MergeInv(S, lists, st)
  BY <1>1, <1>3, <1>4, Zenon DEF MergeInv
<1> QED BY <1>5 DEF st

\* A contract c is taken from the rest of a list, of which p are in the chain.
Taken(s, taken, p, c, rest) ==
  IF rest # <<>> /\ rest[1] = c
  THEN /\ p + 1 \in 0 .. Len(s) /\ Tail(rest) = SubSeq(s, p + 2, Len(s))
       /\ \A j \in 1 .. Len(s) : s[j] \in taken \cup {c} <=> j <= p + 1
       /\ \A k \in 1 .. Len(s) : s[k] = c => k = p + 1
  ELSE \A k \in 1 .. Len(s) : s[k] # c

\* One step for one list: the contract taken is its first or none of it.
LEMMA TakenFromList ==
  ASSUME NEW S, NEW s \in Seq(S), IsInjective(s), NEW taken, NEW p \in 0 .. Len(s), NEW c,
         \A j \in 1 .. Len(s) : s[j] \in taken <=> j <= p, c \notin taken,
         NEW rest, rest = SubSeq(s, p + 1, Len(s)),
         rest # <<>> => ~ Contains(Tail(rest), c)
  PROVE  Taken(s, taken, p, c, rest)
<1> DEFINE n == Len(s)
<1>1. n \in Nat /\ DOMAIN s = 1 .. n /\ p \in 0 .. n
  OBVIOUS
<1>2. /\ rest \in Seq(S) /\ Len(rest) = n - p
      /\ \A j \in 1 .. n - p : rest[j] = s[p + j]
  OBVIOUS
<1>3. rest # <<>> => /\ Tail(rest) \in Seq(S) /\ Len(Tail(rest)) = (n - p) - 1 /\ n - p >= 1
                     /\ \A j \in 1 .. (n - p) - 1 : Tail(rest)[j] = rest[j + 1]
  BY <1>2
<1>4. rest = <<>> => n = p
  <2>1. rest = <<>> => n - p = 0
    BY <1>2
  <2> HIDE DEF n
  <2> QED BY <1>1, <2>1
<1>5. \A i, j \in 1 .. n : s[i] = s[j] => i = j
  BY <1>1, Zenon DEF IsInjective
<1> HIDE DEF n
<1>6. ASSUME rest # <<>> PROVE \A k \in 1 .. n : k > p + 1 => s[k] # c
  <2> SUFFICES ASSUME NEW k \in 1 .. n, k > p + 1 PROVE s[k] # c
    OBVIOUS
  <2>1. (k - p) - 1 \in 1 .. (n - p) - 1 
    BY <1>1
  <2>2. Tail(rest)[(k - p) - 1] = s[k]
    BY <1>1, <1>2, <1>3, <1>6, <2>1
  <2>3. \A j \in 1 .. (n - p) - 1 : Tail(rest)[j] # c
    BY <1>3, <1>6 DEF Contains
  <2> QED BY <2>1, <2>2, <2>3
<1>7. \A k \in 1 .. n : k <= p => s[k] # c
  BY DEF n
<1>8. CASE rest # <<>> /\ rest[1] = c
  <2>1. rest[1] = s[p + 1] /\ p + 1 \in 1 .. n /\ p \in 0 .. n
    <3>1. 1 \in 1 .. n - p /\ p + 1 \in 1 .. n
      BY <1>1, <1>3, <1>8
    <3> QED BY <1>1, <1>2, <3>1
  <2>2. \A k \in 1 .. n : s[k] = c => k = p + 1
    BY <1>5, <1>8, <2>1
  <2>3. \A j \in 1 .. n : s[j] \in taken \cup {c} <=> j <= p + 1
    <3>1. \A j \in 1 .. n : s[j] \in taken <=> j <= p
      BY DEF n
    <3>2. \A j \in 1 .. n : j <= p + 1 <=> j <= p \/ j = p + 1
      BY <1>1, <2>1
    <3> QED BY <1>8, <2>1, <2>2, <3>1, <3>2, Zenon
  <2>4. Tail(rest) = SubSeq(s, p + 2, n)
    <3> DEFINE t == SubSeq(s, p + 2, n)
    <3>1. t \in Seq(S) /\ Len(t) = (n - p) - 1 /\ \A j \in 1 .. (n - p) - 1 : t[j] = s[p + 1 + j]
      <4>1. p + 2 \in 1 .. n + 1 /\ n = Len(s) /\ (n - (p + 2)) + 1 = (n - p) - 1
        BY <1>1, <2>1 DEF n
      <4>2. \A a \in 1 .. n + 1 : /\ SubSeq(s, a, n) \in Seq(S) /\ Len(SubSeq(s, a, n)) = (n - a) + 1
                                  /\ \A j \in 1 .. (n - a) + 1 : SubSeq(s, a, n)[j] = s[(a + j) - 1]
        BY <4>1
      <4>3. \A j \in 1 .. (n - p) - 1 : ((p + 2) + j) - 1 = p + 1 + j
        BY <1>1
      <4> QED BY <4>1, <4>2, <4>3
    <3> HIDE DEF t
    <3>2. \A j \in 1 .. (n - p) - 1 : Tail(rest)[j] = t[j]
      BY <1>1, <1>2, <1>3, <1>8, <2>1, <3>1
    <3> DEFINE r == Tail(rest)
    <3>3. r \in Seq(S) /\ Len(r) = (n - p) - 1 /\ \A j \in 1 .. (n - p) - 1 : r[j] = t[j]
      BY <1>3, <1>8, <3>2
    <3> HIDE DEF r
    <3>4. r = t
      BY <3>1, <3>3, <1>1, <2>1
    <3> QED BY <3>4 DEF r, t
  <2> QED BY <1>8, <2>1, <2>2, <2>3, <2>4, <1>1 DEF n, Taken
<1>9. CASE ~ (rest # <<>> /\ rest[1] = c)
  <2>1. \A k \in 1 .. n : s[k] # c
    <3>1. CASE rest = <<>>
      BY <1>4, <1>7, <3>1
    <3>2. CASE rest # <<>>
      <4>1. rest[1] = s[p + 1] /\ p \in 0 .. n
        <5>1. 1 \in 1 .. n - p
          BY <1>1, <1>3, <3>2
        <5> QED BY <1>1, <1>2, <5>1
      <4>2. \A k \in 1 .. n : k <= p \/ k = p + 1 \/ k > p + 1
        BY <1>1, <4>1
      <4> QED BY <1>6, <1>7, <1>9, <3>2, <4>1, <4>2, Zenon
    <3> QED BY <3>1, <3>2
  <2> QED BY <1>9, <2>1 DEF n, Taken
<1> QED BY <1>8, <1>9

\* The head of what is left of a list is in the list, and not in the chain.
LEMMA HeadOfRest ==
  ASSUME NEW S, NEW s \in Seq(S), NEW taken, NEW p \in 0 .. Len(s),
         \A j \in 1 .. Len(s) : s[j] \in taken <=> j <= p,
         NEW rest, rest = SubSeq(s, p + 1, Len(s)), rest # <<>>
  PROVE  rest[1] \in (S \cap ToSet(s)) \ taken
<1> DEFINE n == Len(s)
<1>1. n \in Nat /\ DOMAIN s = 1 .. n /\ p \in 0 .. n
  OBVIOUS
<1>2. Len(rest) = n - p /\ rest \in Seq(S) /\ \A j \in 1 .. n - p : rest[j] = s[p + j]
  OBVIOUS
<1>3. n - p >= 1
  BY <1>2
<1>4. \A j \in 1 .. n : s[j] \in taken <=> j <= p
  OBVIOUS
<1> HIDE DEF n
<1>5. 1 \in 1 .. n - p /\ p + 1 \in 1 .. n /\ ~ (p + 1 <= p)
  BY <1>1, <1>3
<1>6. rest[1] = s[p + 1]
  BY <1>2, <1>5
<1>7. s[p + 1] \in S
  BY <1>1, <1>5 DEF n
<1> QED BY <1>1, <1>4, <1>5, <1>6, <1>7 DEF ToSet

LEMMA MergeStepInv ==
  ASSUME NEW S, NEW lists, Mergeable(S, lists), NEW st, MergeInv(S, lists, st)
  PROVE  MergeInv(S, lists, MergeStep(st))
<1>1. CASE Candidates(st.lists) = {}
  BY <1>1 DEF MergeStep
<1>2. CASE Candidates(st.lists) # {}
  <2> DEFINE c == NextOf(st.lists)
             chain == st.chain
             next == Append(chain, c)
             left == Without(st.lists, c)
             new == [chain |-> next, lists |-> left]
  <2>1. MergeStep(st) = new
    BY <1>2 DEF MergeStep
  <2>2. PICK m \in Nat : DOMAIN st.lists = 1 .. m /\ DOMAIN lists = 1 .. m
    BY DEF Mergeable, MergeInv
  <2>3. c \in Candidates(st.lists) /\ \E i \in 1 .. m : st.lists[i] # <<>> /\ c = st.lists[i][1]
    BY <1>2, <2>2, NextIsCandidate
  <2>4. PICK h \in 1 .. m : st.lists[h] # <<>> /\ c = st.lists[h][1]
    BY <2>3
  <2> HIDE DEF c, chain
  <2>5. ASSUME NEW i \in 1 .. m
        PROVE  /\ lists[i] \in Seq(S) /\ IsInjective(lists[i])
               /\ \E p \in 0 .. Len(lists[i]) :
                    /\ st.lists[i] = SubSeq(lists[i], p + 1, Len(lists[i]))
                    /\ \A j \in 1 .. Len(lists[i]) : lists[i][j] \in ToSet(chain) <=> j <= p
    BY <2>2, Zenon DEF Mergeable, MergeInv, chain
  <2>6. c \in S /\ c \in ToSet(lists[h]) /\ c \notin ToSet(chain)
    <3>1. PICK p \in 0 .. Len(lists[h]) :
            /\ st.lists[h] = SubSeq(lists[h], p + 1, Len(lists[h]))
            /\ \A j \in 1 .. Len(lists[h]) : lists[h][j] \in ToSet(chain) <=> j <= p
      BY <2>5
    <3> DEFINE s == lists[h]
               rest == st.lists[h]
               taken == ToSet(chain)
    <3>2. s \in Seq(S) /\ rest = SubSeq(s, p + 1, Len(s)) /\ rest # <<>> /\ c = rest[1]
      BY <2>4, <2>5, <3>1
    <3>3. p \in 0 .. Len(s) /\ \A j \in 1 .. Len(s) : s[j] \in taken <=> j <= p
      BY <3>1
    <3> HIDE DEF s, rest, taken
    <3>4. rest[1] \in (S \cap ToSet(s)) \ taken
      BY <3>2, <3>3, HeadOfRest, SMTT(60)
    <3> QED BY <3>2, <3>4 DEF s, rest, taken
  <2>7. chain \in Seq(S) /\ IsInjective(chain)
    BY DEF MergeInv, chain
  <2>8. /\ next \in Seq(S) /\ IsInjective(next) /\ ToSet(next) = ToSet(chain) \cup {c}
        /\ \A x, y : before(chain, x, y) => before(next, x, y)
        /\ \A x \in ToSet(chain) : before(next, x, c)
    BY <2>6, <2>7, AppendLast
  <2> HIDE DEF next
  <2>9. \A i \in 1 .. m : st.lists[i] # <<>> => ~ Contains(Tail(st.lists[i]), c)
    BY <2>2, <2>3 DEF Candidates
  <2>10. /\ DOMAIN left = 1 .. m
         /\ \A i \in 1 .. m : left[i] = IF st.lists[i] # <<>> /\ st.lists[i][1] = c
                                        THEN Tail(st.lists[i]) ELSE st.lists[i]
    BY <2>2 DEF Without
  <2> HIDE DEF left
  <2>11. ASSUME NEW i \in 1 .. m
         PROVE  \E p \in 0 .. Len(lists[i]) :
                  /\ left[i] = SubSeq(lists[i], p + 1, Len(lists[i]))
                  /\ \A j \in 1 .. Len(lists[i]) : lists[i][j] \in ToSet(next) <=> j <= p
    <3>1. PICK p \in 0 .. Len(lists[i]) :
            /\ st.lists[i] = SubSeq(lists[i], p + 1, Len(lists[i]))
            /\ \A j \in 1 .. Len(lists[i]) : lists[i][j] \in ToSet(chain) <=> j <= p
      BY <2>5
    <3> DEFINE s == lists[i]
               rest == st.lists[i]
    <3>2. IF rest # <<>> /\ rest[1] = c
          THEN /\ p + 1 \in 0 .. Len(s) /\ Tail(rest) = SubSeq(s, p + 2, Len(s))
               /\ \A j \in 1 .. Len(s) : s[j] \in ToSet(chain) \cup {c} <=> j <= p + 1
               /\ \A k \in 1 .. Len(s) : s[k] = c => k = p + 1
          ELSE \A k \in 1 .. Len(s) : s[k] # c
      <4> DEFINE taken == ToSet(chain)
      <4>1. s \in Seq(S) /\ IsInjective(s) /\ (rest # <<>> => ~ Contains(Tail(rest), c))
        BY <2>5, <2>9
      <4>2. p \in 0 .. Len(s) /\ rest = SubSeq(s, p + 1, Len(s)) /\ c \notin taken
        BY <3>1, <2>6
      <4>3. \A j \in 1 .. Len(s) : s[j] \in taken <=> j <= p
        BY <3>1
      <4> HIDE DEF s, rest, taken
      <4>4. Taken(s, taken, p, c, rest)
        BY <4>1, <4>2, <4>3, TakenFromList
      <4> QED BY <4>4 DEF taken, Taken
    <3>3. CASE rest # <<>> /\ rest[1] = c
      <4> DEFINE q == p + 1
      <4>1. q + 1 = p + 2
        OBVIOUS
      <4>2. left[i] = Tail(rest)
        BY <2>10, <3>3
      <4>3. q \in 0 .. Len(s) /\ left[i] = SubSeq(s, q + 1, Len(s))
        BY <3>2, <3>3, <4>1, <4>2
      <4>4. \A j \in 1 .. Len(s) : s[j] \in ToSet(next) <=> j <= q
        BY <3>2, <3>3, <2>8
      <4> HIDE DEF q
      <4> QED BY <4>3, <4>4
    <3>4. CASE ~ (rest # <<>> /\ rest[1] = c)
      <4>1. left[i] = rest /\ \A k \in 1 .. Len(s) : s[k] # c
        BY <2>10, <3>2, <3>4
      <4>2. \A j \in 1 .. Len(s) : s[j] \in ToSet(next) <=> s[j] \in ToSet(chain)
        BY <2>8, <4>1
      <4> QED BY <3>1, <4>1, <4>2
    <3> QED BY <3>3, <3>4
  <2>12. \A x \in ToSet(next) : \E i \in 1 .. m : x \in ToSet(lists[i])
    <3>1. \A x \in ToSet(chain) : \E i \in 1 .. m : x \in ToSet(lists[i])
      BY <2>2 DEF MergeInv, chain
    <3> QED BY <2>6, <2>8, <3>1
  <2>13. ASSUME NEW i \in 1 .. m, NEW j \in 1 .. Len(lists[i]), NEW k \in 1 .. Len(lists[i]),
                j < k, lists[i][k] \in ToSet(next)
         PROVE  before(next, lists[i][j], lists[i][k])
    <3>1. CASE lists[i][k] \in ToSet(chain)
      <4>1. before(chain, lists[i][j], lists[i][k])
        BY <2>2, <2>13, <3>1 DEF MergeInv, chain
      <4> QED BY <2>8, <4>1
    <3>2. CASE lists[i][k] = c /\ c \notin ToSet(chain)
      <4>1. PICK p \in 0 .. Len(lists[i]) :
              /\ left[i] = SubSeq(lists[i], p + 1, Len(lists[i]))
              /\ \A l \in 1 .. Len(lists[i]) : lists[i][l] \in ToSet(next) <=> l <= p
        BY <2>11
      <4>2. lists[i][j] \in ToSet(next)
        <5>1. k <= p
          BY <2>13, <4>1
        <5>2. j <= p
          <6>1. j \in Int /\ k \in Int /\ p \in Int
            OBVIOUS
          <6> QED BY <2>13, <5>1, <6>1
        <5> QED BY <4>1, <5>2
      <4>3. lists[i][j] # lists[i][k]
        <5>1. DOMAIN lists[i] = 1 .. Len(lists[i]) /\ IsInjective(lists[i])
          BY <2>5
        <5>2. j # k
          BY <2>13
        <5> QED BY <5>1, <5>2 DEF IsInjective
      <4> QED BY <2>8, <3>2, <4>2, <4>3
    <3> QED BY <2>6, <2>8, <2>13, <3>1, <3>2
  <2>14. new.chain = next /\ new.lists = left
    OBVIOUS
  <2> HIDE DEF new
  <2>15. \A i \in DOMAIN lists : \E p \in 0 .. Len(lists[i]) :
           /\ new.lists[i] = SubSeq(lists[i], p + 1, Len(lists[i]))
           /\ \A j \in 1 .. Len(lists[i]) : lists[i][j] \in ToSet(new.chain) <=> j <= p
    BY <2>2, <2>11, <2>14
  <2>16. \A i \in DOMAIN lists : \A j, k \in 1 .. Len(lists[i]) :
           j < k /\ lists[i][k] \in ToSet(new.chain) => before(new.chain, lists[i][j], lists[i][k])
    BY <2>2, <2>13, <2>14
  <2>17. MergeInv(S, lists, new)
    BY <2>2, <2>8, <2>10, <2>12, <2>14, <2>15, <2>16, Zenon DEF MergeInv
  <2> QED BY <2>1, <2>17
<1> QED BY <1>1, <1>2

LEMMA MergeInvariance ==
  ASSUME NEW S, NEW lists, Mergeable(S, lists), NEW n \in Nat
  PROVE  MergeInv(S, lists, Merge(lists, n))
<1> DEFINE g == MergeSteps(lists, n)
           T == {k \in Nat : k <= n => MergeInv(S, lists, g[k])}
<1>1. MergeEq(g, lists, n)
  BY MergeExists, Zenon DEF MergeSteps
<1> HIDE DEF g
<1>2. \A k \in 0 .. n :
        g[k] = IF k = 0 THEN [chain |-> <<>>, lists |-> lists] ELSE MergeStep(g[k - 1])
  BY <1>1, Zenon DEF MergeEq
<1>3. 0 \in T
  <2>1. g[0] = [chain |-> <<>>, lists |-> lists]
    BY <1>2
  <2> QED BY <2>1, MergeStarts
<1>4. ASSUME NEW k \in Nat, k \in T PROVE k + 1 \in T
  <2> SUFFICES ASSUME k + 1 <= n PROVE MergeInv(S, lists, g[k + 1])
    OBVIOUS
  <2>1. MergeInv(S, lists, g[k])
    BY <1>4
  <2>2. g[k + 1] = MergeStep(g[k])
    BY <1>2
  <2> QED BY <2>1, <2>2, MergeStepInv
<1>5. T = Nat
  <2>1. T \in SUBSET Nat
    OBVIOUS
  <2> HIDE DEF T
  <2> QED BY <1>3, <1>4, <2>1, NatIndSet
<1>6. MergeInv(S, lists, g[n])
  BY <1>5
<1> QED BY <1>6, MergeIsLast DEF g

\* A merge that leaves nothing behind has all lists in it, each in its order.
LEMMA MergeKeepsOrder ==
  ASSUME NEW S, NEW lists, Mergeable(S, lists), NEW st, MergeInv(S, lists, st),
         \A i \in DOMAIN st.lists : st.lists[i] = <<>>
  PROVE  /\ st.chain \in Seq(S) /\ IsInjective(st.chain)
         /\ \A x \in ToSet(st.chain) : \E i \in DOMAIN lists : x \in ToSet(lists[i])
         /\ \A i \in DOMAIN lists : \A x, y : before(lists[i], x, y) => before(st.chain, x, y)
<1>1. ASSUME NEW i \in DOMAIN lists, NEW x, NEW y, before(lists[i], x, y)
      PROVE  before(st.chain, x, y)
  <2> DEFINE s == lists[i]
  <2>1. s \in Seq(S)
    BY DEF Mergeable
  <2>2. PICK j, k \in DOMAIN s : j < k /\ s[j] = x /\ s[k] = y
    BY <1>1 DEF before
  <2>3. PICK p \in 0 .. Len(s) :
          /\ st.lists[i] = SubSeq(s, p + 1, Len(s))
          /\ \A l \in 1 .. Len(s) : s[l] \in ToSet(st.chain) <=> l <= p
    BY DEF MergeInv
  <2>4. p = Len(s)
    <3>1. SubSeq(s, p + 1, Len(s)) = <<>>
      BY <2>3 DEF MergeInv
    <3> HIDE DEF s
    <3>2. Len(SubSeq(s, p + 1, Len(s))) = Len(s) - p /\ Len(s) \in Nat
      BY <2>1
    <3>3. Len(s) - p = 0
      BY <3>1, <3>2
    <3> QED BY <3>2, <3>3
  <2>5. k \in 1 .. Len(s) /\ j \in 1 .. Len(s)
    BY <2>1
  <2>6. s[k] \in ToSet(st.chain)
    BY <2>3, <2>4, <2>5
  <2> QED BY <2>2, <2>5, <2>6 DEF MergeInv
<1> QED BY <1>1 DEF MergeInv

-----------------------------------------------------------------------------
(* The chains of the contracts. *)

\* Each chain begins with its contract, repeats none, and has the contracts of
\* the chains of all that it inherits in their order.
OrderInv ==
  /\ linearization \in Seq(Seq(Nat))
  /\ \A c \in Contracts :
       /\ linearization[c] \in Seq(1 .. Len(linearization)) /\ IsInjective(linearization[c])
       /\ linearization[c] # <<>> /\ linearization[c][1] = c
       /\ \A d \in ToSet(linearization[c]) : \A x, y :
            before(linearization[d], x, y) => before(linearization[c], x, y)
  /\ linearized \in Seq(Seq(Nat))
  /\ \A n \in DOMAIN linearized : \E c \in Contracts : linearized[n] = linearization[c]

LEMMA ReverseFacts ==
  ASSUME NEW S, NEW q \in Seq(S), IsInjective(q)
  PROVE  /\ Reverse(q) \in Seq(S) /\ Len(Reverse(q)) = Len(q) /\ IsInjective(Reverse(q))
         /\ ToSet(Reverse(q)) \subseteq ToSet(q)
<1> DEFINE n == Len(q)
           r == Reverse(q)
<1>1. n \in Nat /\ DOMAIN q = 1 .. n /\ \A i \in 1 .. n : q[i] \in S
  OBVIOUS
<1>2. r = [i \in 1 .. n |-> q[(n - i) + 1]]
  BY DEF Reverse
<1> HIDE DEF n, r
<1>3. \A i \in 1 .. n : (n - i) + 1 \in 1 .. n
  BY <1>1
<1>4. r \in [1 .. n -> S] /\ \A i \in 1 .. n : r[i] = q[(n - i) + 1]
  BY <1>1, <1>2, <1>3
<1>5. r \in Seq(S) /\ Len(r) = n /\ DOMAIN r = 1 .. n
  BY <1>1, <1>4
<1>6. IsInjective(r)
  <2> SUFFICES ASSUME NEW i \in 1 .. n, NEW j \in 1 .. n, r[i] = r[j] PROVE i = j
    BY <1>5 DEF IsInjective
  <2>1. (n - i) + 1 = (n - j) + 1
    BY <1>1, <1>3, <1>4 DEF IsInjective
  <2> QED BY <1>1, <2>1
<1>7. ToSet(r) \subseteq ToSet(q)
  BY <1>1, <1>3, <1>4, <1>5 DEF ToSet
<1> QED BY <1>5, <1>6, <1>7 DEF n, r

\* What a contract may be defined with: the merge of its bases.
LEMMA BasesMerge ==
  ASSUME OrderInv, NEW bases \in Seq(Contracts), IsInjective(bases), CanDefine(bases)
  PROVE  LET chain == MergeBases(bases).chain
         IN  /\ chain \in Seq(Contracts) /\ IsInjective(chain)
             /\ \A d \in ToSet(chain) : \A x, y :
                  before(linearization[d], x, y) => before(chain, x, y)
<1> DEFINE order == Reverse(bases)
           m == Len(bases)
           n == Len(linearization)
           S == Contracts
           lists == [i \in 1 .. m + 1 |-> IF i <= m THEN linearization[order[i]] ELSE order]
           st == MergeBases(bases)
<1>1. n \in Nat /\ m \in Nat /\ S = 1 .. n
  BY DEF OrderInv, Contracts
<1>2. st = Merge(lists, n)
  BY DEF MergeBases
<1>3. order \in Seq(S) /\ Len(order) = m /\ IsInjective(order) /\ ToSet(order) \subseteq ToSet(bases)
  BY ReverseFacts
<1>4. \A i \in 1 .. m : order[i] \in S
  <2> HIDE DEF order, S, m
  <2> QED BY <1>1, <1>3
<1>5. \A c \in S : /\ linearization[c] \in Seq(S) /\ IsInjective(linearization[c])
                   /\ linearization[c] # <<>> /\ linearization[c][1] = c
                   /\ \A d \in ToSet(linearization[c]) : \A x, y :
                         before(linearization[d], x, y) => before(linearization[c], x, y)
  BY <1>1 DEF OrderInv
<1> HIDE DEF order, m, n, S, st
<1>6. /\ DOMAIN lists = 1 .. m + 1
      /\ \A i \in 1 .. m + 1 : lists[i] = IF i <= m THEN linearization[order[i]] ELSE order
  BY <1>1
<1>7. st = Merge(lists, n)
  BY <1>2
<1> HIDE DEF lists
<1>8. Mergeable(S, lists)
  <2>1. ASSUME NEW i \in 1 .. m + 1 PROVE lists[i] \in Seq(S) /\ IsInjective(lists[i])
    <3>1. CASE i <= m
      <4>1. i \in 1 .. m
        BY <1>1, <3>1
      <4> QED BY <1>4, <1>5, <1>6, <3>1, <4>1
    <3>2. CASE ~ (i <= m)
      BY <1>3, <1>6, <3>2
    <3> QED BY <3>1, <3>2
  <2>2. m + 1 \in Nat
    BY <1>1
  <2> QED BY <1>6, <2>1, <2>2 DEF Mergeable
<1>9. MergeInv(S, lists, st)
  BY <1>1, <1>7, <1>8, MergeInvariance
<1>10. \A i \in DOMAIN st.lists : st.lists[i] = <<>>
  BY DEF CanDefine, st
<1> DEFINE chain == st.chain
<1>11. /\ chain \in Seq(S) /\ IsInjective(chain)
       /\ \A x \in ToSet(chain) : \E i \in DOMAIN lists : x \in ToSet(lists[i])
       /\ \A i \in DOMAIN lists : \A x, y : before(lists[i], x, y) => before(chain, x, y)
  BY <1>8, <1>9, <1>10, MergeKeepsOrder
<1> HIDE DEF chain
<1>12. ASSUME NEW d \in ToSet(chain), NEW x, NEW y, before(linearization[d], x, y)
       PROVE  before(chain, x, y)
  <2>1. PICK i \in 1 .. m + 1 : d \in ToSet(lists[i])
    BY <1>6, <1>11
  <2>2. CASE i <= m
    <3>1. i \in 1 .. m /\ lists[i] = linearization[order[i]] /\ order[i] \in S
      BY <1>1, <1>4, <1>6, <2>2
    <3>2. before(lists[i], x, y)
      BY <1>5, <1>12, <2>1, <3>1
    <3> QED BY <1>6, <1>11, <3>2
  <2>3. CASE ~ (i <= m)
    <3>1. d \in ToSet(order)
      BY <1>6, <2>1, <2>3
    <3>2. PICK j \in 1 .. m : order[j] = d
      <4>1. DOMAIN order = 1 .. m
        BY <1>3
      <4> QED BY <3>1, <4>1 DEF ToSet
    <3>3. j \in 1 .. m + 1 /\ lists[j] = linearization[d]
      BY <1>1, <1>6, <3>2
    <3> QED BY <1>6, <1>11, <1>12, <3>3
  <2> QED BY <2>2, <2>3
<1> QED BY <1>11, <1>12 DEF chain, st, S

\* A new contract in front of the chain of its bases.
LEMMA PutInFront ==
  ASSUME NEW n \in Nat, NEW merged \in Seq(1 .. n), IsInjective(merged)
  PROVE  LET chain == <<n + 1>> \o merged
         IN  /\ chain \in Seq(1 .. n + 1) /\ IsInjective(chain)
             /\ chain # <<>> /\ chain[1] = n + 1
             /\ ToSet(chain) = {n + 1} \cup ToSet(merged) /\ ToSet(merged) \subseteq 1 .. n
             /\ \A x, y : before(merged, x, y) => before(chain, x, y)
<1> DEFINE chain == <<n + 1>> \o merged
           l == Len(merged)
<1>1. merged \in Seq(1 .. n + 1) /\ <<n + 1>> \in Seq(1 .. n + 1)
  <2>1. 1 .. n \subseteq 1 .. n + 1 /\ n + 1 \in 1 .. n + 1
    OBVIOUS
  <2> QED BY <2>1
<1>2. chain \in Seq(1 .. n + 1) /\ ToSet(chain) = ToSet(<<n + 1>>) \cup ToSet(merged)
  <2> DEFINE one == <<n + 1>>
             S == 1 .. n + 1
  <2>1. one \in Seq(S) /\ merged \in Seq(S)
    BY <1>1
  <2> HIDE DEF one, S
  <2>2. one \o merged \in Seq(S) /\ ToSet(one \o merged) = ToSet(one) \cup ToSet(merged)
    BY <2>1, ToSetJoined
  <2> QED BY <2>2 DEF one, S
<1>3. ToSet(chain) = {n + 1} \cup ToSet(merged)
  BY <1>2, ToSetOne
<1>4. /\ l \in Nat /\ DOMAIN merged = 1 .. l /\ \A i \in 1 .. l : merged[i] \in 1 .. n
      /\ Len(chain) = l + 1 /\ DOMAIN chain = 1 .. l + 1
      /\ \A i \in 1 .. l + 1 : chain[i] = IF i = 1 THEN n + 1 ELSE merged[i - 1]
  BY <1>1
<1> HIDE DEF chain, l
<1>5. ToSet(merged) \subseteq 1 .. n
  BY <1>4 DEF ToSet
<1>6. chain # <<>> /\ chain[1] = n + 1
  BY <1>4
<1>7. IsInjective(chain)
  <2> SUFFICES ASSUME NEW i \in 1 .. l + 1, NEW j \in 1 .. l + 1, chain[i] = chain[j] PROVE i = j
    BY <1>4 DEF IsInjective
  <2>1. \A k \in 1 .. l + 1 : k = 1 \/ (k - 1 \in 1 .. l /\ chain[k] = merged[k - 1] /\ chain[k] # n + 1)
    BY <1>4
  <2>2. \A k, o \in 1 .. l : merged[k] = merged[o] => k = o
    BY <1>4, Zenon DEF IsInjective
  <2> QED BY <1>6, <2>1, <2>2
<1>8. ASSUME NEW x, NEW y, before(merged, x, y) PROVE before(chain, x, y)
  <2>1. PICK i, j \in 1 .. l : i < j /\ merged[i] = x /\ merged[j] = y
    BY <1>4, <1>8 DEF before
  <2>2. \A k \in 1 .. l : k + 1 \in 1 .. l + 1 /\ chain[k + 1] = merged[k]
    <3> TAKE k \in 1 .. l
    <3>1. k + 1 \in 1 .. l + 1 /\ k + 1 # 1 /\ (k + 1) - 1 = k
      BY <1>4
    <3> QED BY <1>4, <3>1
  <2>3. i + 1 \in 1 .. l + 1 /\ j + 1 \in 1 .. l + 1 /\ i + 1 < j + 1 /\ chain[i + 1] = x /\ chain[j + 1] = y
    BY <1>4, <2>1, <2>2
  <2> QED BY <1>4, <2>3 DEF before
<1> QED BY <1>2, <1>3, <1>5, <1>6, <1>7, <1>8 DEF chain

LEMMA OrderNextInv == OrderInv /\ [define]_orderVars => OrderInv'
<1> SUFFICES ASSUME OrderInv, [define]_orderVars PROVE OrderInv'
  OBVIOUS
<1>1. CASE UNCHANGED orderVars
  BY <1>1 DEF orderVars, OrderInv, Contracts
<1>2. CASE define
  <2> DEFINE n == Len(linearization)
  <2>1. PICK bases \in Bases, mock \in BOOLEAN :
          /\ IsInjective(bases) /\ CanDefine(bases)
          /\ LET chain == <<n + 1>> \o MergeBases(bases).chain
             IN  /\ linearization' = Append(linearization, chain)
                 /\ linearized' = IF mock THEN linearized ELSE Append(linearized, chain)
    BY <1>2 DEF define
  <2> DEFINE merged == MergeBases(bases).chain
             chain == <<n + 1>> \o merged
  <2>2. bases \in Seq(Contracts)
    <3>1. \A x, y \in Contracts : <<>> \in Seq(Contracts) /\ <<x>> \in Seq(Contracts) /\ <<x, y>> \in Seq(Contracts)
      OBVIOUS
    <3>2. <<>> \in Seq(Contracts)
      OBVIOUS
    <3>3. \/ bases = <<>> \/ \E x \in Contracts : bases = <<x>>
          \/ \E x, y \in Contracts : bases = <<x, y>>
      BY DEF Bases
    <3> QED BY <3>1, <3>2, <3>3, Zenon
  <2>3. n \in Nat /\ Contracts = 1 .. n
    BY DEF OrderInv, Contracts
  <2>4. /\ merged \in Seq(1 .. n) /\ IsInjective(merged)
        /\ \A d \in ToSet(merged) : \A x, y : before(linearization[d], x, y) => before(merged, x, y)
    BY <2>1, <2>2, <2>3, BasesMerge
  <2>5. /\ linearization' = Append(linearization, chain)
        /\ linearized' = linearized \/ linearized' = Append(linearized, chain)
    BY <2>1
  <2> HIDE DEF merged
  <2>6. /\ chain \in Seq(1 .. n + 1) /\ IsInjective(chain)
        /\ chain # <<>> /\ chain[1] = n + 1
        /\ ToSet(chain) = {n + 1} \cup ToSet(merged) /\ ToSet(merged) \subseteq 1 .. n
        /\ \A x, y : before(merged, x, y) => before(chain, x, y)
    BY <2>3, <2>4, PutInFront
  <2> HIDE DEF chain
  <2> DEFINE L == linearization'
  <2>7. /\ L \in Seq(Seq(Nat)) /\ Len(L) = n + 1 /\ DOMAIN L = 1 .. n + 1
        /\ \A c \in 1 .. n : L[c] = linearization[c]
        /\ L[n + 1] = chain
    <3>1. chain \in Seq(Nat)
      <4>1. 1 .. n + 1 \subseteq Nat
        OBVIOUS
      <4> QED BY <2>6, <4>1
    <3> QED BY <2>3, <2>5, <3>1 DEF OrderInv
  <2>8. ASSUME NEW c \in 1 .. n
        PROVE  /\ linearization[c] \in Seq(1 .. n) /\ IsInjective(linearization[c])
               /\ linearization[c] # <<>> /\ linearization[c][1] = c
               /\ ToSet(linearization[c]) \subseteq 1 .. n
               /\ \A d \in ToSet(linearization[c]) : \A x, y :
                    before(linearization[d], x, y) => before(linearization[c], x, y)
    <3>1. linearization[c] \in Seq(1 .. n)
      BY <2>3 DEF OrderInv
    <3>2. ToSet(linearization[c]) \subseteq 1 .. n
      BY <3>1 DEF ToSet
    <3> QED BY <2>3, <3>1, <3>2 DEF OrderInv
  <2>9. \A c \in 1 .. n + 1 : c \in 1 .. n \/ c = n + 1
    BY <2>3
  <2> HIDE DEF L, n
  <2>10. ASSUME NEW c \in 1 .. n + 1
         PROVE  /\ L[c] \in Seq(1 .. n + 1) /\ IsInjective(L[c])
                /\ L[c] # <<>> /\ L[c][1] = c
                /\ \A d \in ToSet(L[c]) : \A x, y : before(L[d], x, y) => before(L[c], x, y)
    <3>1. CASE c \in 1 .. n
      <4>1. linearization[c] \in Seq(1 .. n + 1)
        <5>1. 1 .. n \subseteq 1 .. n + 1
          BY <2>3
        <5> DEFINE s == linearization[c]
        <5>2. s \in Seq(1 .. n)
          BY <2>8, <3>1
        <5> HIDE DEF s
        <5>3. s \in Seq(1 .. n + 1)
          BY <5>1, <5>2, <2>3
        <5> QED BY <5>3 DEF s
      <4>2. \A d \in ToSet(linearization[c]) : L[d] = linearization[d]
        BY <2>7, <2>8, <3>1
      <4> QED BY <2>7, <2>8, <3>1, <4>1, <4>2
    <3>2. CASE c = n + 1
      <4>1. ASSUME NEW d \in ToSet(chain), NEW x, NEW y, before(L[d], x, y)
            PROVE  before(chain, x, y)
        <5>1. CASE d = n + 1
          BY <2>7, <4>1, <5>1
        <5>2. CASE d \in ToSet(merged)
          <6>1. L[d] = linearization[d]
            BY <2>6, <2>7, <5>2
          <6> QED BY <2>4, <2>6, <4>1, <5>2, <6>1
        <5> QED BY <2>6, <4>1, <5>1, <5>2
      <4> QED BY <2>6, <2>7, <3>2, <4>1
    <3> QED BY <2>9, <3>1, <3>2
  <2>11. linearized' \in Seq(Seq(Nat)) /\ \A k \in DOMAIN linearized' : \E c \in 1 .. n + 1 : linearized'[k] = L[c]
    <3>1. /\ linearized \in Seq(Seq(Nat))
          /\ \A k \in DOMAIN linearized : \E c \in 1 .. n : linearized[k] = linearization[c]
      BY <2>3 DEF OrderInv
    <3>2. \A k \in DOMAIN linearized : \E c \in 1 .. n + 1 : linearized[k] = L[c]
      <4>1. \A c \in 1 .. n : c \in 1 .. n + 1
        BY <2>3
      <4> QED BY <2>7, <3>1, <4>1
    <3>3. CASE linearized' = linearized
      BY <3>1, <3>2, <3>3
    <3>4. CASE linearized' = Append(linearized, chain)
      <4>1. chain \in Seq(Nat) /\ n + 1 \in 1 .. n + 1
        <5>1. 1 .. n + 1 \subseteq Nat /\ n + 1 \in 1 .. n + 1
          BY <2>3
        <5> QED BY <2>6, <5>1
      <4>2. /\ Append(linearized, chain) \in Seq(Seq(Nat))
            /\ \A k \in DOMAIN Append(linearized, chain) :
                 \/ k \in DOMAIN linearized /\ Append(linearized, chain)[k] = linearized[k]
                 \/ Append(linearized, chain)[k] = chain
        BY <3>1, <4>1
      <4> QED BY <2>7, <3>2, <3>4, <4>1, <4>2
    <3> QED BY <2>5, <3>3, <3>4
  <2>12. /\ linearization' \in Seq(Seq(Nat)) /\ Contracts' = 1 .. n + 1 /\ Len(linearization') = n + 1
    BY <2>7 DEF Contracts, L
  <2>13. /\ \A c \in Contracts' :
              /\ linearization'[c] \in Seq(1 .. Len(linearization')) /\ IsInjective(linearization'[c])
              /\ linearization'[c] # <<>> /\ linearization'[c][1] = c
              /\ \A d \in ToSet(linearization'[c]) : \A x, y :
                   before(linearization'[d], x, y) => before(linearization'[c], x, y)
         /\ \A k \in DOMAIN linearized' : \E c \in Contracts' : linearized'[k] = linearization'[c]
    BY <2>10, <2>11, <2>12, Zenon DEF L
  <2> QED BY <2>11, <2>12, <2>13 DEF OrderInv
<1> QED BY <1>1, <1>2

\* The report of inheritance-ordering.js (lines 31-47) is exact, and worth its
\* line: the pairs reported are those that two chains order differently, and no
\* contract of the build inherits from the two contracts of such chains, since
\* a chain keeps the order of the chains of all that it inherits.
THEOREM DisagreementsAreReported == OrderSpec => []ReportsDisagreements
<1>1. OrderInit => OrderInv
  <2> SUFFICES ASSUME OrderInit PROVE OrderInv
    OBVIOUS
  <2>1. linearization = <<>> /\ linearized = <<>> /\ Contracts = {}
    BY DEF OrderInit, Contracts
  <2> QED BY <2>1 DEF OrderInv
<1>2. OrderInv => ReportsDisagreements
  <2> SUFFICES ASSUME OrderInv, NEW x \in Contracts, NEW y \in Contracts, x < y
               PROVE  <<x, y>> \in conflicts <=>
                        \E m, n \in DOMAIN linearized :
                          /\ before(linearized[m], x, y) /\ before(linearized[n], y, x)
                          /\ \A c \in Contracts :
                               ~ ({linearized[m][1], linearized[n][1]} \subseteq ToSet(linearization[c]))
    BY DEF ReportsDisagreements
  <2>1. <<x, y>> \in conflicts <=> hasEdge(x, y) /\ hasEdge(y, x)
    BY DEF conflicts
  <2>2. ASSUME NEW m \in DOMAIN linearized, NEW n \in DOMAIN linearized, NEW c \in Contracts,
               before(linearized[m], x, y), before(linearized[n], y, x),
               linearized[m][1] \in ToSet(linearization[c]), linearized[n][1] \in ToSet(linearization[c])
        PROVE  FALSE
    <3> DEFINE chain == linearization[c]
    <3>0. /\ \A k \in DOMAIN linearized : \E d \in Contracts : linearized[k] = linearization[d]
          /\ \A d \in Contracts : linearization[d][1] = d
      BY DEF OrderInv
    <3>1. PICK a \in Contracts : linearized[m] = linearization[a] /\ linearized[m][1] = a
      <4>1. PICK d \in Contracts : linearized[m] = linearization[d]
        BY <3>0
      <4>2. linearization[d][1] = d
        BY <3>0
      <4> QED BY <4>1, <4>2
    <3>2. PICK b \in Contracts : linearized[n] = linearization[b] /\ linearized[n][1] = b
      <4>1. PICK d \in Contracts : linearized[n] = linearization[d]
        BY <3>0
      <4>2. linearization[d][1] = d
        BY <3>0
      <4> QED BY <4>1, <4>2
    <3>3. before(chain, x, y) /\ before(chain, y, x)
      <4>1. \A d \in ToSet(chain) : \A v, w : before(linearization[d], v, w) => before(chain, v, w)
        BY DEF OrderInv
      <4> HIDE DEF chain
      <4> QED BY <2>2, <3>1, <3>2, <4>1 DEF chain
    <3>4. chain \in Seq(1 .. Len(linearization)) /\ IsInjective(chain)
      BY DEF OrderInv
    <3> HIDE DEF chain
    <3>5. PICK i, j \in DOMAIN chain : i < j /\ chain[i] = x /\ chain[j] = y
      BY <3>3 DEF before
    <3>6. PICK k, l \in DOMAIN chain : k < l /\ chain[k] = y /\ chain[l] = x
      BY <3>3 DEF before
    <3>7. i = l /\ j = k
      BY <3>4, <3>5, <3>6 DEF IsInjective
    <3>8. i \in Int /\ j \in Int
      BY <3>4
    <3> QED BY <3>5, <3>6, <3>7, <3>8
  <2>3. ASSUME hasEdge(x, y), hasEdge(y, x)
        PROVE  \E m, n \in DOMAIN linearized :
                 /\ before(linearized[m], x, y) /\ before(linearized[n], y, x)
                 /\ \A c \in Contracts :
                      ~ ({linearized[m][1], linearized[n][1]} \subseteq ToSet(linearization[c]))
    <3>1. PICK m \in DOMAIN linearized : before(linearized[m], x, y)
      BY <2>3 DEF hasEdge
    <3>2. PICK n \in DOMAIN linearized : before(linearized[n], y, x)
      BY <2>3 DEF hasEdge
    <3>3. \A c \in Contracts :
            ~ ({linearized[m][1], linearized[n][1]} \subseteq ToSet(linearization[c]))
      BY <2>2, <3>1, <3>2
    <3> QED BY <3>1, <3>2, <3>3
  <2>4. ASSUME NEW m \in DOMAIN linearized, NEW n \in DOMAIN linearized,
               before(linearized[m], x, y), before(linearized[n], y, x)
        PROVE  hasEdge(x, y) /\ hasEdge(y, x)
    BY <2>4 DEF hasEdge
  <2> QED BY <2>1, <2>3, <2>4
<1>3. OrderInv /\ [define]_orderVars => OrderInv'
  BY OrderNextInv
<1> QED BY <1>1, <1>2, <1>3, PTL DEF OrderSpec
=============================================================================
