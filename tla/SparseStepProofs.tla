--------------------------- MODULE SparseStepProofs --------------------------
(***************************************************************************)
(* For every circuit, word width, reset fan-out and sequence of inputs,    *)
(* the serial sparse step (subStepN) computes what evaluating every        *)
(* supernode computes.  The invariant follows a scan: the supernodes below *)
(* it have the result of the dense step, the others the values it began    *)
(* with (ValueInv), and a supernode that no flag asks for would compute    *)
(* what it has already (CleanInv).                                         *)
(***************************************************************************)
EXTENDS SparseStep, Foundations

Places == Nodes \cup Inputs
Bits == 0..1
N == Cardinality(Nodes)
K == Cardinality(Supers)

-----------------------------------------------------------------------------
(* Words *)

\* The bounds of the word that holds flag s.
LEMMA WordBounds ==
  ASSUME NEW s \in Nat
  PROVE  /\ WordOf(s) \in Nat
         /\ WordOf(s) * ActiveWidth <= s
         /\ s < WordOf(s) * ActiveWidth + ActiveWidth
BY SparseAssumption DEF WordOf

\* They determine the word.
LEMMA WordIs ==
  ASSUME NEW s \in Nat, NEW w \in Nat, w * ActiveWidth <= s, s < w * ActiveWidth + ActiveWidth
  PROVE  WordOf(s) = w
<1> DEFINE v == WordOf(s)
<1>1. v \in Nat /\ v * ActiveWidth <= s /\ s < v * ActiveWidth + ActiveWidth
  BY Zenon, WordBounds
<1> HIDE DEF v
<1>2. ~(v < w)
  <2> SUFFICES ASSUME v + 1 <= w PROVE FALSE
    BY <1>1
  <2>1. (v + 1) * ActiveWidth <= w * ActiveWidth
    BY <1>1, SparseAssumption
  <2> QED BY <1>1, <2>1, SparseAssumption
<1>3. ~(w < v)
  <2> SUFFICES ASSUME w + 1 <= v PROVE FALSE
    BY <1>1
  <2>1. (w + 1) * ActiveWidth <= v * ActiveWidth
    BY <1>1, SparseAssumption
  <2> QED BY <1>1, <2>1, SparseAssumption
<1> QED BY <1>1, <1>2, <1>3 DEF v

\* Later flags are not in earlier words.
LEMMA WordMonotone ==
  ASSUME NEW s \in Nat, NEW t \in Nat, s <= t
  PROVE  WordOf(s) <= WordOf(t)
<1> DEFINE v == WordOf(s)  w == WordOf(t)
<1>1. /\ v \in Nat /\ v * ActiveWidth <= s
      /\ w \in Nat /\ t < w * ActiveWidth + ActiveWidth
  BY Zenon, WordBounds
<1> HIDE DEF v, w
<1>2. ASSUME w + 1 <= v PROVE FALSE
  <2>1. (w + 1) * ActiveWidth <= v * ActiveWidth
    BY <1>1, <1>2, SparseAssumption
  <2> QED BY <1>1, <2>1, SparseAssumption
<1> QED BY <1>1, <1>2 DEF v, w

-----------------------------------------------------------------------------
(* The circuit *)

\* What CircuitOK says, in the form the proofs use.
LEMMA CircuitFacts ==
  ASSUME circuit \in Circuits
  PROVE  /\ N \in Nat /\ Nodes = 1..N /\ 1 <= N
         /\ circuit.reads \in [Nodes -> SUBSET Places]
         /\ \A n \in Nodes : \A m \in circuit.reads[n] \cap Nodes : m < n /\ circuit.kind[m] # "dst"
         /\ circuit.pair \in [Nodes -> Nodes]
         /\ \A n \in Nodes : circuit.kind[n] = "src" =>
              /\ n < circuit.pair[n]
              /\ circuit.kind[circuit.pair[n]] = "dst"
              /\ circuit.pair[circuit.pair[n]] = n
              /\ circuit.hasReset[n] = circuit.hasReset[circuit.pair[n]]
         /\ circuit.hasReset \in [Nodes -> BOOLEAN]
         /\ \A n \in Nodes : circuit.hasReset[n] => circuit.kind[n] \in {"src", "dst"}
         /\ circuit.resetNode \in Places
         /\ circuit.super \in [Nodes -> Nat]
         /\ K \in Nat /\ Supers = 0..(K - 1)
         /\ \A n, m \in Nodes : n <= m => circuit.super[n] <= circuit.super[m]
<1>1. CircuitOK(circuit)
  BY Zenon, SparseAssumption
<1>2. IsFiniteSet(Nodes) /\ N \in Nat /\ Nodes = 1..N /\ Nodes # {}
  BY Zenon, <1>1, FS_CardinalityType DEF CircuitOK, Nodes, N
<1>3. IsFiniteSet(Supers) /\ K \in Nat
  <2>1. circuit.super \in [Nodes -> Supers] /\ \A t \in Supers : \E n \in Nodes : circuit.super[n] = t
    BY <1>1 DEF CircuitOK, Nodes, Supers
  <2>2. circuit.super \in Surjection(Nodes, Supers)
    BY Zenon, <2>1 DEF Surjection
  <2> QED BY Zenon, <1>2, <2>2, FS_Surjection, FS_CardinalityType DEF K
<1>4. Supers = 0..(K - 1)
  BY Zenon, <1>1 DEF CircuitOK, Nodes, Supers, K
<1>5. 1 <= N
  BY <1>2
<1>6. /\ circuit.reads \in [Nodes -> SUBSET Places]
      /\ \A n \in Nodes : \A m \in circuit.reads[n] \cap Nodes : m < n /\ circuit.kind[m] # "dst"
      /\ circuit.pair \in [Nodes -> Nodes]
      /\ circuit.hasReset \in [Nodes -> BOOLEAN]
      /\ \A n \in Nodes : circuit.hasReset[n] => circuit.kind[n] \in {"src", "dst"}
      /\ circuit.resetNode \in Places
  BY Zenon, <1>1 DEF CircuitOK, Nodes, Places
<1>7. /\ circuit.super \in [Nodes -> Nat]
      /\ \A n, m \in Nodes : n <= m => circuit.super[n] <= circuit.super[m]
  BY Zenon, <1>1 DEF CircuitOK, Nodes
<1>8. ASSUME NEW n \in Nodes, circuit.kind[n] = "src"
      PROVE  /\ n < circuit.pair[n]
             /\ circuit.kind[circuit.pair[n]] = "dst"
             /\ circuit.pair[circuit.pair[n]] = n
             /\ circuit.hasReset[n] = circuit.hasReset[circuit.pair[n]]
  BY Zenon, <1>1, <1>8 DEF CircuitOK, Nodes
<1> QED BY Zenon, <1>2, <1>3, <1>4, <1>5, <1>6, <1>7, <1>8

-----------------------------------------------------------------------------
(* The value of a node *)

\* The value of a node depends on what it reads only.
LEMMA ValueCongruence ==
  ASSUME NEW n \in Nodes, NEW u, NEW v,
         \A r \in circuit.reads[n] : u[r] = v[r],
         circuit.kind[n] = "src" => u[circuit.pair[n]] = v[circuit.pair[n]]
  PROVE  ValueOf(u, n) = ValueOf(v, n)
<1>1. {r \in circuit.reads[n] : u[r] = 1} = {r \in circuit.reads[n] : v[r] = 1}
  OBVIOUS
<1>2. CASE circuit.kind[n] = "src"
  BY Zenon, <1>2 DEF ValueOf
<1>3. CASE circuit.kind[n] # "src"
  BY Zenon, <1>1, <1>3 DEF ValueOf
<1> QED BY Zenon, <1>2, <1>3

\* Every value is a bit.
LEMMA ValueType ==
  ASSUME circuit \in Circuits, parity \in Bits, NEW v \in [Places -> Bits], NEW n \in Nodes
  PROVE  ValueOf(v, n) \in Bits
<1> DEFINE ones == Cardinality({r \in circuit.reads[n] : v[r] = 1})
<1>1. ones \in Nat
  <2>1. IsFiniteSet(Places)
    <3>1. N \in Int /\ Nodes = 1..N
      BY CircuitFacts
    <3>2. IsFiniteSet(Nodes)
      BY <3>1, FS_Interval
    <3>3. IsFiniteSet(Inputs)
      <4>1. IsFiniteSet({In}) /\ IsFiniteSet({Reset}) /\ Inputs = {In} \cup {Reset}
        BY Zenon, FS_Singleton DEF Inputs
      <4> QED BY Zenon, <4>1, FS_Union
    <3> QED BY Zenon, <3>2, <3>3, FS_Union DEF Places
  <2>2. {r \in circuit.reads[n] : v[r] = 1} \in SUBSET Places
    BY CircuitFacts
  <2> QED BY Zenon, <2>1, <2>2, FS_Subset, FS_CardinalityType
<1> HIDE DEF ones
<1>2. ones % 2 \in Bits /\ (ones + parity) % 2 \in Bits
  BY <1>1 DEF Bits
<1>3. circuit.kind[n] = "src" => v[circuit.pair[n]] \in Bits
  BY CircuitFacts DEF Places
<1>4. 0 \in Bits /\ 1 \in Bits
  BY DEF Bits
<1> QED BY Zenon, <1>2, <1>3, <1>4 DEF ValueOf, ones

-----------------------------------------------------------------------------
(* Evaluating a run of nodes *)

Step(u, n) == [u EXCEPT ![n] = ValueOf(u, n)]

After(v, from, to) ==
  CHOOSE after : after = [n \in (from - 1)..to |-> IF n < from THEN v ELSE Step(after[n - 1], n)]

\* The definition of EvalNodes is a recursion that has a solution.
LEMMA EvalEquation ==
  ASSUME circuit \in Circuits, parity \in Bits,
         NEW v \in [Places -> Bits], NEW from \in Nodes, NEW to \in Nodes, from <= to
  PROVE  \E f \in [(from - 1)..to -> [Places -> Bits]] :
           /\ \A n \in (from - 1)..to : f[n] = IF n < from THEN v ELSE Step(f[n - 1], n)
           /\ EvalNodes(v, from, to) = f[to]
<1> DEFINE V == [Places -> Bits]
           step == [p \in Int \X V |-> IF p[1] \in Nodes THEN Step(p[2], p[1]) ELSE p[2]]
<1>1. from \in Nat /\ to \in Nat /\ Nodes \subseteq Places /\ \A n \in from..to : n \in Nodes
  <2>1. N \in Nat /\ Nodes = 1..N
    BY Zenon, CircuitFacts
  <2> QED BY <2>1 DEF Places
<1>2. ASSUME NEW u \in V, NEW n \in Nodes PROVE Step(u, n) \in V
  <2>1. ValueOf(u, n) \in Bits
    BY Zenon, ValueType
  <2>2. n \in Places
    BY Zenon, <1>1
  <2> QED BY Zenon, <2>1, <2>2 DEF Step
<1>3. step \in [Int \X V -> V]
  BY Zenon, <1>2
<1>4. \A n \in Nodes : \A u \in V : step[<<n, u>>] = Step(u, n)
  BY CircuitFacts
<1> HIDE DEF V, step
<1>5. v \in V
  BY Zenon DEF V
<1>6. PICK f \in [(from - 1)..to -> V] : Recurses(f, from - 1, to, v, step)
  <2>1. from - 1 \in Int /\ to \in Int
    BY <1>1
  <2> QED BY Zenon, <1>3, <1>5, <2>1, IntervalRecursion
<1>7. ASSUME NEW n \in (from - 1)..to PROVE f[n] = IF n < from THEN v ELSE Step(f[n - 1], n)
  <2>1. CASE n = from - 1
    <3>1. f[n] = v
      BY Zenon, <1>6, <2>1 DEF Recurses
    <3>2. n < from
      BY <1>1, <2>1
    <3> QED BY Zenon, <3>1, <3>2
  <2>2. CASE n # from - 1
    <3>1. n \in Nodes /\ ~(n < from) /\ n - 1 \in (from - 1)..to
      BY <1>1, <2>2
    <3>2. f[n - 1] \in V
      BY Zenon, <1>6, <3>1
    <3>3. f[n] = step[<<n, f[n - 1]>>]
      BY Zenon, <1>6, <2>2 DEF Recurses
    <3> QED BY Zenon, <1>4, <3>1, <3>2, <3>3
  <2> QED BY Zenon, <2>1, <2>2
<1> DEFINE Sol(g) == g = [n \in (from - 1)..to |-> IF n < from THEN v ELSE Step(g[n - 1], n)]
<1>8. Sol(f)
  BY <1>6, <1>7, Zenon
<1> DEFINE g == After(v, from, to)
<1>9. Sol(g)
  BY <1>8, Zenon DEF After
<1>10. EvalNodes(v, from, to) = g[to]
  BY Zenon DEF EvalNodes, After, Step
<1> HIDE DEF g
<1>11. \A n \in (from - 1)..to : g[n] = IF n < from THEN v ELSE Step(g[n - 1], n)
  BY <1>9, Zenon
<1> HIDE DEF Sol
<1> DEFINE Same == {n \in Int : g[n] = f[n]}
<1>12. \A n \in (from - 1)..to : n \in Same
  <2>1. from - 1 \in Same
    BY <1>1, <1>7, <1>11
  <2>2. ASSUME NEW i \in (from - 1)..(to - 1), i \in Same PROVE i + 1 \in Same
    <3>1. i + 1 \in (from - 1)..to /\ ~(i + 1 < from) /\ (i + 1) - 1 = i /\ g[i] = f[i]
      BY <1>1, <2>2
    <3>2. g[i + 1] = Step(g[i], i + 1)
      BY Zenon, <1>11, <3>1
    <3>3. f[i + 1] = Step(f[i], i + 1)
      BY Zenon, <1>7, <3>1
    <3> QED BY <1>1, <3>1, <3>2, <3>3
  <2> HIDE DEF Same
  <2> QED BY <1>1, <2>1, <2>2, IntervalInduction
<1>13. EvalNodes(v, from, to) = f[to]
  BY <1>1, <1>10, <1>12
<1> QED BY Zenon, <1>6, <1>7, <1>13 DEF V

\* A run of nodes is evaluated in place: a register takes the value its dst had
\* before, any other node is a function of what the nodes before it now are.
LEMMA EvalFacts ==
  ASSUME circuit \in Circuits, parity \in Bits,
         NEW v \in [Places -> Bits], NEW from \in Nodes, NEW to \in Nodes, from <= to,
         NEW w, w = EvalNodes(v, from, to)
  PROVE  /\ w \in [Places -> Bits]
         /\ \A x \in Places : x \notin from..to => w[x] = v[x]
         /\ \A n \in from..to :
              w[n] = IF circuit.kind[n] = "src" THEN v[circuit.pair[n]] ELSE ValueOf(w, n)
<1>1. PICK f \in [(from - 1)..to -> [Places -> Bits]] :
        /\ \A n \in (from - 1)..to : f[n] = IF n < from THEN v ELSE Step(f[n - 1], n)
        /\ w = f[to]
  BY EvalEquation
<1>2. /\ N \in Nat /\ Nodes = 1..N /\ from \in Nat /\ to \in Nat /\ Nodes \subseteq Places
      /\ from..to \subseteq Nodes
  <2>1. N \in Nat /\ Nodes = 1..N
    BY Zenon, CircuitFacts
  <2> QED BY <2>1 DEF Places
<1>3. ASSUME NEW i \in (from - 1)..(to - 1)
      PROVE  /\ f[i + 1][i + 1] = ValueOf(f[i], i + 1)
             /\ \A x \in Places : x # i + 1 => f[i + 1][x] = f[i][x]
  <2>1. i + 1 \in (from - 1)..to /\ ~(i + 1 < from) /\ (i + 1) - 1 = i /\ i + 1 \in Places
        /\ i \in (from - 1)..to
    BY <1>2
  <2>2. f[i + 1] = Step(f[i], i + 1)
    BY Zenon, <1>1, <2>1
  <2>3. f[i] \in [Places -> Bits]
    BY Zenon, <1>1, <2>1
  <2> QED BY Zenon, <2>1, <2>2, <2>3 DEF Step
<1>4. f[from - 1] = v
  BY <1>1, <1>2
<1>5. ASSUME NEW x \in Places PROVE \A i \in (from - 1)..to : x \notin from..i => f[i][x] = v[x]
  <2> DEFINE S == {i \in Int : x \notin from..i => f[i][x] = v[x]}
  <2>1. from - 1 \in S
    BY <1>2, <1>4
  <2>2. ASSUME NEW i \in (from - 1)..(to - 1), i \in S PROVE i + 1 \in S
    <3>1. CASE x \in from..(i + 1)
      BY <3>1
    <3>2. CASE x \notin from..(i + 1)
      <4>1. x \notin from..i /\ x # i + 1 /\ f[i][x] = v[x]
        BY <1>2, <2>2, <3>2
      <4> QED BY <1>3, <4>1
    <3> QED BY Zenon, <3>1, <3>2
  <2> HIDE DEF S
  <2>a. from - 1 \in Int /\ to \in Int
    BY <1>2
  <2>3. \A i \in (from - 1)..to : i \in S
    BY Zenon, <2>1, <2>2, <2>a, IntervalInduction
  <2> QED BY Zenon, <2>3 DEF S
<1>6. ASSUME NEW n \in from..to PROVE \A i \in n..to : f[i][n] = f[n][n]
  <2> DEFINE S == {i \in Int : f[i][n] = f[n][n]}
  <2>1. n \in S
    BY <1>2
  <2>2. ASSUME NEW i \in n..(to - 1), i \in S PROVE i + 1 \in S
    <3>1. i \in (from - 1)..(to - 1) /\ n # i + 1 /\ n \in Places
      BY <1>2
    <3> QED BY <1>3, <2>2, <3>1
  <2> HIDE DEF S
  <2>a. n \in Int /\ to \in Int
    BY <1>2
  <2>3. \A i \in n..to : i \in S
    BY Zenon, <2>1, <2>2, <2>a, IntervalInduction
  <2> QED BY Zenon, <2>3 DEF S
<1>7. w \in [Places -> Bits] /\ \A x \in Places : x \notin from..to => w[x] = v[x]
  BY <1>1, <1>2, <1>5
<1>8. ASSUME NEW n \in from..to
      PROVE  w[n] = IF circuit.kind[n] = "src" THEN v[circuit.pair[n]] ELSE ValueOf(w, n)
  <2>1. n \in Nodes /\ n - 1 \in (from - 1)..(to - 1) /\ (n - 1) + 1 = n /\ to \in n..to
    BY <1>2
  <2>2. w[n] = ValueOf(f[n - 1], n)
    BY <1>1, <1>3, <1>6, <2>1
  <2>3. CASE circuit.kind[n] = "src"
    <3>1. circuit.pair[n] \in Nodes /\ n < circuit.pair[n]
      BY <2>1, <2>3, CircuitFacts
    <3>2. circuit.pair[n] \in Places /\ circuit.pair[n] \notin from..(n - 1) /\ n - 1 \in (from - 1)..to
      BY <1>2, <3>1
    <3>3. f[n - 1][circuit.pair[n]] = v[circuit.pair[n]]
      BY Zenon, <1>5, <3>2
    <3> QED BY Zenon, <2>2, <2>3, <3>3 DEF ValueOf
  <2>4. CASE circuit.kind[n] # "src"
    <3>1. ASSUME NEW r \in circuit.reads[n] PROVE f[n - 1][r] = w[r]
      <4>1. r \in Places /\ (r \in Nodes => r < n)
        BY ZenonT(20), <2>1, CircuitFacts
      <4>2. CASE r \in from..(n - 1)
        <5>1. r \in from..to /\ n - 1 \in r..to /\ to \in r..to
          BY <1>2, <2>1, <4>2
        <5> QED BY Zenon, <1>1, <1>6, <5>1
      <4>3. CASE r \notin from..(n - 1)
        <5>1. n - 1 \in (from - 1)..to
          BY <1>2
        <5>2. r \notin from..to
          BY <1>2, <4>1, <4>3
        <5>3. f[n - 1][r] = v[r]
          BY Zenon, <1>5, <4>1, <4>3, <5>1
        <5> QED BY Zenon, <1>7, <4>1, <5>2, <5>3
      <4> QED BY Zenon, <4>2, <4>3
    <3>2. ValueOf(f[n - 1], n) = ValueOf(w, n)
      BY Zenon, <2>1, <2>4, <3>1, ValueCongruence
    <3> QED BY Zenon, <2>2, <2>4, <3>2
  <2> QED BY Zenon, <2>3, <2>4
<1> QED BY Zenon, <1>7, <1>8

-----------------------------------------------------------------------------
(* The members of a supernode are a run of nodes *)

\* Topological order numbers the nodes of a supernode consecutively.
LEMMA MembersRun ==
  ASSUME circuit \in Circuits, NEW s \in Supers
  PROVE  \E from, to \in Nodes :
           /\ from <= to
           /\ Members(s) = from..to
           /\ Min(Members(s)) = from
           /\ Max(Members(s)) = to
<1> DEFINE M == Members(s)
<1>1. N \in Nat /\ Nodes = 1..N
  BY Zenon, CircuitFacts
<1>2. M # {} /\ M \subseteq Nodes
  BY Zenon DEF Supers, Members
<1>3. PICK a \in M : \A x \in M : a <= x
  BY <1>1, <1>2, LeastNat
<1>4. PICK b \in M : \A x \in M : b >= x
  <2> DEFINE T == {k \in Nat : \E x \in M : k = N - x}
  <2>1. T # {}
    BY <1>1, <1>2
  <2>2. PICK k \in T : \A j \in T : k <= j
    BY Zenon, <2>1, LeastNat
  <2>3. PICK b \in M : k = N - b
    BY Zenon, <2>2
  <2>4. ASSUME NEW x \in M PROVE b >= x
    <3>1. N - x \in T
      BY <1>1, <1>2
    <3> QED BY <1>1, <1>2, <2>2, <2>3, <3>1
  <2> QED BY Zenon, <2>4
<1>5. Min(M) = a
  <2>1. Min(M) = CHOOSE x \in M : \A y \in M : x <= y
    BY Zenon DEF Min
  <2>2. Min(M) \in M /\ \A y \in M : Min(M) <= y
    BY <1>3, <2>1, Zenon
  <2> QED BY <1>1, <1>2, <1>3, <2>2
<1>6. Max(M) = b
  <2>1. Max(M) = CHOOSE x \in M : \A y \in M : x >= y
    BY Zenon DEF Max
  <2>2. Max(M) \in M /\ \A y \in M : Max(M) >= y
    BY <1>4, <2>1, Zenon
  <2> QED BY <1>1, <1>2, <1>4, <2>2
<1>7. M = a..b
  <2>1. ASSUME NEW x \in a..b PROVE x \in M
    <3>1. x \in Nodes /\ a <= x /\ x <= b /\ a \in Nodes /\ b \in Nodes
      BY <1>1, <1>2
    <3>2. circuit.super[a] <= circuit.super[x] /\ circuit.super[x] <= circuit.super[b]
      BY Zenon, <3>1, CircuitFacts
    <3>3. circuit.super[a] = s /\ circuit.super[b] = s /\ circuit.super[x] \in Nat /\ s \in Nat
      BY <3>1, CircuitFacts DEF Members
    <3> QED BY <3>1, <3>2, <3>3 DEF Members
  <2>2. ASSUME NEW x \in M PROVE x \in a..b
    BY <1>1, <1>2, <1>3, <1>4
  <2> QED BY Zenon, <2>1, <2>2
<1> HIDE DEF M
<1>8. a \in Nodes /\ b \in Nodes /\ a <= b
  BY Zenon, <1>2, <1>3
<1> QED BY Zenon, <1>5, <1>6, <1>7, <1>8 DEF M

-----------------------------------------------------------------------------
(* The inductive invariant *)

\* What the step of dense begins with, and what it ends with.
Start == AfterReset(dense.val, dense.copy)
Full == EvalNodes(Start.val, 1, N)

TypeInv ==
  /\ circuit \in Circuits
  /\ val \in [Places -> Bits] /\ copy \in Bits
  /\ dense \in [val : [Places -> Bits], copy : Bits]
  /\ parity \in Bits
  /\ flags \in SUBSET Supers /\ local \in SUBSET Supers
  /\ scan \in Nat \cup {Idle}
  /\ entered \in BOOLEAN

\* The scan enters a word at its first supernode.
WordInv == entered \/ scan = Idle \/ scan = WordOf(scan) * ActiveWidth

\* v has the result of the dense step in the supernodes below t, and the values
\* at its beginning elsewhere.
Between(v, t) ==
  \A x \in Places : v[x] = IF x \in Nodes /\ circuit.super[x] < t THEN Full[x] ELSE Start.val[x]

ValueInv ==
  IF scan = Idle THEN val = dense.val /\ copy = dense.copy /\ ~entered
  ELSE copy = Start.copy /\ Between(val, scan)

\* Evaluating the supernode would change nothing.
Clean(v, s) == \A n \in Members(s) : v[n] = ValueOf(v, n)

\* The scan is still to come to the supernode in the word it has taken.
Ahead(s) == entered /\ scan <= s /\ WordOf(s) = WordOf(scan) /\ Whole(WordOf(s))

Waiting(s) == s \in AlwaysActive \/ s \in IF Ahead(s) THEN local ELSE flags

CleanInv == \A s \in Supers : Waiting(s) \/ Clean(val, s)

\* A reset activates the supernodes that compute the next values of what it
\* resets.  The generator does not see to it: it collects the readers of the
\* registers, and beyond ResetFanout everything.
ResetReachesDst ==
  \A n \in Nodes : circuit.kind[n] = "dst" /\ circuit.hasReset[n] =>
    circuit.super[n] \in ResetActivates \cup AlwaysActive

IndInv == TypeInv /\ WordInv /\ ValueInv /\ CleanInv /\ ResetReachesDst

-----------------------------------------------------------------------------

\* A reset writes bits.
LEMMA AfterResetType ==
  ASSUME circuit \in Circuits, NEW v \in [Places -> Bits], NEW c \in Bits
  PROVE  AfterReset(v, c).val \in [Places -> Bits] /\ AfterReset(v, c).copy \in Bits
<1>1. ResetRegs(v) \in [Places -> Bits]
  BY DEF ResetRegs, Bits
<1>2. circuit.resetNode \in Places
  BY Zenon, CircuitFacts
<1> QED BY Zenon, <1>1, <1>2 DEF AfterReset

\* The dense step evaluates every node from what it reads.
LEMMA FullFacts ==
  ASSUME TypeInv
  PROVE  /\ Start.val \in [Places -> Bits] /\ Start.copy \in Bits
         /\ Full \in [Places -> Bits]
         /\ \A x \in Places : x \notin Nodes => Full[x] = Start.val[x]
         /\ \A n \in Nodes :
              Full[n] = IF circuit.kind[n] = "src" THEN Start.val[circuit.pair[n]] ELSE ValueOf(Full, n)
<1>1. Start.val \in [Places -> Bits] /\ Start.copy \in Bits
  BY Zenon, AfterResetType DEF TypeInv, Start
<1>2. N \in Nat /\ Nodes = 1..N /\ 1 \in Nodes /\ N \in Nodes /\ 1 <= N
  <2>1. N \in Nat /\ Nodes = 1..N /\ 1 <= N
    BY Zenon, CircuitFacts DEF TypeInv
  <2> QED BY <2>1
<1> DEFINE v == Start.val  w == Full
<1>3. w = EvalNodes(v, 1, N)
  BY Zenon DEF Full
<1>4. circuit \in Circuits /\ parity \in Bits /\ v \in [Places -> Bits]
  BY Zenon, <1>1 DEF TypeInv
<1> HIDE DEF v, w
<1>5. /\ w \in [Places -> Bits]
      /\ \A x \in Places : x \notin 1..N => w[x] = v[x]
      /\ \A n \in 1..N : w[n] = IF circuit.kind[n] = "src" THEN v[circuit.pair[n]] ELSE ValueOf(w, n)
  BY <1>2, <1>3, <1>4, EvalFacts
<1> QED BY Zenon, <1>1, <1>2, <1>5 DEF v, w

\* The supernodes up to t, evaluated or found clean, have what dense computes.
LEMMA Advance ==
  ASSUME TypeInv, scan \in Nat, Between(val, scan), NEW t \in Nat, NEW w,
         \A x \in Places :
           ~(x \in Nodes /\ scan <= circuit.super[x] /\ circuit.super[x] < t) => w[x] = val[x],
         \A n \in Nodes : scan <= circuit.super[n] /\ circuit.super[n] < t =>
           w[n] = IF circuit.kind[n] = "src" THEN val[circuit.pair[n]] ELSE ValueOf(w, n),
         scan <= t
  PROVE  Between(w, t)
<1>1. /\ N \in Nat /\ Nodes = 1..N /\ Nodes \subseteq Places
      /\ circuit.super \in [Nodes -> Nat]
      /\ \A n, m \in Nodes : n <= m => circuit.super[n] <= circuit.super[m]
  BY Zenon, CircuitFacts DEF TypeInv, Places
<1> DEFINE S == {k \in Int : \A n \in Nodes : n <= k /\ circuit.super[n] < t => w[n] = Full[n]}
<1>2. 0 \in S
  BY <1>1
<1>3. ASSUME NEW k \in 0..(N - 1), k \in S PROVE k + 1 \in S
  <2> DEFINE n == k + 1
  <2>1. n \in Nodes /\ n \in Int
    BY <1>1
  <2> SUFFICES ASSUME circuit.super[n] < t PROVE w[n] = Full[n]
    <3>1. ASSUME NEW m \in Nodes, m <= k + 1, circuit.super[m] < t PROVE w[m] = Full[m]
      <4>1. m = k + 1 \/ m <= k
        BY <1>1, <3>1
      <4> QED BY Zenon, <1>3, <3>1, <4>1
    <3> QED BY <3>1
  <2> HIDE DEF n
  <2>2. CASE circuit.super[n] < scan
    <3>1. w[n] = val[n]
      BY <1>1, <2>1, <2>2
    <3> QED BY Zenon, <1>1, <2>1, <2>2, <3>1 DEF Between
  <2>3. CASE scan <= circuit.super[n]
    <3>1. w[n] = IF circuit.kind[n] = "src" THEN val[circuit.pair[n]] ELSE ValueOf(w, n)
      BY Zenon, <2>1, <2>3
    <3>2. Full[n] = IF circuit.kind[n] = "src" THEN Start.val[circuit.pair[n]] ELSE ValueOf(Full, n)
      BY Zenon, <2>1, FullFacts
    <3>3. CASE circuit.kind[n] = "src"
      <4>1. circuit.pair[n] \in Nodes /\ n < circuit.pair[n]
        BY ZenonT(20), <2>1, <3>3, CircuitFacts DEF TypeInv
      <4>2. scan <= circuit.super[circuit.pair[n]]
        <5>1. circuit.super[n] <= circuit.super[circuit.pair[n]]
          BY <1>1, <2>1, <4>1
        <5>2. circuit.super[n] \in Nat /\ circuit.super[circuit.pair[n]] \in Nat
          BY Zenon, <1>1, <2>1, <4>1
        <5> QED BY <2>3, <5>1, <5>2
      <4>3. val[circuit.pair[n]] = Start.val[circuit.pair[n]]
        <5>1. ~(circuit.super[circuit.pair[n]] < scan)
          BY <1>1, <4>1, <4>2
        <5> QED BY Zenon, <1>1, <4>1, <5>1 DEF Between
      <4> QED BY Zenon, <3>1, <3>2, <3>3, <4>3
    <3>4. CASE circuit.kind[n] # "src"
      <4>1. ASSUME NEW r \in circuit.reads[n] PROVE w[r] = Full[r]
        <5>1. r \in Places /\ (r \in Nodes => r < n)
          BY ZenonT(20), <2>1, CircuitFacts DEF TypeInv
        <5>2. CASE r \in Nodes
          <6>1. r <= k
            BY <1>1, <5>1, <5>2 DEF n
          <6>2. circuit.super[r] < t
            <7>1. circuit.super[r] <= circuit.super[n] /\ circuit.super[r] \in Nat /\ circuit.super[n] \in Nat
              BY <1>1, <2>1, <5>1, <5>2
            <7> QED BY <7>1
          <6> QED BY Zenon, <1>3, <5>2, <6>1, <6>2
        <5>3. CASE r \notin Nodes
          <6>1. w[r] = val[r] /\ val[r] = Start.val[r]
            BY Zenon, <5>1, <5>3 DEF Between
          <6>2. Full[r] = Start.val[r]
            BY Zenon, <5>1, <5>3, FullFacts
          <6> QED BY Zenon, <6>1, <6>2
        <5> QED BY Zenon, <5>2, <5>3
      <4>2. ValueOf(w, n) = ValueOf(Full, n)
        BY Zenon, <2>1, <3>4, <4>1, ValueCongruence
      <4> QED BY Zenon, <3>1, <3>2, <3>4, <4>2
    <3> QED BY Zenon, <3>3, <3>4
  <2> QED BY <1>1, <2>1, <2>2, <2>3
<1> HIDE DEF S
<1>4. \A k \in 0..N : k \in S
  <2>1. 0 \in Int /\ N \in Int
    BY <1>1
  <2> QED BY Zenon, <1>2, <1>3, <2>1, IntervalInduction
<1>5. ASSUME NEW x \in Places
      PROVE  w[x] = IF x \in Nodes /\ circuit.super[x] < t THEN Full[x] ELSE Start.val[x]
  <2>1. CASE x \in Nodes /\ circuit.super[x] < t
    <3>1. N \in S /\ x <= N
      BY <1>1, <1>4, <2>1
    <3> QED BY Zenon, <2>1, <3>1 DEF S
  <2>2. CASE ~(x \in Nodes /\ circuit.super[x] < t)
    <3>1. w[x] = val[x]
      BY Zenon, <2>2
    <3>2. ~(x \in Nodes /\ circuit.super[x] < scan)
      BY <1>1, <2>2
    <3> QED BY Zenon, <2>2, <3>1, <3>2 DEF Between
  <2> QED BY Zenon, <2>1, <2>2
<1> QED BY Zenon, <1>5 DEF Between

-----------------------------------------------------------------------------
(* Every step keeps the invariant *)

\* Init establishes the invariant: every flag is up.
LEMMA IndInit == ASSUME Init, ResetReachesDst PROVE IndInv
<1>1. TypeInv
  <2>1. val \in [Places -> Bits]
    BY DEF Init, Places, Bits
  <2>2. dense \in [val : [Places -> Bits], copy : Bits]
    BY Zenon, <2>1 DEF Init, Bits
  <2>3. circuit \in Circuits /\ copy \in Bits /\ parity \in Bits
    BY DEF Init, Bits
  <2>4. flags \in SUBSET Supers /\ local \in SUBSET Supers
    BY Zenon DEF Init
  <2>5. scan \in Nat \cup {Idle} /\ entered \in BOOLEAN
    BY Zenon DEF Init
  <2> QED BY Zenon, <2>1, <2>2, <2>3, <2>4, <2>5 DEF TypeInv
<1>2. WordInv /\ ValueInv
  BY Zenon DEF Init, WordInv, ValueInv
<1>3. CleanInv
  BY Zenon DEF Init, CleanInv, Waiting, Ahead
<1> QED BY Zenon, <1>1, <1>2, <1>3 DEF IndInv

\* What depends on the circuit only.
LEMMA CircuitUnchanged ==
  ASSUME UNCHANGED circuit
  PROVE  /\ Nodes' = Nodes /\ Supers' = Supers /\ Places' = Places
         /\ AlwaysActive' = AlwaysActive
         /\ \A s : Members(s)' = Members(s)
         /\ \A w : Whole(w)' = Whole(w)
         /\ ResetReachesDst' = ResetReachesDst
<1>1. Nodes' = Nodes
  BY Zenon DEF Nodes
<1>2. Supers' = Supers /\ Places' = Places /\ \A s : Members(s)' = Members(s)
  BY Zenon, <1>1 DEF Supers, Places, Members
<1>3. AlwaysActive' = AlwaysActive
  BY Zenon, <1>2 DEF AlwaysActive
<1>4. \A w : Whole(w)' = Whole(w)
  BY Zenon, <1>2, <1>3 DEF Whole, WordIds
<1>5. \A n : ReaderSupers(n)' = ReaderSupers(n)
  BY Zenon, <1>1 DEF ReaderSupers, NextNodes
<1>6. ResetActivates' = ResetActivates
  <2> DEFINE regs == {m \in Nodes : circuit.kind[m] = "src" /\ circuit.hasReset[m]}
             allNext == UNION {ReaderSupers(n) : n \in regs}
  <2>1. regs' = regs
    BY Zenon, <1>1
  <2>2. ResetActivates = IF Cardinality(allNext) > ResetFanout THEN Supers ELSE allNext \ AlwaysActive
    BY Zenon DEF ResetActivates
  <2>3. ResetActivates' = IF Cardinality(allNext') > ResetFanout THEN Supers' ELSE allNext' \ AlwaysActive'
    BY Zenon DEF ResetActivates
  <2>4. allNext' = {s \in Nat : FALSE} \cup UNION {ReaderSupers(n)' : n \in regs}
    BY Zenon, <2>1
  <2>5. allNext' = allNext
    BY Zenon, <1>5, <2>4
  <2> HIDE DEF allNext
  <2> QED BY Zenon, <1>2, <1>3, <2>2, <2>3, <2>5
<1>7. ResetReachesDst' = ResetReachesDst
  BY Zenon, <1>1, <1>3, <1>6 DEF ResetReachesDst
<1> QED BY Zenon, <1>1, <1>2, <1>3, <1>4, <1>7

\* A clean supernode that reads nothing that has changed is clean still.
LEMMA StaysClean ==
  ASSUME circuit \in Circuits, NEW u, NEW v, NEW s \in Supers, Clean(u, s),
         \A n \in Members(s) :
           /\ v[n] = u[n]
           /\ IF circuit.kind[n] = "src" THEN v[circuit.pair[n]] = u[circuit.pair[n]]
              ELSE \A r \in circuit.reads[n] : v[r] = u[r]
  PROVE  Clean(v, s)
<1> SUFFICES ASSUME NEW n \in Members(s) PROVE v[n] = ValueOf(v, n)
  BY Zenon DEF Clean
<1>1. n \in Nodes /\ v[n] = u[n] /\ u[n] = ValueOf(u, n)
  BY Zenon DEF Clean, Members
<1>2. CASE circuit.kind[n] = "src"
  BY Zenon, <1>1, <1>2 DEF ValueOf
<1>3. CASE circuit.kind[n] # "src"
  <2>1. \A r \in circuit.reads[n] : u[r] = v[r]
    BY Zenon, <1>3
  <2>2. ValueOf(u, n) = ValueOf(v, n)
    BY Zenon, <1>1, <1>3, <2>1, ValueCongruence
  <2> QED BY Zenon, <1>1, <2>2
<1> QED BY Zenon, <1>2, <1>3

\* Outside AlwaysActive the value of a node does not depend on the cycle.
LEMMA CleanUnchanged ==
  ASSUME UNCHANGED circuit, NEW v, NEW s \in Supers, s \notin AlwaysActive \/ UNCHANGED parity
  PROVE  Clean(v, s)' <=> Clean(v', s)
<1>1. Members(s)' = Members(s)
  BY Zenon, CircuitUnchanged
<1>2. ASSUME NEW n \in Members(s) PROVE ValueOf(v, n)' = ValueOf(v', n)
  <2>1. CASE UNCHANGED parity
    BY Zenon, <2>1 DEF ValueOf
  <2>2. CASE s \notin AlwaysActive
    <3>1. circuit.kind[n] # "ext"
      BY Zenon, <2>2 DEF AlwaysActive
    <3> QED BY Zenon, <3>1 DEF ValueOf
  <2> QED BY Zenon, <2>1, <2>2
<1> QED BY Zenon, <1>1, <1>2 DEF Clean

\* A changed input raises the flag of every supernode that reads it.
LEMMA IndSetInput ==
  ASSUME IndInv, NEW i \in Inputs, NEW b \in Bits, SetInput(i, b)
  PROVE  IndInv'
<1>1. /\ scan = Idle /\ scan' = Idle
      /\ val' = [val EXCEPT ![i] = b]
      /\ flags' = flags \cup (ReaderSupers(i) \ AlwaysActive)
      /\ dense' = [dense EXCEPT !.val[i] = b]
      /\ UNCHANGED <<circuit, copy, local, scan, entered, parity>>
  BY Zenon DEF SetInput
<1>2. TypeInv /\ ValueInv /\ CleanInv /\ ResetReachesDst
  BY Zenon DEF IndInv
<1>3. ReaderSupers(i) \subseteq Supers
  BY Zenon DEF ReaderSupers, NextNodes, Supers
<1>4. TypeInv'
  <2>1. val' \in [Places -> Bits] /\ dense' \in [val : [Places -> Bits], copy : Bits]
    BY Zenon, <1>1, <1>2 DEF TypeInv
  <2>2. flags' \in SUBSET Supers
    BY Zenon, <1>1, <1>2, <1>3 DEF TypeInv
  <2> QED BY Zenon, <1>1, <1>2, <2>1, <2>2, CircuitUnchanged DEF TypeInv
<1>5. WordInv'
  BY Zenon, <1>1 DEF WordInv
<1>6. ValueInv'
  BY Zenon, <1>1, <1>2 DEF ValueInv, TypeInv
<1>7. CleanInv'
  <2> SUFFICES ASSUME NEW s \in Supers, ~Waiting(s)' PROVE Clean(val', s)
    BY Zenon, <1>1, CircuitUnchanged, CleanUnchanged DEF CleanInv
  <2>1. s \notin AlwaysActive /\ s \notin flags'
    BY Zenon, <1>1, <1>2, CircuitUnchanged DEF Waiting, Ahead, ValueInv
  <2>2. Clean(val, s)
    BY Zenon, <1>1, <1>2, <2>1 DEF CleanInv, Waiting, Ahead, ValueInv
  <2>3. s \notin ReaderSupers(i)
    BY Zenon, <1>1, <2>1
  <2>4. i \notin Nodes
    BY CircuitFacts, <1>2 DEF Inputs, In, Reset, TypeInv
  <2>5. ASSUME NEW n \in Members(s)
        PROVE  /\ val'[n] = val[n]
               /\ IF circuit.kind[n] = "src" THEN val'[circuit.pair[n]] = val[circuit.pair[n]]
                  ELSE \A r \in circuit.reads[n] : val'[r] = val[r]
    <3>1. n \in Nodes /\ circuit.super[n] = s
      BY Zenon DEF Members
    <3>2. \A x \in Places : x # i => val'[x] = val[x]
      BY Zenon, <1>1, <1>2 DEF TypeInv
    <3>3. n \in Places /\ n # i /\ circuit.pair[n] \in Places /\ circuit.pair[n] # i
          /\ circuit.reads[n] \subseteq Places
      BY <1>2, <2>4, <3>1, CircuitFacts DEF TypeInv, Places
    <3>4. circuit.kind[n] # "src" => i \notin circuit.reads[n]
      BY Zenon, <2>3, <3>1 DEF ReaderSupers, NextNodes
    <3> QED BY Zenon, <3>2, <3>3, <3>4
  <2> QED BY Zenon, <1>2, <2>2, <2>5, StaysClean DEF TypeInv
<1> QED BY Zenon, <1>1, <1>2, <1>4, <1>5, <1>6, <1>7, CircuitUnchanged DEF IndInv

\* The reset raises the flags of what it disturbs.
LEMMA IndBeginStep ==
  ASSUME IndInv, BeginStep
  PROVE  IndInv'
<1> DEFINE r == AfterReset(val, copy)
<1>1. /\ scan = Idle /\ scan' = 0 /\ entered' = FALSE
      /\ val' = r.val /\ copy' = r.copy
      /\ flags' = flags \cup (IF ResetOn(val, copy) THEN ResetActivates ELSE {})
      /\ UNCHANGED <<circuit, local, parity, dense>>
  BY Zenon DEF BeginStep
<1>2. TypeInv /\ ValueInv /\ CleanInv /\ ResetReachesDst
  BY Zenon DEF IndInv
<1>3. val = dense.val /\ copy = dense.copy /\ ~entered
  BY Zenon, <1>1, <1>2 DEF ValueInv
<1>4. r = Start
  BY Zenon, <1>3 DEF Start
<1>5. ResetActivates \subseteq Supers
  <2>1. \A n : ReaderSupers(n) \subseteq Supers
    BY Zenon DEF ReaderSupers, NextNodes, Supers
  <2> QED BY Zenon, <2>1 DEF ResetActivates
<1>6. r.val \in [Places -> Bits] /\ r.copy \in Bits
  BY Zenon, <1>2, AfterResetType DEF TypeInv
<1> HIDE DEF r
<1>7. TypeInv'
  <2>1. val' \in [Places -> Bits] /\ copy' \in Bits /\ flags' \in SUBSET Supers
    BY Zenon, <1>1, <1>2, <1>5, <1>6 DEF TypeInv
  <2> QED BY Zenon, <1>1, <1>2, <2>1, CircuitUnchanged DEF TypeInv
<1>8. WordInv'
  <2>1. WordOf(0) = 0
    BY WordIs, SparseAssumption
  <2> QED BY <1>1, <2>1, SparseAssumption DEF WordInv, WordOf
<1>9. ValueInv'
  <2>1. scan' # Idle
    BY <1>1 DEF Idle
  <2>2. Start' = Start
    BY Zenon, <1>1, CircuitUnchanged DEF Start, AfterReset, ResetOn, ResetRegs
  <2>3. \A n \in Nodes : ~(circuit.super[n] < 0)
    BY <1>2, CircuitFacts DEF TypeInv
  <2>4. Between(val, scan)'
    BY Zenon, <1>1, <1>4, <2>2, <2>3, CircuitUnchanged DEF Between
  <2> QED BY Zenon, <1>1, <1>4, <2>1, <2>2, <2>4 DEF ValueInv
<1>10. CleanInv'
  <2> SUFFICES ASSUME NEW s \in Supers, ~Waiting(s)' PROVE Clean(val', s)
    BY Zenon, <1>1, CircuitUnchanged, CleanUnchanged DEF CleanInv
  <2>1. s \notin AlwaysActive /\ s \notin flags'
    BY Zenon, <1>1, CircuitUnchanged DEF Waiting, Ahead
  <2>2. Clean(val, s)
    BY Zenon, <1>1, <1>2, <1>3, <2>1 DEF CleanInv, Waiting, Ahead
  <2>3. CASE ~ResetOn(val, copy)
    <3>1. val' = val
      BY Zenon, <1>1, <2>3 DEF r, AfterReset
    <3> QED BY Zenon, <2>2, <3>1
  <2>4. CASE ResetOn(val, copy)
    <3>1. val' = ResetRegs(val)
      BY Zenon, <1>1, <2>4 DEF r, AfterReset
    <3>2. s \notin ResetActivates
      BY Zenon, <1>1, <2>1, <2>4
    <3>3. \A x \in Places : val'[x] = IF x \in Nodes /\ circuit.hasReset[x] THEN 0 ELSE val[x]
      BY Zenon, <1>2, <3>1 DEF ResetRegs, TypeInv
    <3>4. ASSUME NEW m \in Nodes, circuit.kind[m] = "src", circuit.hasReset[m]
          PROVE  s \notin ReaderSupers(m)
      <4> DEFINE regs == {n \in Nodes : circuit.kind[n] = "src" /\ circuit.hasReset[n]}
                 allNext == UNION {ReaderSupers(n) : n \in regs}
      <4>1. ResetActivates = IF Cardinality(allNext) > ResetFanout THEN Supers ELSE allNext \ AlwaysActive
        BY Zenon DEF ResetActivates
      <4>2. ReaderSupers(m) \subseteq allNext
        BY Zenon, <3>4
      <4> HIDE DEF allNext
      <4> QED BY Zenon, <2>1, <3>2, <4>1, <4>2
    <3>5. SUFFICES ASSUME NEW n \in Members(s) PROVE val'[n] = ValueOf(val', n)
      BY Zenon DEF Clean
    <3>6. n \in Nodes /\ n \in Places /\ circuit.super[n] = s /\ val[n] = ValueOf(val, n)
      BY Zenon, <2>2 DEF Clean, Members, Places
    <3>7. CASE circuit.kind[n] = "src"
      <4>1. /\ circuit.pair[n] \in Nodes /\ circuit.pair[n] \in Places
            /\ circuit.hasReset[n] = circuit.hasReset[circuit.pair[n]]
        BY <1>2, <3>6, <3>7, CircuitFacts DEF TypeInv, Places
      <4>2. val[n] = val[circuit.pair[n]]
        BY Zenon, <3>6, <3>7 DEF ValueOf
      <4>3. val'[n] = val'[circuit.pair[n]]
        BY Zenon, <3>3, <3>6, <4>1, <4>2
      <4> QED BY Zenon, <3>7, <4>3 DEF ValueOf
    <3>8. CASE circuit.kind[n] # "src"
      <4>1. ~circuit.hasReset[n]
        <5>1. circuit.kind[n] # "dst" \/ ~circuit.hasReset[n]
          BY Zenon, <1>2, <2>1, <3>2, <3>6 DEF ResetReachesDst
        <5> QED BY Zenon, <1>2, <3>6, <3>8, <5>1, CircuitFacts DEF TypeInv
      <4>2. ASSUME NEW x \in circuit.reads[n] PROVE val'[x] = val[x]
        <5>1. x \in Places /\ (x \in Nodes => circuit.kind[x] # "dst")
          BY <1>2, <3>6, CircuitFacts DEF TypeInv
        <5>2. x \in Nodes => s \in ReaderSupers(x)
          BY Zenon, <3>6, <3>8 DEF ReaderSupers, NextNodes
        <5>3. x \in Nodes => ~circuit.hasReset[x]
          BY Zenon, <1>2, <3>4, <5>1, <5>2, CircuitFacts DEF TypeInv
        <5> QED BY Zenon, <3>3, <5>1, <5>3
      <4>3. ValueOf(val', n) = ValueOf(val, n)
        BY Zenon, <3>6, <3>8, <4>2, ValueCongruence
      <4> QED BY Zenon, <3>3, <3>6, <4>1, <4>3
    <3> QED BY Zenon, <3>7, <3>8
  <2> QED BY Zenon, <2>3, <2>4
<1> QED BY Zenon, <1>1, <1>2, <1>7, <1>8, <1>9, <1>10, CircuitUnchanged DEF IndInv

\* When the scan has passed every supernode the two models agree.
LEMMA IndEndStep ==
  ASSUME IndInv, EndStep
  PROVE  IndInv'
<1>1. /\ scan >= K /\ scan' = Idle /\ local' = {} /\ entered' = FALSE
      /\ parity' = 1 - parity /\ dense' = DenseStep(dense)
      /\ UNCHANGED <<circuit, val, copy, flags>>
  BY Zenon DEF EndStep, K
<1>2. TypeInv /\ ValueInv /\ CleanInv /\ ResetReachesDst
  BY Zenon DEF IndInv
<1>3. K \in Nat /\ Supers = 0..(K - 1) /\ circuit.super \in [Nodes -> Nat]
  BY Zenon, <1>2, CircuitFacts DEF TypeInv
<1>4. scan \in Nat /\ scan # Idle
  BY <1>1, <1>2, <1>3 DEF TypeInv, Idle
<1>5. dense' = [val |-> Full, copy |-> Start.copy]
  BY Zenon, <1>1 DEF DenseStep, AfterReset, Full, Start, N
<1>6. val = Full /\ copy = Start.copy
  <2>1. copy = Start.copy /\ Between(val, scan)
    BY Zenon, <1>2, <1>4 DEF ValueInv
  <2>2. \A n \in Nodes : circuit.super[n] < scan
    <3>1. \A n \in Nodes : circuit.super[n] \in Supers
      BY Zenon DEF Supers
    <3> QED BY <1>1, <1>3, <1>4, <3>1
  <2>3. \A x \in Places : val[x] = Full[x]
    BY Zenon, <1>2, <2>1, <2>2, FullFacts DEF Between
  <2>4. val \in [Places -> Bits] /\ Full \in [Places -> Bits]
    BY Zenon, <1>2, FullFacts DEF TypeInv
  <2> QED BY <2>1, <2>3, <2>4
<1>7. TypeInv'
  <2>1. dense' \in [val : [Places -> Bits], copy : Bits]
    BY Zenon, <1>2, <1>5, FullFacts
  <2>2. parity' \in Bits
    BY <1>1, <1>2 DEF TypeInv, Bits
  <2> QED BY Zenon, <1>1, <1>2, <2>1, <2>2, CircuitUnchanged DEF TypeInv
<1>8. WordInv' /\ ValueInv'
  BY <1>1, <1>5, <1>6 DEF WordInv, ValueInv
<1>9. CleanInv'
  <2> SUFFICES ASSUME NEW s \in Supers, ~Waiting(s)' PROVE Clean(val, s)'
    BY Zenon, <1>1, CircuitUnchanged DEF CleanInv
  <2>1. s \notin AlwaysActive /\ s \notin flags
    BY Zenon, <1>1, CircuitUnchanged DEF Waiting, Ahead
  <2>2. ~(scan <= s)
    BY <1>1, <1>3, <1>4
  <2>3. Clean(val, s)
    BY Zenon, <1>2, <2>1, <2>2 DEF CleanInv, Waiting, Ahead
  <2> QED BY Zenon, <1>1, <2>1, <2>3, CleanUnchanged
<1> QED BY Zenon, <1>1, <1>2, <1>7, <1>8, <1>9, CircuitUnchanged DEF IndInv

\* A word with no flag up is skipped, another is taken as a whole or not.
LEMMA IndEnterWord ==
  ASSUME IndInv, EnterWord
  PROVE  IndInv'
<1> DEFINE w == WordOf(scan)
<1>1. scan \in Supers /\ ~entered /\ UNCHANGED <<circuit, val, copy, parity, dense>>
  BY Zenon DEF EnterWord
<1>2. TypeInv /\ WordInv /\ ValueInv /\ CleanInv /\ ResetReachesDst
  BY Zenon DEF IndInv
<1>3. K \in Nat /\ Supers = 0..(K - 1) /\ circuit.super \in [Nodes -> Nat]
  BY Zenon, <1>2, CircuitFacts DEF TypeInv
<1>4. scan \in Nat /\ scan # Idle /\ scan = w * ActiveWidth /\ w \in Nat
  BY <1>1, <1>2, <1>3, WordBounds DEF WordInv, Idle
<1>5. Between(val, scan) /\ copy = Start.copy
  BY Zenon, <1>2, <1>4 DEF ValueInv
<1>6. Start' = Start /\ Full' = Full /\ \A v, t : Between(v, t)' = Between(v', t')
  <2>1. Start' = Start
    BY Zenon, <1>1, CircuitUnchanged DEF Start, AfterReset, ResetOn, ResetRegs
  <2>2. Full' = Full
    BY <1>1, <2>1, CircuitUnchanged DEF Full, N, EvalNodes, ValueOf
  <2> QED BY Zenon, <1>1, <2>1, <2>2, CircuitUnchanged DEF Between
<1>7. \A s \in Supers : s \notin AlwaysActive /\ s \notin flags => Clean(val, s)
  BY Zenon, <1>1, <1>2 DEF CleanInv, Waiting, Ahead
<1> HIDE DEF w
<1>8. CASE Whole(w) /\ flags \cap WordIds(w) = {}
  <2>1. scan' = (w + 1) * ActiveWidth /\ UNCHANGED <<flags, local, entered>>
    BY Zenon, <1>8 DEF EnterWord, w
  <2>2. scan' \in Nat /\ scan' = scan + ActiveWidth /\ scan' # Idle
    BY <1>4, <2>1, SparseAssumption DEF Idle
  <2>3. WordOf(scan') = w + 1
    <3> DEFINE t == (w + 1) * ActiveWidth
    <3>1. t \in Nat /\ w + 1 \in Nat /\ t < t + ActiveWidth
      BY <1>4, SparseAssumption
    <3> QED BY <2>1, <3>1, WordIs
  <2>4. TypeInv' /\ WordInv'
    <3>1. TypeInv'
      BY Zenon, <1>1, <1>2, <2>1, <2>2, CircuitUnchanged DEF TypeInv
    <3>2. WordInv'
      BY Zenon, <2>1, <2>3 DEF WordInv, WordOf
    <3> QED BY Zenon, <3>1, <3>2
  <2>5. ASSUME NEW s \in Supers, scan <= s, s < scan' PROVE Clean(val, s)
    <3>1. WordOf(s) = w
      BY <1>3, <1>4, <2>2, <2>5, WordIs
    <3>2. s \in WordIds(w)
      BY Zenon, <3>1 DEF WordIds
    <3> QED BY Zenon, <1>7, <1>8, <3>2 DEF Whole
  <2>6. Between(val, scan')
    <3> DEFINE t == scan'
    <3>1. ASSUME NEW n \in Nodes, scan <= circuit.super[n], circuit.super[n] < t
          PROVE  val[n] = IF circuit.kind[n] = "src" THEN val[circuit.pair[n]] ELSE ValueOf(val, n)
      <4>1. circuit.super[n] \in Supers /\ n \in Members(circuit.super[n])
        BY Zenon DEF Supers, Members
      <4>2. val[n] = ValueOf(val, n)
        BY Zenon, <2>5, <3>1, <4>1 DEF Clean
      <4> QED BY Zenon, <4>2 DEF ValueOf
    <3>2. t \in Nat /\ scan <= t
      BY <1>4, <2>2, SparseAssumption
    <3> HIDE DEF t
    <3>3. Between(val, t)
      BY Zenon, <1>2, <1>4, <1>5, <3>1, <3>2, Advance
    <3> QED BY Zenon, <3>3 DEF t
  <2>7. ValueInv'
    BY Zenon, <1>1, <1>5, <1>6, <2>2, <2>6 DEF ValueInv
  <2>8. CleanInv'
    <3> SUFFICES ASSUME NEW s \in Supers, ~Waiting(s)' PROVE Clean(val', s)
      BY Zenon, <1>1, CircuitUnchanged, CleanUnchanged DEF CleanInv
    <3>1. s \notin AlwaysActive /\ s \notin flags
      BY Zenon, <1>1, <2>1, CircuitUnchanged DEF Waiting, Ahead
    <3> QED BY Zenon, <1>1, <1>7, <3>1
  <2> QED BY Zenon, <1>1, <1>2, <2>4, <2>7, <2>8, CircuitUnchanged DEF IndInv
<1>9. CASE ~(Whole(w) /\ flags \cap WordIds(w) = {})
  <2>1. /\ entered' = TRUE /\ scan' = scan
        /\ local' = IF Whole(w) THEN flags \cap WordIds(w) ELSE {}
        /\ flags' = IF Whole(w) THEN flags \ WordIds(w) ELSE flags
    BY Zenon, <1>9 DEF EnterWord, w
  <2>2. TypeInv'
    <3>1. flags' \in SUBSET Supers /\ local' \in SUBSET Supers
      BY Zenon, <1>2, <2>1 DEF TypeInv
    <3> QED BY Zenon, <1>1, <1>2, <2>1, <3>1, CircuitUnchanged DEF TypeInv
  <2>3. WordInv'
    BY Zenon, <2>1 DEF WordInv
  <2>4. ValueInv'
    BY Zenon, <1>1, <1>4, <1>5, <1>6, <2>1 DEF ValueInv
  <2>5. CleanInv'
    <3> SUFFICES ASSUME NEW s \in Supers, ~Waiting(s)' PROVE Clean(val', s)
      BY Zenon, <1>1, CircuitUnchanged, CleanUnchanged DEF CleanInv
    <3>1. s \notin AlwaysActive
      BY Zenon, <1>1, CircuitUnchanged DEF Waiting
    <3>2. Ahead(s)' = (scan <= s /\ WordOf(s) = w /\ Whole(WordOf(s)))
      BY Zenon, <1>1, <2>1, CircuitUnchanged DEF Ahead, w, WordOf
    <3>3. s \notin flags
      <4>1. CASE Whole(w) /\ WordOf(s) = w
        <5>1. scan <= s
          BY <1>3, <1>4, <4>1, WordBounds
        <5>2. s \notin local'
          BY Zenon, <3>2, <4>1, <5>1 DEF Waiting
        <5> QED BY Zenon, <2>1, <4>1, <5>2 DEF WordIds
      <4>2. CASE ~(Whole(w) /\ WordOf(s) = w)
        <5>1. s \notin flags'
          BY Zenon, <3>2, <4>2 DEF Waiting
        <5> QED BY Zenon, <2>1, <4>2, <5>1 DEF WordIds
      <4> QED BY Zenon, <4>1, <4>2
    <3> QED BY Zenon, <1>1, <1>7, <3>1, <3>3
  <2> QED BY Zenon, <1>1, <1>2, <2>2, <2>3, <2>4, <2>5, CircuitUnchanged DEF IndInv
<1> QED BY Zenon, <1>8, <1>9

\* A visit evaluates the supernode or finds it clean, and raises what it changes.
LEMMA IndVisit ==
  ASSUME IndInv, Visit
  PROVE  IndInv'
<1> DEFINE changed == {n \in Members(scan) : val'[n] # val[n]}
           ids == (UNION {NextActiveId(n) : n \in changed}) \ AlwaysActive
           own == {s \in ids : Whole(WordOf(scan)) /\ InOldFlag(scan, s)}
<1>1. /\ scan \in Supers /\ entered /\ scan' = scan + 1
      /\ entered' = (WordOf(scan + 1) = WordOf(scan))
      /\ UNCHANGED <<circuit, copy, parity, dense>>
  BY DEF Visit
<1>2. TypeInv /\ WordInv /\ ValueInv /\ CleanInv /\ ResetReachesDst
  BY Zenon DEF IndInv
<1>3. K \in Nat /\ Supers = 0..(K - 1) /\ circuit.super \in [Nodes -> Nat] /\ circuit \in Circuits
  BY Zenon, <1>2, CircuitFacts DEF TypeInv
<1>4. scan \in Nat /\ scan # Idle /\ scan' \in Nat /\ scan' # Idle
  BY <1>1, <1>3 DEF Idle
<1>5. Between(val, scan) /\ copy = Start.copy
  BY Zenon, <1>2, <1>4 DEF ValueInv
<1>6. Start' = Start /\ Full' = Full
  <2>1. Start' = Start
    BY Zenon, <1>1, CircuitUnchanged DEF Start, AfterReset, ResetOn, ResetRegs
  <2>2. Full' = Full
    BY <1>1, <2>1, CircuitUnchanged DEF Full, N, EvalNodes, ValueOf
  <2> QED BY Zenon, <2>1, <2>2
\* What the visit does, whether the supernode is active or not.
<1>7. /\ val' \in [Places -> Bits]
      /\ \A x \in Places : x \notin Members(scan) => val'[x] = val[x]
      /\ \A n \in Members(scan) :
           val'[n] = IF circuit.kind[n] = "src" THEN val[circuit.pair[n]] ELSE ValueOf(val', n)
      /\ local' = local \cup own /\ flags' = flags \cup (ids \ own)
  <2>1. CASE IsActive(scan)
    <3>1. /\ val' = EvalSuper(val, scan)
          /\ local' = local \cup own /\ flags' = flags \cup (ids \ own)
      BY Zenon, <2>1 DEF Visit
    <3> HIDE DEF own, ids, changed
    <3>2. PICK from, to \in Nodes :
            from <= to /\ Members(scan) = from..to /\ Min(Members(scan)) = from /\ Max(Members(scan)) = to
      BY Zenon, <1>1, <1>3, MembersRun
    <3>3. val' = EvalNodes(val, from, to)
      BY Zenon, <3>1, <3>2 DEF EvalSuper
    <3>4. val \in [Places -> Bits] /\ parity \in Bits
      BY Zenon, <1>2 DEF TypeInv
    <3> DEFINE u == val'
    <3>5. u = EvalNodes(val, from, to)
      BY Zenon, <3>3
    <3> HIDE DEF u
    <3>6. /\ u \in [Places -> Bits]
          /\ \A x \in Places : x \notin from..to => u[x] = val[x]
          /\ \A n \in from..to :
               u[n] = IF circuit.kind[n] = "src" THEN val[circuit.pair[n]] ELSE ValueOf(u, n)
      BY <1>3, <3>2, <3>4, <3>5, EvalFacts
    <3> QED BY Zenon, <3>1, <3>2, <3>6 DEF u
  <2>2. CASE ~IsActive(scan)
    <3>1. val' = val /\ flags' = flags /\ local' = local
      BY Zenon, <2>2 DEF Visit
    <3>2. changed = {} /\ ids = {} /\ own = {}
      BY Zenon, <3>1
    <3>3. ~Waiting(scan)
      BY <1>1, <1>4, <2>2 DEF IsActive, Waiting, Ahead
    <3>4. Clean(val, scan)
      BY Zenon, <1>1, <1>2, <3>3 DEF CleanInv
    <3> HIDE DEF own, ids, changed
    <3>5. \A n \in Members(scan) :
            val'[n] = IF circuit.kind[n] = "src" THEN val[circuit.pair[n]] ELSE ValueOf(val', n)
      BY ZenonT(20), <3>1, <3>4 DEF Clean, ValueOf
    <3>6. val' \in [Places -> Bits]
      BY Zenon, <1>2, <3>1 DEF TypeInv
    <3> QED BY Zenon, <3>1, <3>2, <3>5, <3>6
  <2> QED BY Zenon, <2>1, <2>2
<1>8. ids \subseteq Supers
  <2>1. ASSUME NEW n \in Nodes PROVE NextActiveId(n) \subseteq Supers
    <3>1. ReaderSupers(n) \subseteq Supers
      BY Zenon DEF ReaderSupers, NextNodes, Supers
    <3>2. circuit.pair[n] \in Nodes
      BY Zenon, <1>3, CircuitFacts
    <3>3. circuit.super[circuit.pair[n]] \in Supers
      BY Zenon, <3>2 DEF Supers
    <3> QED BY Zenon, <3>1, <3>3 DEF NextActiveId
  <2>2. changed \subseteq Nodes
    BY Zenon DEF Members
  <2> QED BY Zenon, <2>1, <2>2
<1>9. ASSUME NEW s \in Supers, NEW n \in changed, s \in NextActiveId(n), s \notin AlwaysActive
      PROVE  s \in ids
  <2> HIDE DEF changed
  <2>1. NextActiveId(n) \in {NextActiveId(m) : m \in changed}
    BY Zenon
  <2>2. s \in UNION {NextActiveId(m) : m \in changed}
    BY <1>9, <2>1, Zenon
  <2> QED BY <1>9, <2>2, Zenon
<1>10. own \subseteq ids
  OBVIOUS
<1>11. TypeInv'
  <2> HIDE DEF changed, ids, own
  <2>1. flags' \in SUBSET Supers /\ local' \in SUBSET Supers
    BY <1>2, <1>7, <1>8, <1>10 DEF TypeInv
  <2>2. entered' \in BOOLEAN
    BY Zenon, <1>1
  <2> QED BY Zenon, <1>1, <1>2, <1>4, <1>7, <2>1, <2>2, CircuitUnchanged DEF TypeInv
<1>12. WordInv'
  <2> SUFFICES ASSUME WordOf(scan + 1) # WordOf(scan) PROVE scan + 1 = WordOf(scan + 1) * ActiveWidth
    BY Zenon, <1>1 DEF WordInv, WordOf
  <2> DEFINE v == WordOf(scan)  w == WordOf(scan + 1)
  <2>1. /\ v \in Nat /\ v * ActiveWidth <= scan /\ scan < v * ActiveWidth + ActiveWidth
        /\ w \in Nat /\ w * ActiveWidth <= scan + 1 /\ scan + 1 < w * ActiveWidth + ActiveWidth
    BY <1>4, WordBounds
  <2>2. v <= w /\ v # w
    BY <1>4, WordMonotone
  <2> HIDE DEF v, w
  <2>3. (v + 1) * ActiveWidth <= w * ActiveWidth
    BY <2>1, <2>2, SparseAssumption
  <2>4. scan + 1 = w * ActiveWidth
    BY <1>4, <2>1, <2>3, SparseAssumption
  <2> QED BY Zenon, <2>4 DEF w
<1>13. ValueInv'
  <2> DEFINE u == val'
  <2>1. /\ \A x \in Places :
             ~(x \in Nodes /\ scan <= circuit.super[x] /\ circuit.super[x] < scan + 1) => u[x] = val[x]
        /\ \A n \in Nodes : scan <= circuit.super[n] /\ circuit.super[n] < scan + 1 =>
             u[n] = IF circuit.kind[n] = "src" THEN val[circuit.pair[n]] ELSE ValueOf(u, n)
    <3>1. ASSUME NEW n \in Nodes
          PROVE  n \in Members(scan) <=> scan <= circuit.super[n] /\ circuit.super[n] < scan + 1
      BY <1>3, <1>4 DEF Members
    <3>2. Members(scan) \subseteq Nodes
      BY Zenon DEF Members
    <3> HIDE DEF changed, ids, own
    <3> QED BY Zenon, <1>7, <3>1, <3>2
  <2> HIDE DEF u
  <2>2. Between(u, scan + 1)
    <3>1. scan + 1 \in Nat /\ scan <= scan + 1
      BY <1>4
    <3> QED BY Zenon, <1>2, <1>4, <1>5, <2>1, <3>1, Advance
  <2>3. Between(val, scan)'
    BY Zenon, <1>1, <1>6, <2>2, CircuitUnchanged DEF Between, u
  <2> QED BY Zenon, <1>1, <1>4, <1>5, <1>6, <2>3 DEF ValueInv
<1>14. CleanInv'
  <2> SUFFICES ASSUME NEW s \in Supers, ~Waiting(s)' PROVE Clean(val', s)
    BY Zenon, <1>1, CircuitUnchanged, CleanUnchanged DEF CleanInv
  <2> HIDE DEF changed
  <2>1. s \notin AlwaysActive
    BY Zenon, <1>1, CircuitUnchanged DEF Waiting
  <2>2. Ahead(s)' <=> /\ WordOf(scan + 1) = WordOf(scan) /\ scan + 1 <= s
                      /\ WordOf(s) = WordOf(scan + 1) /\ Whole(WordOf(s))
    BY Zenon, <1>1, CircuitUnchanged DEF Ahead, WordOf
  <2>3. WordOf(s) = WordOf(scan) /\ scan < s => WordOf(scan + 1) = WordOf(scan)
    <3> SUFFICES ASSUME WordOf(s) = WordOf(scan), scan < s PROVE WordOf(scan + 1) = WordOf(scan)
      OBVIOUS
    <3>1. s \in Nat /\ scan + 1 \in Nat /\ scan <= scan + 1 /\ scan + 1 <= s
      BY <1>3, <1>4
    <3>2. WordOf(scan) <= WordOf(scan + 1) /\ WordOf(scan + 1) <= WordOf(s)
      BY Zenon, <1>4, <3>1, WordMonotone
    <3>3. WordOf(scan) \in Nat /\ WordOf(scan + 1) \in Nat
      BY Zenon, <1>4, <3>1, WordBounds
    <3> QED BY <3>2, <3>3
  <2>4. s \in Nat
    BY <1>3
  <2>5. s \notin ids
    <3>1. CASE s \in own
      <4>1. Whole(WordOf(scan)) /\ s > scan /\ WordOf(s) = WordOf(scan)
        BY Zenon, <3>1 DEF InOldFlag
      <4>2. Ahead(s)'
        BY <1>4, <2>2, <2>3, <2>4, <4>1
      <4> QED BY Zenon, <1>7, <3>1, <4>2 DEF Waiting
    <3>2. CASE s \in ids \ own
      <4> HIDE DEF ids
      <4>1. ~(Whole(WordOf(scan)) /\ s > scan /\ WordOf(s) = WordOf(scan))
        BY Zenon, <3>2 DEF InOldFlag
      <4>2. ~Ahead(s)'
        BY <1>4, <2>2, <2>4, <4>1
      <4>3. s \in flags'
        BY Zenon, <1>7, <3>2
      <4> QED BY Zenon, <4>2, <4>3 DEF Waiting
    <3> QED BY Zenon, <3>1, <3>2
  <2>6. ASSUME NEW n \in changed PROVE s \notin NextActiveId(n)
    BY Zenon, <1>9, <2>1, <2>5
  <2> HIDE DEF ids, own
  \* A member of another supernode whose value depends on a changed node.
  <2>7. ASSUME NEW n \in Nodes, circuit.super[n] = s
        PROVE  /\ circuit.kind[n] = "src" => val'[circuit.pair[n]] = val[circuit.pair[n]]
               /\ circuit.kind[n] # "src" /\ s # scan =>
                    \A r \in circuit.reads[n] : val'[r] = val[r]
    <3>1. ASSUME circuit.kind[n] = "src", val'[circuit.pair[n]] # val[circuit.pair[n]] PROVE FALSE
      <4> DEFINE d == circuit.pair[n]
      <4>1. d \in Nodes /\ d \in Places /\ circuit.kind[d] = "dst" /\ circuit.pair[d] = n
        BY <1>3, <3>1, CircuitFacts DEF Places
      <4>2. d \in changed
        BY Zenon, <1>7, <3>1, <4>1 DEF changed
      <4>3. s \in NextActiveId(d)
        BY Zenon, <2>7, <4>1 DEF NextActiveId
      <4> QED BY Zenon, <2>6, <4>2, <4>3
    <3>2. ASSUME circuit.kind[n] # "src", s # scan, NEW r \in circuit.reads[n], val'[r] # val[r] PROVE FALSE
      <4>1. r \in Places
        BY <1>3, CircuitFacts
      <4>2. r \in changed /\ circuit.super[r] = scan
        BY Zenon, <1>7, <3>2, <4>1 DEF changed, Members
      <4>3. s \in NextActiveId(r)
        BY Zenon, <2>7, <3>2, <4>2 DEF NextActiveId, ReaderSupers, NextNodes
      <4> QED BY Zenon, <2>6, <4>2, <4>3
    <3> QED BY Zenon, <3>1, <3>2
  <2>8. CASE s = scan
    <3> SUFFICES ASSUME NEW n \in Members(s) PROVE val'[n] = ValueOf(val', n)
      BY Zenon DEF Clean
    <3>1. n \in Nodes /\ circuit.super[n] = s
      BY Zenon DEF Members
    <3>2. val'[n] = IF circuit.kind[n] = "src" THEN val[circuit.pair[n]] ELSE ValueOf(val', n)
      BY Zenon, <1>7, <2>8
    <3> QED BY <2>7, <3>1, <3>2 DEF ValueOf
  <2>9. CASE s # scan
    <3>1. ~Waiting(s)
      <4>1. s \notin (IF Ahead(s)' THEN local' ELSE flags')
        BY Zenon DEF Waiting
      <4>2. Ahead(s)' <=> Ahead(s)
        BY <1>1, <1>4, <2>2, <2>3, <2>4, <2>9 DEF Ahead
      <4> QED BY Zenon, <1>7, <2>1, <4>1, <4>2 DEF Waiting
    <3>2. Clean(val, s)
      BY Zenon, <1>2, <3>1 DEF CleanInv
    <3>3. ASSUME NEW n \in Members(s)
          PROVE  /\ val'[n] = val[n]
                 /\ IF circuit.kind[n] = "src" THEN val'[circuit.pair[n]] = val[circuit.pair[n]]
                    ELSE \A r \in circuit.reads[n] : val'[r] = val[r]
      <4>1. n \in Nodes /\ circuit.super[n] = s /\ n \in Places /\ n \notin Members(scan)
        BY Zenon, <2>9 DEF Members, Places
      <4> QED BY Zenon, <1>7, <2>7, <2>9, <4>1
    <3> QED BY Zenon, <1>3, <3>2, <3>3, StaysClean
  <2> QED BY Zenon, <2>8, <2>9
<1> QED BY Zenon, <1>1, <1>2, <1>11, <1>12, <1>13, <1>14, CircuitUnchanged DEF IndInv

-----------------------------------------------------------------------------

\* Between steps of the serial sparse step every value is the one of the model that
\* evaluates everything: subStepN never leaves out a supernode that would have
\* computed something else, whatever the circuit, the width of a word, the inputs
\* and their order, provided that the reset activates the supernodes that compute
\* the next values of the registers it resets.
THEOREM SerialSparseExact == Spec /\ ResetReachesDst => []SparseExact
<1>1. Init /\ ResetReachesDst => IndInv
  BY Zenon, IndInit
<1>2. IndInv /\ [Next]_vars => IndInv'
  <2> SUFFICES ASSUME IndInv, [Next]_vars PROVE IndInv'
    OBVIOUS
  <2>1. CASE BeginStep
    BY Zenon, <2>1, IndBeginStep
  <2>2. CASE EnterWord
    BY Zenon, <2>2, IndEnterWord
  <2>3. CASE Visit
    BY Zenon, <2>3, IndVisit
  <2>4. CASE EndStep
    BY Zenon, <2>4, IndEndStep
  <2>5. ASSUME NEW i \in Inputs, NEW b \in 0..1, SetInput(i, b) PROVE IndInv'
    BY Zenon, <2>5, IndSetInput DEF Bits
  <2>6. CASE UNCHANGED vars
    <3>1. UNCHANGED circuit /\ UNCHANGED <<val, copy, flags, local, scan, entered, parity, dense>>
      BY Zenon, <2>6 DEF vars
    <3>2. Start' = Start
      BY Zenon, <3>1, CircuitUnchanged DEF Start, AfterReset, ResetOn, ResetRegs
    <3>3. Full' = Full
      BY <3>1, <3>2, CircuitUnchanged DEF Full, N, EvalNodes, ValueOf
    <3>4. TypeInv' /\ WordInv'
      BY Zenon, <3>1, CircuitUnchanged DEF IndInv, TypeInv, WordInv, WordOf
    <3>5. ValueInv'
      BY Zenon, <3>1, <3>2, <3>3, CircuitUnchanged DEF IndInv, ValueInv, Between
    <3>6. CleanInv'
      <4> SUFFICES ASSUME NEW s \in Supers, ~Waiting(s)' PROVE Clean(val, s)'
        BY Zenon, <3>1, CircuitUnchanged DEF CleanInv
      <4>1. ~Waiting(s)
        BY Zenon, <3>1, CircuitUnchanged DEF Waiting, Ahead, WordOf
      <4>2. Clean(val, s)
        BY Zenon, <4>1 DEF IndInv, CleanInv
      <4> QED BY Zenon, <3>1, <4>2, CleanUnchanged
    <3> QED BY Zenon, <3>1, <3>4, <3>5, <3>6, CircuitUnchanged DEF IndInv
  <2> QED BY Zenon, <2>1, <2>2, <2>3, <2>4, <2>5, <2>6 DEF Next
<1>3. IndInv => SparseExact
  BY Zenon DEF IndInv, ValueInv, SparseExact
<1> QED BY <1>1, <1>2, <1>3, PTL DEF Spec
=============================================================================
