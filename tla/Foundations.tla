----------------------------- MODULE Foundations ----------------------------
(***************************************************************************)
(* Induction and recursion over intervals of integers, with a set in place *)
(* of the predicate and a function in place of the step, so that the       *)
(* theorems are first-order.  Then graphs, as functions from a node to the *)
(* set of its successors: what a search reaches, and what merging two      *)
(* nodes does to acyclicity.                                               *)
(***************************************************************************)
EXTENDS Integers, TLAPS, WellFoundedInduction, FiniteSetTheorems

NatOrder == OpToRel(<, Nat)

\* The order of the naturals, as a relation.
LEMMA NatOrderDef == ASSUME NEW x \in Nat, NEW y \in Nat PROVE <<x, y>> \in NatOrder <=> x < y
<1>1. NatOrder = {ss \in Nat \X Nat : ss[1] < ss[2]}
  BY Zenon DEF NatOrder, OpToRel
<1> QED BY Zenon, <1>1

\* A non-empty set of naturals has a least element.
LEMMA LeastNat ==
  ASSUME NEW T \in SUBSET Nat, T # {}
  PROVE  \E x \in T : \A y \in T : x <= y
<1>1. IsWellFoundedOn(NatOrder, Nat)
  BY Zenon, NatLessThanWellFounded DEF NatOrder
<1>2. PICK x \in T : \A y \in T : <<y, x>> \notin NatOrder
  BY Zenon, <1>1, WFMin
<1>3. ASSUME NEW y \in T PROVE x <= y
  <2>1. ~(y < x)
    BY Zenon, <1>2, NatOrderDef
  <2> QED BY <2>1
<1> QED BY Zenon, <1>3

\* A set that has lo, and with a member of the interval the next one, has all.
LEMMA IntervalInduction ==
  ASSUME NEW lo \in Int, NEW hi \in Int, NEW S,
         lo \in S, \A i \in lo..(hi - 1) : i \in S => i + 1 \in S
  PROVE  \A i \in lo..hi : i \in S
<1> SUFFICES ASSUME NEW n \in lo..hi, n \notin S PROVE FALSE
  OBVIOUS
<1> DEFINE T == {k \in Nat : lo + k <= hi /\ lo + k \notin S}
<1>1. n - lo \in T
  OBVIOUS
<1>2. PICK x \in T : \A y \in T : x <= y
  BY Zenon, <1>1, LeastNat
<1>3. x # 0 /\ x - 1 \in Nat /\ x - 1 \notin T
  BY <1>2
<1>4. lo + (x - 1) \in S /\ lo + (x - 1) \in lo..(hi - 1)
  BY <1>2, <1>3
<1>5. (lo + (x - 1)) + 1 \in S
  BY Zenon, <1>4
<1> QED BY <1>2, <1>5

\* The same downwards.
LEMMA DownwardInduction ==
  ASSUME NEW lo \in Int, NEW hi \in Int, NEW S,
         hi \in S, \A i \in (lo + 1)..hi : i \in S => i - 1 \in S
  PROVE  \A i \in lo..hi : i \in S
<1> SUFFICES ASSUME NEW n \in lo..hi, n \notin S PROVE FALSE
  OBVIOUS
<1> DEFINE T == {k \in Nat : lo <= hi - k /\ hi - k \notin S}
<1>1. hi - n \in T
  OBVIOUS
<1>2. PICK x \in T : \A y \in T : x <= y
  BY Zenon, <1>1, LeastNat
<1>3. x # 0 /\ x - 1 \in Nat /\ x - 1 \notin T
  BY <1>2
<1>4. hi - (x - 1) \in S /\ hi - (x - 1) \in (lo + 1)..hi
  BY <1>2, <1>3
<1>5. (hi - (x - 1)) - 1 \in S
  BY Zenon, <1>4
<1> QED BY <1>2, <1>5

\* A set that has a member of 0..(n - 1) as soon as it has all larger ones.
LEMMA FromAbove ==
  ASSUME NEW n \in Nat, NEW S,
         \A m \in 0..(n - 1) : (\A k \in 0..(n - 1) : k > m => k \in S) => m \in S
  PROVE  \A m \in 0..(n - 1) : m \in S
<1> SUFFICES ASSUME NEW m \in 0..(n - 1), m \notin S PROVE FALSE
  OBVIOUS
<1> DEFINE T == {j \in Nat : n - j \in 0..(n - 1) /\ n - j \notin S}
<1>1. n - m \in T
  OBVIOUS
<1>2. PICK j \in T : \A i \in T : j <= i
  BY Zenon, <1>1, LeastNat
<1>3. ASSUME NEW k \in 0..(n - 1), k > n - j PROVE k \in S
  <2>1. n - k \in Nat /\ ~(j <= n - k) /\ n - (n - k) = k
    BY <1>2, <1>3
  <2> QED BY <1>2, <2>1
<1>4. n - j \in 0..(n - 1) /\ n - j \notin S
  BY Zenon, <1>2
<1> HIDE DEF T
<1> QED BY Zenon, <1>3, <1>4

\* A set that has a member of 0..(n - 1) as soon as it has all smaller ones.
LEMMA FromBelow ==
  ASSUME NEW n \in Nat, NEW S,
         \A m \in 0..(n - 1) : (\A k \in 0..(n - 1) : k < m => k \in S) => m \in S
  PROVE  \A m \in 0..(n - 1) : m \in S
<1> SUFFICES ASSUME NEW m \in 0..(n - 1), m \notin S PROVE FALSE
  OBVIOUS
<1> DEFINE T == {j \in 0..(n - 1) : j \notin S}
<1>1. T \in SUBSET Nat /\ m \in T
  OBVIOUS
<1>2. PICK j \in T : \A i \in T : j <= i
  BY Zenon, <1>1, LeastNat
<1>3. ASSUME NEW k \in 0..(n - 1), k < j PROVE k \in S
  BY <1>2, <1>3
<1> QED BY Zenon, <1>2, <1>3

\* f begins with base, and every later value comes from the one before.
Recurses(f, lo, hi, base, step) ==
  \A i \in lo..hi : f[i] = IF i = lo THEN base ELSE step[<<i, f[i - 1]>>]

\* A function can be defined by recursion from the lower end of an interval.
LEMMA IntervalRecursion ==
  ASSUME NEW lo \in Int, NEW hi \in Int, NEW S, NEW base \in S, NEW step \in [Int \X S -> S]
  PROVE  \E f \in [lo..hi -> S] : Recurses(f, lo, hi, base, step)
<1> DEFINE Upto(f, n) == Recurses(f, lo, n, base, step)
           A == {n \in Int : \E f \in [lo..n -> S] : Upto(f, n)}
<1>1. lo \in A
  <2>1. [i \in lo..lo |-> base] \in [lo..lo -> S] /\ Upto([i \in lo..lo |-> base], lo)
    BY DEF Recurses
  <2> QED BY Zenon, <2>1
<1>2. ASSUME NEW n \in lo..(hi - 1), n \in A PROVE n + 1 \in A
  <2>1. PICK f \in [lo..n -> S] : Upto(f, n)
    BY Zenon, <1>2
  <2>a. f[n] \in S /\ step[<<n + 1, f[n]>>] \in S
    <3>1. f[n] \in S /\ n + 1 \in Int
      OBVIOUS
    <3> HIDE DEF A
    <3> QED BY Zenon, <3>1
  <2> DEFINE last == step[<<n + 1, f[n]>>]
             g == [i \in lo..(n + 1) |-> IF i = n + 1 THEN last ELSE f[i]]
  <2> HIDE DEF last
  <2>2. /\ g \in [lo..(n + 1) -> S] /\ g[n + 1] = last /\ \A i \in lo..n : g[i] = f[i]
    BY <2>a DEF last
  <2> HIDE DEF g
  <2>3. Upto(g, n + 1)
    <3> SUFFICES ASSUME NEW i \in lo..(n + 1)
                 PROVE  g[i] = IF i = lo THEN base ELSE step[<<i, g[i - 1]>>]
      BY Zenon DEF Recurses
    <3>1. CASE i = n + 1
      <4>1. g[i] = last /\ i # lo /\ i - 1 = n /\ g[i - 1] = f[n]
        BY <2>2, <3>1
      <4> QED BY Zenon, <3>1, <4>1 DEF last
    <3>2. CASE i # n + 1
      <4>1. i \in lo..n /\ g[i] = f[i] /\ (i # lo => i - 1 \in lo..n /\ g[i - 1] = f[i - 1])
        BY <2>2, <3>2
      <4> QED BY Zenon, <2>1, <4>1 DEF Recurses
    <3> QED BY Zenon, <3>1, <3>2
  <2> HIDE DEF Upto
  <2> QED BY <2>2, <2>3
<1> HIDE DEF A
<1>3. \A i \in lo..hi : i \in A
  BY Zenon, <1>1, <1>2, IntervalInduction
<1>4. CASE lo <= hi
  <2>1. hi \in A
    BY <1>3, <1>4
  <2>2. PICK f \in [lo..hi -> S] : Upto(f, hi)
    BY Zenon, <2>1 DEF A
  <2> QED BY Zenon, <2>2
<1>5. CASE hi < lo
  <2>1. lo..hi = {}
    BY <1>5
  <2>2. [i \in lo..hi |-> base] \in [lo..hi -> S]
    OBVIOUS
  <2> QED BY Zenon, <2>1, <2>2 DEF Recurses
<1> QED BY <1>4, <1>5
-----------------------------------------------------------------------------
(* What a search finds *)

\* The nodes of a graph of n.
Comps(n) == 0..(n - 1)

Grow(f, s) == s \cup UNION {f[x] : x \in s}

\* V is the least set that has base and is closed under f.
LeastClosed(f, base, V) ==
  /\ base \subseteq V
  /\ V \subseteq DOMAIN f
  /\ \A x \in V : f[x] \subseteq V
  /\ \A X \in SUBSET (DOMAIN f) : base \subseteq X /\ (\A x \in X : f[x] \subseteq X) => V \subseteq X

\* t is s and what f leads to from there.
OneMore(f, s, t) ==
  /\ s \subseteq t
  /\ \A x \in s : f[x] \subseteq t
  /\ \A X : s \subseteq X /\ (\A x \in s : f[x] \subseteq X) => t \subseteq X

\* One round of growing.
LEMMA GrowFacts == ASSUME NEW f, NEW s PROVE OneMore(f, s, Grow(f, s))
BY DEF Grow, OneMore

\* n rounds of growing reach everything there is to reach among n nodes: each
\* round before the last adds a node, or adds nothing from then on.
LEMMA WaveIsLeast ==
  ASSUME NEW n \in Nat, NEW f \in [Comps(n) -> SUBSET Comps(n)], NEW base \in SUBSET Comps(n), NEW w,
         w[0] = base, \A k \in 1..n : w[k] = Grow(f, w[k - 1])
  PROVE  LeastClosed(f, base, w[n])
<1> DEFINE D == Comps(n)
           Shut(X) == \A x \in X : f[x] \subseteq X
<1>0. DOMAIN f = D /\ \A x \in D : f[x] \subseteq D
  BY Zenon
<1>a. /\ 0 \in 0..n /\ n \in 0..n /\ 0 \in Int /\ n \in Int
      /\ \A k \in 0..(n - 1) : k + 1 \in 1..n /\ (k + 1) - 1 = k
  OBVIOUS
<1>b. IsFiniteSet(D) /\ Cardinality(D) = n
  <2>1. IsFiniteSet(0..(n - 1)) /\ Cardinality(0..(n - 1)) = IF 0 > n - 1 THEN 0 ELSE (n - 1) - 0 + 1
    <3>1. 0 \in Int /\ n - 1 \in Int
      OBVIOUS
    <3> QED BY Zenon, <3>1, FS_Interval
  <2> QED BY <2>1 DEF Comps
<1> HIDE DEF D
<1>g. \A k \in 0..(n - 1) : OneMore(f, w[k], w[k + 1])
  <2>1. \A k \in 0..(n - 1) : w[k + 1] = Grow(f, w[k])
    BY Zenon, <1>a
  <2> QED BY Zenon, <2>1, GrowFacts
<1>1. ASSUME NEW X \in SUBSET D, base \subseteq X, Shut(X) PROVE \A k \in 0..n : w[k] \subseteq X
  <2> DEFINE A == {k \in 0..n : w[k] \subseteq X}
  <2>1. 0 \in A
    BY Zenon, <1>1, <1>a
  <2>2. ASSUME NEW k \in 0..(n - 1), k \in A PROVE k + 1 \in A
    <3>1. k + 1 \in 0..n
      OBVIOUS
    <3>2. w[k] \subseteq X
      BY Zenon, <2>2
    <3>3. w[k + 1] \subseteq X
      BY Zenon, <1>1, <1>g, <3>2 DEF OneMore
    <3> QED BY Zenon, <3>1, <3>3
  <2> HIDE DEF A
  <2>3. \A k \in 0..n : k \in A
    BY Zenon, <1>a, <2>1, <2>2, IntervalInduction
  <2> QED BY Zenon, <2>3 DEF A
<1>2. \A k \in 0..n : w[k] \subseteq D
  BY Zenon, <1>0, <1>1
<1>4. base \subseteq w[n]
  <2> DEFINE A == {k \in 0..n : base \subseteq w[k]}
  <2>1. 0 \in A
    BY Zenon, <1>a
  <2>2. ASSUME NEW k \in 0..(n - 1), k \in A PROVE k + 1 \in A
    <3>1. k + 1 \in 0..n
      OBVIOUS
    <3> QED BY Zenon, <1>g, <2>2, <3>1 DEF OneMore
  <2> HIDE DEF A
  <2>3. \A k \in 0..n : k \in A
    BY Zenon, <1>a, <2>1, <2>2, IntervalInduction
  <2> QED BY Zenon, <1>a, <2>3 DEF A
\* As long as the last wave is not closed every wave has a node more.
<1>5. ASSUME ~Shut(w[n]) PROVE \A k \in 0..n : k <= Cardinality(w[k]) /\ ~Shut(w[k])
  <2> DEFINE A == {k \in 0..n : ~Shut(w[k])}
  <2>1. n \in A
    BY Zenon, <1>5, <1>a
  <2>2. ASSUME NEW k \in (0 + 1)..n, k \in A PROVE k - 1 \in A
    <3>1. k - 1 \in 0..(n - 1) /\ k - 1 \in 0..n /\ (k - 1) + 1 = k
      OBVIOUS
    <3>2. OneMore(f, w[k - 1], w[k])
      BY Zenon, <1>g, <3>1
    <3>3. ASSUME Shut(w[k - 1]) PROVE FALSE
      <4>1. w[k] = w[k - 1]
        BY Zenon, <3>2, <3>3 DEF OneMore
      <4> QED BY Zenon, <2>2, <3>3, <4>1
    <3> QED BY Zenon, <3>1, <3>3
  <2> HIDE DEF A
  <2>3. \A k \in 0..n : k \in A
    BY Zenon, <1>a, <2>1, <2>2, DownwardInduction
  <2>4. \A k \in 0..n : ~Shut(w[k])
    BY Zenon, <2>3 DEF A
  <2> DEFINE B == {k \in 0..n : k <= Cardinality(w[k])}
  <2>5. 0 \in B
    <3>1. IsFiniteSet(w[0])
      BY Zenon, <1>2, <1>a, <1>b, FS_Subset
    <3>2. Cardinality(w[0]) \in Nat
      BY Zenon, <3>1, FS_CardinalityType
    <3> QED BY <1>a, <3>2
  <2>6. ASSUME NEW k \in 0..(n - 1), k \in B PROVE k + 1 \in B
    <3>1. k \in 0..n /\ k + 1 \in 0..n
      OBVIOUS
    <3>2. IsFiniteSet(w[k + 1]) /\ w[k] \subseteq w[k + 1]
      BY Zenon, <1>2, <1>g, <1>b, <3>1, FS_Subset DEF OneMore
    <3>3. w[k] # w[k + 1]
      <4>1. PICK x \in w[k] : ~(f[x] \subseteq w[k])
        BY Zenon, <2>4, <3>1
      <4> QED BY Zenon, <1>g, <4>1 DEF OneMore
    <3>4. /\ IsFiniteSet(w[k]) /\ Cardinality(w[k]) <= Cardinality(w[k + 1])
          /\ Cardinality(w[k]) # Cardinality(w[k + 1])
      BY Zenon, <3>2, <3>3, FS_Subset
    <3>5. Cardinality(w[k]) \in Nat /\ Cardinality(w[k + 1]) \in Nat
      BY Zenon, <3>2, <3>4, FS_CardinalityType
    <3>6. k <= Cardinality(w[k])
      BY Zenon, <2>6
    <3> QED BY <3>1, <3>4, <3>5, <3>6
  <2> HIDE DEF B
  <2>7. \A k \in 0..n : k \in B
    BY Zenon, <1>a, <2>5, <2>6, IntervalInduction
  <2> QED BY Zenon, <2>4, <2>7 DEF B
<1>6. Shut(w[n])
  <2> SUFFICES ASSUME ~Shut(w[n]) PROVE FALSE
    OBVIOUS
  <2>1. n <= Cardinality(w[n]) /\ w[n] \subseteq D
    BY Zenon, <1>2, <1>5, <1>a
  <2>2. Cardinality(w[n]) <= Cardinality(D) /\ (Cardinality(w[n]) = Cardinality(D) => w[n] = D) /\ IsFiniteSet(w[n])
    BY Zenon, <1>b, <2>1, FS_Subset
  <2>3. Cardinality(w[n]) \in Nat
    BY Zenon, <2>2, FS_CardinalityType
  <2>4. Cardinality(w[n]) = Cardinality(D)
    BY <1>b, <2>1, <2>2, <2>3
  <2>5. w[n] = D
    BY Zenon, <2>2, <2>4
  <2> QED BY Zenon, <1>0, <2>5
<1> QED BY Zenon, <1>0, <1>1, <1>2, <1>4, <1>6, <1>a DEF LeastClosed

\* The waves a search describes exist.
LEMMA WaveExists ==
  ASSUME NEW n \in Nat, NEW f \in [Comps(n) -> SUBSET Comps(n)], NEW base \in SUBSET Comps(n)
  PROVE  \E w \in [0..n -> SUBSET Comps(n)] :
           \A k \in 0..n : w[k] = IF k = 0 THEN base ELSE Grow(f, w[k - 1])
<1> DEFINE S == SUBSET Comps(n)
           step == [p \in Int \X S |-> Grow(f, p[2])]
<1>0. n \in Int /\ 0 \in Int
  OBVIOUS
<1>1. \A s \in S : Grow(f, s) \in S
  BY DEF Grow
<1>2. step \in [Int \X S -> S]
  BY Zenon, <1>1
<1>3. \A k \in Int : \A s \in S : step[<<k, s>>] = Grow(f, s)
  <2> HIDE DEF S
  <2> QED OBVIOUS
<1>4. base \in S
  OBVIOUS
<1> HIDE DEF S, step
<1>5. PICK g \in [0..n -> S] : Recurses(g, 0, n, base, step)
  BY Zenon, <1>0, <1>2, <1>4, IntervalRecursion
<1>6. ASSUME NEW k \in 0..n PROVE g[k] = IF k = 0 THEN base ELSE Grow(f, g[k - 1])
  <2>1. g[k] = IF k = 0 THEN base ELSE step[<<k, g[k - 1]>>]
    BY Zenon, <1>5 DEF Recurses
  <2>2. CASE k = 0
    BY Zenon, <2>1, <2>2
  <2>3. CASE k # 0
    <3>1. k \in Int /\ k - 1 \in 0..n
      BY <2>3
    <3>2. g[k - 1] \in S
      BY Zenon, <1>5, <3>1
    <3>3. step[<<k, g[k - 1]>>] = Grow(f, g[k - 1])
      BY Zenon, <1>3, <3>1, <3>2
    <3> QED BY Zenon, <2>1, <2>3, <3>3
  <2> QED BY Zenon, <2>2, <2>3
<1> QED BY Zenon, <1>5, <1>6 DEF S

\* A least closed set stays one in a part of the graph that has its base and that
\* nothing leaves.
LEMMA LeastInPart ==
  ASSUME NEW D, NEW f \in [D -> SUBSET D], NEW L \in SUBSET D, NEW g, DOMAIN g = L,
         \A x \in L : g[x] = f[x] /\ f[x] \subseteq L,
         NEW base \in SUBSET L, NEW V, LeastClosed(f, base, V)
  PROVE  LeastClosed(g, base, V)
<1>0. DOMAIN f = D
  BY Zenon
<1>1. /\ base \subseteq V /\ V \subseteq D
      /\ \A x \in V : f[x] \subseteq V
      /\ \A X \in SUBSET D : base \subseteq X /\ (\A x \in X : f[x] \subseteq X) => V \subseteq X
  BY Zenon, <1>0 DEF LeastClosed
<1>2. V \subseteq L
  BY Zenon, <1>1
<1>3. \A x \in V : g[x] \subseteq V
  BY Zenon, <1>1, <1>2
<1>4. ASSUME NEW X \in SUBSET L, base \subseteq X, \A x \in X : g[x] \subseteq X PROVE V \subseteq X
  <2>1. X \in SUBSET D /\ \A x \in X : f[x] \subseteq X
    BY Zenon, <1>4
  <2> QED BY Zenon, <1>1, <1>4, <2>1
<1> QED BY Zenon, <1>1, <1>2, <1>3, <1>4 DEF LeastClosed

-----------------------------------------------------------------------------
(* Merging two nodes of an acyclic graph *)

\* Every non-empty set of nodes has one that no node of the set leads to.
Sourced(q, X) == \E r \in X : \A p \in X : r \notin q[p]
AcyclicGraph(q) == \A X \in SUBSET (DOMAIN q) : X # {} => Sourced(q, X)

MergedGraph(q, a, b) ==
  [r \in DOMAIN q \ {b} |->
     IF r = a THEN (q[a] \cup q[b]) \ {a, b}
     ELSE IF b \in q[r] THEN (q[r] \ {b}) \cup {a} ELSE q[r]]

\* V has what a reaches without its edge to b, W what b reaches; neither has
\* the other one.
Apart(q, a, b, V, W) ==
  /\ a \in V /\ b \notin V /\ q[a] \ {b} \subseteq V
  /\ \A x \in V \cap DOMAIN q : x # a => q[x] \subseteq V
  /\ b \in W /\ a \notin W
  /\ \A x \in W \cap DOMAIN q : q[x] \subseteq W

\* The edges of a merged graph that do not end in the merged node.
LEMMA MergedEdge ==
  ASSUME NEW q, NEW a, NEW b, NEW p \in DOMAIN q \ {b}, NEW r, r # a
  PROVE  r \in MergedGraph(q, a, b)[p] <=> r # b /\ (r \in q[p] \/ (p = a /\ r \in q[b]))
BY Zenon DEF MergedGraph

\* The edges into the merged node.
LEMMA MergedIntoA ==
  ASSUME NEW q, NEW a, NEW b, a # b, NEW p \in DOMAIN q \ {b}
  PROVE  a \in MergedGraph(q, a, b)[p] <=> p # a /\ (a \in q[p] \/ b \in q[p])
BY Zenon DEF MergedGraph

\* Where no other path joins two nodes, merging them closes no cycle: a set
\* without a source in the merged graph would have been one before, on the side of
\* a or of b from which it is entered.
LEMMA MergeKeepsAcyclic ==
  ASSUME NEW q, NEW a \in DOMAIN q, NEW b \in DOMAIN q, a # b, AcyclicGraph(q),
         NEW V, NEW W, Apart(q, a, b, V, W)
  PROVE  AcyclicGraph(MergedGraph(q, a, b))
<1> DEFINE L == DOMAIN q
           m == MergedGraph(q, a, b)
<1>0. DOMAIN m = L \ {b}
  BY Zenon DEF MergedGraph
<1>1. ASSUME NEW p \in L \ {b}, NEW r, r # a PROVE r \in m[p] <=> r # b /\ (r \in q[p] \/ (p = a /\ r \in q[b]))
  BY Zenon, <1>1, MergedEdge
<1>2. \A p \in L \ {b} : a \in m[p] <=> p # a /\ (a \in q[p] \/ b \in q[p])
  BY Zenon, MergedIntoA
<1> HIDE DEF m
<1> SUFFICES ASSUME NEW X \in SUBSET (L \ {b}), X # {}, ~Sourced(m, X) PROVE FALSE
  BY Zenon, <1>0 DEF AcyclicGraph, m
<1>3. \A r \in X : \E p \in X : r \in m[p]
  BY Zenon DEF Sourced
<1>4. ASSUME NEW U \in SUBSET L, U # {}, \A r \in U : \E p \in U : r \in q[p] PROVE FALSE
  BY Zenon, <1>4 DEF AcyclicGraph, Sourced
<1>5. CASE a \notin X
  <2>1. ASSUME NEW r \in X PROVE \E p \in X : r \in q[p]
    <3>1. PICK p \in X : r \in m[p]
      BY Zenon, <1>3
    <3> QED BY Zenon, <1>1, <1>5, <3>1
  <2> QED BY Zenon, <1>4, <2>1
<1>6. CASE a \in X
  <2>1. PICK c \in X : a \in m[c]
    BY Zenon, <1>3, <1>6
  <2>2. c # a /\ c # b /\ c \in L /\ (a \in q[c] \/ b \in q[c])
    BY Zenon, <1>2, <2>1
  <2>3. CASE b \in q[c]
    <3> DEFINE U == (X \cup {b}) \ V
    <3>1. c \in U /\ b \in U /\ a \notin U
      BY Zenon, <2>2, <2>3 DEF Apart
    <3>2. ASSUME NEW r \in U PROVE \E p \in U : r \in q[p]
      <4>1. CASE r = b
        BY Zenon, <2>3, <3>1, <4>1
      <4>2. CASE r # b
        <5>1. r \in X /\ r # a /\ r \notin V
          BY Zenon, <3>1, <4>2
        <5>2. PICK p \in X : r \in m[p]
          BY Zenon, <1>3, <5>1
        <5>3. p \in L /\ p # b /\ (r \in q[p] \/ (p = a /\ r \in q[b]))
          BY Zenon, <1>1, <5>1, <5>2
        <5>4. CASE p = a
          BY Zenon, <3>1, <4>2, <5>1, <5>3, <5>4 DEF Apart
        <5>5. CASE p # a
          BY Zenon, <5>1, <5>3, <5>5 DEF Apart
        <5> QED BY Zenon, <5>4, <5>5
      <4> QED BY Zenon, <4>1, <4>2
    <3>3. U \subseteq L
      OBVIOUS
    <3> QED BY Zenon, <1>4, <3>1, <3>2, <3>3
  <2>4. CASE a \in q[c]
    <3> DEFINE U == X \ W
    <3>1. c \in U /\ a \in U /\ b \notin U
      BY Zenon, <1>6, <2>2, <2>4 DEF Apart
    <3>2. ASSUME NEW r \in U PROVE \E p \in U : r \in q[p]
      <4>1. CASE r = a
        BY Zenon, <2>4, <3>1, <4>1
      <4>2. CASE r # a
        <5>1. r \in X /\ r \notin W
          BY Zenon
        <5>2. PICK p \in X : r \in m[p]
          BY Zenon, <1>3, <5>1
        <5>3. p \in L /\ p # b /\ (r \in q[p] \/ (p = a /\ r \in q[b]))
          BY Zenon, <1>1, <4>2, <5>2
        <5>4. CASE p = a
          BY Zenon, <3>1, <5>1, <5>3, <5>4 DEF Apart
        <5>5. CASE p # a
          BY Zenon, <5>1, <5>3, <5>5 DEF Apart
        <5> QED BY Zenon, <5>4, <5>5
      <4> QED BY Zenon, <4>1, <4>2
    <3>3. U \subseteq L
      OBVIOUS
    <3> QED BY Zenon, <1>4, <3>1, <3>2, <3>3
  <2> QED BY Zenon, <2>2, <2>3, <2>4
<1> QED BY Zenon, <1>5, <1>6

\* What b reaches does not have a node with an edge to b.
LEMMA NoWayBack ==
  ASSUME NEW q, AcyclicGraph(q), NEW a, NEW b, b \in q[a], NEW W, LeastClosed(q, {b}, W)
  PROVE  a \notin W
<1> SUFFICES ASSUME a \in W PROVE FALSE
  OBVIOUS
<1>1. b \in W /\ W \in SUBSET (DOMAIN q) /\ \A x \in W : q[x] \subseteq W
  BY Zenon DEF LeastClosed
<1>2. PICK r \in W : \A p \in W : r \notin q[p]
  BY Zenon, <1>1 DEF AcyclicGraph, Sourced
<1>3. r # b
  BY Zenon, <1>2
<1>4. W \subseteq W \ {r}
  <2>1. W \ {r} \in SUBSET (DOMAIN q) /\ {b} \subseteq W \ {r}
    BY Zenon, <1>1, <1>3
  <2>2. \A x \in W \ {r} : q[x] \subseteq W \ {r}
    BY Zenon, <1>1, <1>2
  <2> QED BY <2>1, <2>2 DEF LeastClosed
<1> QED BY Zenon, <1>2, <1>4

\* The edges the other way round.
Inverted(q) == [r \in DOMAIN q |-> {p \in DOMAIN q : r \in q[p]}]

\* Merging and turning the edges round commute.
LEMMA InvertedMerge ==
  ASSUME NEW L, NEW q \in [L -> SUBSET L], NEW a \in L, NEW b \in L, a # b
  PROVE  Inverted(MergedGraph(q, a, b)) = MergedGraph(Inverted(q), a, b)
<1> DEFINE m == MergedGraph(q, a, b)
           i == Inverted(q)
           j == MergedGraph(i, a, b)
<1>0. DOMAIN q = L /\ DOMAIN m = L \ {b} /\ DOMAIN i = L /\ DOMAIN j = L \ {b}
  BY Zenon DEF MergedGraph, Inverted
<1>1. \A r \in L, p \in L : p \in i[r] <=> r \in q[p]
  BY Zenon DEF Inverted
<1>a. ASSUME NEW p \in L \ {b}, NEW r, r # a PROVE r \in m[p] <=> r # b /\ (r \in q[p] \/ (p = a /\ r \in q[b]))
  BY Zenon, <1>0, <1>a, MergedEdge
<1>b. ASSUME NEW p \in L \ {b} PROVE a \in m[p] <=> p # a /\ (a \in q[p] \/ b \in q[p])
  BY Zenon, <1>0, <1>b, MergedIntoA
<1>c. \A x \in L \ {b} : j[x] \subseteq L \ {b}
  BY Zenon, <1>0 DEF MergedGraph, Inverted
<1> HIDE DEF i
<1>d. ASSUME NEW p \in L \ {b}, NEW r, r # a PROVE r \in j[p] <=> r # b /\ (r \in i[p] \/ (p = a /\ r \in i[b]))
  BY Zenon, <1>0, <1>d, MergedEdge
<1>e. ASSUME NEW p \in L \ {b} PROVE a \in j[p] <=> p # a /\ (a \in i[p] \/ b \in i[p])
  BY Zenon, <1>0, <1>e, MergedIntoA
<1> HIDE DEF m, j
<1>2. ASSUME NEW r \in L \ {b} PROVE {p \in L \ {b} : r \in m[p]} = j[r]
  <2>0. j[r] \subseteq L \ {b}
    BY Zenon, <1>c
  <2>1. ASSUME NEW p \in L \ {b} PROVE r \in m[p] <=> p \in j[r]
    <3>1. CASE p # a /\ r # a
      <4>1. r \in m[p] <=> r \in q[p]
        BY Zenon, <1>a, <3>1
      <4>2. p \in j[r] <=> p \in i[r]
        BY Zenon, <1>d, <3>1
      <4> QED BY Zenon, <1>1, <4>1, <4>2
    <3>2. CASE p = a /\ r # a
      <4>1. r \in m[p] <=> r \in q[a] \/ r \in q[b]
        BY Zenon, <1>a, <3>2
      <4>2. p \in j[r] <=> a \in i[r] \/ b \in i[r]
        BY Zenon, <1>e, <3>2
      <4> QED BY Zenon, <1>1, <4>1, <4>2
    <3>3. CASE p # a /\ r = a
      <4>1. r \in m[p] <=> a \in q[p] \/ b \in q[p]
        BY Zenon, <1>b, <3>3
      <4>2. p \in j[r] <=> p \in i[a] \/ p \in i[b]
        BY Zenon, <1>d, <3>3
      <4> QED BY Zenon, <1>1, <4>1, <4>2
    <3>4. CASE p = a /\ r = a
      <4>1. r \notin m[p]
        BY Zenon, <1>b, <3>4
      <4>2. p \notin j[r]
        BY Zenon, <1>e, <3>4
      <4> QED BY Zenon, <4>1, <4>2
    <3> QED BY Zenon, <3>1, <3>2, <3>3, <3>4
  <2> QED BY Zenon, <2>0, <2>1
<1>3. j = [r \in L \ {b} |-> j[r]]
  BY Zenon, <1>0 DEF MergedGraph, j
<1>4. Inverted(m) = [r \in L \ {b} |-> {p \in L \ {b} : r \in m[p]}]
  BY Zenon, <1>0 DEF Inverted
<1>5. Inverted(m) = j
  BY Zenon, <1>2, <1>3, <1>4
<1> QED BY Zenon, <1>5 DEF m, i, j
=============================================================================
