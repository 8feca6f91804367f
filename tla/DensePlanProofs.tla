-------------------------- MODULE DensePlanProofs ---------------------------
(***************************************************************************)
(* For every forward graph, assignment of its MTasks to lanes and build,   *)
(* the tables genDenseExecutor emits keep the order of the schedule: the   *)
(* reduction and the packed tokens lose no dependence, and the emitted     *)
(* programs satisfy what DenseExecutor, DenseLookahead and DenseCounters   *)
(* assume of them.  The argument: a path of the graph ends in an edge that *)
(* no other edge of its source stands for (LastEdge), the reduction takes  *)
(* away no such edge unless a worker's own order covers it                 *)
(* (IrreducibleKept), and every edge that is left between two workers has  *)
(* a token of its own slot, stored by the last of its sources (SlotFacts,  *)
(* TokenFor).                                                              *)
(***************************************************************************)
EXTENDS DenseTables, Foundations

\* The MTasks of a schedule of n.
Tasks(n) == 0..(n - 1)

-----------------------------------------------------------------------------
(* Reachability *)

\* The sweep has a fixed point: the least closed sets.
LEMMA ReachEquation ==
  ASSUME NEW D, NEW g \in [D -> SUBSET D]
  PROVE  Reachable(g) = [m \in D |-> g[m] \cup UNION {Reachable(g)[s] : s \in g[m]}]
<1> DEFINE Closed(C) == \A y \in C : g[y] \subseteq C
           F == [m \in D |-> {x \in D : \A C \in SUBSET D : g[m] \subseteq C /\ Closed(C) => x \in C}]
           Fix(r) == r = [m \in D |-> g[m] \cup UNION {r[s] : s \in g[m]}]
<1>1. ASSUME NEW m \in D PROVE F[m] = g[m] \cup UNION {F[s] : s \in g[m]}
  <2> DEFINE E == g[m] \cup UNION {F[s] : s \in g[m]}
  <2>0. \A k \in D : F[k] = {x \in D : \A C \in SUBSET D : g[k] \subseteq C /\ Closed(C) => x \in C}
    BY Zenon
  <2>a. g[m] \subseteq D /\ \A k \in D : g[k] \subseteq D
    BY Zenon
  <2> HIDE DEF F
  <2>b. \A k \in D : F[k] \subseteq D
    BY Zenon, <2>0
  <2>c. E \in SUBSET D
    <3>1. ASSUME NEW s \in g[m] PROVE F[s] \subseteq D
      BY Zenon, <2>a, <2>b
    <3> QED BY <2>a, <3>1
  <2>1. ASSUME NEW x \in E PROVE x \in F[m]
    <3>1. x \in D
      BY Zenon, <2>c
    <3>2. ASSUME NEW C \in SUBSET D, g[m] \subseteq C, Closed(C) PROVE x \in C
      <4>1. CASE x \in g[m]
        BY Zenon, <3>2, <4>1
      <4>2. ASSUME NEW s \in g[m], x \in F[s] PROVE x \in C
        <5>1. s \in D /\ g[s] \subseteq C
          BY Zenon, <2>a, <3>2
        <5> QED BY Zenon, <2>0, <3>2, <4>2, <5>1
      <4> QED BY Zenon, <2>1, <4>1, <4>2
    <3> QED BY Zenon, <2>0, <3>1, <3>2
  <2>2. ASSUME NEW k \in D PROVE g[k] \subseteq F[k] /\ \A y \in F[k] : g[y] \subseteq F[k]
    <3>1. g[k] \subseteq F[k]
      BY Zenon, <2>0, <2>a
    <3>2. ASSUME NEW y \in F[k], NEW z \in g[y] PROVE z \in F[k]
      <4>1. y \in D /\ z \in D
        BY Zenon, <2>0, <2>a
      <4>2. ASSUME NEW C \in SUBSET D, g[k] \subseteq C, Closed(C) PROVE z \in C
        <5>1. y \in C
          BY Zenon, <2>0, <4>2
        <5> QED BY Zenon, <4>2, <5>1
      <4> QED BY Zenon, <2>0, <4>1, <4>2
    <3> QED BY Zenon, <3>1, <3>2
  <2>3. E \in SUBSET D /\ g[m] \subseteq E /\ Closed(E)
    <3>2. ASSUME NEW y \in E, NEW z \in g[y] PROVE z \in E
      <4>1. CASE y \in g[m]
        BY Zenon, <2>2, <2>a, <4>1
      <4>2. ASSUME NEW s \in g[m], y \in F[s] PROVE z \in E
        BY Zenon, <2>2, <2>a, <4>2
      <4> QED BY Zenon, <3>2, <4>1, <4>2
    <3> QED BY Zenon, <2>c, <3>2
  <2>4. ASSUME NEW x \in F[m] PROVE x \in E
    <3> HIDE DEF E
    <3> QED BY Zenon, <2>0, <2>3, <2>4
  <2> QED BY Zenon, <2>1, <2>4
<1>2. Fix(F)
  <2>1. F = [m \in D |-> F[m]]
    BY Zenon
  <2> HIDE DEF F
  <2>2. [m \in D |-> F[m]] = [m \in D |-> g[m] \cup UNION {F[s] : s \in g[m]}]
    BY <1>1
  <2> QED BY Zenon, <2>1, <2>2
<1> HIDE DEF F
<1>3. DOMAIN g = D
  BY Zenon
<1>4. Reachable(g) = CHOOSE r : Fix(r)
  BY Zenon, <1>3 DEF Reachable
<1>5. Fix(CHOOSE r : Fix(r))
  <2> HIDE DEF Fix
  <2> QED BY Zenon, <1>2
<1>6. Fix(Reachable(g))
  <2> HIDE DEF Fix
  <2> QED BY Zenon, <1>4, <1>5
<1> QED BY Zenon, <1>6

\* The graphs of the schedule are the functions whose edges all go forward.
LEMMA ForwardMembers ==
  ASSUME NEW ids
  PROVE  \A g : g \in ForwardGraphs(ids) <=>
           g \in [ids -> SUBSET ids] /\ \A m \in ids : \A s \in g[m] : s > m
<1> DEFINE All == {e \in ids \X ids : e[2] > e[1]}
           Graph(edges) == [m \in ids |-> {s \in ids : <<m, s>> \in edges}]
<1>1. \A g : g \in ForwardGraphs(ids) <=> \E edges \in SUBSET All : g = Graph(edges)
  BY Zenon DEF ForwardGraphs
<1>2. ASSUME NEW edges \in SUBSET All
      PROVE  /\ Graph(edges) \in [ids -> SUBSET ids]
             /\ \A m \in ids : \A s \in Graph(edges)[m] : s > m
  <2>1. Graph(edges) \in [ids -> SUBSET ids]
    OBVIOUS
  <2>2. ASSUME NEW m \in ids, NEW s \in Graph(edges)[m] PROVE s > m
    <3>1. <<m, s>> \in All
      BY Zenon, <1>2, <2>2
    <3> QED BY Zenon, <3>1
  <2> QED BY Zenon, <2>1, <2>2
<1>3. ASSUME NEW g \in [ids -> SUBSET ids], \A m \in ids : \A s \in g[m] : s > m
      PROVE  \E edges \in SUBSET All : g = Graph(edges)
  <2> DEFINE edges == {e \in ids \X ids : e[2] \in g[e[1]]}
  <2>1. edges \in SUBSET All
    BY SMT, <1>3
  <2>2. \A m \in ids : {s \in ids : <<m, s>> \in edges} = g[m]
    BY SMT, <1>3
  <2>3. g = Graph(edges)
    BY SMT, <1>3, <2>2
  <2> HIDE DEF edges, Graph, All
  <2> QED BY Zenon, <2>1, <2>3
<1> HIDE DEF Graph, All
<1>4. ASSUME NEW g, g \in ForwardGraphs(ids)
      PROVE  g \in [ids -> SUBSET ids] /\ \A m \in ids : \A s \in g[m] : s > m
  <2>1. PICK edges \in SUBSET All : g = Graph(edges)
    BY Zenon, <1>1, <1>4
  <2> QED BY Zenon, <1>2, <2>1
<1>5. ASSUME NEW g, g \in [ids -> SUBSET ids], \A m \in ids : \A s \in g[m] : s > m
      PROVE  g \in ForwardGraphs(ids)
  BY Zenon, <1>1, <1>3, <1>5
<1> QED BY Zenon, <1>4, <1>5

\* A graph of the schedule, member by member.
LEMMA ForwardFacts ==
  ASSUME NEW n \in Nat, NEW g \in ForwardGraphs(Tasks(n))
  PROVE  /\ g \in [Tasks(n) -> SUBSET Tasks(n)] /\ DOMAIN g = Tasks(n)
         /\ \A m \in Tasks(n) : \A s \in g[m] : s \in Tasks(n) /\ s > m
         /\ Tasks(n) \subseteq Nat
<1>1. g \in [Tasks(n) -> SUBSET Tasks(n)] /\ \A m \in Tasks(n) : \A s \in g[m] : s > m
  BY Zenon, ForwardMembers
<1>2. Tasks(n) \subseteq Nat
  BY DEF Tasks
<1> QED BY Zenon, <1>1, <1>2

\* What is reached by an edge or through one.
LEMMA ReachStep ==
  ASSUME NEW n \in Nat, NEW g \in ForwardGraphs(Tasks(n)), NEW m \in Tasks(n), NEW x
  PROVE  x \in Reachable(g)[m] <=> x \in g[m] \/ \E s \in g[m] : x \in Reachable(g)[s]
<1>1. g \in [Tasks(n) -> SUBSET Tasks(n)]
  BY Zenon, ForwardFacts
<1>2. Reachable(g) = [k \in Tasks(n) |-> g[k] \cup UNION {Reachable(g)[s] : s \in g[k]}]
  BY Zenon, <1>1, ReachEquation
<1>3. Reachable(g)[m] = g[m] \cup UNION {Reachable(g)[s] : s \in g[m]}
  BY Zenon, <1>2
<1> HIDE DEF Reachable
<1> QED BY Zenon, <1>3

\* What is reached comes later in the schedule.
LEMMA ReachForward ==
  ASSUME NEW n \in Nat, NEW g \in ForwardGraphs(Tasks(n))
  PROVE  \A m \in Tasks(n) : \A x \in Reachable(g)[m] : x \in Tasks(n) /\ x > m
<1> DEFINE R == Reachable(g)
           S == {m \in Tasks(n) : \A x \in R[m] : x \in Tasks(n) /\ x > m}
<1> HIDE DEF R
<1>1. ASSUME NEW m \in Tasks(n), \A k \in Tasks(n) : k > m => k \in S PROVE m \in S
  <2>1. ASSUME NEW x \in R[m] PROVE x \in Tasks(n) /\ x > m
    <3>1. CASE x \in g[m]
      BY Zenon, <3>1, ForwardFacts
    <3>2. ASSUME NEW s \in g[m], x \in R[s] PROVE x \in Tasks(n) /\ x > m
      <4>1. s \in Tasks(n) /\ s > m
        BY Zenon, ForwardFacts
      <4>2. x \in Tasks(n) /\ x > s
        BY Zenon, <1>1, <3>2, <4>1
      <4> QED BY <4>1, <4>2 DEF Tasks
    <3> QED BY Zenon, <3>1, <3>2, ReachStep DEF R
  <2> QED BY Zenon, <2>1
<1> HIDE DEF S
<1>2. \A m \in Tasks(n) : m \in S
  BY Zenon, <1>1, FromAbove DEF Tasks
<1> QED BY Zenon, <1>2 DEF S, R

\* What is reached from something reached is reached.
LEMMA ReachTransitive ==
  ASSUME NEW n \in Nat, NEW g \in ForwardGraphs(Tasks(n))
  PROVE  \A m \in Tasks(n) : \A x \in Reachable(g)[m] : \A y \in Reachable(g)[x] :
           y \in Reachable(g)[m]
<1> DEFINE R == Reachable(g)
           S == {m \in Tasks(n) : \A x \in R[m] : \A y \in R[x] : y \in R[m]}
<1> HIDE DEF R
<1>1. ASSUME NEW m \in Tasks(n), \A k \in Tasks(n) : k > m => k \in S PROVE m \in S
  <2>1. ASSUME NEW x \in R[m], NEW y \in R[x] PROVE y \in R[m]
    <3>1. CASE x \in g[m]
      BY Zenon, <3>1, ReachStep DEF R
    <3>2. ASSUME NEW s \in g[m], x \in R[s] PROVE y \in R[m]
      <4>1. s \in Tasks(n) /\ s > m
        BY Zenon, ForwardFacts
      <4>2. y \in R[s]
        BY Zenon, <1>1, <3>2, <4>1
      <4> QED BY Zenon, <4>2, ReachStep DEF R
    <3> QED BY Zenon, <3>1, <3>2, ReachStep DEF R
  <2> QED BY Zenon, <2>1
<1> HIDE DEF S
<1>2. \A m \in Tasks(n) : m \in S
  BY Zenon, <1>1, FromAbove DEF Tasks
<1> QED BY Zenon, <1>2 DEF S, R

\* More edges reach more.
LEMMA ReachMonotone ==
  ASSUME NEW n \in Nat, NEW g \in ForwardGraphs(Tasks(n)), NEW h \in ForwardGraphs(Tasks(n)),
         \A m \in Tasks(n) : g[m] \subseteq h[m]
  PROVE  \A m \in Tasks(n) : Reachable(g)[m] \subseteq Reachable(h)[m]
<1> DEFINE S == {m \in Tasks(n) : Reachable(g)[m] \subseteq Reachable(h)[m]}
<1>1. ASSUME NEW m \in Tasks(n), \A k \in Tasks(n) : k > m => k \in S PROVE m \in S
  <2>1. ASSUME NEW x \in Reachable(g)[m] PROVE x \in Reachable(h)[m]
    <3>1. CASE x \in g[m]
      BY Zenon, <3>1, ReachStep
    <3>2. ASSUME NEW s \in g[m], x \in Reachable(g)[s] PROVE x \in Reachable(h)[m]
      <4>1. s \in Tasks(n) /\ s > m
        BY Zenon, ForwardFacts
      <4>2. x \in Reachable(h)[s] /\ s \in h[m]
        BY Zenon, <1>1, <3>2, <4>1
      <4> QED BY Zenon, <4>2, ReachStep
    <3> QED BY Zenon, <3>1, <3>2, ReachStep
  <2> QED BY Zenon, <2>1
<1> HIDE DEF S
<1>2. \A m \in Tasks(n) : m \in S
  BY Zenon, <1>1, FromAbove DEF Tasks
<1> QED BY Zenon, <1>2 DEF S

\* A path ends in an edge no other edge of its source makes superfluous.
LEMMA LastEdge ==
  ASSUME NEW n \in Nat, NEW g \in ForwardGraphs(Tasks(n))
  PROVE  \A m \in Tasks(n) : \A x \in Reachable(g)[m] : \E r \in Tasks(n) :
           /\ r = m \/ r \in Reachable(g)[m]
           /\ x \in g[r]
           /\ \A alt \in g[r] \ {x} : x \notin Reachable(g)[alt]
<1> DEFINE R == Reachable(g)
           Ends(m, x, r) == /\ r = m \/ r \in R[m]
                            /\ x \in g[r]
                            /\ \A alt \in g[r] \ {x} : x \notin R[alt]
           S == {m \in Tasks(n) : \A x \in R[m] : \E r \in Tasks(n) : Ends(m, x, r)}
<1> HIDE DEF R
<1>1. ASSUME NEW m \in Tasks(n), \A k \in Tasks(n) : k > m => k \in S PROVE m \in S
  <2>1. ASSUME NEW x \in R[m] PROVE \E r \in Tasks(n) : Ends(m, x, r)
    <3>1. ASSUME NEW s \in g[m], x \in R[s] PROVE \E r \in Tasks(n) : Ends(m, x, r)
      <4>1. s \in Tasks(n) /\ s > m
        BY Zenon, ForwardFacts
      <4>2. PICK r \in Tasks(n) : Ends(s, x, r)
        BY Zenon, <1>1, <3>1, <4>1
      <4>3. r \in R[m]
        BY Zenon, <4>2, ReachStep DEF R
      <4> QED BY Zenon, <4>2, <4>3
    <3>2. CASE \A s \in g[m] : x \notin R[s]
      <4>1. x \in g[m]
        BY Zenon, <3>2, ReachStep DEF R
      <4> QED BY Zenon, <3>2, <4>1
    <3> QED BY Zenon, <3>1, <3>2
  <2> QED BY Zenon, <2>1
<1> HIDE DEF S
<1>2. \A m \in Tasks(n) : m \in S
  BY Zenon, <1>1, FromAbove DEF Tasks
<1> QED BY Zenon, <1>2 DEF S, R

\* A graph with the edges nothing makes superfluous reaches as much.
LEMMA LastEdgesSuffice ==
  ASSUME NEW n \in Nat, NEW g \in ForwardGraphs(Tasks(n)), NEW h \in ForwardGraphs(Tasks(n)),
         \A r \in Tasks(n) : \A x \in g[r] :
           (\A alt \in g[r] \ {x} : x \notin Reachable(g)[alt]) => x \in h[r]
  PROVE  \A q \in Tasks(n) : Reachable(g)[q] \subseteq Reachable(h)[q]
<1> SUFFICES ASSUME NEW q \in Tasks(n)
             PROVE  \A x \in Reachable(g)[q] : x \in Reachable(h)[q]
  BY Zenon
<1> DEFINE S == {x \in Tasks(n) : x \in Reachable(g)[q] => x \in Reachable(h)[q]}
<1>1. ASSUME NEW x \in Tasks(n), \A k \in Tasks(n) : k < x => k \in S PROVE x \in S
  <2>1. ASSUME x \in Reachable(g)[q] PROVE x \in Reachable(h)[q]
    <3>1. PICK r \in Tasks(n) : /\ r = q \/ r \in Reachable(g)[q]
                                /\ x \in g[r]
                                /\ \A alt \in g[r] \ {x} : x \notin Reachable(g)[alt]
      BY Zenon, <2>1, LastEdge
    <3>2. x \in h[r] /\ x \in Reachable(h)[r]
      BY Zenon, <3>1, ReachStep
    <3>3. CASE r = q
      BY Zenon, <3>2, <3>3
    <3>4. CASE r \in Reachable(g)[q]
      <4>1. x > r
        BY Zenon, <3>1, ForwardFacts
      <4>2. r < x
        BY <4>1 DEF Tasks
      <4>3. r \in Reachable(h)[q]
        BY Zenon, <1>1, <3>4, <4>2
      <4> QED BY Zenon, <3>2, <4>3, ReachTransitive
    <3> QED BY Zenon, <3>1, <3>3, <3>4
  <2> QED BY Zenon, <2>1
<1> HIDE DEF S
<1>2. \A x \in Tasks(n) : x \in S
  BY Zenon, <1>1, FromBelow DEF Tasks
<1>3. ASSUME NEW x \in Reachable(g)[q] PROVE x \in Tasks(n)
  BY Zenon, ReachForward
<1> QED BY Zenon, <1>2, <1>3 DEF S

-----------------------------------------------------------------------------
(* Runtime successors *)

\* mtBuildDenseRuntimeSuccs leaves a graph of the schedule, and drops only edges
\* inside one worker.
LEMMA RuntimeFacts ==
  ASSUME NEW n \in Nat, NEW g \in ForwardGraphs(Tasks(n)), NEW assign, NEW x \in BOOLEAN
  PROVE  /\ RuntimeSuccs(g, assign, x) \in ForwardGraphs(Tasks(n))
         /\ \A m \in Tasks(n) : \A s : s \in RuntimeSuccs(g, assign, x)[m]
              <=> s \in g[m] /\ ~(x /\ assign[m] = assign[s])
<1>1. DOMAIN g = Tasks(n)
  BY Zenon, ForwardFacts
<1>2. RuntimeSuccs(g, assign, x) = [m \in Tasks(n) |-> {s \in g[m] : ~(x /\ assign[m] = assign[s])}]
  BY Zenon, <1>1 DEF RuntimeSuccs
<1>3. \A m \in Tasks(n) : RuntimeSuccs(g, assign, x)[m] = {s \in g[m] : ~(x /\ assign[m] = assign[s])}
  BY Zenon, <1>2
<1>4. RuntimeSuccs(g, assign, x) \in [Tasks(n) -> SUBSET Tasks(n)]
  <2>1. \A m \in Tasks(n) : {s \in g[m] : ~(x /\ assign[m] = assign[s])} \in SUBSET Tasks(n)
    BY Zenon, ForwardFacts
  <2> QED BY Zenon, <1>2, <2>1
<1>5. \A m \in Tasks(n) : \A s \in RuntimeSuccs(g, assign, x)[m] : s > m
  BY Zenon, <1>3, ForwardFacts
<1>6. ASSUME NEW m \in Tasks(n), NEW s
      PROVE  s \in RuntimeSuccs(g, assign, x)[m] <=> s \in g[m] /\ ~(x /\ assign[m] = assign[s])
  BY Zenon, <1>3
<1>7. RuntimeSuccs(g, assign, x) \in ForwardGraphs(Tasks(n))
  BY Zenon, <1>4, <1>5, ForwardMembers
<1> HIDE DEF RuntimeSuccs
<1> QED BY Zenon, <1>6, <1>7

\* The worker chains are forward edges too: a worker runs its MTasks by id.
LEMMA EffectiveFacts ==
  ASSUME NEW n \in Nat, NEW g \in ForwardGraphs(Tasks(n)), NEW assign, DOMAIN assign = Tasks(n),
         NEW inject \in BOOLEAN
  PROVE  /\ EffectiveSuccs(g, assign, inject) \in ForwardGraphs(Tasks(n))
         /\ \A m \in Tasks(n) : \A s : s \in EffectiveSuccs(g, assign, inject)[m]
              <=> s \in g[m] \/ (inject /\ s \in ChainSuccs(assign, m))
         /\ \A m \in Tasks(n) : \A s \in ChainSuccs(assign, m) :
              s \in Tasks(n) /\ s > m /\ assign[s] = assign[m]
<1> DEFINE E == EffectiveSuccs(g, assign, inject)
<1>1. DOMAIN g = Tasks(n) /\ DOMAIN assign = Tasks(n)
  BY Zenon, ForwardFacts
<1>2. E = [m \in Tasks(n) |-> g[m] \cup (IF inject THEN ChainSuccs(assign, m) ELSE {})]
  BY Zenon, <1>1 DEF EffectiveSuccs
<1>3. \A m \in Tasks(n) : \A s \in ChainSuccs(assign, m) :
        s \in Tasks(n) /\ s > m /\ assign[s] = assign[m]
  BY Zenon, <1>1 DEF ChainSuccs
<1> HIDE DEF E
<1>4. \A m \in Tasks(n) : E[m] = g[m] \cup (IF inject THEN ChainSuccs(assign, m) ELSE {})
  BY Zenon, <1>2
<1>5. ASSUME NEW m \in Tasks(n), NEW s
      PROVE  s \in E[m] <=> s \in g[m] \/ (inject /\ s \in ChainSuccs(assign, m))
  BY Zenon, <1>4
<1>6. ASSUME NEW m \in Tasks(n), NEW s \in E[m] PROVE s \in Tasks(n) /\ s > m
  BY Zenon, <1>3, <1>5, ForwardFacts
<1>7. E \in [Tasks(n) -> SUBSET Tasks(n)]
  <2>1. E = [m \in Tasks(n) |-> E[m]]
    BY Zenon, <1>2
  <2>2. \A m \in Tasks(n) : E[m] \in SUBSET Tasks(n)
    BY Zenon, <1>6
  <2> QED BY Zenon, <2>1, <2>2
<1>8. E \in ForwardGraphs(Tasks(n))
  BY Zenon, <1>6, <1>7, ForwardMembers
<1> QED BY Zenon, <1>3, <1>5, <1>8 DEF E

\* mtReduceDenseRuntimeSuccsTransitive only takes edges away, and none that is
\* the only way to its target in a graph with at least its effective edges.
LEMMA ReduceFacts ==
  ASSUME NEW n \in Nat, NEW g \in ForwardGraphs(Tasks(n)), NEW assign, DOMAIN assign = Tasks(n),
         NEW inject \in BOOLEAN
  PROVE  LET red == ReduceTransitive(g, assign, inject)
         IN  /\ red \in ForwardGraphs(Tasks(n))
             /\ \A m \in Tasks(n) : red[m] \subseteq g[m]
             /\ \A h \in ForwardGraphs(Tasks(n)) :
                  (\A m \in Tasks(n) : EffectiveSuccs(g, assign, inject)[m] \subseteq h[m]) =>
                    \A r \in Tasks(n) : \A m \in g[r] :
                      (\A alt \in h[r] \ {m} : m \notin Reachable(h)[alt]) => m \in red[r]
<1> DEFINE E == EffectiveSuccs(g, assign, inject)
           red == ReduceTransitive(g, assign, inject)
           Cut == [m \in Tasks(n) |-> {s \in g[m] : \A alt \in E[m] \ {s} : s \notin Reachable(E)[alt]}]
<1>1. DOMAIN g = Tasks(n)
  BY Zenon, ForwardFacts
<1>2. red = g \/ red = Cut
  BY Zenon, <1>1 DEF ReduceTransitive
<1>3. E \in ForwardGraphs(Tasks(n))
  BY Zenon, EffectiveFacts
<1> HIDE DEF E, red
<1>4. \A m \in Tasks(n) : Cut[m] = {s \in g[m] : \A alt \in E[m] \ {s} : s \notin Reachable(E)[alt]}
  BY Zenon
<1>5. ASSUME NEW m \in Tasks(n) PROVE red[m] \subseteq g[m]
  <2> HIDE DEF Cut
  <2> QED BY Zenon, <1>2, <1>4
<1>6. red \in ForwardGraphs(Tasks(n))
  <2>1. Cut \in [Tasks(n) -> SUBSET Tasks(n)]
    <3>1. \A m \in Tasks(n) :
            {s \in g[m] : \A alt \in E[m] \ {s} : s \notin Reachable(E)[alt]} \in SUBSET Tasks(n)
      BY Zenon, ForwardFacts
    <3> QED BY Zenon, <3>1
  <2> HIDE DEF Cut
  <2>2. red \in [Tasks(n) -> SUBSET Tasks(n)]
    BY Zenon, <1>2, <2>1, ForwardFacts
  <2>3. \A m \in Tasks(n) : \A s \in red[m] : s > m
    BY Zenon, <1>5, ForwardFacts
  <2> QED BY Zenon, <2>2, <2>3, ForwardMembers
<1>7. ASSUME NEW h \in ForwardGraphs(Tasks(n)), \A m \in Tasks(n) : E[m] \subseteq h[m],
             NEW r \in Tasks(n), NEW m \in g[r], \A alt \in h[r] \ {m} : m \notin Reachable(h)[alt]
      PROVE  m \in red[r]
  <2>1. \A alt \in Tasks(n) : Reachable(E)[alt] \subseteq Reachable(h)[alt]
    BY Zenon, <1>3, <1>7, ReachMonotone
  <2>2. ASSUME NEW alt \in E[r] \ {m} PROVE m \notin Reachable(E)[alt]
    <3>1. alt \in h[r] \ {m} /\ alt \in Tasks(n)
      BY Zenon, <1>3, <1>7, ForwardFacts
    <3> QED BY Zenon, <1>7, <2>1, <3>1
  <2>3. m \in Cut[r]
    <3> HIDE DEF Cut
    <3> QED BY Zenon, <1>4, <2>2
  <2> HIDE DEF Cut
  <2> QED BY Zenon, <1>2, <2>3
<1> QED BY Zenon, <1>5, <1>6, <1>7 DEF E, red

-----------------------------------------------------------------------------
(* Sums over finite sets *)

\* The summands of w over s, laid out one by one; M bounds the summands.
Units(w, s, M) == {p \in s \X (1..M) : p[2] <= w[p[1]]}

\* Every summand is at most M.
Bounded(w, B, M) == w \in [B -> 0..M]

\* Finitely many summands have finitely many units.
LEMMA UnitsFinite ==
  ASSUME NEW s, IsFiniteSet(s), NEW M \in Nat, NEW w
  PROVE  IsFiniteSet(Units(w, s, M))
<1>1. IsFiniteSet(1..M)
  BY FS_Interval
<1>2. IsFiniteSet(s \X (1..M))
  BY Zenon, <1>1, FS_Product
<1>3. Units(w, s, M) \in SUBSET (s \X (1..M))
  BY Zenon DEF Units
<1> QED BY Zenon, <1>2, <1>3, FS_Subset

\* 1..v has v elements.
LEMMA CountTo == ASSUME NEW v \in Nat PROVE IsFiniteSet(1..v) /\ Cardinality(1..v) = v
<1>1. 1 \in Int /\ v \in Int
  OBVIOUS
<1>2. IsFiniteSet(1..v) /\ Cardinality(1..v) = IF 1 > v THEN 0 ELSE v - 1 + 1
  BY Zenon, <1>1, FS_Interval
<1>3. CASE v = 0
  <2>1. 1 > v
    BY <1>3
  <2> QED BY Zenon, <1>2, <1>3, <2>1
<1>4. CASE v # 0
  <2>1. ~(1 > v) /\ v - 1 + 1 = v
    BY <1>4
  <2> QED BY Zenon, <1>2, <2>1
<1> QED BY Zenon, <1>3, <1>4

\* The units of s are those of x and of the others.
Adds(w, s, x, M) == Cardinality(Units(w, s, M)) = w[x] + Cardinality(Units(w, s \ {x}, M))

\* Taking one summand out takes its units out.
LEMMA UnitsAdd ==
  ASSUME NEW B, NEW M \in Nat, NEW w, Bounded(w, B, M),
         NEW s \in SUBSET B, IsFiniteSet(s), NEW x \in s
  PROVE  Adds(w, s, x, M)
<1> DEFINE rest == Units(w, s \ {x}, M)
           own == {x} \X (1..w[x])
<1>0. w[x] \in 0..M /\ w[x] \in Nat
  BY DEF Bounded
<1>1. Units(w, s, M) = rest \cup own
  <2>1. ASSUME NEW p \in Units(w, s, M) PROVE p \in rest \cup own
    BY <1>0, <2>1 DEF Units
  <2>2. ASSUME NEW p \in own PROVE p \in Units(w, s, M)
    BY <1>0, <2>2 DEF Units
  <2>3. ASSUME NEW p \in rest PROVE p \in Units(w, s, M)
    BY <2>3 DEF Units
  <2> QED BY Zenon, <2>1, <2>2, <2>3
<1>2. rest \cap own = {}
  BY DEF Units
<1>3. IsFiniteSet(rest)
  <2>1. IsFiniteSet(s \ {x})
    BY Zenon, FS_RemoveElement
  <2> QED BY Zenon, <2>1, UnitsFinite
<1>4. IsFiniteSet(own) /\ Cardinality(own) = w[x]
  <2>1. IsFiniteSet(1..w[x]) /\ Cardinality(1..w[x]) = w[x]
    BY Zenon, <1>0, CountTo
  <2>2. IsFiniteSet({x}) /\ Cardinality({x}) = 1
    BY Zenon, FS_Singleton
  <2>3. IsFiniteSet(own) /\ Cardinality(own) = Cardinality({x}) * Cardinality(1..w[x])
    BY Zenon, <2>1, <2>2, FS_Product
  <2> HIDE DEF own
  <2> QED BY <1>0, <2>1, <2>2, <2>3
<1> HIDE DEF rest, own
<1>5. Cardinality(rest \cup own) = Cardinality(rest) + Cardinality(own) - Cardinality(rest \cap own)
  BY Zenon, <1>3, <1>4, FS_Union
<1>6. Cardinality(rest) \in Nat /\ Cardinality({}) = 0
  BY Zenon, <1>3, FS_CardinalityType, FS_EmptySet
<1>7. Cardinality(Units(w, s, M)) = w[x] + Cardinality(rest)
  <2>1. Cardinality(Units(w, s, M)) = Cardinality(rest) + w[x] - 0
    BY Zenon, <1>1, <1>2, <1>4, <1>5, <1>6
  <2>2. Cardinality(rest) + w[x] - 0 = w[x] + Cardinality(rest)
    BY <1>0, <1>6
  <2> QED BY Zenon, <2>1, <2>2
<1> QED BY Zenon, <1>7 DEF rest, Adds

\* The sum of w over a finite set counts the units of its members.
LEMMA SumIsCount ==
  ASSUME NEW B, NEW M \in Nat, NEW w, Bounded(w, B, M), NEW S \in SUBSET B, IsFiniteSet(S)
  PROVE  SumFunctionOnSet(w, S) = Cardinality(Units(w, S, M))
<1> DEFINE pick(s) == CHOOSE x \in s : TRUE
           Sums(f) == f = [s \in SUBSET S |->
                             IF s = {} THEN 0 ELSE w[pick(s)] + f[s \ {pick(s)}]]
           F == [s \in SUBSET S |-> Cardinality(Units(w, s, M))]
<1>1. SumFunctionOnSet(w, S) = (CHOOSE f : Sums(f))[S]
  BY Zenon DEF SumFunctionOnSet, FoldFunctionOnSet, MapThenFoldSet
<1>2. ASSUME NEW s \in SUBSET S PROVE /\ IsFiniteSet(s)
                                      /\ s # {} => pick(s) \in s /\ s \ {pick(s)} \in SUBSET S
  BY Zenon, FS_Subset
<1> HIDE DEF pick
<1>3. ASSUME NEW s \in SUBSET S
      PROVE  F[s] = IF s = {} THEN 0 ELSE w[pick(s)] + F[s \ {pick(s)}]
  <2>1. F[s] = Cardinality(Units(w, s, M))
    BY Zenon
  <2>2. CASE s = {}
    <3>1. Units(w, s, M) = {}
      BY <2>2 DEF Units
    <3> HIDE DEF F
    <3> QED BY Zenon, <2>1, <2>2, <3>1, FS_EmptySet
  <2>3. CASE s # {}
    <3>1. F[s \ {pick(s)}] = Cardinality(Units(w, s \ {pick(s)}, M))
      BY Zenon, <1>2, <2>3
    <3>2. Cardinality(Units(w, s, M)) = w[pick(s)] + Cardinality(Units(w, s \ {pick(s)}, M))
      <4>1. s \in SUBSET B
        BY Zenon
      <4>2. pick(s) \in s /\ IsFiniteSet(s)
        BY Zenon, <1>2, <2>3
      <4> HIDE DEF F, Sums
      <4>3. Adds(w, s, pick(s), M)
        BY Zenon, <4>1, <4>2, UnitsAdd
      <4> QED BY Zenon, <4>3 DEF Adds
    <3> HIDE DEF F
    <3> QED BY Zenon, <2>1, <2>3, <3>1, <3>2
  <2> QED BY Zenon, <2>2, <2>3
<1>4. Sums(F)
  <2>1. F = [s \in SUBSET S |-> F[s]]
    BY Zenon
  <2> HIDE DEF F
  <2>2. [s \in SUBSET S |-> F[s]] =
        [s \in SUBSET S |-> IF s = {} THEN 0 ELSE w[pick(s)] + F[s \ {pick(s)}]]
    BY <1>3
  <2> QED BY Zenon, <2>1, <2>2
<1>5. PICK f : Sums(f) /\ f = CHOOSE g : Sums(g)
  <2> HIDE DEF Sums, F
  <2> QED BY Zenon, <1>4
<1>6. \A s \in SUBSET S : f[s] = IF s = {} THEN 0 ELSE w[pick(s)] + f[s \ {pick(s)}]
  BY Zenon, <1>5
<1> HIDE DEF F, Sums
<1> DEFINE A == {i \in Nat : \A s \in SUBSET S : Cardinality(s) = i => f[s] = F[s]}
<1>7. 0 \in A
  <2>1. ASSUME NEW s \in SUBSET S, Cardinality(s) = 0 PROVE f[s] = F[s]
    <3>1. s = {}
      BY Zenon, <1>2, <2>1, FS_EmptySet
    <3> QED BY Zenon, <1>3, <1>6, <3>1
  <2> QED BY <2>1
<1>8. Cardinality(S) \in Nat
  BY Zenon, FS_CardinalityType
<1>9. ASSUME NEW i \in 0..(Cardinality(S) - 1), i \in A PROVE i + 1 \in A
  <2>1. ASSUME NEW s \in SUBSET S, Cardinality(s) = i + 1 PROVE f[s] = F[s]
    <3>1. s # {}
      <4>1. i + 1 # 0
        BY <1>8
      <4> QED BY Zenon, <2>1, <4>1, FS_EmptySet
    <3>2. Cardinality(s \ {pick(s)}) = Cardinality(s) - 1
      BY Zenon, <1>2, <3>1, FS_RemoveElement
    <3>3. Cardinality(s \ {pick(s)}) = i
      BY <1>8, <2>1, <3>2
    <3>4. f[s \ {pick(s)}] = F[s \ {pick(s)}]
      BY Zenon, <1>2, <1>9, <3>1, <3>3
    <3> QED BY Zenon, <1>3, <1>6, <3>1, <3>4
  <2>2. i + 1 \in Nat
    BY <1>8
  <2> QED BY Zenon, <2>1, <2>2
<1>10. Cardinality(S) \in A
  <2> HIDE DEF A
  <2>0. 0 \in Int /\ Cardinality(S) \in Int
    BY <1>8
  <2>1. \A i \in 0..Cardinality(S) : i \in A
    BY Zenon, <1>7, <1>9, <2>0, IntervalInduction
  <2> QED BY <1>8, <2>1
<1>11. f[S] = F[S]
  BY Zenon, <1>10
<1> QED BY Zenon, <1>1, <1>5, <1>11 DEF F

-----------------------------------------------------------------------------
(* The slots of the tokens *)

\* An aligned bank holds its tokens, and wastes less than a line more.
LEMMA AlignFacts ==
  ASSUME NEW v \in Nat
  PROVE  AlignCacheLine(v) \in Nat /\ v <= AlignCacheLine(v) /\ AlignCacheLine(v) <= v + CacheLine
<1> DEFINE C == CacheLine
           q == (v + C - 1) \div C
<1>1. C \in Nat /\ C > 0
  BY CacheLineAssumption
<1> HIDE DEF C
<1>2. q \in Nat /\ C * q <= v + C - 1 /\ v + C - 1 < C * q + C
  BY <1>1
<1>3. AlignCacheLine(v) = q * C
  BY Zenon DEF AlignCacheLine, C
<1> HIDE DEF q
<1>4. q * C \in Nat /\ q * C = C * q
  BY <1>1, <1>2
<1>5. v <= q * C /\ q * C <= v + C
  BY <1>1, <1>2, <1>4
<1> QED BY Zenon, <1>3, <1>4, <1>5 DEF C

\* Every edge has its token group, every group an edge; both are finite in number.
LEMMA GroupsFacts ==
  ASSUME NEW n \in Nat, NEW k \in ForwardGraphs(Tasks(n)),
         NEW w \in Nat, NEW assign \in [Tasks(n) -> 0..(w - 1)]
  PROVE  /\ Groups(k, assign) \in SUBSET (Tasks(n) \X (0..(w - 1)))
         /\ IsFiniteSet(Groups(k, assign))
         /\ Banks(k, assign) \in SUBSET ((0..(w - 1)) \X (0..(w - 1)))
         /\ IsFiniteSet(Banks(k, assign))
         /\ \A p \in Tasks(n) : \A m \in k[p] : <<m, assign[p]>> \in Groups(k, assign)
         /\ \A g \in Groups(k, assign) : \E p \in Tasks(n) : g[1] \in k[p] /\ assign[p] = g[2]
<1>1. DOMAIN k = Tasks(n)
  BY Zenon, ForwardFacts
<1>2. Edges(k) = UNION {{<<m, s>> : s \in k[m]} : m \in Tasks(n)}
  BY Zenon, <1>1 DEF Edges
<1>3. ASSUME NEW p \in Tasks(n), NEW m \in k[p] PROVE <<m, assign[p]>> \in Groups(k, assign)
  <2>1. <<p, m>> \in Edges(k)
    <3>1. <<p, m>> \in {<<p, s>> : s \in k[p]}
      BY Zenon
    <3>2. {<<p, s>> : s \in k[p]} \in {{<<q, s>> : s \in k[q]} : q \in Tasks(n)}
      BY Zenon
    <3> QED BY <1>2, <3>1, <3>2
  <2>2. <<p, m>>[1] = p /\ <<p, m>>[2] = m
    BY Zenon
  <2> QED BY Zenon, <2>1, <2>2 DEF Groups
<1>4. ASSUME NEW g \in Groups(k, assign)
      PROVE  \E p \in Tasks(n) : \E m \in k[p] : g = <<m, assign[p]>>
  <2>1. PICK e \in Edges(k) : g = <<e[2], assign[e[1]]>>
    BY Zenon DEF Groups
  <2>2. PICK p \in Tasks(n) : e \in {<<p, s>> : s \in k[p]}
    BY Zenon, <1>2
  <2>3. PICK m \in k[p] : e = <<p, m>>
    BY Zenon, <2>2
  <2>4. e[1] = p /\ e[2] = m
    BY Zenon, <2>3
  <2> QED BY Zenon, <2>1, <2>4
<1>5. Groups(k, assign) \in SUBSET (Tasks(n) \X (0..(w - 1)))
  <2>1. ASSUME NEW g \in Groups(k, assign) PROVE g \in Tasks(n) \X (0..(w - 1))
    <3>1. PICK p \in Tasks(n) : \E m \in k[p] : g = <<m, assign[p]>>
      BY Zenon, <1>4
    <3>2. PICK m \in k[p] : g = <<m, assign[p]>>
      BY Zenon, <3>1
    <3>3. m \in Tasks(n) /\ assign[p] \in 0..(w - 1)
      BY Zenon, ForwardFacts
    <3> QED BY Zenon, <3>2, <3>3
  <2> QED BY Zenon, <2>1
<1>6. IsFiniteSet(Tasks(n)) /\ IsFiniteSet(0..(w - 1))
  <2>1. 0 \in Int /\ n - 1 \in Int /\ w - 1 \in Int
    OBVIOUS
  <2> QED BY Zenon, <2>1, FS_Interval DEF Tasks
<1>7. IsFiniteSet(Groups(k, assign))
  <2>1. IsFiniteSet(Tasks(n) \X (0..(w - 1)))
    BY Zenon, <1>6, FS_Product
  <2> QED BY Zenon, <1>5, <2>1, FS_Subset
<1>8. Banks(k, assign) \in SUBSET ((0..(w - 1)) \X (0..(w - 1)))
  <2>1. ASSUME NEW g \in Groups(k, assign)
        PROVE  Bank(assign, g) \in (0..(w - 1)) \X (0..(w - 1))
    <3>1. g[1] \in Tasks(n) /\ g[2] \in 0..(w - 1)
      BY <1>5
    <3>2. assign[g[1]] \in 0..(w - 1)
      BY Zenon, <3>1
    <3> QED BY Zenon, <3>1, <3>2 DEF Bank
  <2> QED BY Zenon, <2>1 DEF Banks
<1>9. IsFiniteSet(Banks(k, assign))
  <2>1. IsFiniteSet((0..(w - 1)) \X (0..(w - 1)))
    BY Zenon, <1>6, FS_Product
  <2> QED BY Zenon, <1>8, <2>1, FS_Subset
<1>10. ASSUME NEW g \in Groups(k, assign)
       PROVE  \E p \in Tasks(n) : g[1] \in k[p] /\ assign[p] = g[2]
  <2>1. PICK p \in Tasks(n) : \E m \in k[p] : g = <<m, assign[p]>>
    BY Zenon, <1>4
  <2>2. PICK m \in k[p] : g = <<m, assign[p]>>
    BY Zenon, <2>1
  <2>3. g[1] = m /\ g[2] = assign[p]
    BY Zenon, <2>2
  <2> QED BY Zenon, <2>3
<1> QED BY Zenon, <1>3, <1>5, <1>7, <1>8, <1>9, <1>10

\* Place of a token in its bank.
Rank(k, assign, g) == Cardinality({h \in InBank(k, assign, Bank(assign, g)) : h[1] < g[1]})

\* Tokens of one bank take consecutive places in the order of their destinations.
LEMMA RankFacts ==
  ASSUME NEW n \in Nat, NEW k \in ForwardGraphs(Tasks(n)),
         NEW w \in Nat, NEW assign \in [Tasks(n) -> 0..(w - 1)],
         NEW g \in Groups(k, assign)
  PROVE  /\ Rank(k, assign, g) \in Nat
         /\ Cardinality(InBank(k, assign, Bank(assign, g))) \in Nat
         /\ Rank(k, assign, g) < Cardinality(InBank(k, assign, Bank(assign, g)))
         /\ \A h \in Groups(k, assign) :
              Bank(assign, h) = Bank(assign, g) /\ g[1] < h[1] => Rank(k, assign, g) < Rank(k, assign, h)
<1> DEFINE all == InBank(k, assign, Bank(assign, g))
           low(h) == {x \in InBank(k, assign, Bank(assign, h)) : x[1] < h[1]}
<1>1. \A x \in Groups(k, assign) : x[1] \in Nat
  <2>1. \A x \in Groups(k, assign) : x \in Tasks(n) \X (0..(w - 1))
    BY Zenon, GroupsFacts
  <2>2. \A x \in Groups(k, assign) : x[1] \in Tasks(n)
    BY <2>1
  <2> QED BY Zenon, <2>2, ForwardFacts
<1>2. all \in SUBSET Groups(k, assign) /\ IsFiniteSet(all) /\ g \in all
  <2>1. all \in SUBSET Groups(k, assign) /\ g \in all
    BY Zenon DEF InBank
  <2> QED BY Zenon, <2>1, GroupsFacts, FS_Subset
<1>3. low(g) \in SUBSET all /\ g \notin low(g)
  <2>1. ~(g[1] < g[1])
    BY <1>1
  <2> QED BY Zenon, <2>1
<1>4. ASSUME NEW S, IsFiniteSet(S), NEW T \in SUBSET S, NEW x \in S, x \notin T
      PROVE  Cardinality(T) \in Nat /\ Cardinality(S) \in Nat /\ Cardinality(T) < Cardinality(S)
  <2>1. Cardinality(T) <= Cardinality(S) /\ Cardinality(S) # Cardinality(T) /\ IsFiniteSet(T)
    BY Zenon, <1>4, FS_Subset
  <2>2. Cardinality(T) \in Nat /\ Cardinality(S) \in Nat
    BY Zenon, <1>4, <2>1, FS_CardinalityType
  <2> QED BY <2>1, <2>2
<1>5. ASSUME NEW h \in Groups(k, assign), Bank(assign, h) = Bank(assign, g), g[1] < h[1]
      PROVE  Cardinality(low(g)) < Cardinality(low(h))
  <2>1. low(h) = {x \in all : x[1] < h[1]}
    BY Zenon, <1>5
  <2>2. g \in low(h) /\ low(h) \in SUBSET all
    BY Zenon, <1>2, <1>5, <2>1
  <2>3. low(g) \in SUBSET low(h)
    <3>1. ASSUME NEW x \in all, x[1] < g[1] PROVE x[1] < h[1]
      <4>1. x[1] \in Nat /\ g[1] \in Nat /\ h[1] \in Nat
        BY Zenon, <1>1, <1>2
      <4> QED BY <1>5, <3>1, <4>1
    <3> QED BY Zenon, <2>1, <3>1
  <2>4. IsFiniteSet(low(h))
    BY Zenon, <1>2, <2>2, FS_Subset
  <2> HIDE DEF low, all
  <2> QED BY Zenon, <1>3, <1>4, <2>2, <2>3, <2>4
<1>6. /\ Cardinality(low(g)) \in Nat /\ Cardinality(all) \in Nat
      /\ Cardinality(low(g)) < Cardinality(all)
  <2> HIDE DEF low, all
  <2> QED BY Zenon, <1>2, <1>3, <1>4
<1>7. \A h : Rank(k, assign, h) = Cardinality(low(h))
  BY Zenon DEF Rank
<1> HIDE DEF low
<1> QED BY Zenon, <1>5, <1>6, <1>7

\* Bytes of every bank.
Width(k, assign) == [c \in Banks(k, assign) |-> AlignCacheLine(Cardinality(InBank(k, assign, c)))]

\* A bank ends before the next one starts.
LEMMA StartFacts ==
  ASSUME NEW n \in Nat, NEW k \in ForwardGraphs(Tasks(n)),
         NEW w \in Nat, NEW assign \in [Tasks(n) -> 0..(w - 1)], NEW b \in Banks(k, assign)
  PROVE  /\ BankStart(k, assign, b) \in Nat
         /\ \A c \in Banks(k, assign) : BankBefore(b, c) =>
              BankStart(k, assign, b) + Cardinality(InBank(k, assign, b)) <= BankStart(k, assign, c)
<1> DEFINE Bs == Banks(k, assign)
           W == Width(k, assign)
           E(c) == {d \in Bs : BankBefore(d, c)}
           M == Cardinality(Groups(k, assign)) + CacheLine
<1>0. IsFiniteSet(Bs) /\ IsFiniteSet(Groups(k, assign)) /\ Bs \in SUBSET ((0..(w - 1)) \X (0..(w - 1)))
  BY Zenon, GroupsFacts
<1>1. \A c : /\ IsFiniteSet(InBank(k, assign, c)) /\ Cardinality(InBank(k, assign, c)) \in Nat
             /\ Cardinality(InBank(k, assign, c)) <= Cardinality(Groups(k, assign))
  <2>1. ASSUME NEW c PROVE /\ IsFiniteSet(InBank(k, assign, c))
                           /\ Cardinality(InBank(k, assign, c)) <= Cardinality(Groups(k, assign))
    <3>1. InBank(k, assign, c) \in SUBSET Groups(k, assign)
      BY Zenon DEF InBank
    <3> QED BY Zenon, <1>0, <3>1, FS_Subset
  <2> QED BY Zenon, <2>1, FS_CardinalityType
<1>2. M \in Nat /\ Cardinality(Groups(k, assign)) \in Nat
  <2>1. Cardinality(Groups(k, assign)) \in Nat
    BY Zenon, <1>0, FS_CardinalityType
  <2> QED BY <2>1, CacheLineAssumption
<1>3. Bounded(W, Bs, M) /\ \A c \in Bs : Cardinality(InBank(k, assign, c)) <= W[c]
  <2>1. ASSUME NEW c \in Bs
        PROVE  /\ AlignCacheLine(Cardinality(InBank(k, assign, c))) \in 0..M
               /\ Cardinality(InBank(k, assign, c)) <= AlignCacheLine(Cardinality(InBank(k, assign, c)))
    <3> DEFINE v == Cardinality(InBank(k, assign, c))
    <3>1. v \in Nat /\ v <= Cardinality(Groups(k, assign))
      BY Zenon, <1>1
    <3> HIDE DEF v
    <3>2. AlignCacheLine(v) \in Nat /\ v <= AlignCacheLine(v) /\ AlignCacheLine(v) <= v + CacheLine
      BY Zenon, <3>1, AlignFacts
    <3>3. AlignCacheLine(v) \in 0..M
      BY <1>2, <3>1, <3>2, CacheLineAssumption
    <3> QED BY Zenon, <3>2, <3>3 DEF v
  <2> HIDE DEF M
  <2> QED BY Zenon, <2>1 DEF Width, Bounded
<1>4. \A c : BankStart(k, assign, c) = SumFunctionOnSet(W, E(c))
  BY Zenon DEF BankStart, Width
<1> HIDE DEF M, W, Bs
<1>5. ASSUME NEW c PROVE E(c) \in SUBSET Bs /\ IsFiniteSet(E(c))
  BY Zenon, <1>0, FS_Subset
<1> HIDE DEF E
<1>6. ASSUME NEW c
      PROVE  /\ BankStart(k, assign, c) = Cardinality(Units(W, E(c), M))
             /\ IsFiniteSet(Units(W, E(c), M))
  <2>1. SumFunctionOnSet(W, E(c)) = Cardinality(Units(W, E(c), M))
    BY Zenon, <1>2, <1>3, <1>5, SumIsCount
  <2>2. IsFiniteSet(Units(W, E(c), M))
    BY Zenon, <1>2, <1>5, UnitsFinite
  <2> QED BY Zenon, <1>4, <2>1, <2>2
<1>7. BankStart(k, assign, b) \in Nat
  BY Zenon, <1>6, FS_CardinalityType
<1>8. ASSUME NEW c \in Bs, BankBefore(b, c)
      PROVE  BankStart(k, assign, b) + Cardinality(InBank(k, assign, b)) <= BankStart(k, assign, c)
  <2> DEFINE s == E(b) \cup {b}
  <2>0. b \in Bs
    BY Zenon DEF Bs
  <2>1. b \notin E(b) /\ b \in E(c) /\ E(b) \subseteq E(c)
    <3>1. /\ b[1] \in Int /\ b[2] \in Int /\ c[1] \in Int /\ c[2] \in Int
          /\ \A d \in Bs : d[1] \in Int /\ d[2] \in Int
      BY <1>0, <2>0
    <3>2. ~BankBefore(b, b)
      BY <3>1 DEF BankBefore
    <3>3. ASSUME NEW d \in Bs, BankBefore(d, b) PROVE BankBefore(d, c)
      BY <1>8, <3>1, <3>3 DEF BankBefore
    <3> QED BY Zenon, <1>8, <2>0, <3>2, <3>3 DEF E
  <2>2. s \in SUBSET Bs /\ s \subseteq E(c) /\ b \in s /\ s \ {b} = E(b)
    BY Zenon, <1>5, <2>0, <2>1
  <2>3. IsFiniteSet(s)
    BY Zenon, <1>5, <2>2, FS_Subset
  <2> HIDE DEF s
  <2>4. Cardinality(Units(W, s, M)) = W[b] + Cardinality(Units(W, s \ {b}, M))
    <3>1. Adds(W, s, b, M)
      BY Zenon, <1>2, <1>3, <2>2, <2>3, UnitsAdd
    <3> QED BY Zenon, <3>1 DEF Adds
  <2>5. Cardinality(Units(W, s, M)) <= Cardinality(Units(W, E(c), M))
    <3>1. Units(W, s, M) \in SUBSET Units(W, E(c), M)
      BY Zenon, <2>2 DEF Units
    <3> QED BY Zenon, <1>6, <3>1, FS_Subset
  <2>6. W[b] + BankStart(k, assign, b) <= BankStart(k, assign, c)
    <3>1. Cardinality(Units(W, s, M)) = W[b] + BankStart(k, assign, b)
      BY Zenon, <1>6, <2>2, <2>4
    <3> QED BY Zenon, <1>6, <2>5, <3>1
  <2>7. /\ W[b] \in Nat /\ Cardinality(InBank(k, assign, b)) \in Nat
        /\ Cardinality(InBank(k, assign, b)) <= W[b] /\ BankStart(k, assign, c) \in Nat
    <3>1. Cardinality(InBank(k, assign, b)) \in Nat /\ Cardinality(InBank(k, assign, b)) <= W[b]
      BY Zenon, <1>1, <1>3, <2>0
    <3>2. BankStart(k, assign, c) \in Nat
      BY Zenon, <1>6, FS_CardinalityType
    <3>3. W[b] \in 0..M
      BY Zenon, <1>3, <2>0 DEF Bounded
    <3> QED BY <1>2, <3>1, <3>2, <3>3
  <2> QED BY <1>7, <2>6, <2>7
<1> QED BY Zenon, <1>7, <1>8 DEF Bs

\* No two tokens share a slot.
LEMMA SlotFacts ==
  ASSUME NEW n \in Nat, NEW k \in ForwardGraphs(Tasks(n)),
         NEW w \in Nat, NEW assign \in [Tasks(n) -> 0..(w - 1)],
         NEW g \in Groups(k, assign)
  PROVE  /\ Slot(k, assign, g) \in Nat
         /\ \A h \in Groups(k, assign) : Slot(k, assign, g) = Slot(k, assign, h) => g = h
<1> DEFINE start(x) == BankStart(k, assign, Bank(assign, x))
           rank(x) == Rank(k, assign, x)
           size(x) == Cardinality(InBank(k, assign, Bank(assign, x)))
           G == Groups(k, assign)
<1>1. \A x \in G : Slot(k, assign, x) = start(x) + rank(x)
  BY Zenon DEF Slot, Rank
<1>2. \A x \in G : /\ start(x) \in Nat /\ rank(x) \in Nat /\ size(x) \in Nat /\ rank(x) < size(x)
                   /\ Bank(assign, x) \in Banks(k, assign)
  <2>1. \A x \in G : Bank(assign, x) \in Banks(k, assign)
    BY Zenon DEF Banks
  <2> QED BY Zenon, <2>1, StartFacts, RankFacts
<1>3. \A x, y \in G : Bank(assign, x) = Bank(assign, y) /\ x[1] < y[1] => rank(x) < rank(y)
  BY Zenon, RankFacts
<1>4. \A x, y \in G : BankBefore(Bank(assign, x), Bank(assign, y)) => start(x) + size(x) <= start(y)
  BY Zenon, <1>2, StartFacts
<1>5. \A x, y \in G : Bank(assign, x) = Bank(assign, y) => start(x) = start(y)
  BY Zenon
<1>6. \A x \in G : x = <<x[1], x[2]>> /\ x[1] \in Int /\ x[2] \in Int /\ assign[x[1]] \in Int
  <2>1. \A x \in G : x \in Tasks(n) \X (0..(w - 1))
    BY Zenon, GroupsFacts
  <2>2. \A x \in G : x = <<x[1], x[2]>> /\ x[1] \in Tasks(n) /\ x[2] \in 0..(w - 1)
    BY <2>1
  <2>3. \A x \in G : assign[x[1]] \in 0..(w - 1)
    BY Zenon, <2>2
  <2> QED BY <2>2, <2>3 DEF Tasks
<1> HIDE DEF start, rank, size, G
<1>7. ASSUME NEW h \in G, start(g) + rank(g) = start(h) + rank(h) PROVE g = h
  <2>0. g \in G
    BY Zenon DEF G
  <2>1. CASE Bank(assign, g) = Bank(assign, h)
    <3>1. start(g) = start(h) /\ g[2] = h[2]
      BY Zenon, <1>5, <2>0, <2>1 DEF Bank
    <3>2. rank(g) = rank(h)
      BY <1>2, <1>7, <2>0, <3>1
    <3>3. ~(g[1] < h[1]) /\ ~(h[1] < g[1])
      <4>1. ~(rank(g) < rank(h)) /\ ~(rank(h) < rank(g))
        BY <1>2, <2>0, <3>2
      <4> QED BY Zenon, <1>3, <2>0, <2>1, <4>1
    <3>4. g[1] = h[1]
      BY <1>6, <2>0, <3>3
    <3> QED BY Zenon, <1>6, <2>0, <3>1, <3>4
  <2>2. CASE Bank(assign, g) # Bank(assign, h)
    <3>1. \/ BankBefore(Bank(assign, g), Bank(assign, h))
          \/ BankBefore(Bank(assign, h), Bank(assign, g))
      BY <1>6, <2>0, <2>2 DEF Bank, BankBefore
    <3>2. start(g) + size(g) <= start(h) \/ start(h) + size(h) <= start(g)
      BY Zenon, <1>4, <2>0, <3>1
    <3> QED BY <1>2, <1>7, <2>0, <3>2
  <2> QED BY Zenon, <2>1, <2>2
<1>8. Slot(k, assign, g) \in Nat
  BY <1>1, <1>2 DEF G
<1> QED BY Zenon, <1>1, <1>7, <1>8 DEF G

-----------------------------------------------------------------------------
(* The token layout *)

\* The largest MTask of a set of MTasks.
LEMMA MaxFacts ==
  ASSUME NEW n \in Nat, NEW S \in SUBSET Tasks(n), S # {}
  PROVE  Max(S) \in S /\ \A x \in S : x <= Max(S)
<1> DEFINE T == {j \in Nat : n - j \in S}
<1>0. \A x \in S : x \in Int /\ n - x \in Nat /\ n - (n - x) = x
  BY DEF Tasks
<1>1. PICK x \in S : TRUE
  OBVIOUS
<1>2. T \in SUBSET Nat /\ n - x \in T
  BY <1>0
<1>3. PICK j \in T : \A i \in T : j <= i
  BY Zenon, <1>2, LeastNat
<1>4. n - j \in S
  BY Zenon, <1>3
<1>5. ASSUME NEW y \in S PROVE n - j >= y
  <2>1. n - y \in T /\ n - y \in Nat /\ y \in Int
    BY <1>0
  <2>2. j <= n - y
    BY Zenon, <1>3, <2>1
  <2> QED BY <1>3, <2>1, <2>2
<1> DEFINE top(z) == z \in S /\ \A y \in S : z >= y
<1>6. top(n - j)
  BY Zenon, <1>4, <1>5
<1>7. Max(S) = CHOOSE z : top(z)
  BY Zenon DEF Max
<1> HIDE DEF top
<1>8. top(Max(S))
  BY Zenon, <1>6, <1>7
<1> QED BY <1>0, <1>8 DEF top

\* The sources of a token are on one worker, and the last of them publishes it.
LEMMA PublisherFacts ==
  ASSUME NEW n \in Nat, NEW k \in ForwardGraphs(Tasks(n)),
         NEW w \in Nat, NEW assign \in [Tasks(n) -> 0..(w - 1)], NEW g \in Groups(k, assign)
  PROVE  /\ Sources(k, assign, g) \in SUBSET Tasks(n)
         /\ Publisher(k, assign, g) \in Sources(k, assign, g)
         /\ \A p \in Sources(k, assign, g) : /\ p <= Publisher(k, assign, g)
                                            /\ assign[p] = g[2] /\ g[1] \in k[p]
<1>1. DOMAIN k = Tasks(n)
  BY Zenon, ForwardFacts
<1>2. Sources(k, assign, g) = {p \in Tasks(n) : g[1] \in k[p] /\ assign[p] = g[2]}
  BY Zenon, <1>1 DEF Sources
<1>3. Sources(k, assign, g) # {}
  <2>1. \E p \in Tasks(n) : g[1] \in k[p] /\ assign[p] = g[2]
    BY Zenon, GroupsFacts
  <2> QED BY Zenon, <1>2, <2>1
<1>4. Sources(k, assign, g) \in SUBSET Tasks(n)
  BY Zenon, <1>2
<1> QED BY Zenon, <1>2, <1>3, <1>4, MaxFacts DEF Publisher

\* What the executor reads of a token layout.
LayoutOK(L, n, k, assign) ==
  /\ L.slots \in SUBSET Nat
  /\ L.waits \in [Tasks(n) -> SUBSET L.slots]
  /\ L.stores \in [Tasks(n) -> SUBSET L.slots]
  /\ L.writer \in [L.slots -> Tasks(n)]
  /\ \A m \in Tasks(n) : \A s \in L.slots : s \in L.stores[m] <=> L.writer[s] = m
  /\ \A s \in L.slots : \E g \in Groups(k, assign) : s = Slot(k, assign, g)
  /\ \A g \in Groups(k, assign) :
       /\ Slot(k, assign, g) \in L.slots
       /\ L.writer[Slot(k, assign, g)] = Publisher(k, assign, g)
       /\ L.sources[Slot(k, assign, g)] = Sources(k, assign, g)
       /\ \A m \in Tasks(n) : Slot(k, assign, g) \in L.waits[m] <=> g[1] = m

\* mtBuildDenseOwnerReadyLayout: the slot tables say what the groups say, since no
\* two groups share a slot.
LEMMA LayoutFacts ==
  ASSUME NEW n \in Nat, NEW k \in ForwardGraphs(Tasks(n)),
         NEW w \in Nat, NEW assign \in [Tasks(n) -> 0..(w - 1)]
  PROVE  LayoutOK(OwnerReadyLayout(k, assign), n, k, assign)
<1> DEFINE L == OwnerReadyLayout(k, assign)
           G == Groups(k, assign)
           slotOf == [g \in G |-> Slot(k, assign, g)]
           Ss == {slotOf[g] : g \in G}
           groupOf == [s \in Ss |-> CHOOSE g \in G : slotOf[g] = s]
<1>1. DOMAIN k = Tasks(n)
  BY Zenon, ForwardFacts
<1>2. /\ L.slots = Ss
      /\ L.waits = [m \in Tasks(n) |-> {s \in Ss : groupOf[s][1] = m}]
      /\ L.stores = [m \in Tasks(n) |-> {s \in Ss : Publisher(k, assign, groupOf[s]) = m}]
      /\ L.writer = [s \in Ss |-> Publisher(k, assign, groupOf[s])]
      /\ L.sources = [s \in Ss |-> Sources(k, assign, groupOf[s])]
  <2> HIDE DEF G
  <2>1. L = [slots |-> Ss,
             waits |-> [m \in Tasks(n) |-> {s \in Ss : groupOf[s][1] = m}],
             stores |-> [m \in Tasks(n) |-> {s \in Ss : Publisher(k, assign, groupOf[s]) = m}],
             writer |-> [s \in Ss |-> Publisher(k, assign, groupOf[s])],
             reader |-> [s \in Ss |-> groupOf[s][1]],
             sources |-> [s \in Ss |-> Sources(k, assign, groupOf[s])]]
    BY Zenon, <1>1 DEF OwnerReadyLayout, G
  <2> HIDE DEF Ss, groupOf, L
  <2> QED BY <2>1
<1> HIDE DEF L
<1>3. ASSUME NEW g \in G PROVE slotOf[g] = Slot(k, assign, g) /\ slotOf[g] \in Ss /\ slotOf[g] \in Nat
  <2>1. slotOf[g] = Slot(k, assign, g) /\ slotOf[g] \in Ss
    BY Zenon
  <2> QED BY Zenon, <2>1, SlotFacts
<1>4. ASSUME NEW g \in G PROVE groupOf[slotOf[g]] = g
  <2>1. groupOf[slotOf[g]] = CHOOSE h \in G : slotOf[h] = slotOf[g]
    BY Zenon, <1>3
  <2>2. ASSUME NEW h \in G, slotOf[h] = slotOf[g] PROVE h = g
    BY Zenon, <1>3, <2>2, SlotFacts
  <2> HIDE DEF slotOf, groupOf
  <2> QED BY Zenon, <2>1, <2>2
<1>5. \A s \in Ss : \E g \in G : s = slotOf[g]
  BY Zenon
<1> HIDE DEF slotOf, groupOf, Ss
<1>6. Ss \in SUBSET Nat
  BY Zenon, <1>3, <1>5
<1>7. ASSUME NEW s \in Ss PROVE Publisher(k, assign, groupOf[s]) \in Tasks(n) /\ groupOf[s] \in G
  <2>1. PICK g \in G : s = slotOf[g]
    BY Zenon, <1>5
  <2>2. groupOf[s] = g
    BY Zenon, <1>4, <2>1
  <2>3. Publisher(k, assign, g) \in Tasks(n)
    BY Zenon, PublisherFacts
  <2> QED BY Zenon, <2>2, <2>3
<1>8. /\ \A m \in Tasks(n) : L.waits[m] = {s \in Ss : groupOf[s][1] = m}
      /\ \A m \in Tasks(n) : L.stores[m] = {s \in Ss : Publisher(k, assign, groupOf[s]) = m}
      /\ \A s \in Ss : L.writer[s] = Publisher(k, assign, groupOf[s])
      /\ \A s \in Ss : L.sources[s] = Sources(k, assign, groupOf[s])
  BY Zenon, <1>2
<1>9. L.waits \in [Tasks(n) -> SUBSET L.slots] /\ L.stores \in [Tasks(n) -> SUBSET L.slots]
  <2>1. \A m \in Tasks(n) : {s \in Ss : groupOf[s][1] = m} \in SUBSET Ss
    BY Zenon
  <2>2. \A m \in Tasks(n) : {s \in Ss : Publisher(k, assign, groupOf[s]) = m} \in SUBSET Ss
    BY Zenon
  <2>3. L.waits \in [Tasks(n) -> SUBSET Ss]
    BY <1>2, <2>1
  <2>4. L.stores \in [Tasks(n) -> SUBSET Ss]
    BY <1>2, <2>2
  <2> QED BY Zenon, <1>2, <2>3, <2>4
<1>10. L.writer \in [L.slots -> Tasks(n)]
  BY Zenon, <1>2, <1>7
<1>11. ASSUME NEW m \in Tasks(n), NEW s \in L.slots PROVE s \in L.stores[m] <=> L.writer[s] = m
  <2>1. s \in Ss
    BY Zenon, <1>2
  <2>2. L.stores[m] = {x \in Ss : Publisher(k, assign, groupOf[x]) = m}
    BY Zenon, <1>8
  <2>3. L.writer[s] = Publisher(k, assign, groupOf[s])
    BY Zenon, <1>8, <2>1
  <2> QED BY Zenon, <2>1, <2>2, <2>3
<1>12. ASSUME NEW g \in G
       PROVE  /\ slotOf[g] \in L.slots
              /\ L.writer[slotOf[g]] = Publisher(k, assign, g)
              /\ L.sources[slotOf[g]] = Sources(k, assign, g)
              /\ \A m \in Tasks(n) : slotOf[g] \in L.waits[m] <=> g[1] = m
  <2>1. slotOf[g] \in Ss /\ groupOf[slotOf[g]] = g
    BY Zenon, <1>3, <1>4
  <2>2. slotOf[g] \in L.slots
    BY Zenon, <1>2, <2>1
  <2>3. L.writer[slotOf[g]] = Publisher(k, assign, g) /\ L.sources[slotOf[g]] = Sources(k, assign, g)
    BY Zenon, <1>8, <2>1
  <2>4. ASSUME NEW m \in Tasks(n) PROVE slotOf[g] \in L.waits[m] <=> g[1] = m
    <3>1. L.waits[m] = {s \in Ss : groupOf[s][1] = m}
      BY Zenon, <1>8
    <3> QED BY Zenon, <2>1, <3>1
  <2> QED BY Zenon, <2>2, <2>3, <2>4
<1>13. ASSUME NEW s \in L.slots PROVE \E g \in G : s = Slot(k, assign, g)
  <2>1. s \in Ss
    BY Zenon, <1>2
  <2>2. PICK g \in G : s = slotOf[g]
    BY Zenon, <1>5, <2>1
  <2> QED BY Zenon, <1>3, <2>2
<1>14. ASSUME NEW g \in G
       PROVE  /\ Slot(k, assign, g) \in L.slots
              /\ L.writer[Slot(k, assign, g)] = Publisher(k, assign, g)
              /\ L.sources[Slot(k, assign, g)] = Sources(k, assign, g)
              /\ \A m \in Tasks(n) : Slot(k, assign, g) \in L.waits[m] <=> g[1] = m
  <2>1. slotOf[g] = Slot(k, assign, g)
    BY Zenon, <1>3
  <2>2. /\ slotOf[g] \in L.slots
        /\ L.writer[slotOf[g]] = Publisher(k, assign, g)
        /\ L.sources[slotOf[g]] = Sources(k, assign, g)
        /\ \A m \in Tasks(n) : slotOf[g] \in L.waits[m] <=> g[1] = m
    BY Zenon, <1>12
  <2> QED BY Zenon, <2>1, <2>2
<1>15. L.slots \in SUBSET Nat
  BY Zenon, <1>2, <1>6
<1> HIDE DEF G
<1> QED BY Zenon, <1>9, <1>10, <1>11, <1>13, <1>14, <1>15 DEF L, G, LayoutOK

\* An edge of the graph has a token, stored no earlier than its source.
LEMMA TokenFor ==
  ASSUME NEW n \in Nat, NEW k \in ForwardGraphs(Tasks(n)),
         NEW w \in Nat, NEW assign \in [Tasks(n) -> 0..(w - 1)],
         NEW L, L = OwnerReadyLayout(k, assign), NEW r \in Tasks(n), NEW m \in k[r]
  PROVE  \E s \in L.waits[m] : /\ s \in L.slots
                               /\ assign[L.writer[s]] = assign[r] /\ r <= L.writer[s]
                               /\ r \in L.sources[s]
<1> DEFINE g == <<m, assign[r]>>
           s == Slot(k, assign, g)
<1>0. LayoutOK(L, n, k, assign)
  BY Zenon, LayoutFacts
<1>1. g \in Groups(k, assign) /\ g[1] = m /\ g[2] = assign[r] /\ m \in Tasks(n)
  BY Zenon, GroupsFacts, ForwardFacts
<1>2. DOMAIN k = Tasks(n)
  BY Zenon, ForwardFacts
<1>3. r \in Sources(k, assign, g)
  BY Zenon, <1>1, <1>2 DEF Sources
<1> HIDE DEF g
<1>4. g \in Groups(k, assign)
  BY Zenon, <1>1
<1>5. /\ Publisher(k, assign, g) \in Sources(k, assign, g)
      /\ \A p \in Sources(k, assign, g) : /\ p <= Publisher(k, assign, g)
                                         /\ assign[p] = g[2] /\ g[1] \in k[p]
  BY Zenon, <1>4, PublisherFacts
<1>6. r <= Publisher(k, assign, g) /\ assign[Publisher(k, assign, g)] = assign[r]
  BY Zenon, <1>1, <1>3, <1>5
<1>7. /\ s \in L.slots /\ s \in L.waits[m]
      /\ L.writer[s] = Publisher(k, assign, g) /\ L.sources[s] = Sources(k, assign, g)
  BY Zenon, <1>0, <1>1 DEF LayoutOK
<1> HIDE DEF s
<1> QED BY Zenon, <1>3, <1>6, <1>7

\* The sources of a token are on one worker, and its writer is the last of them.
LEMMA TokenSources ==
  ASSUME NEW n \in Nat, NEW k \in ForwardGraphs(Tasks(n)),
         NEW w \in Nat, NEW assign \in [Tasks(n) -> 0..(w - 1)],
         NEW L, L = OwnerReadyLayout(k, assign), NEW s \in L.slots
  PROVE  /\ L.writer[s] \in L.sources[s] /\ L.sources[s] \in SUBSET Tasks(n)
         /\ \A p \in L.sources[s] : p <= L.writer[s] /\ assign[p] = assign[L.writer[s]]
         /\ \A m \in Tasks(n) : s \in L.waits[m] => m \in k[L.writer[s]]
<1>0. LayoutOK(L, n, k, assign)
  BY Zenon, LayoutFacts
<1>1. PICK g \in Groups(k, assign) : s = Slot(k, assign, g)
  BY Zenon, <1>0 DEF LayoutOK
<1>a. /\ L.writer[Slot(k, assign, g)] = Publisher(k, assign, g)
      /\ L.sources[Slot(k, assign, g)] = Sources(k, assign, g)
      /\ \A m \in Tasks(n) : Slot(k, assign, g) \in L.waits[m] <=> g[1] = m
  BY Zenon, <1>0 DEF LayoutOK
<1>2. /\ L.writer[s] = Publisher(k, assign, g) /\ L.sources[s] = Sources(k, assign, g)
      /\ \A m \in Tasks(n) : s \in L.waits[m] <=> g[1] = m
  BY Zenon, <1>a, <1>1
<1>3. /\ Sources(k, assign, g) \in SUBSET Tasks(n)
      /\ Publisher(k, assign, g) \in Sources(k, assign, g)
      /\ \A p \in Sources(k, assign, g) : /\ p <= Publisher(k, assign, g)
                                         /\ assign[p] = g[2] /\ g[1] \in k[p]
  BY Zenon, PublisherFacts
<1> QED BY Zenon, <1>2, <1>3

-----------------------------------------------------------------------------
(* The emitted programs are sound *)

\* The edges no detour stands for: what a reduction must keep.
Irreducible(g, r, m) == m \in g[r] /\ \A alt \in g[r] \ {m} : m \notin Reachable(g)[alt]

\* The order the reduction reasons with: the graph and the worker chains.
Chained(graph, assign) == EffectiveSuccs(graph, assign, TRUE)

\* The successors of a build, with and without the reduction.
Runtime(graph, assign, x, reduce) ==
  IF reduce THEN ReduceTransitive(RuntimeSuccs(graph, assign, x), assign, TRUE)
            ELSE RuntimeSuccs(graph, assign, x)

\* The successors of every build are some of the edges of the schedule.
LEMMA RuntimeForward ==
  ASSUME NEW n \in Nat, NEW g \in ForwardGraphs(Tasks(n)), NEW assign, DOMAIN assign = Tasks(n),
         NEW x \in BOOLEAN, NEW reduce \in BOOLEAN
  PROVE  /\ Runtime(g, assign, x, reduce) \in ForwardGraphs(Tasks(n))
         /\ \A m \in Tasks(n) : Runtime(g, assign, x, reduce)[m] \subseteq g[m]
<1> DEFINE X == RuntimeSuccs(g, assign, x)
<1>1. X \in ForwardGraphs(Tasks(n))
  BY Zenon, RuntimeFacts
<1>2. \A m \in Tasks(n) : \A s : s \in X[m] <=> s \in g[m] /\ ~(x /\ assign[m] = assign[s])
  BY RuntimeFacts
<1> HIDE DEF X
<1>3. /\ ReduceTransitive(X, assign, TRUE) \in ForwardGraphs(Tasks(n))
      /\ \A m \in Tasks(n) : ReduceTransitive(X, assign, TRUE)[m] \subseteq X[m]
  BY Zenon, <1>1, ReduceFacts
<1>4. Runtime(g, assign, x, reduce) = IF reduce THEN ReduceTransitive(X, assign, TRUE) ELSE X
  BY Zenon DEF Runtime, X
<1>5. CASE reduce
  BY Zenon, <1>2, <1>3, <1>4, <1>5
<1>6. CASE ~reduce
  BY Zenon, <1>1, <1>2, <1>4, <1>6
<1> QED BY Zenon, <1>5, <1>6

\* The reduction leaves an edge of the chained graph that has no detour, unless
\* the order inside a worker stands for it.
LEMMA IrreducibleKept ==
  ASSUME NEW n \in Nat, NEW g \in ForwardGraphs(Tasks(n)), NEW assign, DOMAIN assign = Tasks(n),
         NEW x \in BOOLEAN, NEW reduce \in BOOLEAN,
         NEW r \in Tasks(n), NEW m, Irreducible(Chained(g, assign), r, m)
  PROVE  m \in Tasks(n) /\ r < m /\ (m \in Runtime(g, assign, x, reduce)[r] \/ assign[r] = assign[m])
<1> DEFINE X == RuntimeSuccs(g, assign, x)
           E == Chained(g, assign)
<1>1. X \in ForwardGraphs(Tasks(n))
  BY Zenon, RuntimeFacts
<1>2. \A k \in Tasks(n) : \A s : s \in X[k] <=> s \in g[k] /\ ~(x /\ assign[k] = assign[s])
  BY RuntimeFacts
<1>3. E \in ForwardGraphs(Tasks(n))
  BY Zenon, EffectiveFacts DEF Chained
<1>4. \A k \in Tasks(n) : \A s : s \in E[k] <=> s \in g[k] \/ s \in ChainSuccs(assign, k)
  BY Zenon, EffectiveFacts DEF Chained
<1>5. \A k \in Tasks(n) : \A s \in ChainSuccs(assign, k) : assign[s] = assign[k]
  BY Zenon DEF ChainSuccs
<1> HIDE DEF X
<1>6. \A k \in Tasks(n) : \A s : s \in EffectiveSuccs(X, assign, TRUE)[k]
         <=> s \in X[k] \/ s \in ChainSuccs(assign, k)
  BY Zenon, <1>1, EffectiveFacts
<1>7. \A k \in Tasks(n) : EffectiveSuccs(X, assign, TRUE)[k] \subseteq E[k]
  BY Zenon, <1>2, <1>4, <1>6
<1>8. m \in E[r] /\ \A alt \in E[r] \ {m} : m \notin Reachable(E)[alt]
  BY Zenon DEF Irreducible
<1> HIDE DEF E
<1>9. m \in Tasks(n) /\ m > r /\ r \in Int /\ m \in Int
  BY <1>3, <1>8, ForwardFacts DEF Tasks
<1>10. \A h \in ForwardGraphs(Tasks(n)) :
         (\A k \in Tasks(n) : EffectiveSuccs(X, assign, TRUE)[k] \subseteq h[k]) =>
           \A q \in Tasks(n) : \A s \in X[q] :
             (\A alt \in h[q] \ {s} : s \notin Reachable(h)[alt]) => s \in ReduceTransitive(X, assign, TRUE)[q]
  BY Zenon, <1>1, ReduceFacts
<1>11. m \in X[r] => m \in ReduceTransitive(X, assign, TRUE)[r]
  BY Zenon, <1>3, <1>7, <1>8, <1>10
<1>12. m \in X[r] => m \in Runtime(g, assign, x, reduce)[r]
  BY Zenon, <1>11 DEF Runtime, X
<1>13. m \in X[r] \/ assign[r] = assign[m]
  BY Zenon, <1>2, <1>4, <1>5, <1>8
<1>14. r < m
  BY <1>9
<1> QED BY Zenon, <1>9, <1>12, <1>13, <1>14

\* Every pair of the order ends in an edge with no detour.
LEMMA OrderEnds ==
  ASSUME NEW n \in Nat, NEW g \in ForwardGraphs(Tasks(n)), NEW q \in Tasks(n), NEW m \in Reachable(g)[q]
  PROVE  \E r \in Tasks(n) : (r = q \/ r \in Reachable(g)[q]) /\ Irreducible(g, r, m)
BY Zenon, LastEdge DEF Irreducible

\* The order of a program holds the edges of the schedule and is forward.
LEMMA OrderFacts ==
  ASSUME NEW n \in Nat, NEW g \in ForwardGraphs(Tasks(n)), NEW assign, DOMAIN assign = Tasks(n)
  PROVE  /\ Chained(g, assign) \in ForwardGraphs(Tasks(n))
         /\ \A q \in Tasks(n) : g[q] \subseteq Chained(g, assign)[q]
         /\ OrderPairs(g, assign) \in SUBSET (Tasks(n) \X Tasks(n))
         /\ \A q, m \in Tasks(n) : <<q, m>> \in OrderPairs(g, assign) <=> m \in Reachable(Chained(g, assign))[q]
         /\ \A q \in Tasks(n) : \A m \in g[q] : m \in Tasks(n) /\ q < m /\ <<q, m>> \in OrderPairs(g, assign)
<1> DEFINE E == Chained(g, assign)
           R == Reachable(E)
<1>1. E \in ForwardGraphs(Tasks(n))
  BY Zenon, EffectiveFacts DEF Chained
<1>2. \A q \in Tasks(n) : \A s : s \in E[q] <=> s \in g[q] \/ s \in ChainSuccs(assign, q)
  BY Zenon, EffectiveFacts DEF Chained
<1>3. DOMAIN g = Tasks(n) /\ \A q \in Tasks(n) : \A m \in g[q] : m \in Tasks(n) /\ m > q
  BY Zenon, ForwardFacts
<1>4. OrderPairs(g, assign) = {e \in Tasks(n) \X Tasks(n) : e[2] \in R[e[1]]}
  BY Zenon, <1>3 DEF OrderPairs, Chained
<1> HIDE DEF E
<1>5. \A q \in Tasks(n) : \A m \in E[q] : m \in R[q]
  BY Zenon, <1>1, ReachStep
<1> HIDE DEF R
<1>6. \A q, m \in Tasks(n) : <<q, m>> \in OrderPairs(g, assign) <=> m \in R[q]
  BY <1>4
<1>7. \A q \in Tasks(n) : \A m \in g[q] : m \in Tasks(n) /\ q < m
  BY <1>3 DEF Tasks
<1>8. \A q \in Tasks(n) : \A m \in g[q] : <<q, m>> \in OrderPairs(g, assign)
  BY Zenon, <1>2, <1>5, <1>6, <1>7
<1>9. OrderPairs(g, assign) \in SUBSET (Tasks(n) \X Tasks(n))
  BY Zenon, <1>4
<1>10. \A q \in Tasks(n) : g[q] \subseteq E[q]
  BY Zenon, <1>2
<1> QED BY Zenon, <1>1, <1>6, <1>7, <1>8, <1>9, <1>10 DEF E, R

\* The same of the pairs in the order of a program.
LEMMA OrderSteps ==
  ASSUME NEW n \in Nat, NEW g \in ForwardGraphs(Tasks(n)), NEW assign, DOMAIN assign = Tasks(n)
  PROVE  \A q, m \in Tasks(n) : <<q, m>> \in OrderPairs(g, assign) =>
           \E r \in Tasks(n) : /\ r = q \/ <<q, r>> \in OrderPairs(g, assign)
                               /\ Irreducible(Chained(g, assign), r, m)
<1> DEFINE E == Chained(g, assign)
           O == OrderPairs(g, assign)
<1>1. E \in ForwardGraphs(Tasks(n))
  BY Zenon, OrderFacts
<1>2. \A q, m \in Tasks(n) : <<q, m>> \in O <=> m \in Reachable(E)[q]
  BY Zenon, OrderFacts
<1> HIDE DEF E, O
<1>3. ASSUME NEW q \in Tasks(n), NEW m \in Tasks(n), <<q, m>> \in O
      PROVE  \E r \in Tasks(n) : (r = q \/ <<q, r>> \in O) /\ Irreducible(E, r, m)
  <2>1. m \in Reachable(E)[q]
    BY Zenon, <1>2, <1>3
  <2>2. PICK r \in Tasks(n) : (r = q \/ r \in Reachable(E)[q]) /\ Irreducible(E, r, m)
    BY Zenon, <1>1, <2>1, OrderEnds
  <2> QED BY Zenon, <1>2, <2>2
<1> QED BY Zenon, <1>3 DEF E, O

\* SoundPlan, with the MTasks named.
SoundPlanOn(p, owners, T) ==
  /\ p.deps \in [T -> SUBSET T] /\ T \in SUBSET Nat /\ p.owner \in [T -> owners]
  /\ p.waits \in [T -> SUBSET p.slots] /\ p.stores \in [T -> SUBSET p.slots]
  /\ p.writer \in [p.slots -> T] /\ p.slots \in SUBSET Nat
  /\ \A m \in T : \A s \in p.slots : s \in p.stores[m] <=> p.writer[s] = m
  /\ p.order \in SUBSET (T \X T)
  /\ \A q \in T : \A m \in p.deps[q] : q < m /\ <<q, m>> \in p.order
  /\ \A q, m \in T : <<q, m>> \in p.order =>
       Before(p, q, m) \/ \E r \in T : <<q, r>> \in p.order /\ Before(p, r, m)

\* SoundPlan from its parts.
LEMMA SoundPlanByTasks ==
  ASSUME NEW p, NEW owners, SoundPlanOn(p, owners, MTasksOf(p)) PROVE SoundPlan(p, owners)
BY Zenon DEF SoundPlanOn, SoundPlan

\* genDenseExecutor, strict tokens: whatever the schedule and the assignment, the
\* reduced edges and the packed tokens are a program on which no MTask can
\* start before what it depends on: what DenseExecutor assumes of its programs.
THEOREM StrictPlanIsSound ==
  ASSUME NEW n \in Nat, NEW graph \in ForwardGraphs(Tasks(n)),
         NEW w \in Nat, NEW assign \in [Tasks(n) -> 0..(w - 1)]
  PROVE  SoundPlan(StrictPlan(graph, assign), 0..(w - 1))
<1> DEFINE p == StrictPlan(graph, assign)
           K == StrictSuccs(graph, assign)
           L == OwnerReadyLayout(K, assign)
           E == Chained(graph, assign)
           O == OrderPairs(graph, assign)
<1>1. K = Runtime(graph, assign, TRUE, TRUE)
  BY Zenon DEF StrictSuccs, Runtime
<1>0. DOMAIN assign = Tasks(n)
  OBVIOUS
<1>a. /\ O \in SUBSET (Tasks(n) \X Tasks(n))
      /\ \A q \in Tasks(n) : \A m \in graph[q] : m \in Tasks(n) /\ q < m /\ <<q, m>> \in O
  BY Zenon, <1>0, OrderFacts
<1>b. \A q, m \in Tasks(n) : <<q, m>> \in O => \E r \in Tasks(n) :
        (r = q \/ <<q, r>> \in O) /\ Irreducible(E, r, m)
  BY Zenon, <1>0, OrderSteps
<1>2. K \in ForwardGraphs(Tasks(n))
  BY Zenon, <1>0, <1>1, RuntimeForward
<1>3. /\ p.deps = graph /\ p.owner = assign /\ p.slots = L.slots /\ p.waits = L.waits
      /\ p.stores = L.stores /\ p.writer = L.writer /\ p.order = O
  BY Zenon DEF StrictPlan
<1> HIDE DEF p, K, O
<1>4. LayoutOK(L, n, K, assign)
  BY Zenon, <1>2, LayoutFacts
<1>5. MTasksOf(p) = Tasks(n)
  BY Zenon, <1>3, ForwardFacts DEF MTasksOf
<1>6. graph \in [Tasks(n) -> SUBSET Tasks(n)] /\ Tasks(n) \in SUBSET Nat
  BY Zenon, ForwardFacts
<1>7. ASSUME NEW r \in Tasks(n), NEW m \in Tasks(n), Irreducible(E, r, m)
      PROVE  Before(p, r, m)
  <2>0. \A x, y \in BOOLEAN : r < m /\ (m \in Runtime(graph, assign, x, y)[r] \/ assign[r] = assign[m])
    BY <1>0, <1>7, IrreducibleKept
  <2>1. r < m /\ (m \in K[r] \/ assign[r] = assign[m])
    BY Zenon, <1>1, <2>0
  <2>2. CASE assign[r] = assign[m]
    BY Zenon, <1>3, <2>1, <2>2 DEF Before
  <2>3. CASE m \in K[r]
    <3>1. \E s \in L.waits[m] : assign[L.writer[s]] = assign[r] /\ r <= L.writer[s]
      BY <1>2, <2>3, TokenFor
    <3> HIDE DEF L
    <3> QED BY Zenon, <1>3, <3>1 DEF Before
  <2> QED BY Zenon, <2>1, <2>2, <2>3
<1> HIDE DEF L
<1>8. ASSUME NEW q \in Tasks(n), NEW m \in Tasks(n), <<q, m>> \in p.order
      PROVE  Before(p, q, m) \/ \E r \in Tasks(n) : <<q, r>> \in p.order /\ Before(p, r, m)
  <2>1. PICK r \in Tasks(n) : (r = q \/ <<q, r>> \in p.order) /\ Irreducible(E, r, m)
    BY Zenon, <1>3, <1>8, <1>b
  <2> QED BY Zenon, <1>7, <2>1
<1>9. /\ p.order \in SUBSET (Tasks(n) \X Tasks(n))
      /\ \A q \in Tasks(n) : \A m \in p.deps[q] : q < m /\ <<q, m>> \in p.order
  BY Zenon, <1>3, <1>a
<1>c. /\ L.waits \in [Tasks(n) -> SUBSET L.slots] /\ L.stores \in [Tasks(n) -> SUBSET L.slots]
      /\ L.writer \in [L.slots -> Tasks(n)] /\ L.slots \in SUBSET Nat
      /\ \A m \in Tasks(n) : \A s \in L.slots : s \in L.stores[m] <=> L.writer[s] = m
  BY Zenon, <1>4 DEF LayoutOK
<1>10. /\ p.waits \in [Tasks(n) -> SUBSET p.slots] /\ p.stores \in [Tasks(n) -> SUBSET p.slots]
       /\ p.writer \in [p.slots -> Tasks(n)] /\ p.slots \in SUBSET Nat
       /\ \A m \in Tasks(n) : \A s \in p.slots : s \in p.stores[m] <=> p.writer[s] = m
  BY <1>3, <1>c
<1>11. p.deps \in [Tasks(n) -> SUBSET Tasks(n)] /\ p.owner \in [Tasks(n) -> 0..(w - 1)]
  BY Zenon, <1>3, <1>6
<1>12. SoundPlanOn(p, 0..(w - 1), Tasks(n))
  BY Zenon, <1>6, <1>8, <1>9, <1>10, <1>11 DEF SoundPlanOn
<1>13. SoundPlan(p, 0..(w - 1))
  BY Zenon, <1>5, <1>12, SoundPlanByTasks
<1> QED BY Zenon, <1>13 DEF p

\* genDenseExecutor, dependency counters: the same, for every build and number of
\* lanes; what DenseCounters assumes of its programs.
THEOREM CounterPlanIsSound ==
  ASSUME NEW n \in Nat, NEW graph \in ForwardGraphs(Tasks(n)),
         NEW generated \in Nat \ {0}, NEW assign \in [Tasks(n) -> 0..(generated - 1)],
         NEW xthread \in BOOLEAN, NEW reduce \in BOOLEAN
  PROVE  SoundCounts(CounterPlan(graph, generated, assign, xthread, reduce))
<1> DEFINE p == CounterPlan(graph, generated, assign, xthread, reduce)
           K == Runtime(graph, assign, xthread, reduce)
           E == Chained(graph, assign)
           O == OrderPairs(graph, assign)
<1>0. DOMAIN assign = Tasks(n)
  OBVIOUS
<1>a. /\ O \in SUBSET (Tasks(n) \X Tasks(n))
      /\ \A q \in Tasks(n) : \A m \in graph[q] : m \in Tasks(n) /\ q < m /\ <<q, m>> \in O
  BY Zenon, <1>0, OrderFacts
<1>b. \A q, m \in Tasks(n) : <<q, m>> \in O => \E r \in Tasks(n) :
        (r = q \/ <<q, r>> \in O) /\ Irreducible(E, r, m)
  BY Zenon, <1>0, OrderSteps
<1>2. K \in ForwardGraphs(Tasks(n))
  BY Zenon, <1>0, RuntimeForward
<1>3. /\ p.deps = graph /\ p.owner = assign /\ p.generated = generated
      /\ p.runtime = K /\ p.order = O
  BY Zenon DEF CounterPlan, Runtime
<1> HIDE DEF p, K, O
<1>5. MTasksOf(p) = Tasks(n)
  BY Zenon, <1>3, ForwardFacts DEF MTasksOf
<1>6. graph \in [Tasks(n) -> SUBSET Tasks(n)] /\ Tasks(n) \in SUBSET Nat
  BY Zenon, ForwardFacts
<1>7. ASSUME NEW r \in Tasks(n), NEW m \in Tasks(n), Irreducible(E, r, m)
      PROVE  CountedBefore(p, r, m)
  <2>1. r < m /\ (m \in K[r] \/ assign[r] = assign[m])
    BY <1>0, <1>7, IrreducibleKept DEF K
  <2> QED BY Zenon, <1>3, <2>1 DEF CountedBefore
<1>8. ASSUME NEW q \in Tasks(n), NEW m \in Tasks(n), <<q, m>> \in p.order
      PROVE  CountedBefore(p, q, m) \/ \E r \in Tasks(n) : <<q, r>> \in p.order /\ CountedBefore(p, r, m)
  <2>1. PICK r \in Tasks(n) : (r = q \/ <<q, r>> \in p.order) /\ Irreducible(E, r, m)
    BY Zenon, <1>3, <1>8, <1>b
  <2> QED BY Zenon, <1>7, <2>1
<1>9. \A q \in Tasks(n) : \A m \in p.deps[q] : q < m /\ <<q, m>> \in p.order
  BY Zenon, <1>3, <1>a
<1>10. p.runtime \in [Tasks(n) -> SUBSET Tasks(n)]
  BY Zenon, <1>2, <1>3, ForwardFacts
<1>11. p.deps \in [Tasks(n) -> SUBSET Tasks(n)] /\ p.owner \in [Tasks(n) -> 0..(p.generated - 1)]
       /\ p.generated \in Nat \ {0}
  BY Zenon, <1>3, <1>6
<1>12. IsFiniteSet(Tasks(n))
  BY FS_Interval DEF Tasks
<1> QED BY Zenon, <1>5, <1>6, <1>8, <1>9, <1>10, <1>11, <1>12 DEF SoundCounts, p

-----------------------------------------------------------------------------
(* The lookahead tables *)

\* The tables of the lookahead build, and the order its candidates keep.
CrossLayout(graph, assign) == OwnerReadyLayout(CrossWorkerSuccs(graph, assign), assign)

\* denseLookaheadLocalPrereqs of every MTask.
Locals(graph, assign) ==
  [m \in DOMAIN graph |-> LocalPrereqs(graph, assign, CrossLayout(graph, assign), m)]

\* The graph, and the local prerequisites as edges.
Guarded(graph, assign) ==
  [m \in DOMAIN graph |-> graph[m] \cup {s \in DOMAIN graph : m \in Locals(graph, assign)[s]}]

\* The reduction without chains keeps the edges no larger graph has a detour for.
LEMMA DagFacts ==
  ASSUME NEW n \in Nat, NEW g \in ForwardGraphs(Tasks(n)), NEW assign, DOMAIN assign = Tasks(n)
  PROVE  /\ DagOnlySuccs(g, assign) \in ForwardGraphs(Tasks(n))
         /\ \A m \in Tasks(n) : DagOnlySuccs(g, assign)[m] \subseteq g[m]
         /\ \A h \in ForwardGraphs(Tasks(n)) : (\A m \in Tasks(n) : g[m] \subseteq h[m]) =>
              \A r \in Tasks(n) : \A m \in g[r] : Irreducible(h, r, m) => m \in DagOnlySuccs(g, assign)[r]
<1> DEFINE X == RuntimeSuccs(g, assign, FALSE)
           D == DagOnlySuccs(g, assign)
<1>a. FALSE \in BOOLEAN
  OBVIOUS
<1>1. X \in ForwardGraphs(Tasks(n))
  BY Zenon, <1>a, RuntimeFacts
<1>2. \A x \in BOOLEAN : \A m \in Tasks(n) : \A s : s \in RuntimeSuccs(g, assign, x)[m]
        <=> s \in g[m] /\ ~(x /\ assign[m] = assign[s])
  BY RuntimeFacts
<1>3. \A m \in Tasks(n) : \A s : s \in X[m] <=> s \in g[m]
  BY Zenon, <1>a, <1>2
<1> HIDE DEF X
<1>4. D = ReduceTransitive(X, assign, FALSE)
  BY Zenon DEF DagOnlySuccs, X
<1>5. D \in ForwardGraphs(Tasks(n)) /\ \A m \in Tasks(n) : D[m] \subseteq X[m]
  BY Zenon, <1>1, <1>4, <1>a, ReduceFacts
<1>6. \A h \in ForwardGraphs(Tasks(n)) :
         (\A k \in Tasks(n) : EffectiveSuccs(X, assign, FALSE)[k] \subseteq h[k]) =>
           \A q \in Tasks(n) : \A s \in X[q] :
             (\A alt \in h[q] \ {s} : s \notin Reachable(h)[alt]) => s \in ReduceTransitive(X, assign, FALSE)[q]
  BY Zenon, <1>1, <1>a, ReduceFacts
<1>7. \A x \in BOOLEAN : \A k \in Tasks(n) : \A s : s \in EffectiveSuccs(X, assign, x)[k]
         <=> s \in X[k] \/ (x /\ s \in ChainSuccs(assign, k))
  BY <1>1, EffectiveFacts
<1>8. \A k \in Tasks(n) : \A s : s \in EffectiveSuccs(X, assign, FALSE)[k] => s \in X[k]
  BY Zenon, <1>a, <1>7
<1> HIDE DEF D
<1>9. ASSUME NEW h \in ForwardGraphs(Tasks(n)), \A m \in Tasks(n) : g[m] \subseteq h[m],
             NEW r \in Tasks(n), NEW m \in g[r], Irreducible(h, r, m)
      PROVE  m \in D[r]
  <2>1. \A k \in Tasks(n) : EffectiveSuccs(X, assign, FALSE)[k] \subseteq h[k]
    BY Zenon, <1>3, <1>8, <1>9
  <2>2. \A alt \in h[r] \ {m} : m \notin Reachable(h)[alt]
    BY Zenon, <1>9 DEF Irreducible
  <2> QED BY Zenon, <1>3, <1>4, <1>6, <2>1, <2>2
<1>10. \A m \in Tasks(n) : D[m] \subseteq g[m]
  BY Zenon, <1>3, <1>5
<1> QED BY Zenon, <1>5, <1>9, <1>10 DEF D

\* The edges that become tokens are those between workers.
LEMMA CrossFacts ==
  ASSUME NEW n \in Nat, NEW g \in ForwardGraphs(Tasks(n)), NEW assign, DOMAIN assign = Tasks(n)
  PROVE  /\ CrossWorkerSuccs(g, assign) \in ForwardGraphs(Tasks(n))
         /\ \A m \in Tasks(n) : \A s : s \in CrossWorkerSuccs(g, assign)[m]
              <=> s \in DagOnlySuccs(g, assign)[m] /\ assign[s] # assign[m]
<1> DEFINE D == DagOnlySuccs(g, assign)
           C == CrossWorkerSuccs(g, assign)
<1>1. D \in ForwardGraphs(Tasks(n))
  BY Zenon, DagFacts
<1>2. DOMAIN g = Tasks(n)
  BY Zenon, ForwardFacts
<1>3. C = [m \in Tasks(n) |-> {s \in D[m] : assign[s] # assign[m]}]
  BY Zenon, <1>2 DEF CrossWorkerSuccs
<1> HIDE DEF C, D
<1>4. \A m \in Tasks(n) : C[m] = {s \in D[m] : assign[s] # assign[m]}
  BY Zenon, <1>3
<1>5. ASSUME NEW m \in Tasks(n), NEW s PROVE s \in C[m] <=> s \in D[m] /\ assign[s] # assign[m]
  BY Zenon, <1>4
<1>6. \A m \in Tasks(n) : \A s \in D[m] : s \in Tasks(n) /\ s > m
  BY Zenon, <1>1, ForwardFacts
<1>7. C \in [Tasks(n) -> SUBSET Tasks(n)]
  <2>1. C = [m \in Tasks(n) |-> C[m]]
    BY Zenon, <1>3
  <2>2. \A m \in Tasks(n) : C[m] \in SUBSET Tasks(n)
    BY Zenon, <1>5, <1>6
  <2> QED BY Zenon, <2>1, <2>2
<1>8. C \in ForwardGraphs(Tasks(n))
  BY Zenon, <1>5, <1>6, <1>7, ForwardMembers
<1> QED BY Zenon, <1>5, <1>8 DEF C, D

\* What LocalPrereqs lists, and that it lists earlier MTasks of the same worker.
LEMMA LocalFacts ==
  ASSUME NEW n \in Nat, NEW g \in ForwardGraphs(Tasks(n)),
         NEW w \in Nat, NEW assign \in [Tasks(n) -> 0..(w - 1)],
         NEW L, L = CrossLayout(g, assign), NEW m \in Tasks(n)
  PROVE  /\ \A p \in Tasks(n) : p \in Locals(g, assign)[m] <=>
              \/ assign[p] = assign[m] /\ m \in DagOnlySuccs(g, assign)[p]
              \/ \E s \in L.stores[m] : p \in L.sources[s] \ {m}
         /\ \A p \in Locals(g, assign)[m] : p \in Tasks(n) /\ assign[p] = assign[m] /\ p < m
<1> DEFINE D == DagOnlySuccs(g, assign)
           C == CrossWorkerSuccs(g, assign)
           P == Locals(g, assign)
<1>0. DOMAIN assign = Tasks(n) /\ DOMAIN g = Tasks(n)
  BY Zenon, ForwardFacts
<1>1. C \in ForwardGraphs(Tasks(n)) /\ D \in ForwardGraphs(Tasks(n))
  BY Zenon, <1>0, CrossFacts, DagFacts
<1>2. L = OwnerReadyLayout(C, assign)
  BY Zenon DEF CrossLayout
<1>3. P[m] = {p \in Tasks(n) : assign[p] = assign[m] /\ m \in D[p]}
             \cup UNION {L.sources[s] \ {m} : s \in L.stores[m]}
  BY Zenon, <1>0 DEF Locals, LocalPrereqs
<1> HIDE DEF D, C, P
<1>4. ASSUME NEW p
      PROVE  p \in P[m] <=> \/ p \in Tasks(n) /\ assign[p] = assign[m] /\ m \in D[p]
                            \/ \E s \in L.stores[m] : p \in L.sources[s] \ {m}
  BY Zenon, <1>3
<1>5. LayoutOK(L, n, C, assign)
  BY Zenon, <1>1, <1>2, LayoutFacts
<1>6. ASSUME NEW s \in L.stores[m], NEW p \in L.sources[s] \ {m}
      PROVE  p \in Tasks(n) /\ assign[p] = assign[m] /\ p < m
  <2>1. s \in L.slots /\ L.writer[s] = m
    BY Zenon, <1>5 DEF LayoutOK
  <2>2. /\ L.writer[s] \in L.sources[s] /\ L.sources[s] \in SUBSET Tasks(n)
        /\ \A x \in L.sources[s] : x <= L.writer[s] /\ assign[x] = assign[L.writer[s]]
    BY <1>1, <1>2, <2>1, TokenSources
  <2>3. p \in Tasks(n) /\ p <= m /\ assign[p] = assign[m] /\ p # m
    BY Zenon, <2>1, <2>2
  <2> QED BY <2>3 DEF Tasks
<1>7. ASSUME NEW p \in Tasks(n), m \in D[p] PROVE p < m
  <2>1. m > p
    BY Zenon, <1>1, <1>7, ForwardFacts
  <2> QED BY <2>1 DEF Tasks
<1>8. \A p \in P[m] : p \in Tasks(n) /\ assign[p] = assign[m] /\ p < m
  BY Zenon, <1>4, <1>6, <1>7
<1>9. \A p \in Tasks(n) : p \in P[m] <=> \/ assign[p] = assign[m] /\ m \in D[p]
                                         \/ \E s \in L.stores[m] : p \in L.sources[s] \ {m}
  BY Zenon, <1>4
<1> QED BY Zenon, <1>8, <1>9 DEF P, D

\* With the local prerequisites the graph is still one of the schedule.
LEMMA GuardedFacts ==
  ASSUME NEW n \in Nat, NEW g \in ForwardGraphs(Tasks(n)),
         NEW w \in Nat, NEW assign \in [Tasks(n) -> 0..(w - 1)]
  PROVE  /\ Guarded(g, assign) \in ForwardGraphs(Tasks(n))
         /\ \A m \in Tasks(n) : \A s : s \in Guarded(g, assign)[m] <=>
              s \in g[m] \/ (s \in Tasks(n) /\ m \in Locals(g, assign)[s])
<1> DEFINE H == Guarded(g, assign)
           P == Locals(g, assign)
<1>1. DOMAIN g = Tasks(n)
  BY Zenon, ForwardFacts
<1>2. H = [m \in Tasks(n) |-> g[m] \cup {s \in Tasks(n) : m \in P[s]}]
  BY Zenon, <1>1 DEF Guarded
<1>3. \A s \in Tasks(n) : \A p \in P[s] : p \in Tasks(n) /\ assign[p] = assign[s] /\ p < s
  <2>1. PICK L : L = CrossLayout(g, assign)
    BY Zenon
  <2>2. ASSUME NEW s \in Tasks(n), NEW p \in Locals(g, assign)[s]
        PROVE p \in Tasks(n) /\ assign[p] = assign[s] /\ p < s
    BY <2>1, LocalFacts
  <2> QED BY Zenon, <2>2
<1> HIDE DEF H, P
<1>4. \A m \in Tasks(n) : H[m] = g[m] \cup {s \in Tasks(n) : m \in P[s]}
  BY Zenon, <1>2
<1>5. ASSUME NEW m \in Tasks(n), NEW s PROVE s \in H[m] <=> s \in g[m] \/ (s \in Tasks(n) /\ m \in P[s])
  BY Zenon, <1>4
<1>6. ASSUME NEW m \in Tasks(n), NEW s \in H[m] PROVE s \in Tasks(n) /\ s > m
  <2>1. CASE s \in g[m]
    BY Zenon, <2>1, ForwardFacts
  <2>2. CASE s \in Tasks(n) /\ m \in P[s]
    <3>1. m < s
      BY Zenon, <1>3, <2>2
    <3> QED BY <2>2, <3>1 DEF Tasks
  <2> QED BY Zenon, <1>5, <2>1, <2>2
<1>7. H \in [Tasks(n) -> SUBSET Tasks(n)]
  <2>1. H = [m \in Tasks(n) |-> H[m]]
    BY Zenon, <1>2
  <2>2. \A m \in Tasks(n) : H[m] \in SUBSET Tasks(n)
    BY Zenon, <1>6
  <2> QED BY Zenon, <2>1, <2>2
<1>8. H \in ForwardGraphs(Tasks(n))
  BY Zenon, <1>6, <1>7, ForwardMembers
<1> QED BY Zenon, <1>5, <1>8 DEF H, P

\* Every edge of that order without a detour is one the candidate has found done.
LEMMA GuardedKept ==
  ASSUME NEW n \in Nat, NEW g \in ForwardGraphs(Tasks(n)),
         NEW w \in Nat, NEW assign \in [Tasks(n) -> 0..(w - 1)],
         NEW L, L = CrossLayout(g, assign),
         NEW r \in Tasks(n), NEW m \in Tasks(n), Irreducible(Guarded(g, assign), r, m)
  PROVE  r \in Locals(g, assign)[m] \/ \E s \in L.waits[m] : s \in L.slots /\ L.writer[s] = r
<1> DEFINE D == DagOnlySuccs(g, assign)
           C == CrossWorkerSuccs(g, assign)
           P == Locals(g, assign)
           H == Guarded(g, assign)
<1>0. DOMAIN assign = Tasks(n)
  OBVIOUS
<1>1. H \in ForwardGraphs(Tasks(n))
  BY Zenon, GuardedFacts
<1>2. \A k \in Tasks(n) : \A s : s \in H[k] <=> s \in g[k] \/ (s \in Tasks(n) /\ k \in P[s])
  BY Zenon, GuardedFacts
<1>3. C \in ForwardGraphs(Tasks(n))
  BY Zenon, <1>0, CrossFacts
<1>4. \A k \in Tasks(n) : \A s : s \in C[k] <=> s \in D[k] /\ assign[s] # assign[k]
  BY Zenon, <1>0, CrossFacts
<1>5. \A k \in Tasks(n) : D[k] \subseteq g[k]
  BY Zenon, <1>0, DagFacts
<1>6. \A h \in ForwardGraphs(Tasks(n)) : (\A k \in Tasks(n) : g[k] \subseteq h[k]) =>
        \A q \in Tasks(n) : \A s \in g[q] : Irreducible(h, q, s) => s \in D[q]
  BY Zenon, <1>0, DagFacts
<1>7. \A k, p \in Tasks(n) : p \in P[k] <=>
        \/ assign[p] = assign[k] /\ k \in D[p]
        \/ \E s \in L.stores[k] : p \in L.sources[s] \ {k}
  BY LocalFacts
<1>8. L = OwnerReadyLayout(C, assign)
  BY Zenon DEF CrossLayout
<1>9. Irreducible(H, r, m)
  BY Zenon
<1> HIDE DEF D, C, P, H
<1>10. LayoutOK(L, n, C, assign)
  BY Zenon, <1>3, <1>8, LayoutFacts
<1>11. CASE m \notin g[r]
  BY Zenon, <1>2, <1>9, <1>11 DEF Irreducible, P
<1>12. CASE m \in g[r]
  <2>1. m \in D[r]
    BY Zenon, <1>1, <1>2, <1>6, <1>9, <1>12
  <2>2. CASE assign[r] = assign[m]
    BY Zenon, <1>7, <2>1, <2>2 DEF P
  <2>3. CASE assign[r] # assign[m]
    <3>1. m \in C[r]
      BY Zenon, <1>4, <2>1, <2>3
    <3>2. \E s \in L.waits[m] : /\ s \in L.slots
                                /\ assign[L.writer[s]] = assign[r] /\ r <= L.writer[s]
                                /\ r \in L.sources[s]
      BY <1>3, <1>8, <3>1, TokenFor
    <3>3. PICK s \in L.waits[m] : s \in L.slots /\ r \in L.sources[s]
      BY Zenon, <3>2
    <3>4. L.writer[s] \in Tasks(n) /\ s \in L.stores[L.writer[s]]
      BY Zenon, <1>10, <3>3 DEF LayoutOK
    <3>5. \A k \in Tasks(n) : s \in L.waits[k] => k \in C[L.writer[s]]
      BY <1>3, <1>8, <3>3, TokenSources
    <3>6. CASE L.writer[s] = r
      BY Zenon, <3>3, <3>6
    <3>7. CASE L.writer[s] # r
      <4> DEFINE x == L.writer[s]
      <4>1. x \in Tasks(n) /\ s \in L.stores[x] /\ x # r /\ m \in C[x]
        BY Zenon, <3>3, <3>4, <3>5, <3>7
      <4> HIDE DEF x
      <4>2. r \in P[x]
        BY Zenon, <1>7, <3>3, <4>1
      <4>3. x \in H[r]
        BY Zenon, <1>2, <4>1, <4>2
      <4>4. m \in H[x]
        BY Zenon, <1>2, <1>4, <1>5, <4>1
      <4>5. m \in Reachable(H)[x]
        BY Zenon, <1>1, <4>1, <4>4, ReachStep
      <4>6. x = m
        BY Zenon, <1>9, <4>3, <4>5 DEF Irreducible
      <4>7. m > x
        BY Zenon, <1>3, <4>1, ForwardFacts
      <4> QED BY <4>1, <4>6, <4>7 DEF Tasks
    <3> QED BY Zenon, <3>6, <3>7
  <2> QED BY Zenon, <2>2, <2>3
<1> QED BY Zenon, <1>11, <1>12

\* genDenseExecutor, lookahead tokens: the program is sound for the workers that
\* keep to their order, and for the candidates stepDenseLookaheadTail runs ahead:
\* what DenseLookahead assumes of its programs.
THEOREM LookaheadPlanIsSound ==
  ASSUME NEW n \in Nat, NEW graph \in ForwardGraphs(Tasks(n)),
         NEW w \in Nat, NEW assign \in [Tasks(n) -> 0..(w - 1)]
  PROVE  /\ SoundPlan(LookaheadPlan(graph, assign), 0..(w - 1))
         /\ SoundLookahead(LookaheadPlan(graph, assign))
<1> DEFINE p == LookaheadPlan(graph, assign)
           L == CrossLayout(graph, assign)
           C == CrossWorkerSuccs(graph, assign)
           P == Locals(graph, assign)
           H == Guarded(graph, assign)
           R == Reachable(H)
           O == {e \in Tasks(n) \X Tasks(n) : e[2] \in R[e[1]]}
<1>0. DOMAIN assign = Tasks(n) /\ DOMAIN graph = Tasks(n)
  BY Zenon, ForwardFacts
<1>1. H \in ForwardGraphs(Tasks(n)) /\ \A m \in Tasks(n) : graph[m] \subseteq H[m]
  BY Zenon, GuardedFacts
<1>2. C \in ForwardGraphs(Tasks(n))
  BY Zenon, <1>0, CrossFacts
<1>3. /\ p.deps = graph /\ p.owner = assign /\ p.slots = L.slots /\ p.waits = L.waits
      /\ p.stores = L.stores /\ p.writer = L.writer /\ p.locals = P
  BY Zenon, <1>0 DEF LookaheadPlan, CrossLayout, Locals
<1>4. p.order = O
  BY Zenon, <1>0 DEF LookaheadPlan, CrossLayout, Locals, Guarded
<1>5. LayoutOK(L, n, C, assign)
  BY Zenon, <1>2, LayoutFacts DEF CrossLayout
<1>6. DOMAIN P = Tasks(n) /\ P = [m \in Tasks(n) |-> P[m]]
  BY Zenon, <1>0 DEF Locals
<1>7. PICK LL : LL = L
  BY Zenon
<1>8. ASSUME NEW m \in Tasks(n), NEW q \in P[m]
      PROVE  q \in Tasks(n) /\ assign[q] = assign[m] /\ q < m
  BY <1>7, LocalFacts
<1>9. ASSUME NEW r \in Tasks(n), NEW m \in Tasks(n), Irreducible(H, r, m)
      PROVE  r \in P[m] \/ \E s \in LL.waits[m] : s \in LL.slots /\ LL.writer[s] = r
  BY <1>7, <1>9, GuardedKept
<1>10. \A q \in Tasks(n) : \A m \in H[q] : m \in R[q]
  BY Zenon, <1>1, ReachStep
<1>11. ASSUME NEW q \in Tasks(n), NEW m \in R[q]
       PROVE  \E r \in Tasks(n) : (r = q \/ r \in R[q]) /\ Irreducible(H, r, m)
  BY Zenon, <1>1, OrderEnds
<1>12. graph \in [Tasks(n) -> SUBSET Tasks(n)] /\ Tasks(n) \in SUBSET Nat
       /\ \A q \in Tasks(n) : \A m \in graph[q] : m \in Tasks(n) /\ m > q
  BY Zenon, ForwardFacts
<1> HIDE DEF p, L, C, P, H
<1> HIDE DEF R
<1>13. \A q, m \in Tasks(n) : <<q, m>> \in O <=> m \in R[q]
  OBVIOUS
<1>14. O \in SUBSET (Tasks(n) \X Tasks(n))
  BY Zenon
<1> HIDE DEF O
<1>15. ASSUME NEW r \in Tasks(n), NEW m \in Tasks(n), Irreducible(H, r, m)
       PROVE  /\ Before(p, r, m)
              /\ r \in Prereqs(p, m)
  <2>1. CASE r \in P[m]
    <3>1. assign[r] = assign[m] /\ r < m
      BY Zenon, <1>8, <2>1
    <3> QED BY Zenon, <1>3, <2>1, <3>1 DEF Before, Prereqs
  <2>2. ASSUME NEW s \in LL.waits[m], s \in LL.slots, LL.writer[s] = r
        PROVE  Before(p, r, m) /\ r \in Prereqs(p, m)
    <3>1. s \in p.waits[m] /\ p.writer[s] = r
      BY Zenon, <1>3, <1>7, <2>2
    <3>2. r <= r
      BY DEF Tasks
    <3> QED BY Zenon, <3>1, <3>2 DEF Before, Prereqs
  <2> QED BY Zenon, <1>9, <1>15, <2>1, <2>2
<1>16. ASSUME NEW q \in Tasks(n), NEW m \in Tasks(n), <<q, m>> \in p.order
       PROVE  \E r \in Tasks(n) : (r = q \/ <<q, r>> \in p.order) /\ Irreducible(H, r, m)
  <2>1. m \in R[q]
    BY Zenon, <1>4, <1>13, <1>16
  <2>2. PICK r \in Tasks(n) : (r = q \/ r \in R[q]) /\ Irreducible(H, r, m)
    BY Zenon, <1>11, <2>1
  <2> QED BY Zenon, <1>4, <1>13, <2>2
<1>17. ASSUME NEW q \in Tasks(n), NEW m \in Tasks(n), <<q, m>> \in p.order
       PROVE  /\ Before(p, q, m) \/ \E r \in Tasks(n) : <<q, r>> \in p.order /\ Before(p, r, m)
              /\ \E r \in Prereqs(p, m) : q = r \/ <<q, r>> \in p.order
  <2>1. PICK r \in Tasks(n) : (r = q \/ <<q, r>> \in p.order) /\ Irreducible(H, r, m)
    BY Zenon, <1>16, <1>17
  <2>2. Before(p, r, m) /\ r \in Prereqs(p, m)
    BY Zenon, <1>15, <2>1
  <2> QED BY Zenon, <2>1, <2>2
<1>18. ASSUME NEW q \in Tasks(n), NEW m \in p.deps[q] PROVE q < m /\ <<q, m>> \in p.order
  <2>1. m \in graph[q]
    BY Zenon, <1>3
  <2>2. m \in Tasks(n) /\ m > q /\ m \in R[q]
    BY Zenon, <1>1, <1>10, <1>12, <2>1
  <2>3. q < m
    BY <2>2 DEF Tasks
  <2> QED BY Zenon, <1>4, <1>13, <2>2, <2>3
<1>19. MTasksOf(p) = Tasks(n)
  BY Zenon, <1>0, <1>3 DEF MTasksOf
<1>20. /\ L.waits \in [Tasks(n) -> SUBSET L.slots] /\ L.stores \in [Tasks(n) -> SUBSET L.slots]
       /\ L.writer \in [L.slots -> Tasks(n)] /\ L.slots \in SUBSET Nat
       /\ \A m \in Tasks(n) : \A s \in L.slots : s \in L.stores[m] <=> L.writer[s] = m
  BY Zenon, <1>5 DEF LayoutOK
<1>21. /\ p.waits \in [Tasks(n) -> SUBSET p.slots] /\ p.stores \in [Tasks(n) -> SUBSET p.slots]
       /\ p.writer \in [p.slots -> Tasks(n)] /\ p.slots \in SUBSET Nat
       /\ \A m \in Tasks(n) : \A s \in p.slots : s \in p.stores[m] <=> p.writer[s] = m
  BY <1>3, <1>20
<1>22. p.deps \in [Tasks(n) -> SUBSET Tasks(n)] /\ p.owner \in [Tasks(n) -> 0..(w - 1)]
       /\ p.order \in SUBSET (Tasks(n) \X Tasks(n))
  BY Zenon, <1>3, <1>4, <1>12, <1>14
<1>23. SoundPlanOn(p, 0..(w - 1), Tasks(n))
  BY Zenon, <1>12, <1>17, <1>18, <1>21, <1>22 DEF SoundPlanOn
<1>24. SoundPlan(p, 0..(w - 1))
  BY Zenon, <1>19, <1>23, SoundPlanByTasks
<1>25. SoundLookahead(p)
  <2>1. P \in [Tasks(n) -> SUBSET Tasks(n)]
    <3>1. \A m \in Tasks(n) : P[m] \in SUBSET Tasks(n)
      BY Zenon, <1>8
    <3> QED BY Zenon, <1>6, <3>1
  <2>2. \A m \in Tasks(n) : \A q \in p.locals[m] : p.owner[q] = p.owner[m] /\ q < m
    BY Zenon, <1>3, <1>8
  <2>3. p.locals \in [Tasks(n) -> SUBSET Tasks(n)]
    BY Zenon, <1>3, <2>1
  <2>4. \A q, m \in Tasks(n) : <<q, m>> \in p.order => \E r \in Prereqs(p, m) : q = r \/ <<q, r>> \in p.order
    BY Zenon, <1>17
  <2> QED BY Zenon, <1>19, <2>2, <2>3, <2>4 DEF SoundLookahead
<1> QED BY Zenon, <1>24, <1>25 DEF p

-----------------------------------------------------------------------------
(* The order a set of edges enforces *)

\* One edge more at the end of the paths in s.
Longer(s, edges) ==
  s \cup {e \in GraphIds \X GraphIds : \E r \in GraphIds : <<e[1], r>> \in s /\ <<r, e[2]>> \in edges}

\* Path is computed one edge at a time.
LEMMA PathFacts ==
  ASSUME NEW edges \in SUBSET (GraphIds \X GraphIds)
  PROVE  \E f : /\ f[0] = edges
                /\ \A k \in 1..N : f[k] = Longer(f[k - 1], edges)
                /\ Path(edges) = f[N]
<1> DEFINE S == SUBSET (GraphIds \X GraphIds)
           step == [p \in Int \X S |-> Longer(p[2], edges)]
           Def(f) == f = [k \in 0..N |-> IF k = 0 THEN edges ELSE Longer(f[k - 1], edges)]
<1>0. N \in Nat /\ 0 \in Int /\ N \in Int
  BY TablesAssumption
<1>1. \A s \in S : Longer(s, edges) \in S
  BY Zenon DEF Longer
<1>2. step \in [Int \X S -> S]
  BY Zenon, <1>1
<1>3. \A k \in Int : \A s \in S : step[<<k, s>>] = Longer(s, edges)
  <2> HIDE DEF S
  <2> QED OBVIOUS
<1>4. edges \in S
  OBVIOUS
<1> HIDE DEF S, step
<1>5. PICK f \in [0..N -> S] : Recurses(f, 0, N, edges, step)
  BY Zenon, <1>0, <1>2, <1>4, IntervalRecursion
<1>6. ASSUME NEW k \in 0..N PROVE f[k] = IF k = 0 THEN edges ELSE Longer(f[k - 1], edges)
  <2>1. f[k] = IF k = 0 THEN edges ELSE step[<<k, f[k - 1]>>]
    BY Zenon, <1>5 DEF Recurses
  <2>2. CASE k = 0
    BY Zenon, <2>1, <2>2
  <2>3. CASE k # 0
    <3>1. k \in Int /\ k - 1 \in 0..N
      BY <1>0, <2>3
    <3>2. f[k - 1] \in S
      BY Zenon, <1>5, <3>1
    <3>3. step[<<k, f[k - 1]>>] = Longer(f[k - 1], edges)
      BY Zenon, <1>3, <3>1, <3>2
    <3> QED BY Zenon, <2>1, <2>3, <3>3
  <2> QED BY Zenon, <2>2, <2>3
<1>7. f = [k \in 0..N |-> f[k]]
  BY Zenon, <1>5
<1>8. Def(f)
  BY Zenon, <1>6, <1>7
<1>9. PICK h : h = CHOOSE x : Def(x)
  BY Zenon
<1>10. Def(h)
  BY Zenon, <1>8, <1>9
<1>11. Path(edges) = h[N]
  BY Zenon, <1>9 DEF Path, Longer
<1>12. \A k \in 0..N : h[k] = IF k = 0 THEN edges ELSE Longer(h[k - 1], edges)
  BY Zenon, <1>10
<1>13. h[0] = edges
  <2>1. 0 \in 0..N
    BY <1>0
  <2> QED BY Zenon, <1>12, <2>1
<1>14. ASSUME NEW k \in 1..N PROVE h[k] = Longer(h[k - 1], edges)
  <2>1. k \in 0..N /\ k # 0
    BY <1>0
  <2> QED BY Zenon, <1>12, <2>1
<1> QED BY Zenon, <1>11, <1>13, <1>14

\* Edges that contain those of a graph without a detour put everything the graph
\* reaches in order.
LEMMA PathOrders ==
  ASSUME NEW edges \in SUBSET (GraphIds \X GraphIds), NEW g \in ForwardGraphs(Tasks(N)),
         \A r, x \in Tasks(N) : Irreducible(g, r, x) => <<r, x>> \in edges
  PROVE  \A q \in Tasks(N) : \A x \in Reachable(g)[q] : <<q, x>> \in Path(edges)
<1>0. N \in Nat /\ GraphIds = Tasks(N)
  BY Zenon, TablesAssumption DEF GraphIds, Tasks
<1>1. PICK f : /\ f[0] = edges
               /\ \A k \in 1..N : f[k] = Longer(f[k - 1], edges)
               /\ Path(edges) = f[N]
  BY Zenon, PathFacts
<1>2. \A k \in 0..N : \A j \in 0..k : f[j] \subseteq f[k]
  <2> DEFINE A == {k \in 0..N : \A j \in 0..k : f[j] \subseteq f[k]}
  <2>1. 0 \in A
    BY <1>0
  <2>2. ASSUME NEW k \in 0..(N - 1), k \in A PROVE k + 1 \in A
    <3>1. k + 1 \in 1..N /\ k + 1 - 1 = k /\ k + 1 \in 0..N
      BY <1>0
    <3>2. f[k] \subseteq f[k + 1]
      <4>1. f[k + 1] = Longer(f[k + 1 - 1], edges)
        BY <1>1, <3>1
      <4>2. f[k + 1] = Longer(f[k], edges)
        BY Zenon, <3>1, <4>1
      <4> QED BY Zenon, <4>2 DEF Longer
    <3>3. ASSUME NEW j \in 0..(k + 1) PROVE f[j] \subseteq f[k + 1]
      <4>1. j \in 0..k \/ j = k + 1
        BY <1>0
      <4> QED BY Zenon, <2>2, <3>2, <4>1
    <3> QED BY Zenon, <3>1, <3>3
  <2> HIDE DEF A
  <2>3. 0 \in Int /\ N \in Int
    BY <1>0
  <2>4. \A k \in 0..N : k \in A
    BY Zenon, <2>1, <2>2, <2>3, IntervalInduction
  <2> QED BY Zenon, <2>4 DEF A
<1> SUFFICES ASSUME NEW q \in Tasks(N)
             PROVE  \A x \in Reachable(g)[q] : <<q, x>> \in Path(edges)
  BY Zenon
<1> DEFINE S == {x \in Tasks(N) : x \in Reachable(g)[q] => <<q, x>> \in f[x]}
<1>3. ASSUME NEW x \in Tasks(N), \A k \in Tasks(N) : k < x => k \in S PROVE x \in S
  <2> SUFFICES ASSUME x \in Reachable(g)[q] PROVE <<q, x>> \in f[x]
    BY Zenon
  <2>1. PICK r \in Tasks(N) : (r = q \/ r \in Reachable(g)[q]) /\ Irreducible(g, r, x)
    BY Zenon, <1>0, OrderEnds
  <2>2. <<r, x>> \in edges
    BY Zenon, <2>1
  <2>3. r < x /\ r \in 0..(x - 1) /\ x \in 1..N /\ x - 1 \in 0..N /\ x \in 0..N /\ 0 \in 0..x
    <3>1. x > r
      BY Zenon, <1>0, <2>1, ForwardFacts DEF Irreducible
    <3> QED BY <1>0, <3>1 DEF Tasks
  <2>4. CASE r = q
    BY Zenon, <1>1, <1>2, <2>2, <2>3, <2>4
  <2>5. CASE r \in Reachable(g)[q]
    <3>1. <<q, r>> \in f[r]
      BY Zenon, <1>3, <2>3, <2>5
    <3>2. <<q, r>> \in f[x - 1]
      BY Zenon, <1>2, <2>3, <3>1
    <3>3. f[x] = Longer(f[x - 1], edges)
      BY Zenon, <1>1, <2>3
    <3>4. <<q, x>> \in Longer(f[x - 1], edges)
      <4>1. <<q, x>> \in GraphIds \X GraphIds /\ <<q, x>>[1] = q /\ <<q, x>>[2] = x
        BY <1>0
      <4> QED BY Zenon, <1>0, <2>2, <3>2, <4>1 DEF Longer
    <3> QED BY Zenon, <3>3, <3>4
  <2> QED BY Zenon, <2>1, <2>4, <2>5
<1> HIDE DEF S
<1>4. \A x \in Tasks(N) : x \in S
  BY Zenon, <1>0, <1>3, FromBelow DEF Tasks
<1>5. ASSUME NEW x \in Reachable(g)[q] PROVE <<q, x>> \in Path(edges)
  <2>1. x \in Tasks(N)
    BY Zenon, <1>0, ReachForward
  <2>2. <<q, x>> \in f[x]
    BY Zenon, <1>4, <2>1 DEF S
  <2>3. N \in 0..N /\ x \in 0..N
    BY <1>0, <2>1 DEF Tasks
  <2>4. f[x] \subseteq f[N]
    BY Zenon, <1>2, <2>3
  <2> QED BY Zenon, <1>1, <2>2, <2>4
<1> QED BY Zenon, <1>5

\* Edges is the graph as a set of pairs.
LEMMA EdgesFacts ==
  ASSUME NEW T, NEW h, DOMAIN h = T
  PROVE  /\ \A q \in T : \A x \in h[q] : <<q, x>> \in Edges(h)
         /\ \A e \in Edges(h) : \E q \in T : \E x \in h[q] : e = <<q, x>>
<1>1. Edges(h) = UNION {{<<q, x>> : x \in h[q]} : q \in T}
  BY Zenon DEF Edges
<1>2. ASSUME NEW q \in T, NEW x \in h[q] PROVE <<q, x>> \in Edges(h)
  <2>1. <<q, x>> \in {<<q, y>> : y \in h[q]}
    BY Zenon
  <2>2. {<<q, y>> : y \in h[q]} \in {{<<p, y>> : y \in h[p]} : p \in T}
    BY Zenon
  <2>3. <<q, x>> \in UNION {{<<p, y>> : y \in h[p]} : p \in T}
    BY Zenon, <2>1, <2>2
  <2> QED BY Zenon, <1>1, <2>3
<1>3. ASSUME NEW e \in Edges(h) PROVE \E q \in T : \E x \in h[q] : e = <<q, x>>
  BY Zenon, <1>1
<1> QED BY Zenon, <1>2, <1>3

\* The edges of a graph of the schedule lie between its MTasks.
LEMMA EdgesInside ==
  ASSUME NEW n \in Nat, NEW h \in ForwardGraphs(Tasks(n))
  PROVE  Edges(h) \in SUBSET (Tasks(n) \X Tasks(n))
<1>1. DOMAIN h = Tasks(n) /\ \A m \in Tasks(n) : \A s \in h[m] : s \in Tasks(n)
  BY Zenon, ForwardFacts
<1>2. ASSUME NEW e \in Edges(h) PROVE e \in Tasks(n) \X Tasks(n)
  <2>1. PICK q \in Tasks(n) : \E x \in h[q] : e = <<q, x>>
    BY Zenon, <1>1 DEF Edges
  <2>2. PICK x \in h[q] : e = <<q, x>>
    BY Zenon, <2>1
  <2> QED BY Zenon, <1>1, <2>2
<1> QED BY Zenon, <1>2

\* So do edges that contain those without a detour in a larger graph.
LEMMA OrdersAll ==
  ASSUME NEW edges \in SUBSET (GraphIds \X GraphIds), NEW g \in ForwardGraphs(Tasks(N)),
         NEW h \in ForwardGraphs(Tasks(N)), \A q \in Tasks(N) : h[q] \subseteq g[q],
         \A r, x \in Tasks(N) : Irreducible(g, r, x) => <<r, x>> \in edges
  PROVE  Orders(edges, Edges(h))
<1>0. N \in Nat
  BY Zenon, TablesAssumption
<1>1. \A q \in Tasks(N) : \A x \in Reachable(g)[q] : <<q, x>> \in Path(edges)
  BY Zenon, PathOrders
<1>2. DOMAIN h = Tasks(N)
  BY Zenon, <1>0, ForwardFacts
<1>3. ASSUME NEW e \in Edges(h) PROVE e \in Path(edges)
  <2>1. PICK q \in Tasks(N) : \E x \in h[q] : e = <<q, x>>
    BY Zenon, <1>2 DEF Edges
  <2>2. PICK x \in h[q] : e = <<q, x>>
    BY Zenon, <2>1
  <2>3. x \in Reachable(g)[q]
    BY Zenon, <1>0, <2>2, ReachStep
  <2> QED BY Zenon, <1>1, <2>2, <2>3
<1> QED BY Zenon, <1>3 DEF Orders

-----------------------------------------------------------------------------
(* The tables are exact *)

\* TokensExact of a layout L over the edges of k, for MTasks T and lanes W.
Exact(L, T, k, W, assign) ==
  \A m \in T, v \in W :
    LET sources == {p \in T : m \in k[p] /\ assign[p] = v}
        tokens == {s \in L.waits[m] : \E p \in T : s \in L.stores[p] /\ assign[p] = v}
    IN  /\ sources = {} <=> tokens = {}
        /\ \A s, t \in tokens : s = t
        /\ \A s \in tokens : {p \in T : s \in L.stores[p]} =
               {p \in sources : \A q \in sources : q <= p}
        /\ \A s \in tokens, x \in T : s \in L.waits[x] => x = m

\* The token layout of every forward graph is exact.
LEMMA LayoutExact ==
  ASSUME NEW n \in Nat, NEW k \in ForwardGraphs(Tasks(n)),
         NEW w \in Nat, NEW assign \in [Tasks(n) -> 0..(w - 1)]
  PROVE  Exact(OwnerReadyLayout(k, assign), Tasks(n), k, 0..(w - 1), assign)
<1>0. PICK L : L = OwnerReadyLayout(k, assign)
  BY Zenon
<1>1. LayoutOK(L, n, k, assign)
  BY Zenon, <1>0, LayoutFacts
<1>2. \A g \in Groups(k, assign) :
        /\ Slot(k, assign, g) \in L.slots
        /\ L.writer[Slot(k, assign, g)] = Publisher(k, assign, g)
        /\ \A m \in Tasks(n) : Slot(k, assign, g) \in L.waits[m] <=> g[1] = m
  BY Zenon, <1>1 DEF LayoutOK
<1>3. /\ \A s \in L.slots : \E g \in Groups(k, assign) : s = Slot(k, assign, g)
      /\ \A m \in Tasks(n) : L.waits[m] \subseteq L.slots
      /\ \A m \in Tasks(n) : \A s \in L.slots : s \in L.stores[m] <=> L.writer[s] = m
  BY Zenon, <1>1 DEF LayoutOK
<1>4. Groups(k, assign) \in SUBSET (Tasks(n) \X (0..(w - 1)))
  BY Zenon, GroupsFacts
<1>5. DOMAIN k = Tasks(n)
  BY Zenon, ForwardFacts
<1> SUFFICES Exact(L, Tasks(n), k, 0..(w - 1), assign)
  BY Zenon, <1>0
<1>6. SUFFICES ASSUME NEW m \in Tasks(n), NEW v \in 0..(w - 1)
      PROVE  LET sources == {p \in Tasks(n) : m \in k[p] /\ assign[p] = v}
                 tokens == {s \in L.waits[m] : \E p \in Tasks(n) : s \in L.stores[p] /\ assign[p] = v}
             IN  /\ sources = {} <=> tokens = {}
                 /\ \A s, t \in tokens : s = t
                 /\ \A s \in tokens : {p \in Tasks(n) : s \in L.stores[p]} =
                        {p \in sources : \A q \in sources : q <= p}
                 /\ \A s \in tokens, x \in Tasks(n) : s \in L.waits[x] => x = m
  BY Zenon DEF Exact
<1> DEFINE sources == {p \in Tasks(n) : m \in k[p] /\ assign[p] = v}
           tokens == {s \in L.waits[m] : \E p \in Tasks(n) : s \in L.stores[p] /\ assign[p] = v}
           g == <<m, v>>
           last == Publisher(k, assign, g)
<1>7. g[1] = m /\ g[2] = v
  OBVIOUS
<1>8. sources = Sources(k, assign, g)
  BY Zenon, <1>5, <1>7 DEF Sources
<1>9. ASSUME NEW s \in tokens PROVE g \in Groups(k, assign) /\ s = Slot(k, assign, g)
  <2>1. s \in L.slots /\ s \in L.waits[m]
    BY Zenon, <1>3
  <2>2. PICK h \in Groups(k, assign) : s = Slot(k, assign, h)
    BY Zenon, <1>3, <2>1
  <2>3. h[1] = m /\ L.writer[s] = Publisher(k, assign, h)
    BY Zenon, <1>2, <2>1, <2>2
  <2>4. PICK p \in Tasks(n) : s \in L.stores[p] /\ assign[p] = v
    BY Zenon
  <2>5. p = Publisher(k, assign, h)
    BY Zenon, <1>3, <2>1, <2>3, <2>4
  <2>6. /\ Publisher(k, assign, h) \in Sources(k, assign, h)
        /\ \A q \in Sources(k, assign, h) : /\ q <= Publisher(k, assign, h)
                                            /\ assign[q] = h[2] /\ h[1] \in k[q]
    BY PublisherFacts
  <2>7. h[2] = v
    BY Zenon, <2>4, <2>5, <2>6
  <2>8. h = <<h[1], h[2]>>
    BY <1>4
  <2>9. h = g
    BY Zenon, <2>3, <2>7, <2>8
  <2> QED BY Zenon, <2>2, <2>9
<1> HIDE DEF g
<1>10. ASSUME g \in Groups(k, assign)
       PROVE  /\ Slot(k, assign, g) \in tokens
              /\ {p \in Tasks(n) : Slot(k, assign, g) \in L.stores[p]} = {last}
              /\ last \in sources /\ \A q \in sources : q <= last
  <2>1. /\ Sources(k, assign, g) \in SUBSET Tasks(n)
        /\ last \in Sources(k, assign, g)
        /\ \A q \in Sources(k, assign, g) : /\ q <= last
                                            /\ assign[q] = g[2] /\ g[1] \in k[q]
    BY <1>10, PublisherFacts
  <2> HIDE DEF last
  <2>2. /\ Slot(k, assign, g) \in L.slots /\ Slot(k, assign, g) \in L.waits[m]
        /\ L.writer[Slot(k, assign, g)] = last
    BY Zenon, <1>2, <1>7, <1>10 DEF last
  <2>3. last \in Tasks(n) /\ assign[last] = v
    BY Zenon, <1>7, <2>1
  <2>4. \A p \in Tasks(n) : Slot(k, assign, g) \in L.stores[p] <=> p = last
    BY Zenon, <1>3, <2>2
  <2>5. {p \in Tasks(n) : Slot(k, assign, g) \in L.stores[p]} = {last}
    BY Zenon, <2>3, <2>4
  <2>6. Slot(k, assign, g) \in tokens
    BY Zenon, <2>2, <2>3, <2>4
  <2>7. last \in sources /\ \A q \in sources : q <= last
    BY Zenon, <1>8, <2>1
  <2> QED BY Zenon, <2>5, <2>6, <2>7
<1>11. sources # {} => g \in Groups(k, assign)
  <2>1. \A p \in Tasks(n) : m \in k[p] => <<m, assign[p]>> \in Groups(k, assign)
    BY Zenon, GroupsFacts
  <2> QED BY Zenon, <2>1 DEF g
<1>12. \A p \in sources : p \in Int
  BY DEF Tasks
<1> HIDE DEF sources, tokens, last
<1>13. sources = {} <=> tokens = {}
  BY Zenon, <1>9, <1>10, <1>11
<1>14. \A s, t \in tokens : s = t
  BY Zenon, <1>9
<1>15. ASSUME NEW s \in tokens
       PROVE  /\ {p \in Tasks(n) : s \in L.stores[p]} = {p \in sources : \A q \in sources : q <= p}
              /\ \A x \in Tasks(n) : s \in L.waits[x] => x = m
  <2>1. g \in Groups(k, assign) /\ s = Slot(k, assign, g)
    BY Zenon, <1>9
  <2>2. last \in sources /\ \A q \in sources : q <= last
    BY Zenon, <1>10, <2>1
  <2>3. \A p \in sources : (\A q \in sources : q <= p) => p = last
    BY <1>12, <2>2
  <2>4. {p \in sources : \A q \in sources : q <= p} = {last}
    BY Zenon, <2>2, <2>3
  <2>5. {p \in Tasks(n) : s \in L.stores[p]} = {last}
    BY Zenon, <1>10, <2>1
  <2>6. \A x \in Tasks(n) : s \in L.waits[x] => x = m
    BY Zenon, <1>2, <1>7, <2>1
  <2> QED BY Zenon, <2>4, <2>5, <2>6
<1> QED BY Zenon, <1>13, <1>14, <1>15 DEF sources, tokens

-----------------------------------------------------------------------------
(* Invariance *)

\* What each stage has built.
TInv ==
  /\ succs \in ForwardGraphs(GraphIds) /\ owner \in [GraphIds -> Lanes] /\ build \in Builds
  /\ tableStage = "runtime" => runtime = RuntimeSuccs(succs, owner, build.xthread)
  /\ tableStage \in {"reduced", "layout"} => runtime = Runtime(succs, owner, build.xthread, build.reduce)
  /\ tableStage = "layout" => layout = OwnerReadyLayout(runtime, owner)
  /\ tableStage = "lookahead" => /\ runtime = CrossWorkerSuccs(succs, owner)
                            /\ layout = CrossLayout(succs, owner)
                            /\ locals = Locals(succs, owner)

\* Every stage of the prologue leaves in the variables what its operator computes.
LEMMA TablesInvariance == TablesSpec => []TInv
<1>1. ASSUME TablesInit PROVE TInv
  BY Zenon, <1>1 DEF TablesInit, TInv, Assignments
<1>2. ASSUME TInv, [TablesNext]_tableVars PROVE TInv'
  <2>0. /\ succs \in ForwardGraphs(GraphIds) /\ owner \in [GraphIds -> Lanes] /\ build \in Builds
    BY Zenon, <1>2 DEF TInv
  <2>1. CASE BuildRuntimeSuccs
    BY Zenon, <2>0, <2>1 DEF TInv, BuildRuntimeSuccs
  <2>2. CASE Reduce
    <3>1. /\ tableStage = "runtime" /\ tableStage' = "reduced"
          /\ runtime' = IF build.reduce THEN ReduceTransitive(runtime, owner, TRUE) ELSE runtime
          /\ UNCHANGED <<succs, owner, build, layout, locals>>
      BY Zenon, <2>2 DEF Reduce
    <3>2. runtime = RuntimeSuccs(succs, owner, build.xthread)
      BY Zenon, <1>2, <3>1 DEF TInv
    <3>3. runtime' = Runtime(succs, owner, build.xthread, build.reduce)
      BY Zenon, <3>1, <3>2 DEF Runtime
    <3> QED BY Zenon, <2>0, <3>1, <3>3 DEF TInv
  <2>3. CASE BuildOwnerReadyLayout
    <3>1. runtime = Runtime(succs, owner, build.xthread, build.reduce)
      BY Zenon, <1>2, <2>3 DEF TInv, BuildOwnerReadyLayout
    <3> QED BY Zenon, <2>0, <2>3, <3>1 DEF TInv, BuildOwnerReadyLayout
  <2>4. CASE BuildLookahead
    <3>1. DOMAIN succs = GraphIds
      BY Zenon, <2>0, ForwardMembers
    <3>2. /\ tableStage' = "lookahead" /\ runtime' = CrossWorkerSuccs(succs, owner)
          /\ layout' = CrossLayout(succs, owner)
          /\ locals' = [m \in GraphIds |-> LocalPrereqs(succs, owner, layout', m)]
          /\ UNCHANGED <<succs, owner, build>>
      BY Zenon, <2>4 DEF BuildLookahead, CrossLayout
    <3>3. locals' = Locals(succs, owner)
      BY Zenon, <3>1, <3>2 DEF Locals
    <3> QED BY Zenon, <2>0, <3>2, <3>3 DEF TInv
  <2>5. CASE UNCHANGED tableVars
    BY Zenon, <1>2, <2>5 DEF TInv, tableVars
  <2> QED BY Zenon, <1>2, <2>1, <2>2, <2>3, <2>4, <2>5 DEF TablesNext, Emitted
<1> QED BY PTL, <1>1, <1>2 DEF TablesSpec

\* The switches are Booleans.
LEMMA BuildsFacts == ASSUME NEW b \in Builds PROVE b.xthread \in BOOLEAN /\ b.reduce \in BOOLEAN
BY DEF Builds

\* The constants of the stage lemmas.
LEMMA TablesInput ==
  ASSUME TInv
  PROVE  /\ N \in Nat /\ LaneCount \in Nat /\ GraphIds = Tasks(N) /\ Lanes = 0..(LaneCount - 1)
         /\ succs \in ForwardGraphs(Tasks(N)) /\ owner \in [Tasks(N) -> 0..(LaneCount - 1)]
         /\ DOMAIN owner = Tasks(N)
         /\ build.xthread \in BOOLEAN /\ build.reduce \in BOOLEAN
<1>1. N \in Nat /\ LaneCount \in Nat /\ GraphIds = Tasks(N) /\ Lanes = 0..(LaneCount - 1)
  BY Zenon, TablesAssumption DEF GraphIds, Tasks, Lanes
<1>2. succs \in ForwardGraphs(GraphIds) /\ owner \in [GraphIds -> Lanes] /\ build \in Builds
  BY Zenon DEF TInv
<1>3. succs \in ForwardGraphs(Tasks(N)) /\ owner \in [Tasks(N) -> 0..(LaneCount - 1)]
  BY Zenon, <1>1, <1>2
<1>4. DOMAIN owner = Tasks(N)
  BY Zenon, <1>3
<1> QED BY Zenon, <1>1, <1>2, <1>3, <1>4, BuildsFacts

\* mtReduceDenseRuntimeSuccsTransitive, for every schedule, assignment and build:
\* no dependence of the schedule is lost with the edges that are taken away.
THEOREM OrderKeptHolds == TablesSpec => []OrderKept
<1>1. ASSUME TInv PROVE OrderKept
  <2> SUFFICES ASSUME tableStage \in {"reduced", "layout"}
               PROVE  Orders(Edges(runtime) \cup LaneOrder, Edges(succs))
    BY Zenon DEF OrderKept
  <2>1. /\ N \in Nat /\ LaneCount \in Nat /\ GraphIds = Tasks(N) /\ Lanes = 0..(LaneCount - 1)
        /\ succs \in ForwardGraphs(Tasks(N)) /\ owner \in [Tasks(N) -> 0..(LaneCount - 1)]
        /\ DOMAIN owner = Tasks(N)
        /\ build.xthread \in BOOLEAN /\ build.reduce \in BOOLEAN
    BY Zenon, <1>1, TablesInput
  <2>2. runtime = Runtime(succs, owner, build.xthread, build.reduce)
    BY Zenon, <1>1 DEF TInv
  <2>3. runtime \in ForwardGraphs(Tasks(N))
    BY Zenon, <2>1, <2>2, RuntimeForward
  <2>4. DOMAIN runtime = Tasks(N) /\ \A m \in Tasks(N) : \A s \in runtime[m] : s \in Tasks(N)
    BY Zenon, <2>1, <2>3, ForwardFacts
  <2> DEFINE E == Edges(runtime) \cup LaneOrder
             g == Chained(succs, owner)
  <2>5. Edges(runtime) \in SUBSET (GraphIds \X GraphIds)
    BY Zenon, <2>1, <2>3, EdgesInside
  <2>6. E \in SUBSET (GraphIds \X GraphIds)
    BY Zenon, <2>5 DEF LaneOrder
  <2>7. g \in ForwardGraphs(Tasks(N)) /\ \A q \in Tasks(N) : succs[q] \subseteq g[q]
    BY Zenon, <2>1, OrderFacts
  <2>8. ASSUME NEW r \in Tasks(N), NEW x \in Tasks(N), Irreducible(g, r, x) PROVE <<r, x>> \in E
    <3>1. \A a, b \in BOOLEAN : r < x /\ (x \in Runtime(succs, owner, a, b)[r] \/ owner[r] = owner[x])
      BY <2>1, <2>8, IrreducibleKept
    <3>2. r < x /\ (x \in runtime[r] \/ owner[r] = owner[x])
      BY Zenon, <2>1, <2>2, <3>1
    <3>3. CASE x \in runtime[r]
      BY Zenon, <2>4, <3>3, EdgesFacts
    <3>4. CASE owner[r] = owner[x]
      BY <2>1, <3>2, <3>4 DEF LaneOrder
    <3> QED BY Zenon, <3>2, <3>3, <3>4
  <2> HIDE DEF E, g
  <2>9. Orders(E, Edges(succs))
    BY Zenon, <2>1, <2>6, <2>7, <2>8, OrdersAll
  <2> QED BY Zenon, <2>9 DEF E
<1> QED BY PTL, <1>1, TablesInvariance

\* mtBuildDenseOwnerReadyLayout, for every schedule and assignment: one token for
\* each MTask and worker it has edges from, stored by the last source, waited
\* for by that MTask only.
THEOREM TokensExactHolds == TablesSpec => []TokensExact
<1>1. ASSUME TInv PROVE TokensExact
  <2> SUFFICES ASSUME tableStage \in {"layout", "lookahead"} PROVE TokensExact
    BY Zenon DEF TokensExact
  <2>1. /\ N \in Nat /\ LaneCount \in Nat /\ GraphIds = Tasks(N) /\ Lanes = 0..(LaneCount - 1)
        /\ succs \in ForwardGraphs(Tasks(N)) /\ owner \in [Tasks(N) -> 0..(LaneCount - 1)]
        /\ DOMAIN owner = Tasks(N)
        /\ build.xthread \in BOOLEAN /\ build.reduce \in BOOLEAN
    BY Zenon, <1>1, TablesInput
  <2>2. runtime \in ForwardGraphs(Tasks(N)) /\ layout = OwnerReadyLayout(runtime, owner)
    <3>1. CASE tableStage = "layout"
      <4>1. /\ runtime = Runtime(succs, owner, build.xthread, build.reduce)
            /\ layout = OwnerReadyLayout(runtime, owner)
        BY Zenon, <1>1, <3>1 DEF TInv
      <4> QED BY Zenon, <2>1, <4>1, RuntimeForward
    <3>2. CASE tableStage = "lookahead"
      <4>1. runtime = CrossWorkerSuccs(succs, owner) /\ layout = CrossLayout(succs, owner)
        BY Zenon, <1>1, <3>2 DEF TInv
      <4> QED BY Zenon, <2>1, <4>1, CrossFacts DEF CrossLayout
    <3> QED BY Zenon, <3>1, <3>2
  <2>3. Exact(layout, Tasks(N), runtime, 0..(LaneCount - 1), owner)
    BY Zenon, <2>1, <2>2, LayoutExact
  <2>4. Exact(layout, GraphIds, runtime, Lanes, owner)
    BY Zenon, <2>1, <2>3
  <2> QED BY Zenon, <2>4 DEF TokensExact, Exact
<1> QED BY PTL, <1>1, TablesInvariance

\* stepDenseLookaheadTail, for every schedule and assignment: local prerequisites
\* and tokens alone put every dependence of the schedule in order.
THEOREM LookaheadSoundHolds == TablesSpec => []LookaheadSound
<1>1. ASSUME TInv PROVE LookaheadSound
  <2> DEFINE found(m) == locals[m] \cup {layout.writer[s] : s \in layout.waits[m]}
             E == UNION {{<<p, m>> : p \in found(m)} : m \in GraphIds}
             g == Guarded(succs, owner)
  <2> SUFFICES ASSUME tableStage = "lookahead" PROVE Orders(E, Edges(succs))
    BY Zenon DEF LookaheadSound
  <2>1. /\ N \in Nat /\ LaneCount \in Nat /\ GraphIds = Tasks(N) /\ Lanes = 0..(LaneCount - 1)
        /\ succs \in ForwardGraphs(Tasks(N)) /\ owner \in [Tasks(N) -> 0..(LaneCount - 1)]
        /\ DOMAIN owner = Tasks(N)
        /\ build.xthread \in BOOLEAN /\ build.reduce \in BOOLEAN
    BY Zenon, <1>1, TablesInput
  <2>2. /\ layout = CrossLayout(succs, owner) /\ locals = Locals(succs, owner)
    BY Zenon, <1>1 DEF TInv
  <2>3. CrossWorkerSuccs(succs, owner) \in ForwardGraphs(Tasks(N))
    BY Zenon, <2>1, CrossFacts
  <2>4. LayoutOK(layout, N, CrossWorkerSuccs(succs, owner), owner)
    BY Zenon, <2>1, <2>2, <2>3, LayoutFacts DEF CrossLayout
  <2>5. \A m \in Tasks(N) : \A s \in layout.waits[m] : layout.writer[s] \in Tasks(N)
    BY Zenon, <2>4 DEF LayoutOK
  <2>6. \A m \in Tasks(N) : \A p \in locals[m] : p \in Tasks(N)
    BY <2>1, <2>2, LocalFacts
  <2>7. \A m \in Tasks(N) : found(m) \in SUBSET Tasks(N)
    BY Zenon, <2>5, <2>6
  <2>8. g \in ForwardGraphs(Tasks(N)) /\ \A q \in Tasks(N) : succs[q] \subseteq g[q]
    BY Zenon, <2>1, GuardedFacts
  <2>9. ASSUME NEW r \in Tasks(N), NEW x \in Tasks(N), Irreducible(g, r, x) PROVE r \in found(x)
    <3>1. r \in locals[x] \/ \E s \in layout.waits[x] : s \in layout.slots /\ layout.writer[s] = r
      BY <2>1, <2>2, <2>9, GuardedKept
    <3> QED BY Zenon, <3>1
  <2> HIDE DEF found, g
  <2>10. E \in SUBSET (GraphIds \X GraphIds)
    <3>1. ASSUME NEW e \in E PROVE e \in GraphIds \X GraphIds
      <4>1. PICK m \in GraphIds : e \in {<<p, m>> : p \in found(m)}
        BY Zenon
      <4>2. PICK p \in found(m) : e = <<p, m>>
        BY Zenon, <4>1
      <4> QED BY Zenon, <2>1, <2>7, <4>2
    <3> QED BY Zenon, <3>1
  <2>11. \A r, x \in Tasks(N) : Irreducible(g, r, x) => <<r, x>> \in E
    <3>1. ASSUME NEW x \in GraphIds, NEW r \in found(x) PROVE <<r, x>> \in E
      <4>1. <<r, x>> \in {<<p, x>> : p \in found(x)}
        BY Zenon
      <4> QED BY Zenon, <4>1
    <3> QED BY Zenon, <2>1, <2>9, <3>1
  <2> HIDE DEF E
  <2> QED BY Zenon, <2>1, <2>8, <2>10, <2>11, OrdersAll
<1> QED BY PTL, <1>1, TablesInvariance
=============================================================================
