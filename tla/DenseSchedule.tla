---------------------------- MODULE DenseSchedule ---------------------------
(***************************************************************************)
(* buildMtDenseSchedule from the task graph to the verdict, pass by pass,  *)
(* on its default path (fixed-size MTasks, round-robin assignment), for    *)
(* every input in Inputs.  A super node's next and depNext edges lead to   *)
(* later cppIds; its activation edges may lead anywhere.  The passes come  *)
(* first, as operators: topological rank of the dependency graph, strongly *)
(* connected components, chain coarsening, layers, fixed-size MTasks.      *)
(* Tasks (cppIds) count from 0; components, layers and MTasks are          *)
(* sequences, so their ids here are one higher than in the code.           *)
(***************************************************************************)
EXTENDS Integers, FiniteSets, SequencesExt, Relation

Ascending(S) == SetToSortSeq(S, <)

PredsIn(succs, x) == {y \in DOMAIN succs : x \in succs[y]}

\* The k-sized pieces of a sequence, the last one shorter.
Chunks(s, k) ==
  [i \in 1..((Len(s) + k - 1) \div k) |->
     SubSeq(s, (i - 1) * k + 1, Min({i * k, Len(s)}))]

-----------------------------------------------------------------------------
(* Topological order of the dependency edges, first in first out *)

RECURSIVE DrainQueue(_, _, _)
DrainQueue(succs, queue, head) ==
  IF head > Len(queue) THEN queue
  ELSE LET ranked == ToSet(SubSeq(queue, 1, head))
           freed == {s \in succs[queue[head]] : PredsIn(succs, s) \subseteq ranked}
       IN  DrainQueue(succs, queue \o Ascending(freed), head + 1)

DepTopoOrder(succs) ==
  DrainQueue(succs, Ascending({t \in DOMAIN succs : PredsIn(succs, t) = {}}), 1)

-----------------------------------------------------------------------------
(* Strongly connected components: two depth-first sweeps *)

RECURSIVE Visit(_, _, _)
Visit(succs, walk, node) ==
  IF node \in walk.visited THEN walk
  ELSE LET below == FoldLeft(LAMBDA w, s : Visit(succs, w, s),
                             [walk EXCEPT !.visited = @ \cup {node}],
                             Ascending(succs[node]))
       IN  [below EXCEPT !.order = Append(@, node)]

FinishOrder(succs) ==
  FoldLeft(LAMBDA w, t : Visit(succs, w, t), [visited |-> {}, order |-> <<>>],
           Ascending(DOMAIN succs)).order

\* The tasks the backward flood from start reaches without entering a task
\* that already has a component.
Flood(succs, start, taken) ==
  LET wave[k \in 0..Cardinality(DOMAIN succs)] ==
        IF k = 0 THEN {start}
        ELSE wave[k - 1] \cup ((UNION {PredsIn(succs, x) : x \in wave[k - 1]}) \ taken)
  IN  wave[Cardinality(DOMAIN succs)]

CollectScc(succs, sccs, start) ==
  LET taken == UNION ToSet(sccs)
  IN  IF start \in taken THEN sccs ELSE Append(sccs, Flood(succs, start, taken))

\* Mutant: the second sweep takes the tasks in the order they finished.
SccsOfUnreversed(succs) ==
  FoldLeft(LAMBDA sccs, t : CollectScc(succs, sccs, t), <<>>, FinishOrder(succs))

SccsOf(succs) ==
  FoldLeft(LAMBDA sccs, t : CollectScc(succs, sccs, t), <<>>, Reverse(FinishOrder(succs)))

SccSuccs(succs, sccs) ==
  [i \in DOMAIN sccs |->
     {j \in DOMAIN sccs \ {i} : \E t \in sccs[i] : succs[t] \cap sccs[j] # {}}]

-----------------------------------------------------------------------------
(* Chain coarsening: parent[i] is find(i) *)

EffSuccs(succs, parent, i) == {parent[s] : s \in succs[i]} \ {i}
EffPreds(succs, parent, i) == {parent[p] : p \in PredsIn(succs, i)} \ {i}

\* Mutant: does not ask whether the successor has other predecessors.
MergeChainOutDegreeOnly(succs, zero, parent, i) ==
  LET next == EffSuccs(succs, parent, i)
  IN  IF parent[i] = i /\ Cardinality(next) = 1
      THEN LET s == Min(next)
           IN  IF (i \in zero) = (s \in zero)
               THEN [x \in DOMAIN parent |-> IF parent[x] = i THEN s ELSE parent[x]]
               ELSE parent
      ELSE parent

\* A root whose only successor has no other predecessor joins that successor,
\* unless just one of them is bound to worker 0.  The degrees are those of the
\* two roots' own edges.
MergeChain(succs, zero, parent, i) ==
  LET next == EffSuccs(succs, parent, i)
  IN  IF parent[i] = i /\ Cardinality(next) = 1
      THEN LET s == Min(next)
           IN  IF /\ Cardinality(EffPreds(succs, parent, s)) = 1
                  /\ (i \in zero) = (s \in zero)
               THEN [x \in DOMAIN parent |-> IF parent[x] = i THEN s ELSE parent[x]]
               ELSE parent
      ELSE parent

\* while (changed): sweeps over all components until one changes nothing.
RECURSIVE MergeChains(_, _, _)
MergeChains(succs, zero, parent) ==
  LET swept == FoldLeft(LAMBDA p, i : MergeChain(succs, zero, p, i), parent,
                        Ascending(DOMAIN parent))
  IN  IF swept = parent THEN parent ELSE MergeChains(succs, zero, swept)

\* New ids follow the order of the roots, the tails of the chains.
CoarseSccs(sccs, succs, zero) ==
  LET parent == MergeChains(succs, zero, [i \in DOMAIN sccs |-> i])
      roots == Ascending({parent[i] : i \in DOMAIN sccs})
  IN  [k \in DOMAIN roots |-> UNION {sccs[i] : i \in {j \in DOMAIN sccs : parent[j] = roots[k]}}]

-----------------------------------------------------------------------------
(* Layers and MTasks *)

\* Mutant: a worker-0 component shares its layer with everything that is ready.
NextLayerShared(sccs, zero, ready) ==
  SetToSortSeq(ready, LAMBDA i, j : Min(sccs[i]) < Min(sccs[j]))

\* The first ready worker-0 component alone, or all that is ready by first cppId.
NextLayer(sccs, zero, ready) ==
  IF ready \cap zero # {} THEN <<Min(ready \cap zero)>>
  ELSE SetToSortSeq(ready, LAMBDA i, j : Min(sccs[i]) < Min(sccs[j]))

RECURSIVE LayersFrom(_, _, _, _)
LayersFrom(sccs, succs, zero, done) ==
  LET ready == {i \in DOMAIN sccs \ done : PredsIn(succs, i) \subseteq done}
      layer == NextLayer(sccs, zero, ready)
  IN  IF ready = {} THEN <<>>
      ELSE <<layer>> \o LayersFrom(sccs, succs, zero, done \cup ToSet(layer))

LayersOf(sccs, succs, zero) == LayersFrom(sccs, succs, zero, {})

SplitLayers(layers, width) == FlattenSeq([i \in DOMAIN layers |-> Chunks(layers[i], width)])

\* mtBuildDenseMTasks with preserveWorkerZeroOnlyBoundary: a new MTask starts
\* when the current one is full or differs in its binding to worker 0.
AddToMTask(mtasks, scc, zero, size) ==
  IF \/ mtasks = <<>>
     \/ Len(Last(mtasks)) >= size
     \/ (Last(mtasks)[1] \in zero) # (scc \in zero)
  THEN Append(mtasks, <<scc>>)
  ELSE Front(mtasks) \o <<Append(Last(mtasks), scc)>>

\* Mutant: takes the components from the last layer to the first.
MTasksOfBackwards(topoSccOrder, zero, preserve, size) ==
  LET order == Reverse(topoSccOrder)
  IN  IF preserve THEN FoldLeft(LAMBDA ms, i : AddToMTask(ms, i, zero, size), <<>>, order)
      ELSE Chunks(order, size)

MTasksOf(topoSccOrder, zero, preserve, size) ==
  IF preserve
  THEN FoldLeft(LAMBDA ms, i : AddToMTask(ms, i, zero, size), <<>>, topoSccOrder)
  ELSE Chunks(topoSccOrder, size)

-----------------------------------------------------------------------------
(* The schedule of one input *)

CONSTANTS Inputs,     \* records n, deps, acts, zero, forward, preserve, codegen
          Threads,    \* GSIM_THREADS
          MTaskSize,  \* maxSccsPerMTask, 30 in the code
          LayerWidth  \* MAX_SCCS_PER_WORKER, 256 in the code

ASSUME ScheduleAssumption ==
  /\ Threads \in Nat \ {0} /\ MTaskSize \in Nat \ {0} /\ LayerWidth \in Nat \ {0}
  /\ \A in \in Inputs : \A e \in in.deps : e[1] < e[2]

VARIABLES input,   \* the task graph and the switches
          stage,   \* the pass that ran last
          succs,   \* succCppIds
          sccs,    \* the components' cppIds
          layers,  \* the layers' components
          topo,    \* topoSccOrder
          mtasks,  \* the MTasks' components
          assign,  \* mtaskThreadAssign
          verdict  \* fallbackReason; "none" is a valid schedule

vars == <<input, stage, succs, sccs, layers, topo, mtasks, assign, verdict>>

Tasks == 0..(input.n - 1)

Init ==
  /\ input \in Inputs
  /\ stage = "start"
  /\ succs = [t \in Tasks |-> {}]
  /\ sccs = <<>> /\ layers = <<>> /\ topo = <<>> /\ mtasks = <<>> /\ assign = <<>>
  /\ verdict = "pending"

-----------------------------------------------------------------------------
(* The passes *)

\* mtDenseAddEdge drops edges that leave the task range and self edges; a set
\* keeps one of several equal edges.
WithEdges(edges) ==
  [t \in Tasks |-> succs[t] \cup {s \in Tasks \ {t} : <<t, s>> \in edges}]

AddDependencies ==
  /\ stage = "start"
  /\ stage' = "dependencies"
  /\ succs' = WithEdges(input.deps)
  /\ UNCHANGED <<input, sccs, layers, topo, mtasks, assign, verdict>>

\* With GSIM_MT_DENSE_FORWARD_ACTIVATION_ONLY the activations that do not
\* ascend in the dependency rank are left out.
Activations ==
  LET order == DepTopoOrder(succs)
      rank == [t \in Tasks |-> CHOOSE i \in DOMAIN order : order[i] = t]
  IN  {e \in input.acts : input.forward => rank[e[1]] < rank[e[2]]}

AddActivations ==
  /\ stage = "dependencies"
  /\ stage' = "edges"
  /\ succs' = WithEdges(Activations)
  /\ UNCHANGED <<input, sccs, layers, topo, mtasks, assign, verdict>>

FindSccs ==
  /\ stage = "edges"
  /\ stage' = "sccs"
  /\ sccs' = SccsOf(succs)
  /\ verdict' = IF \E i \in DOMAIN sccs' : Cardinality(sccs'[i]) > 1 THEN "cycle_scc" ELSE verdict
  /\ UNCHANGED <<input, succs, layers, topo, mtasks, assign>>

WorkerZero == {i \in DOMAIN sccs : sccs[i] \cap input.zero # {}}

Coarsen ==
  /\ stage = "sccs"
  /\ stage' = "coarse"
  /\ sccs' = CoarseSccs(sccs, SccSuccs(succs, sccs), WorkerZero)
  /\ UNCHANGED <<input, succs, layers, topo, mtasks, assign, verdict>>

BuildLayers ==
  /\ stage = "coarse"
  /\ stage' = "layers"
  /\ layers' = SplitLayers(LayersOf(sccs, SccSuccs(succs, sccs), WorkerZero), LayerWidth)
  /\ topo' = FlattenSeq(LayersOf(sccs, SccSuccs(succs, sccs), WorkerZero))
  /\ UNCHANGED <<input, succs, sccs, mtasks, assign, verdict>>

BuildMTasks ==
  /\ stage = "layers"
  /\ stage' = "mtasks"
  /\ mtasks' = MTasksOf(topo, WorkerZero, input.preserve, MTaskSize)
  /\ UNCHANGED <<input, succs, sccs, layers, topo, assign, verdict>>

\* The k-th MTask goes to lane k modulo the thread count, or to worker 0.
LaneOf(m) == IF ToSet(mtasks[m]) \cap WorkerZero # {} THEN 0 ELSE (m - 1) % Threads

Assign ==
  /\ stage = "mtasks"
  /\ stage' = "assigned"
  /\ assign' = [m \in DOMAIN mtasks |-> LaneOf(m)]
  /\ UNCHANGED <<input, succs, sccs, layers, topo, mtasks, verdict>>

\* Mutant: counts the components of several tasks after coarsening.
ValidateCoarse ==
  /\ stage = "assigned"
  /\ stage' = "done"
  /\ verdict' = IF ~input.codegen THEN "codegen_disabled"
                ELSE IF \E i \in DOMAIN sccs : Cardinality(sccs[i]) > 1 THEN "cycle_scc"
                ELSE IF Len(topo) # Len(sccs) THEN "scc_topology_incomplete"
                ELSE "none"
  /\ UNCHANGED <<input, succs, sccs, layers, topo, mtasks, assign>>

\* cycleSccCount was counted before coarsening, which FindSccs recorded.
Validate ==
  /\ stage = "assigned"
  /\ stage' = "done"
  /\ verdict' = IF ~input.codegen THEN "codegen_disabled"
                ELSE IF verdict = "cycle_scc" THEN "cycle_scc"
                ELSE IF Len(topo) # Len(sccs) THEN "scc_topology_incomplete"
                ELSE "none"
  /\ UNCHANGED <<input, succs, sccs, layers, topo, mtasks, assign>>

Returned == stage = "done" /\ UNCHANGED vars

Next ==
  \/ AddDependencies \/ AddActivations \/ FindSccs \/ Coarsen \/ BuildLayers
  \/ BuildMTasks \/ Assign \/ Validate \/ Returned

Spec == Init /\ [][Next]_vars

-----------------------------------------------------------------------------
(* Properties *)

\* t reaches u over at least one edge.
Before == TransitiveClosure([<<x, y>> \in Tasks \X Tasks |-> y \in succs[x]], Tasks)

\* The two sweeps find exactly the classes of mutual reachability, and number
\* them so that every edge between two components ascends, which the passes
\* after it rely on.
SccsExact ==
  stage = "sccs" =>
    /\ \A t, u \in Tasks : (t = u \/ (Before[t, u] /\ Before[u, t])) <=>
         \E i \in DOMAIN sccs : {t, u} \subseteq sccs[i]
    /\ \A i, j \in DOMAIN sccs : i # j => sccs[i] \cap sccs[j] = {}
    /\ \A t, u \in Tasks, i, j \in DOMAIN sccs :
         t \in sccs[i] /\ u \in sccs[j] /\ u \in succs[t] => i <= j

\* "This reduces layer depth and barrier count without reducing parallelism":
\* tasks that coarsening puts together were ordered already, a group of tasks
\* that were not on a cycle is bound to worker 0 as a whole or not at all, and
\* the new ids still ascend along every edge.
CoarseningKeepsOrder ==
  stage = "coarse" =>
    /\ UNION ToSet(sccs) = Tasks
    /\ \A i \in DOMAIN sccs : \A t, u \in sccs[i] : t # u => Before[t, u] \/ Before[u, t]
    /\ \A i \in DOMAIN sccs : (\A t \in sccs[i] : ~Before[t, t]) =>
         sccs[i] \subseteq input.zero \/ sccs[i] \cap input.zero = {}
    /\ \A t, u \in Tasks, i, j \in DOMAIN sccs :
         t \in sccs[i] /\ u \in sccs[j] /\ u \in succs[t] => i <= j

\* Layers are the barriers of the layered executor: every component is in one
\* layer, an edge leads to a later layer, and a worker-0 component has its layer
\* for itself, also after wide layers are split.
LayersOrdered ==
  stage = "layers" =>
    LET layerOf(t) == {k \in DOMAIN layers : \E i \in ToSet(layers[k]) : t \in sccs[i]}
        groupOf(t) == {i \in DOMAIN sccs : t \in sccs[i]}
    IN  /\ \A t \in Tasks : Cardinality(layerOf(t)) = 1
        /\ \A t \in Tasks : \A u \in succs[t] :
             groupOf(t) # groupOf(u) => Min(layerOf(t)) < Min(layerOf(u))
        /\ \A t \in input.zero : Len(layers[Min(layerOf(t))]) = 1
        /\ \A k \in DOMAIN layers : Len(layers[k]) \in 1..LayerWidth

\* The order in which one thread would run everything: MTasks by id, their
\* components in sequence, and the tasks of a component by cppId.
RunOrder == FlattenSeq([m \in DOMAIN mtasks |->
              FlattenSeq([k \in DOMAIN mtasks[m] |-> Ascending(sccs[mtasks[m][k]])])])

\* "dense MTask id order not topo-monotone" is never asserted, and the executor,
\* which runs an MTask's tasks in sequence, runs every task once and none before
\* one it depends on.  Tasks with a worker-0 reason end up on lane 0 whatever
\* components and MTasks they were merged into.
RunOrderTopological ==
  stage \in {"mtasks", "done"} =>
    /\ Len(RunOrder) = input.n
    /\ ToSet(RunOrder) = Tasks
    /\ \A i, j \in DOMAIN RunOrder : <<RunOrder[i], RunOrder[j]>> \in input.deps => i < j
    /\ \A m, k \in DOMAIN mtasks : m > k =>
         ~\E i \in ToSet(mtasks[m]), j \in ToSet(mtasks[k]) :
            \E t \in sccs[i] : succs[t] \cap sccs[j] # {}
    /\ stage = "done" =>
         \A m \in DOMAIN mtasks : \A i \in ToSet(mtasks[m]) :
           sccs[i] \cap input.zero # {} => assign[m] = 0

\* A schedule is valid exactly if code generation is on and no task reaches
\* itself; with the forward-activation filter none does ("Excluding them makes
\* the graph acyclic"), and the component order is never incomplete.
ValidIffAcyclic ==
  stage = "done" =>
    /\ (verdict = "none") <=> (input.codegen /\ \A t \in Tasks : ~Before[t, t])
    /\ input.forward /\ input.codegen => verdict = "none"
=============================================================================
