---------------------------- MODULE DenseTables -----------------------------
(***************************************************************************)
(* The table prologue of genDenseExecutor, step by step, for every forward *)
(* graph of N MTasks, every assignment to LaneCount lanes and every build: *)
(* runtime successors, transitive reduction, token layout and lookahead    *)
(* prerequisites, each checked against what the emitted executor needs.    *)
(***************************************************************************)
EXTENDS DensePlan

CONSTANTS N,        \* MTasks per graph
          LaneCount \* lanes the code is generated for

ASSUME TablesAssumption == N \in Nat /\ LaneCount \in Nat

VARIABLES tableStage, \* the table built last
          succs,      \* succMTasks of the dense schedule
          owner,      \* mtaskThreadAssign
          build,      \* the build switches of the executor
          runtime,    \* denseRuntimeSuccs, or the cross-worker lookahead edges
          layout,     \* ownerReadyLayout
          locals      \* denseLookaheadLocalPrereqs by MTask

tableVars == <<tableStage, succs, owner, build, runtime, layout, locals>>

GraphIds == 0..(N - 1)
Lanes == 0..(LaneCount - 1)

\* Assignments up to renaming of the lanes: a lane is named when first used.
Assignments ==
  {o \in [GraphIds -> Lanes] : \A m \in GraphIds : o[m] <= Cardinality({o[p] : p \in 0..(m - 1)})}

\* The combinations the asserts at the top of genDenseExecutor let through:
\* tokens need cross-thread edges and the reduction, lookahead needs tokens.
Builds ==
  {b \in [xthread : BOOLEAN, reduce : BOOLEAN, tokens : BOOLEAN, lookahead : BOOLEAN] :
     /\ b.tokens => b.xthread /\ b.reduce
     /\ b.lookahead => b.tokens}

Nothing == [m \in GraphIds |-> {}]
NoLayout == [slots |-> {}, waits |-> Nothing, stores |-> Nothing,
             writer |-> <<>>, reader |-> <<>>, sources |-> <<>>]

TablesInit ==
  /\ tableStage = "schedule"
  /\ succs \in ForwardGraphs(GraphIds)
  /\ owner \in Assignments
  /\ build \in Builds
  /\ runtime = Nothing
  /\ layout = NoLayout
  /\ locals = Nothing

BuildRuntimeSuccs ==
  /\ tableStage = "schedule"
  /\ tableStage' = "runtime"
  /\ runtime' = RuntimeSuccs(succs, owner, build.xthread)
  /\ UNCHANGED <<succs, owner, build, layout, locals>>

Reduce ==
  /\ tableStage = "runtime"
  /\ tableStage' = "reduced"
  /\ runtime' = IF build.reduce THEN ReduceTransitive(runtime, owner, TRUE) ELSE runtime
  /\ UNCHANGED <<succs, owner, build, layout, locals>>

BuildOwnerReadyLayout ==
  /\ tableStage = "reduced"
  /\ build.tokens
  /\ tableStage' = "layout"
  /\ layout' = OwnerReadyLayout(runtime, owner)
  /\ UNCHANGED <<succs, owner, build, runtime, locals>>

\* The lookahead build replaces the layout by one over the cross-worker edges of
\* the graph reduced without worker chains.
BuildLookahead ==
  /\ tableStage = "layout"
  /\ build.lookahead
  /\ tableStage' = "lookahead"
  /\ runtime' = CrossWorkerSuccs(succs, owner)
  /\ layout' = OwnerReadyLayout(CrossWorkerSuccs(succs, owner), owner)
  /\ locals' = [m \in GraphIds |-> LocalPrereqs(succs, owner, layout', m)]
  /\ UNCHANGED <<succs, owner, build>>

Emitted ==
  /\ \/ tableStage = "reduced" /\ ~build.tokens
     \/ tableStage = "layout" /\ ~build.lookahead
     \/ tableStage = "lookahead"
  /\ UNCHANGED tableVars

TablesNext ==
  \/ BuildRuntimeSuccs \/ Reduce \/ BuildOwnerReadyLayout \/ BuildLookahead
  \/ Emitted

TablesSpec == TablesInit /\ [][TablesNext]_tableVars

-----------------------------------------------------------------------------
(* Properties *)

\* The order a set of edges enforces: x before y along a path of edges.
Path(edges) ==
  LET path[k \in 0..N] ==
        IF k = 0 THEN edges
        ELSE LET shorter == path[k - 1]
             IN  shorter \cup {e \in GraphIds \X GraphIds :
                               \E r \in GraphIds : <<e[1], r>> \in shorter /\ <<r, e[2]>> \in edges}
  IN  path[N]

Orders(edges, wanted) == wanted \subseteq Path(edges)

\* What a lane enforces by running its MTasks in id order.
LaneOrder == {e \in GraphIds \X GraphIds : e[1] < e[2] /\ owner[e[1]] = owner[e[2]]}

\* mtReduceDenseRuntimeSuccsTransitive: the edges that are left, with the order
\* inside each worker, still put every dependence of the schedule in order.
OrderKept ==
  tableStage \in {"reduced", "layout"} => Orders(Edges(runtime) \cup LaneOrder, Edges(succs))

\* mtBuildDenseOwnerReadyLayout: an MTask waits for exactly one token per worker
\* it has edges from, and that token is stored by the last of its sources there,
\* once, by nobody else.
TokensExact ==
  tableStage \in {"layout", "lookahead"} =>
    \A m \in GraphIds, w \in Lanes :
      LET sources == {p \in GraphIds : m \in runtime[p] /\ owner[p] = w}
          tokens == {s \in layout.waits[m] : \E p \in GraphIds : s \in layout.stores[p] /\ owner[p] = w}
      IN  /\ sources = {} <=> tokens = {}
          /\ \A s, t \in tokens : s = t
          /\ \A s \in tokens : {p \in GraphIds : s \in layout.stores[p]} =
                 {p \in sources : \A q \in sources : q <= p}
          /\ \A s \in tokens, x \in GraphIds : s \in layout.waits[x] => x = m

\* stepDenseLookaheadTail relies on this: an MTask that has found its local
\* prerequisites done and its tokens stored has all it depends on, with no help
\* from the order in which its worker runs other MTasks.
LookaheadSound ==
  tableStage = "lookahead" =>
    Orders(UNION {{<<p, m>> : p \in locals[m] \cup {layout.writer[s] : s \in layout.waits[m]}}
                    : m \in GraphIds},
           Edges(succs))
=============================================================================
