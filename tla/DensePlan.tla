----------------------------- MODULE DensePlan ------------------------------
(***************************************************************************)
(* The tables genDenseExecutor bakes into the emitted program, as pure     *)
(* operators over the MTask graph of the dense schedule.  A graph is a     *)
(* function from MTask ids 0..n-1 to successor sets, an assignment maps    *)
(* every MTask to the worker that owns it; a worker runs its MTasks in     *)
(* ascending id order.                                                     *)
(***************************************************************************)
EXTENDS Integers, FiniteSets, FiniteSetsExt

CONSTANT CacheLine    \* bytes per cache line; the code aligns banks to 64

ASSUME CacheLineAssumption == CacheLine \in Nat \ {0}

Edges(succs) == UNION {{<<m, s>> : s \in succs[m]} : m \in DOMAIN succs}

\* The graphs of a dense schedule: MTask ids are topologically ordered.
ForwardGraphs(ids) ==
  {[m \in ids |-> {s \in ids : <<m, s>> \in edges}] :
     edges \in SUBSET {e \in ids \X ids : e[2] > e[1]}}

-----------------------------------------------------------------------------
(* Runtime successors and their transitive reduction *)

\* mtBuildDenseRuntimeSuccs: with xthreadDepsOnly the edges inside one worker
\* are left to that worker's program order.
RuntimeSuccs(succs, owner, xthreadDepsOnly) ==
  [m \in DOMAIN succs |->
     {s \in succs[m] : ~(xthreadDepsOnly /\ owner[m] = owner[s])}]

\* The next MTask of the same worker, as a set of at most one element.
ChainSuccs(owner, m) ==
  {s \in DOMAIN owner :
     /\ s > m
     /\ owner[s] = owner[m]
     /\ \A t \in DOMAIN owner : m < t /\ t < s => owner[t] # owner[m]}

EffectiveSuccs(succs, owner, injectWorkerChains) ==
  [m \in DOMAIN succs |->
     succs[m] \cup (IF injectWorkerChains THEN ChainSuccs(owner, m) ELSE {})]

\* The backward sweep that ORs successor bitsets; every edge is forward.
Reachable(succs) ==
  LET reach[m \in DOMAIN succs] == succs[m] \cup UNION {reach[s] : s \in succs[m]}
  IN  reach

\* Mutant: takes an MTask before the source that reaches the target for a detour.
ReduceTransitiveSelf(succs, owner, injectWorkerChains) ==
  LET eff == EffectiveSuccs(succs, owner, injectWorkerChains)
      reach == Reachable(eff)
  IN  [m \in DOMAIN succs |->
         {s \in succs[m] : \A alt \in DOMAIN succs : s \notin reach[alt] \/ alt >= m}]

\* mtReduceDenseRuntimeSuccsTransitive: an edge goes when another effective
\* successor of its source already reaches its target; a graph with a backward
\* edge, or of one MTask, is left as it is.
ReduceTransitive(succs, owner, injectWorkerChains) ==
  LET eff == EffectiveSuccs(succs, owner, injectWorkerChains)
      reach == Reachable(eff)
  IN  IF Cardinality(DOMAIN succs) <= 1 \/ \E m \in DOMAIN succs : \E s \in eff[m] : s <= m
      THEN succs
      ELSE [m \in DOMAIN succs |->
              {s \in succs[m] : \A alt \in eff[m] \ {s} : s \notin reach[alt]}]

-----------------------------------------------------------------------------
(* Owner-ready tokens: mtBuildDenseOwnerReadyLayout *)

\* One token stands for all edges from one producer worker to one MTask.
Groups(succs, owner) == {<<e[2], owner[e[1]]>> : e \in Edges(succs)}

Sources(succs, owner, g) == {p \in DOMAIN succs : g[1] \in succs[p] /\ owner[p] = g[2]}

\* Mutant: the first source publishes.
PublisherFirst(succs, owner, g) == Min(Sources(succs, owner, g))

\* The source that comes last in the producer's order publishes the token.
Publisher(succs, owner, g) == Max(Sources(succs, owner, g))

\* Tokens are banked by (producer, consumer) pair, banks in lexicographic order.
Bank(owner, g) == <<g[2], owner[g[1]]>>

BankBefore(b, c) == b[1] < c[1] \/ (b[1] = c[1] /\ b[2] < c[2])

AlignCacheLine(slot) == ((slot + CacheLine - 1) \div CacheLine) * CacheLine

Banks(succs, owner) == {Bank(owner, g) : g \in Groups(succs, owner)}

InBank(succs, owner, b) == {g \in Groups(succs, owner) : Bank(owner, g) = b}

\* Every bank starts on a cache line of its own, after the banks before it.
BankStart(succs, owner, b) ==
  SumFunctionOnSet([c \in Banks(succs, owner) |-> AlignCacheLine(Cardinality(InBank(succs, owner, c)))],
                   {c \in Banks(succs, owner) : BankBefore(c, b)})

\* Mutant: one slot per bank.
SlotSharedBank(succs, owner, g) ==
  CacheLine * Cardinality({b \in Banks(succs, owner) : BankBefore(b, Bank(owner, g))})

\* Physical slot of a token: its place in the bank is the rank of its destination.
Slot(succs, owner, g) ==
  LET bank == Bank(owner, g)
  IN  BankStart(succs, owner, bank)
      + Cardinality({h \in InBank(succs, owner, bank) : h[1] < g[1]})

\* waitSlotsByMTask, storeSlotsByMTask and the token provenance.
OwnerReadyLayout(succs, owner) ==
  LET groups == Groups(succs, owner)
      slotOf == [g \in groups |-> Slot(succs, owner, g)]
      slots == {slotOf[g] : g \in groups}
      groupOf == [s \in slots |-> CHOOSE g \in groups : slotOf[g] = s]
  IN  [slots |-> slots,
       waits |-> [m \in DOMAIN succs |-> {s \in slots : groupOf[s][1] = m}],
       stores |-> [m \in DOMAIN succs |->
                     {s \in slots : Publisher(succs, owner, groupOf[s]) = m}],
       writer |-> [s \in slots |-> Publisher(succs, owner, groupOf[s])],
       reader |-> [s \in slots |-> groupOf[s][1]],
       sources |-> [s \in slots |-> Sources(succs, owner, groupOf[s])]]

-----------------------------------------------------------------------------
(* The three builds of the executor *)

\* Strict owner-ready tokens: cross-worker edges reduced along the worker chains.
StrictSuccs(succs, owner) ==
  ReduceTransitive(RuntimeSuccs(succs, owner, TRUE), owner, TRUE)

\* Lookahead: the full graph reduced without the chains ...
DagOnlySuccs(succs, owner) ==
  ReduceTransitive(RuntimeSuccs(succs, owner, FALSE), owner, FALSE)

\* ... whose cross-worker edges become tokens.
CrossWorkerSuccs(succs, owner) ==
  LET dag == DagOnlySuccs(succs, owner)
  IN  [m \in DOMAIN succs |-> {s \in dag[m] : owner[s] # owner[m]}]

\* Mutant: the siblings of a published token are not waited for.
LocalPrereqsNoSiblings(succs, owner, layout, m) ==
  {p \in DOMAIN succs : owner[p] = owner[m] /\ m \in DagOnlySuccs(succs, owner)[p]}

\* Positions an out-of-order candidate must find done on its own worker: its
\* same-worker predecessors and, when it publishes a token for several sources,
\* the other sources.
LocalPrereqs(succs, owner, layout, m) ==
  {p \in DOMAIN succs : owner[p] = owner[m] /\ m \in DagOnlySuccs(succs, owner)[p]}
  \cup UNION {layout.sources[s] \ {m} : s \in layout.stores[m]}

-----------------------------------------------------------------------------
(* The emitted programs, as the executors read them; order, which no executor
   reads, holds the dependences that the waits of a program keep. *)

\* The order the reduction reasons with: the graph and the worker chains.
OrderPairs(succs, owner) ==
  LET reach == Reachable(EffectiveSuccs(succs, owner, TRUE))
  IN  {e \in (DOMAIN succs) \X (DOMAIN succs) : e[2] \in reach[e[1]]}

StrictPlan(succs, owner) ==
  LET layout == OwnerReadyLayout(StrictSuccs(succs, owner), owner)
  IN  [deps |-> succs, owner |-> owner, slots |-> layout.slots, waits |-> layout.waits,
       stores |-> layout.stores, writer |-> layout.writer, order |-> OrderPairs(succs, owner)]

\* The order the candidates keep: the graph, and the sources of a token before
\* the one that publishes it.
LookaheadPlan(succs, owner) ==
  LET layout == OwnerReadyLayout(CrossWorkerSuccs(succs, owner), owner)
      locals == [m \in DOMAIN succs |-> LocalPrereqs(succs, owner, layout, m)]
      reach == Reachable([m \in DOMAIN succs |->
                            succs[m] \cup {s \in DOMAIN succs : m \in locals[s]}])
  IN  [deps |-> succs, owner |-> owner, slots |-> layout.slots, waits |-> layout.waits,
       stores |-> layout.stores, writer |-> layout.writer, locals |-> locals,
       order |-> {e \in (DOMAIN succs) \X (DOMAIN succs) : e[2] \in reach[e[1]]}]

CounterPlan(succs, generated, owner, xthread, reduce) ==
  LET all == RuntimeSuccs(succs, owner, xthread)
  IN  [deps |-> succs, generated |-> generated, owner |-> owner,
       runtime |-> IF reduce THEN ReduceTransitive(all, owner, TRUE) ELSE all,
       order |-> OrderPairs(succs, owner)]

-----------------------------------------------------------------------------
(* What the generator owes the executors *)

MTasksOf(p) == DOMAIN p.deps

\* Worker program order and tokens put q before m.
Before(p, q, m) ==
  \/ p.owner[q] = p.owner[m] /\ q < m
  \/ \E s \in p.waits[m] : p.owner[p.writer[s]] = p.owner[q] /\ q <= p.writer[s]

\* The tables are well formed, a slot has the one writer that stores it, MTask
\* ids are topologically ordered, and every dependence (in p.order) is a chain of
\* steps each worker waits for.
SoundPlan(p, owners) ==
  /\ p.deps \in [MTasksOf(p) -> SUBSET MTasksOf(p)]
  /\ MTasksOf(p) \in SUBSET Nat
  /\ p.owner \in [MTasksOf(p) -> owners]
  /\ p.waits \in [MTasksOf(p) -> SUBSET p.slots]
  /\ p.stores \in [MTasksOf(p) -> SUBSET p.slots]
  /\ p.writer \in [p.slots -> MTasksOf(p)]
  /\ p.slots \in SUBSET Nat
  /\ \A m \in MTasksOf(p) : \A s \in p.slots : s \in p.stores[m] <=> p.writer[s] = m
  /\ p.order \in SUBSET (MTasksOf(p) \X MTasksOf(p))
  /\ \A q \in MTasksOf(p) : \A m \in p.deps[q] : q < m /\ <<q, m>> \in p.order
  /\ \A q, m \in MTasksOf(p) : <<q, m>> \in p.order =>
       Before(p, q, m) \/ \E r \in MTasksOf(p) : <<q, r>> \in p.order /\ Before(p, r, m)

\* What an MTask run out of order has found done: its local prerequisites and
\* the publishers of its tokens.
Prereqs(p, m) == p.locals[m] \cup {p.writer[s] : s \in p.waits[m]}

\* For the lookahead also: local prerequisites come earlier in the program order
\* of the same worker, and every dependence (in p.order) ends in something the
\* candidate has found done.
SoundLookahead(p) ==
  /\ p.locals \in [MTasksOf(p) -> SUBSET MTasksOf(p)]
  /\ \A m \in MTasksOf(p) : \A q \in p.locals[m] : p.owner[q] = p.owner[m] /\ q < m
  /\ \A q, m \in MTasksOf(p) : <<q, m>> \in p.order =>
       \E r \in Prereqs(p, m) : q = r \/ <<q, r>> \in p.order

\* With counters: m counts q, or q comes earlier on the same lane.
CountedBefore(p, q, m) == m \in p.runtime[q] \/ (p.owner[q] = p.owner[m] /\ q < m)

\* The same of a program with dependency counters.
SoundCounts(p) ==
  /\ IsFiniteSet(MTasksOf(p)) /\ MTasksOf(p) \in SUBSET Nat
  /\ p.deps \in [MTasksOf(p) -> SUBSET MTasksOf(p)]
  /\ p.runtime \in [MTasksOf(p) -> SUBSET MTasksOf(p)]
  /\ p.generated \in Nat \ {0}
  /\ p.owner \in [MTasksOf(p) -> 0..(p.generated - 1)]
  /\ \A q \in MTasksOf(p) : \A m \in p.deps[q] : q < m /\ <<q, m>> \in p.order
  /\ \A q, m \in MTasksOf(p) : <<q, m>> \in p.order =>
       CountedBefore(p, q, m) \/ \E r \in MTasksOf(p) : <<q, r>> \in p.order /\ CountedBefore(p, r, m)
=============================================================================
