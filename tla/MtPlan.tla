-------------------------------- MODULE MtPlan ------------------------------
(***************************************************************************)
(* What the generator plans for the multithreaded sparse step: which       *)
(* supernodes are pure tasks, which of one flag word may run as a batch,   *)
(* and which runs of whole words form a coarse region, with its layers,    *)
(* its MTasks and their workers.  A task is the cppId of its supernode.    *)
(***************************************************************************)
EXTENDS SparseStep, SequencesExt

CONSTANTS CostThreshold,  \* MtActiveFrequencyCostThreshold
          SpanCap         \* MT_LEVEL_DISPATCH_REGION_SPAN_CAP, 192 in the code

ASSUME PlanAssumption == CostThreshold \in Nat /\ SpanCap \in Nat \ {0}

NumSupers == Cardinality(Supers)
Ids(begin, end) == begin..(end - 1)
Ascending(S) == SelectSeq([i \in 1..NumSupers |-> i - 1], LAMBDA s : s \in S)

-----------------------------------------------------------------------------
(* Classification of a supernode *)

\* What the trees of a node say, every operator costing one: an external call and
\* the reset of a register are reasons to stay serial.
TreeInfo(n) ==
  [reasons |-> (IF circuit.kind[n] = "ext" THEN {"external"} ELSE {})
                 \cup (IF circuit.hasReset[n] THEN {"reset"} ELSE {}),
   cost |-> IF circuit.kind[n] = "and" THEN Cardinality(circuit.reads[n]) - 1 ELSE 0]

NodeReasons(n) ==
  TreeInfo(n).reasons
    \cup (IF circuit.kind[n] \in {"src", "dst"} THEN {"state_update"} ELSE {})
    \cup (IF circuit.kind[n] = "ext" THEN {"super_type_SUPER_EXTMOD"} ELSE {})
    \cup (IF n = circuit.resetNode THEN {"reset"} ELSE {})

SerialReasons(s) == UNION {NodeReasons(n) : n \in Members(s)}

PureCompute(s) == SerialReasons(s) = {}

HasWorker0OnlyReason(reasons) == reasons \cap {"external", "super_type_SUPER_EXTMOD"} # {}

HasOnlyA44DirectFallbackReasons(reasons) == reasons \subseteq {"state_update", "reset"}

CanEnterCoarseDispatch(s) ==
  s \notin AlwaysActive /\ (PureCompute(s) \/ HasOnlyA44DirectFallbackReasons(SerialReasons(s)))

CanEnterPureBatch(s) == PureCompute(s) /\ s \notin AlwaysActive

\* candidateCost of a pure task; one for any other.
EstimatedCost(s) ==
  IF PureCompute(s) THEN Max({1, MapThenSumSet(LAMBDA n : TreeInfo(n).cost, Members(s))}) ELSE 1

BatchEstimatedCost(begin, end) == MapThenSumSet(EstimatedCost, Ids(begin, end))

-----------------------------------------------------------------------------
(* Edges between tasks *)

\* next and depNext: to the readers, and from a src to its dst.
HasDependencyEdgeTo(from, to) ==
  /\ from # to
  /\ \E n \in Members(from) :
       to \in ReaderSupers(n)
         \cup (IF circuit.kind[n] = "src" THEN {circuit.super[circuit.pair[n]]} ELSE {})

HasActiveEdgeTo(from, to) == \E n \in Members(from) : to \in NextActiveId(n)

HasOrderingEdgeTo(from, to) == HasDependencyEdgeTo(from, to) \/ HasActiveEdgeTo(from, to)

TasksHaveEdge(a, b) == HasOrderingEdgeTo(a, b) \/ HasOrderingEdgeTo(b, a)

-----------------------------------------------------------------------------
(* Pure batches: consecutive tasks of one word without an edge *)

\* Mutant: the edges are not looked at.
CanJoinAnyway(batch, s) == CanEnterPureBatch(s)

CanJoinPureBatch(batch, s) == CanEnterPureBatch(s) /\ \A t \in batch : ~TasksHaveEdge(t, s)

\* ACTIVE_WIDTH tasks from begin, which need not be the first of its word.
ActiveWordIsWhole(begin) ==
  Ids(begin, begin + ActiveWidth) \cap AlwaysActive = {}

WordEnd(s) == Min({NumSupers, (WordOf(s) + 1) * ActiveWidth})

\* The first task after begin that cannot join.
BatchEnd(begin) ==
  Min({e \in (begin + 1)..WordEnd(begin) :
         e = WordEnd(begin) \/ ~CanJoinPureBatch(Ids(begin, e), e)})

\* Batches <<begin, end>> of the tasks from s on.
PlanMtPureBatchesLegacy ==
  LET from[s \in 0..NumSupers] ==
        IF s = NumSupers THEN {}
        ELSE IF ~(ActiveWordIsWhole(s) /\ CanEnterPureBatch(s)) THEN from[s + 1]
        ELSE IF BatchEnd(s) - s > 1 THEN {<<s, BatchEnd(s)>>} \cup from[BatchEnd(s)]
        ELSE from[s + 1]
  IN  from[0]

PlanMtPureBatchesActiveFrequency ==
  LET from[s \in 0..NumSupers] ==
        IF s = NumSupers THEN {}
        ELSE IF ~(Whole(WordOf(s)) /\ CanEnterPureBatch(s)) THEN from[s + 1]
        ELSE IF BatchEnd(s) - s > 1 /\ BatchEstimatedCost(s, BatchEnd(s)) >= CostThreshold
        THEN {<<s, BatchEnd(s)>>} \cup from[BatchEnd(s)]
        ELSE from[BatchEnd(s)]
  IN  from[0]

-----------------------------------------------------------------------------
(* Coarse regions: runs of whole words.  level is mt-level-dispatch. *)

WordIsFull(w) == (w + 1) * ActiveWidth <= NumSupers

CoarseWordCanEnterRegion(level, w) ==
  /\ Whole(w)
  /\ WordIsFull(w)
  /\ \A s \in WordIds(w) : IF level THEN CanEnterCoarseDispatch(s) ELSE CanEnterPureBatch(s)

SameWordReverseOrderingEdge(w) ==
  \E from, to \in WordIds(w) : to < from /\ HasOrderingEdgeTo(from, to)

ReverseOrderingEdgeIntoRegion(beginWord, w) ==
  \E from \in WordIds(w) : \E to \in Ids(beginWord * ActiveWidth, w * ActiveWidth) : HasOrderingEdgeTo(from, to)

\* Word w goes into the region that begins at beginWord.
ExtendsRegion(level, beginWord, w) ==
  /\ CoarseWordCanEnterRegion(level, w)
  /\ level => /\ ~SameWordReverseOrderingEdge(w)
              /\ ~ReverseOrderingEdgeIntoRegion(beginWord, w)
              /\ (w + 1) - beginWord <= SpanCap

PredsOf(tasks, t) == {p \in tasks \ {t} : HasOrderingEdgeTo(p, t)}

\* mtAddCoarseLayers: Kahn's layers; empty when the edges have a cycle.
CoarseLayers(tasks) ==
  LET n == Cardinality(tasks)
      done[k \in 0..n] ==
        IF k = 0 THEN {}
        ELSE LET before == done[k - 1] IN {t \in tasks : PredsOf(tasks, t) \subseteq before}
  IN  IF done[n] # tasks THEN <<>>
      ELSE SelectSeq([k \in 1..n |-> done[k] \ done[k - 1]], LAMBDA l : l # {})

\* The tasks joined to t by ordering edges.
GroupOf(tasks, t) ==
  LET near(S) == {u \in tasks : \E v \in S : TasksHaveEdge(u, v)}
      grow[k \in 0..Cardinality(tasks)] ==
        IF k = 0 THEN {t} ELSE LET S == grow[k - 1] IN S \cup near(S)
  IN  grow[Cardinality(tasks)]

\* mtAddCoarseMTasks: the groups, in the order the first layer meets them, each
\* a sequence of its non-empty layers.
CoarseMTasks(tasks, layers) ==
  LET firsts == SelectSeq(Ascending(layers[1]), LAMBDA t : t = Min(GroupOf(tasks, t) \cap layers[1]))
      ofGroup(g) == SelectSeq([l \in DOMAIN layers |-> layers[l] \cap g], LAMBDA l : l # {})
  IN  [i \in DOMAIN firsts |-> ofGroup(GroupOf(tasks, firsts[i]))]

\* mtBuildCoarseRegion: the region, or <<>> when something blocks it.
CoarseRegion(level, beginWord, endWord) ==
  LET begin == beginWord * ActiveWidth
      end == endWord * ActiveWidth
      tasks == Ids(begin, end)
      layers == CoarseLayers(tasks)
      serialBlocker(s) ==
        /\ ~PureCompute(s)
        /\ ~(level /\ s \notin AlwaysActive /\ ~HasWorker0OnlyReason(SerialReasons(s)))
      blocked == \/ \E s \in tasks : serialBlocker(s) \/ s \in AlwaysActive
                 \/ \E from, to \in tasks : to < from /\ HasOrderingEdgeTo(from, to)
                 \/ Cardinality(tasks) < CostThreshold
                 \/ endWord - beginWord <= 1
                 \/ layers = <<>>
                 \/ \A l \in Range(layers) : Cardinality(l) < 2
  IN  IF blocked THEN <<>>
      ELSE <<[begin |-> begin, end |-> end, layers |-> layers, mtasks |-> CoarseMTasks(tasks, layers)]>>

\* planMtCoarseRegions, the eligible ones.
PlanMtCoarseRegions(level) ==
  LET words == (NumSupers + ActiveWidth - 1) \div ActiveWidth
      endOf(b) == Min({e \in b..words : e = words \/ ~ExtendsRegion(level, b, e)})
      from[b \in 0..words] ==
        IF b = words THEN <<>>
        ELSE IF endOf(b) = b THEN from[b + 1]
        ELSE CoarseRegion(level, b, endOf(b)) \o from[endOf(b)]
  IN  from[0]

-----------------------------------------------------------------------------
(* Which worker runs which MTask *)

TaskCount(mtask) == Cardinality(UNION Range(mtask))
MTaskCost(mtask) == MapThenSumSet(EstimatedCost, UNION Range(mtask))

\* The piece of worker w, from 0, when k workers share s.
Chunk(s, w, k) == SubSeq(s, (Len(s) * w) \div k + 1, (Len(s) * (w + 1)) \div k)

\* The indices of the MTasks, the costliest first.
LptOrder(mtasks) ==
  LET before(i, j) ==
        LET ci == MTaskCost(mtasks[i]) cj == MTaskCost(mtasks[j])
            ti == TaskCount(mtasks[i]) tj == TaskCount(mtasks[j])
        IN  ci > cj \/ (ci = cj /\ (ti > tj \/ (ti = tj /\ i < j)))
  IN  [p \in DOMAIN mtasks |->
         CHOOSE i \in DOMAIN mtasks : Cardinality({j \in DOMAIN mtasks : before(j, i)}) = p - 1]

\* Longest processing time first: each goes to the least loaded of k workers.
LptAssignment(mtasks, k) ==
  LET load(assigned, w) == FoldLeft(LAMBDA sum, i : sum + MTaskCost(mtasks[i]), 0, assigned[w])
      tasks(assigned, w) == FoldLeft(LAMBDA sum, i : sum + TaskCount(mtasks[i]), 0, assigned[w])
      less(assigned, v, w) ==
        LET lv == load(assigned, v) lw == load(assigned, w)
            tv == tasks(assigned, v) tw == tasks(assigned, w)
        IN  lv < lw \/ (lv = lw /\ (tv < tw \/ (tv = tw /\ v < w)))
      best(assigned) == CHOOSE v \in 0..(k - 1) : \A w \in 0..(k - 1) \ {v} : less(assigned, v, w)
  IN  FoldLeft(LAMBDA assigned, i : [assigned EXCEPT ![best(assigned)] = Append(@, i)],
               [w \in 0..(k - 1) |-> <<>>], LptOrder(mtasks))

\* mtRunCoarseMTaskWorkerRange: consecutive MTasks.
RangeAssignment(mtasks, k) ==
  [w \in 0..(k - 1) |-> Chunk([i \in DOMAIN mtasks |-> i], w, k)]

\* The static lists: the same as LptAssignment, each list ascending.
DStaticAssignment(mtasks, k) ==
  LET assigned == LptAssignment(mtasks, k)
  IN  [w \in 0..(k - 1) |->
         SelectSeq([i \in DOMAIN mtasks |-> i], LAMBDA i : i \in Range(assigned[w]))]

\* Worker counts the static lists exist for.
DStaticRounded(k) == Max({c \in {1, 2, 4, 8} : c <= k})
=============================================================================
