--------------------------- MODULE PartitionPasses ---------------------------
(* The passes that order the super nodes and merge them: src/topoSort.cpp,    *)
(* src/mergeNodes.cpp, src/graphPartition.cpp and src/replication.cpp, as     *)
(* operators on the graphs of SuperGraph.                                     *)
(*                                                                           *)
(* Every choice among several super nodes goes through an ordering policy     *)
(* [kind, line, rank]: "id" is the default build (ORDERED_TOPO_SORT in         *)
(* include/common.h), "stable" is GSIM_STABLE_ORDER=1, and "rank" replays a    *)
(* text seed (GSIM_SCHEDULE_SEED).                                            *)
EXTENDS SuperGraph, SequencesExt

CONSTANTS
    MaxNodes,        \* MAX_NODES_PER_SUPER
    MaxSublings,     \* MAX_SUBLINGS
    MaxSize,         \* globalConfig.SuperNodeMaxSize
    MergeWhenSize    \* globalConfig.MergeWhenSize

Infinity == 1000

LexLess(a, b) ==
    \E i \in DOMAIN a : a[i] < b[i] /\ \A j \in 1..(i - 1) : a[j] = b[j]

(* SuperNodeStableLess: the line of the first member, its name, and for the   *)
(* shells that have no member the numbers of dependences, then the id. The    *)
(* member count and the later names never decide: names are unique.           *)
StableKey(g, line, s) ==
    LET first == IF g.mem[s] = <<>> THEN <<Infinity, 0>> ELSE <<line[g.mem[s][1]], g.mem[s][1]>>
    IN first \o <<Cardinality(g.depPrev[s]), Cardinality(g.depNext[s]), s>>

RankOfIgnored(g, rank, s) == Infinity

(* mtSeedRankOf: the best rank of a member the seed lists.                    *)
RankOf(g, rank, s) ==
    Min({Infinity} \cup {i \in DOMAIN rank : rank[i] \in Members(g, s)})

(* SeedRankLess falls back on the stable order for nodes the seed lacks; in   *)
(* the default build super nodes are taken by id.                             *)
Less(g, p, a, b) ==
    CASE p.kind = "id" -> a < b
      [] p.kind = "stable" -> LexLess(StableKey(g, p.line, a), StableKey(g, p.line, b))
      [] p.kind = "rank" ->
            LexLess(<<RankOf(g, p.rank, a)>> \o StableKey(g, p.line, a),
                    <<RankOf(g, p.rank, b)>> \o StableKey(g, p.line, b))

Ordered(g, p, S) == SetToSortSeq(S, LAMBDA a, b : Less(g, p, a, b))

(* The three frontier loops of topoSort and of resort: a super enters the     *)
(* frontier when the last super it depends on was taken. The default frontier *)
(* is a stack, the other two are sets ordered by the policy.                  *)
RECURSIVE Frontier(_, _, _, _, _)
Frontier(g, p, front, times, out) ==
    IF front = <<>> THEN out
    ELSE LET at == IF p.kind = "id" THEN Len(front)
                   ELSE CHOOSE i \in DOMAIN front :
                          \A j \in DOMAIN front \ {i} : Less(g, p, front[i], front[j])
             top == front[at]
             seen == [s \in DOMAIN times |-> IF s \in g.depNext[top] THEN times[s] + 1 ELSE times[s]]
             ready == SelectSeq(Ordered(g, p, g.depNext[top]),
                                LAMBDA s : seen[s] = Cardinality(g.depPrev[s]))
         IN Frontier(g, p, RemoveAt(front, at) \o ready, seen, Append(out, top))

Roots(g, seq) == SelectSeq(seq, LAMBDA s : g.depPrev[s] = {})

Zero(g) == [s \in DOMAIN g.mem |-> 0]

(* graph::topoSort without its seeds; supersrc is sorted by id (AST2Graph).   *)
TopoOrder(g, p, supersrc) ==
    OrderAllNodes([g EXCEPT !.sorted = Frontier(g, p, Roots(g, supersrc), Zero(g), <<>>)])

(* graph::resort without its seeds.                                           *)
ResortOrder(g, p) ==
    OrderAllNodes([g EXCEPT !.sorted = Frontier(g, p, Roots(g, @), Zero(g), <<>>)])

(* graph::mergeResetAll: the super node of an asynchronous reset signal leaves *)
(* the plain ones. The reset super nodes it builds stay outside sortedSuper.  *)
MergeResetAll(g, resets) ==
    LET sigs == {SuperOf(g, r.sig) : r \in {x \in resets : x.async}}
    IN [g EXCEPT !.type = [s \in DOMAIN @ |-> IF s \in sigs /\ @[s] = "valid" THEN "async" ELSE @[s]]]

-----------------------------------------------------------------------------
(* graph::mergeWhenNodes.                                                     *)
(* cond maps a node whose value is a `when` to the node of its condition;     *)
(* AllCond[x] are the supers that wait for the condition in super x.          *)
WhenSupers(g, cond) ==
    {s \in Live(g) : g.type[s] = "valid" /\ g.mem[s] # <<>> /\ g.mem[s][1] \in DOMAIN cond
                     /\ cond[g.mem[s][1]] \in LiveNodes(g)}

CondOf(g, cond, s) == SuperOf(g, cond[g.mem[s][1]])

(* The traversal state: the queue s, the queue cond of conditions that will   *)
(* release several supers, the set wait of the other conditions, the counters *)
(* and the groups found.                                                      *)
AddCond(g, cond, w, x) ==
    LET almost == {y \in WhenSupers(g, cond) : CondOf(g, cond, y) = x
                                    /\ w.times[y] + 1 = Cardinality(g.depPrev[y])}
    IN IF Cardinality(almost) >= 2 THEN [w EXCEPT !.cond = Append(@, x)]
       ELSE [w EXCEPT !.wait = @ \cup {x}]

Cond2Queue(w, x) ==
    IF x \in w.wait THEN [w EXCEPT !.wait = @ \ {x}, !.cond = Append(@, x)] ELSE w

(* One successor of a super taken from the queue s.                           *)
WhenStep(g, cond, w, x) ==
    LET conds == {CondOf(g, cond, y) : y \in WhenSupers(g, cond)}
        w1 == [w EXCEPT !.times[x] = @ + 1]
        w2 == IF w1.times[x] + 1 = Cardinality(g.depPrev[x]) /\ x \in WhenSupers(g, cond)
              THEN Cond2Queue(w1, CondOf(g, cond, x)) ELSE w1
    IN IF w2.times[x] # Cardinality(g.depPrev[x]) THEN w2
       ELSE IF x \in conds THEN AddCond(g, cond, w2, x)
       ELSE [w2 EXCEPT !.s = Append(@, x)]

(* A condition is taken when the queue s ran dry: the supers it releases are   *)
(* queued, and the ones that wait for it form a group.                        *)
TakeCond(g, p, cond, w) ==
    LET w1 == IF w.cond # <<>> THEN w
              ELSE Cond2Queue(w, CHOOSE x \in w.wait : \A y \in w.wait \ {x} : Less(g, p, x, y))
        c == Head(w1.cond)
        seen == [x \in DOMAIN w1.times |-> IF x \in g.depNext[c] THEN w1.times[x] + 1 ELSE w1.times[x]]
        ready == SelectSeq(Ordered(g, p, g.depNext[c]), LAMBDA x : seen[x] = Cardinality(g.depPrev[x]))
        group == SelectSeq(ready, LAMBDA x : x \in WhenSupers(g, cond) /\ CondOf(g, cond, x) = c)
    IN [w1 EXCEPT !.cond = Tail(@), !.times = seen, !.s = @ \o ready,
                  !.groups = IF Len(group) > MergeWhenSize
                             THEN Append(@, [cond |-> c, sources |-> group]) ELSE @]

RECURSIVE WhenTraversal(_, _, _, _)
WhenTraversal(g, p, cond, w) ==
    IF w.s = <<>> THEN w.groups
    ELSE LET w1 == FoldLeft(LAMBDA v, x : WhenStep(g, cond, v, x), [w EXCEPT !.s = Tail(@)],
                            Ordered(g, p, g.depNext[Head(w.s)]))
             RECURSIVE Conds(_)
             Conds(v) == IF v.s = <<>> /\ (v.cond # <<>> \/ v.wait # {})
                         THEN Conds(TakeCond(g, p, cond, v)) ELSE v
         IN WhenTraversal(g, p, cond, Conds(w1))

WhenGroups(g, p, cond) ==
    LET conds == {CondOf(g, cond, y) : y \in WhenSupers(g, cond)}
        roots == Roots(g, g.sorted)
        free == SelectSeq(roots, LAMBDA x : x \notin conds)
        start == [s |-> IF p.kind = "id" THEN free ELSE Ordered(g, p, ToSet(free)),
                  cond |-> <<>>, wait |-> {}, times |-> Zero(g), groups |-> <<>>]
    IN WhenTraversal(g, p, cond,
           FoldLeft(LAMBDA w, x : AddCond(g, cond, w, x), start,
                    SelectSeq(roots, LAMBDA x : x \in conds)))

(* applyWhenMap: the members of a group move to its first super.              *)
ApplyGroup(g, sources) ==
    [g EXCEPT !.mem = [s \in DOMAIN @ |->
        IF s = sources[1] THEN FlattenSeq([i \in DOMAIN sources |-> @[sources[i]]])
        ELSE IF s \in ToSet(sources) THEN <<>> ELSE @[s]]]

MergeWhenNodes(g, groups) ==
    ReconnectSuper(RemoveEmptySuper(FoldLeft(LAMBDA h, x : ApplyGroup(h, x), g, groups)))

-----------------------------------------------------------------------------
(* graph::mergeOut1, from the last super to the first.                        *)
MergeOut1(g) ==
    LET step(h, s) ==
            IF \E t \in Live(g) : CanMergeOut(h, s, t, MaxNodes)
            THEN MergeOut(h, s, CHOOSE t \in h.next[s] : TRUE) ELSE h
    IN RemoveEmptySuper(FoldLeft(step, g, Reverse(g.sorted)))

(* graph::mergeIn1, from the first super to the last.                         *)
MergeIn1(g) ==
    LET step(h, s) ==
            IF \E t \in Live(g) : CanMergeIn(h, s, t, MaxNodes)
            THEN MergeIn(h, s, CHOOSE t \in h.prev[s] : TRUE) ELSE h
    IN RemoveEmptySuper(FoldLeft(step, g, g.sorted))

(* graph::mergeSublings: supers with the same predecessors and dependences    *)
(* join the first of them until it holds MaxSublings members; then the next    *)
(* one takes its place.                                                       *)
MergeSublings(g) ==
    LET step(st, s) ==
            LET same == {r \in st.rep : g.prev[r] = g.prev[s] /\ g.depPrev[r] = g.depPrev[s]}
            IN IF g.prev[s] = {} \/ g.type[s] # "valid" THEN st
               ELSE IF same = {} THEN [st EXCEPT !.rep = @ \cup {s}]
               ELSE LET r == CHOOSE x \in same : TRUE
                    IN IF Len(st.mem[r]) < MaxSublings
                       THEN [st EXCEPT !.mem = [@ EXCEPT ![r] = @ \o st.mem[s], ![s] = <<>>]]
                       ELSE [st EXCEPT !.rep = (@ \ {r}) \cup {s}]
        end == FoldLeft(step, [rep |-> {}, mem |-> g.mem], g.sorted)
    IN ReconnectSuper(RemoveEmptySuper([g EXCEPT !.mem = end.mem]))

PartCostOpen(g, i, c, j) ==
    c + Cardinality(g.next[g.sorted[j]]) - Cardinality({q \in g.prev[g.sorted[j]] : g.order[q] > i})

(* The cost of the part that starts after i grows by the edges that leave its  *)
(* new last super j, and shrinks by the ones that reach j from inside.        *)
PartCost(g, i, c, j) ==
    c + Cardinality(g.next[g.sorted[j]]) - Cardinality({q \in g.prev[g.sorted[j]] : g.order[q] >= i})

(* graph::graphInitPartition. T[j] is the least cost of the first j supers,    *)
(* b[j] the start of the last part.                                           *)
PartitionCuts(g) ==
    LET n == Len(g.sorted)
        size == [j \in 1..n |-> Len(g.mem[g.sorted[j]])]
        Bound(i) == Max({i + 1} \cup {j \in (i + 1)..n : SumFunctionOnSet(size, (i + 1)..j) <= MaxSize})
        FromI(st, i) ==
            LET upd(v, j) ==
                    LET cost == PartCost(g, i, v.c, j)
                    IN IF v.T[j] > v.T[i] + cost
                       THEN [v EXCEPT !.c = cost, !.T[j] = v.T[i] + cost, !.b[j] = i]
                       ELSE [v EXCEPT !.c = cost]
            IN FoldLeft(upd, [st EXCEPT !.c = 0], [k \in 1..(Bound(i) - i) |-> i + k])
        dp == FoldLeft(FromI, [T |-> [j \in 0..n |-> IF j = 0 THEN 0 ELSE Infinity],
                               b |-> [j \in 0..n |-> -1], c |-> 0],
                       [k \in 1..n |-> k - 1])
        RECURSIVE Back(_)
        Back(j) == IF dp.b[j] > 0 THEN {dp.b[j]} \cup Back(dp.b[j]) ELSE {}
    IN Back(n)

(* The parts the cuts delimit: the starts found, and every super that is not   *)
(* plain alone in its part.                                                   *)
Parts(g, starts) ==
    LET n == Len(g.sorted)
        odd == {i \in 0..(n - 1) : g.type[g.sorted[i + 1]] # "valid"}
        cut == starts \cup {n} \cup odd \cup {i + 1 : i \in odd}
        ends == SetToSortSeq(cut \ {0}, <)
    IN [k \in DOMAIN ends |-> SubSeq(g.sorted, IF k = 1 THEN 1 ELSE ends[k - 1] + 1, ends[k])]

InitPartition(g) ==
    ReconnectSuper(RemoveEmptySuper(
        FoldLeft(LAMBDA h, part : ApplyGroup(h, part), g, Parts(g, PartitionCuts(g)))))

-----------------------------------------------------------------------------
(* graph::replicationOpt. ops[n] is the number of operators of node n, or -1   *)
(* for a node that cannot be copied (arrays, whens, wide operators, anything   *)
(* but a plain node). Only a node alone in its super node can be cheap enough: *)
(* the threshold of the others is 0.                                          *)
NodeNext(g, n) == {e[2] : e \in {x \in g.data : x[1] = n /\ x[2] \in LiveNodes(g)}}

NodePrev(g, n) == {e[1] : e \in {x \in g.data : x[2] = n /\ x[1] \in LiveNodes(g)}}

(* Node::repOpCount with the marks opNum left by the nodes before it.         *)
RepOpCount(g, ops, opNum, n) ==
    IF ops[n] < 0 THEN -1
    ELSE ops[n] + SumFunctionOnSet(opNum, {m \in NodePrev(g, n) \cap DOMAIN opNum : opNum[m] >= 0})

Replicated(g, ops) ==
    LET mark(opNum, n) ==
            LET s == SuperOf(g, n)
                op == RepOpCount(g, ops, opNum, n)
                limit == IF Len(g.mem[s]) = 1 THEN 3 ELSE 0
                keep == \/ op < 0
                        \/ op * Cardinality(NodeNext(g, n)) >= limit
                        \/ NodeNext(g, n) \subseteq Members(g, s)
            IN [m \in DOMAIN opNum \cup {n} |-> IF m = n THEN (IF keep THEN -1 ELSE op) ELSE opNum[m]]
        nodes == FlattenSeq([i \in DOMAIN g.sorted |-> g.mem[g.sorted[i]]])
        opNum == FoldLeft(mark, [m \in {} |-> 0], nodes)
    IN SelectSeq(nodes, LAMBDA n : opNum[n] >= 0)

(* The i-th copy of n, named n$DUP_i.                                         *)
Dup(n, i) == n + 10 * i

(* One node: a copy in the super node of every reader, numbered in the order   *)
(* of a map keyed by SuperNode*, that is in the order of their addresses.     *)
Replicate(g, addr, n) ==
    LET readers == {SuperOf(g, x) : x \in NodeNext(g, n)} \ {SuperOf(g, n)}
        seq == SetToSortSeq(readers, LAMBDA a, b : addr[a] < addr[b])
        copyIn(s) == Dup(n, CHOOSE i \in DOMAIN seq : seq[i] = s)
        moved(e) == e[1] = n /\ e[2] \in LiveNodes(g) /\ SuperOf(g, e[2]) \in readers
    IN [g EXCEPT !.mem = [s \in DOMAIN @ |-> IF s \in readers THEN <<copyIn(s)>> \o @[s] ELSE @[s]],
                 !.data = {IF moved(e) THEN <<copyIn(SuperOf(g, e[2])), e[2]>> ELSE e : e \in @}
                          \cup {<<p, copyIn(s)>> : p \in NodePrev(g, n), s \in readers}]

(* A copied node disappears: it was alone in its super node.                  *)
ReplicationOpt(g, ops, addr) ==
    LET nodes == Replicated(g, ops)
    IN RemoveNodes(FoldLeft(LAMBDA h, n : Replicate(h, addr, n), g, Reverse(nodes)), ToSet(nodes))
=============================================================================
