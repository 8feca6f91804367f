----------------------------- MODULE SuperGraph -----------------------------
(* The graph of super nodes that the partitioning passes rewrite             *)
(* (include/Node.h, src/superNode.cpp, src/graph.cpp, src/Node.cpp).          *)
(*                                                                           *)
(* A graph is a record:                                                      *)
(*   sorted   graph::sortedSuper, a sequence of super nodes                  *)
(*   mem      the member list of every super node                            *)
(*   prev, next, depPrev, depNext   the four relations of every super node    *)
(*   order    SuperNode::order, written by orderAllNodes only                 *)
(*   type     "valid", "ext" or "async" (SUPER_VALID, SUPER_EXTMOD and        *)
(*            SUPER_ASYNC_RESET)                                             *)
(*   data, dep   the node edges: reads, and dependences that are not reads    *)
(* A super node is named by its id, the number of the node it was made for;   *)
(* a node is a number too, and stands for its unique name.                    *)
EXTENDS Integers, Sequences, FiniteSets

Members(g, s) == {g.mem[s][i] : i \in 1..Len(g.mem[s])}

Live(g) == {g.sorted[i] : i \in 1..Len(g.sorted)}

LiveNodes(g) == UNION {Members(g, s) : s \in Live(g)}

(* Node::super *)
SuperOf(g, n) == CHOOSE s \in Live(g) : n \in Members(g, s)

(* Node::constructSuperConnect over every member: the edges between super     *)
(* nodes are the images of the node edges, without the ones inside a super.   *)
Quotient(g, edges) ==
    {e \in {<<SuperOf(g, x[1]), SuperOf(g, x[2])>> :
               x \in {y \in edges : {y[1], y[2]} \subseteq LiveNodes(g)}} : e[1] # e[2]}

(* graph::reconnectSuper: clear_relation, then constructSuperConnect.         *)
ReconnectSuper(g) ==
    LET data == Quotient(g, g.data)
        all  == data \cup Quotient(g, g.dep)
        From(E) == [s \in DOMAIN g.mem |-> {e[1] : e \in {x \in E : x[2] = s}}]
        To(E)   == [s \in DOMAIN g.mem |-> {e[2] : e \in {x \in E : x[1] = s}}]
    IN [g EXCEPT !.prev = From(data), !.next = To(data),
                 !.depPrev = From(all), !.depNext = To(all)]

(* graph::removeEmptySuper drops an empty super only when it is SUPER_VALID:  *)
(* an external module that lost its members stays as a shell.                 *)
RemoveEmptySuper(g) ==
    [g EXCEPT !.sorted = SelectSeq(@, LAMBDA s : g.type[s] # "valid" \/ g.mem[s] # <<>>)]

(* graph::orderAllNodes: the order field becomes the position. It is the only *)
(* writer of the field, so between two calls a removal leaves gaps in it.     *)
OrderAllNodes(g) ==
    [g EXCEPT !.order =
        [s \in DOMAIN g.mem |->
            IF s \in Live(g) THEN (CHOOSE i \in 1..Len(g.sorted) : g.sorted[i] = s) - 1 ELSE @[s]]]

(* graph::removeNodes(status): the members are erased, then the supers that   *)
(* became empty, and the relations are rebuilt from what is left.             *)
RemoveNodes(g, dead) ==
    ReconnectSuper(RemoveEmptySuper(
        [g EXCEPT !.mem = [s \in DOMAIN @ |-> SelectSeq(@[s], LAMBDA n : n \notin dead)]]))

(* The edge moves shared by mergeOut1 and mergeIn1 (addPrev, eraseNext,       *)
(* addDepNext, ... of superNode.cpp): every edge of s becomes an edge of t    *)
(* and the edges between the two disappear.                                   *)
MoveEdges(rel, s, t) ==
    [x \in DOMAIN rel |->
        IF x = s THEN {}
        ELSE LET own == IF x = t THEN rel[t] \cup rel[s] ELSE rel[x]
             IN {IF y = s THEN t ELSE y : y \in own} \ {x}]

Absorb(g, s, t, members) ==
    [g EXCEPT !.mem = [@ EXCEPT ![t] = members, ![s] = <<>>],
              !.prev = MoveEdges(@, s, t), !.next = MoveEdges(@, s, t),
              !.depPrev = MoveEdges(@, s, t), !.depNext = MoveEdges(@, s, t)]

CanMergeOutUnordered(g, s, t, maxNodes) ==
    /\ g.type[s] = "valid" /\ g.next[s] = {t}
    /\ g.type[t] = "valid" /\ Len(g.mem[t]) <= maxNodes

(* The condition under which mergeOut1 moves s into its only reader t: both   *)
(* are plain super nodes, t has room, and nothing that must follow s is        *)
(* ordered before t.                                                          *)
CanMergeOut(g, s, t, maxNodes) ==
    /\ g.type[s] = "valid" /\ g.next[s] = {t}
    /\ g.type[t] = "valid" /\ Len(g.mem[t]) <= maxNodes
    /\ \A d \in g.depNext[s] : ~(g.order[d] < g.order[t])

(* The condition under which mergeIn1 moves s into the only super t it reads. *)
CanMergeIn(g, s, t, maxNodes) ==
    /\ g.type[s] = "valid" /\ g.prev[s] = {t}
    /\ g.type[t] = "valid" /\ Len(g.mem[t]) <= maxNodes
    /\ \A d \in g.depPrev[s] : ~(g.order[d] > g.order[t])

MergeOut(g, s, t) == Absorb(g, s, t, g.mem[s] \o g.mem[t])

MergeIn(g, s, t) == Absorb(g, s, t, g.mem[t] \o g.mem[s])
=============================================================================
