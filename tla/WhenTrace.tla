------------------------------ MODULE WhenTrace ------------------------------
(***************************************************************************)
(* How AST2Graph turns the connects of a module into assign trees.  A node *)
(* has a valTree, the assignment being built, and a list of assignTrees    *)
(* that come before it.  A connect inside whens, with the trace tr of the  *)
(* conditions around it, is put into the valTree along the whens it shares *)
(* with earlier connects.                                                  *)
(***************************************************************************)
EXTENDS ExprTree, SequencesExt

When(c, yes, no) == ENode("when", -1, FALSE, <<>>, <<Ref(c), yes, no>>)
Arm(step) == IF step.taken THEN 2 ELSE 3

\* getDeepestWhen: the first step of the trace, from i on, that the tree does not follow.
RECURSIVE Deepest(_, _, _)
Deepest(e, tr, i) ==
  IF i <= Len(tr) /\ e.op = "when" /\ e.k[1].n = tr[i].c
  THEN Deepest(e.k[Arm(tr[i])], tr, i + 1) ELSE i

RECURSIVE At(_, _, _, _)
At(e, tr, i, j) == IF i = j THEN e ELSE At(e.k[Arm(tr[i])], tr, i + 1, j)

RECURSIVE PutAt(_, _, _, _, _)
PutAt(e, tr, i, j, new) ==
  IF i = j THEN new ELSE [e EXCEPT !.k[Arm(tr[i])] = PutAt(@, tr, i + 1, j, new)]

\* The whens of the trace from step i on, around value; every other branch gets rest.
RECURSIVE Chain(_, _, _, _)
Chain(tr, i, rest, value) ==
  CASE i > Len(tr) -> value
    [] i <= Len(tr) /\ tr[i].taken -> When(tr[i].c, Chain(tr, i + 1, rest, value), rest)
    [] OTHER -> When(tr[i].c, rest, Chain(tr, i + 1, rest, value))

\* whenConnect with growWhenTrace.  A plain value already there moves into the branches
\* that are not taken; whens already there go to the assignTrees.
whenConnect(node, tr, rvalue) ==
  LET first == node.depth + 1
      m == Deepest(node.val, tr, first)
      old == At(node.val, tr, first, m)
      put(new) == PutAt(node.val, tr, first, m, new)
  IN IF m <= Len(tr) /\ old.op = "when"
     THEN [node EXCEPT !.t = Append(@, node.val), !.val = put(Chain(tr, m, Null, rvalue))]
     ELSE [node EXCEPT !.val = put(Chain(tr, m, old, rvalue))]

\* visitConnect, outside any when: everything before is overridden.
visitConnect(node, rvalue) ==
  IF rvalue.op = "invalid"
  THEN [node EXCEPT !.val = IF @ = Null THEN rvalue ELSE @]
  ELSE [node EXCEPT !.t = <<>>, !.val = rvalue]

RECURSIVE countEmptyWhen(_)
countEmptyWhen(e) ==
  CASE e.op = "null" -> 1
    [] e.op = "when" -> countEmptyWhen(e.k[2]) + countEmptyWhen(e.k[3])
    [] OTHER -> 0

RECURSIVE FillEmpty(_, _)
FillEmpty(e, old) ==
  CASE e.op = "null" -> old
    [] e.op = "when" -> [e EXCEPT !.k = <<@[1], FillEmpty(@[2], old), FillEmpty(@[3], old)>>]
    [] OTHER -> e

\* saveWhenTree, for a node that a top-level when assigned.
saveWhenTree(node) ==
  LET empty == countEmptyWhen(node.val) IN
  CASE node.val = Null -> node
    [] node.val # Null /\ empty = 1 /\ node.t # <<>> ->
         [node EXCEPT !.t = Append(Front(@), FillEmpty(node.val, Last(@))), !.val = Null]
    [] node.val # Null /\ empty # 0 /\ (empty # 1 \/ node.t = <<>>) ->
         [node EXCEPT !.t = Append(@, node.val), !.val = Null]
    [] OTHER -> IF node.val.op = "invalid" THEN node ELSE [node EXCEPT !.t = <<>>]

\* visitStmt: a block is a connect, or the connects of a top-level when.
visitStmt(g, block) ==
  LET connect(h, c) ==
        [h EXCEPT ![c.n] = IF c.tr = <<>> THEN visitConnect(@, c.e) ELSE whenConnect(@, c.tr, c.e)]
      visited == FoldLeft(connect, g, block)
      saved(n) == \E i \in DOMAIN block : block[i].n = n /\ block[i].tr # <<>>
  IN [n \in DOMAIN g |-> IF saved(n) THEN saveWhenTree(visited[n]) ELSE visited[n]]

\* inferReset: what kind of reset a condition is.  A node that was not declared with a kind
\* has the kind of its assignTrees; there has to be one, and all have to agree.
RECURSIVE inferReset(_, _)
inferReset(g, t) ==
  LET kinds == {inferReset(g, g[t.n].t[i]) : i \in DOMAIN g[t.n].t} IN
  CASE t.op = "node" /\ g[t.n].rst # "none" -> g[t.n].rst
    [] t.op = "node" /\ g[t.n].rst = "none" ->
         IF \E kind \in kinds : kinds = {kind} THEN CHOOSE kind \in kinds : TRUE ELSE "abort"
    [] t.op = "int" /\ t.c = 0 -> "zero"
    [] t.op = "asasyncreset" -> "async"
    [] t.op \in {"asuint", "assint", "bits", "or"} -> "uint"
    [] OTHER -> "abort"

\* addReset: a register declared without a reset is reset by the literal zero.
addReset(g, reg) == IF g[reg].rt = Null THEN "zero" ELSE inferReset(g, g[reg].rt.k[1])

\* addUpdateTree: the register takes its next value, or is reset.
addUpdateTree(node, kind) ==
  [node EXCEPT !.t = <<Ref(node.pair)>>, !.rst = kind,
               !.rt = IF kind \in {"uint", "async"} THEN @ ELSE Null]

\* The assignments of a register become those of its next value.
FinishReg(g, reg) ==
  LET moved == [g EXCEPT ![g[reg].pair].t = @ \o g[reg].t, ![reg].t = <<>>]
  IN [moved EXCEPT ![reg] = addUpdateTree(@, addReset(moved, reg))]

\* The valTree is the last assignment.
PushValTree(node) ==
  IF node.val = Null THEN node ELSE [node EXCEPT !.t = Append(@, node.val), !.val = Null]

\* The end of AST2Graph: every valTree first, then one register after the other.
finishAST(g) ==
  LET pushed == [n \in DOMAIN g |-> PushValTree(g[n])]
      regsrc == SelectSeq([n \in DOMAIN g |-> n], LAMBDA n : g[n].ty = "src")
  IN FoldLeft(FinishReg, pushed, regsrc)
=============================================================================
