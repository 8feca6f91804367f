------------------------------ MODULE StmtTree ------------------------------
(***************************************************************************)
(* The statement tree of a super node (StmtTree.cpp): the assignments of   *)
(* its members, with the whens of one condition shared by all of them      *)
(* where the order allows it.  A path is where in the tree a member was    *)
(* put: the index, from 0, at every depth.  A member goes behind the       *)
(* largest path of the members it depends on.                              *)
(***************************************************************************)
EXTENDS GraphPasses

Seq1(k) == [ty |-> "seq", k |-> k]
Stmt(n, e) == [ty |-> "node", n |-> n, e |-> e]
Conditional(e) == e.op \in {"when", "reset"}
ElseOf(e) == IF Len(e.k) >= 3 THEN e.k[3] ELSE Null

(***************************************************************************)
(* Paths                                                                   *)
(***************************************************************************)
addDepthPath(path, depth, i) ==
  CASE Len(path) <= depth -> Append(path, i)
    [] Len(path) > depth /\ i > path[depth + 1] -> Append(SubSeq(path, 1, depth), i)
    [] OTHER -> path

maxPath(p, q) ==
  LET differ == {i \in DOMAIN p : i > Len(q) \/ p[i] # q[i]}
      i == Min(differ)
  IN IF differ # {} /\ (i > Len(q) \/ p[i] > q[i]) THEN p ELSE q

\* prevOrderPath: the paths in member order, merged while they do not decrease.
MergePath(p, q) ==
  LET less == {i \in DOMAIN q : i <= Len(p) /\ p[i] > q[i]}
      upto == IF less = {} THEN Len(q) ELSE Min(less) - 1
  IN SubSeq(q, 1, upto) \o SubSeq(p, upto + 1, Len(p))
prevOrderPath(prevs, paths) == FoldLeft(LAMBDA p, m : MergePath(p, paths[m]), <<>>, prevs)

(***************************************************************************)
(* Merging one assignment                                                  *)
(***************************************************************************)
RECURSIVE WhenStmt(_, _)
WhenStmt(n, e) ==
  LET branch(b) == Seq1(IF b.op = "null" THEN <<>> ELSE <<WhenStmt(n, b)>>)
  IN IF Conditional(e) THEN [ty |-> "when", c |-> e.k[1], k |-> <<branch(e.k[2]), branch(ElseOf(e))>>]
     ELSE Stmt(n, e)

\* generateWhenTree's path: the root itself is not counted, so depth 1 has no index.
RECURSIVE WhenPath(_, _, _)
WhenPath(e, depth, path) ==
  CASE e.op = "null" -> path
    [] Conditional(e) ->
         WhenPath(e.k[2], depth + 1,
                  WhenPath(ElseOf(e), depth + 1, IF depth > 1 THEN addDepthPath(path, depth, 0) ELSE path))
    [] OTHER -> addDepthPath(path, depth, 0)

\* With the path forgotten: a statement may go before what it depends on.
PlaceStmtAnywhere(x, n, e, depth, path, limited) ==
  LET spots == {i \in DOMAIN x.s.k : x.s.k[i].ty \in {"node", "seq"}}
      i == Min(spots)
      group(s) == IF s.ty = "node" THEN Seq1(<<Stmt(n, e), s>>) ELSE Seq1(<<Stmt(n, e)>> \o s.k)
  IN IF spots = {}
     THEN [s |-> Seq1(Append(x.s.k, Stmt(n, e))), p |-> addDepthPath(x.p, depth, Len(x.s.k))]
     ELSE [s |-> Seq1([x.s.k EXCEPT ![i] = group(@)]), p |-> addDepthPath(x.p, depth, i - 1)]

\* The statement goes into the first plain statement or group from start on, else to the end.
PlaceStmt(x, n, e, depth, path, limited) ==
  LET same(s) == s.ty = "node" /\ s.n = n /\ e.op # "invalid"
      k == SelectSeq(x.s.k, LAMBDA s : ~same(s))
      start == IF limited THEN Smaller(Len(k), path[depth + 1]) ELSE 0
      spots == {i \in DOMAIN k : i > start /\ k[i].ty \in {"node", "seq"}}
      i == Min(spots)
      group(s) == IF s.ty = "node" THEN Seq1(<<s, Stmt(n, e)>>) ELSE Seq1(Append(s.k, Stmt(n, e)))
  IN IF spots = {}
     THEN [s |-> Seq1(Append(k, Stmt(n, e))), p |-> addDepthPath(x.p, depth, Len(k))]
     ELSE [s |-> Seq1([k EXCEPT ![i] = group(@)]), p |-> addDepthPath(x.p, depth, i - 1)]

\* StmtTree::mergeExpTree below the sequence x.s; x.p is the node's own path so far.
\* The else branch is merged before the then branch.
RECURSIVE MergeExp(_, _, _, _, _, _)
MergeExp(x, n, e, depth, path, any) ==
  LET limited == any /\ depth < Len(path)
      k == x.s.k
      fits == {i \in DOMAIN k : k[i].ty = "when" /\ k[i].c = e.k[1]
                                /\ (limited => path[depth + 1] <= i - 1)}
      i == Min(fits)
      next == limited /\ path[depth + 1] = i - 1
      into(b, branch, p) ==
        IF branch.op = "null" THEN [s |-> b, p |-> p]
        ELSE MergeExp([s |-> b, p |-> p], n, branch, depth + 1, path, next)
      no == into(k[i].k[2], ElseOf(e), addDepthPath(x.p, depth, i - 1))
      yes == into(k[i].k[1], e.k[2], no.p)
      sub == WhenPath(e, 1, <<Len(k)>>)
      subs == FoldLeft(LAMBDA p, j : addDepthPath(p, depth + j - 1, sub[j]), x.p, [j \in DOMAIN sub |-> j])
  IN CASE ~Conditional(e) -> PlaceStmt(x, n, e, depth, path, limited)
       [] Conditional(e) /\ fits # {} ->
            [s |-> Seq1([k EXCEPT ![i].k = <<yes.s, no.s>>]), p |-> yes.p]
       [] OTHER -> [s |-> Seq1(Append(k, WhenStmt(n, e))), p |-> subs]

mergeExpTree(tree, n, e, prevPath, nodePath) ==
  MergeExp([s |-> tree, p |-> addDepthPath(nodePath, 0, 0)], n, e, 1, maxPath(prevPath, nodePath), TRUE)

(***************************************************************************)
(* Order                                                                   *)
(***************************************************************************)
\* Node::updateDep: what must come before n, beside the nodes it reads.
DepPrev(g, n) ==
  LET regs == {r \in Live(g) : g[r].ty = "src"}
      conds(r) == IF g[r].rst = "async" THEN RelyNodes(g[r].rt.k[1]) ELSE {}
      values(r) == IF g[r].rt = Null THEN {} ELSE RelyNodes(g[r].rt.k[2])
      after(r) == n \in RelyNodes(g[r].t[1]) \cup conds(r) \cup {m \in values(r) : g[m].ty = "src"}
      late(r) == n = g[r].pair \/ r \in Prev(g, n)
  IN Prev(g, n) \cup {r \in regs : after(r)} \cup UNION {conds(r) : r \in {q \in regs : late(q)}}
     \cup (IF n \in regs THEN {m \in values(n) : g[m].ty # "src"} ELSE {})

\* reorderMember: of the members that are ready, the one that came first before.
RECURSIVE reorderMember(_, _, _)
reorderMember(g, left, done) ==
  LET ready == {i \in DOMAIN left : DepPrev(g, left[i]) \cap Range(left) = {}}
      i == Min(ready)
  IN IF ready = {} THEN done ELSE reorderMember(g, RemoveAt(left, i), Append(done, left[i]))

(***************************************************************************)
(* generateStmtTree                                                        *)
(***************************************************************************)
\* What a member assigns: an asynchronous reset's register also updates its next value.
Assigned(g, n) ==
  LET d == g[n].pair
      twice(t) == /\ g[n].ty = "src" /\ g[n].rst = "async" /\ g[d].st = "valid"
                  /\ ~(t.op = "node" /\ t.n = d)
  IN FlattenSeq([i \in DOMAIN g[n].t |->
       IF twice(g[n].t[i]) THEN <<[n |-> n, e |-> g[n].t[i]], [n |-> d, e |-> g[n].t[i]]>>
       ELSE <<[n |-> n, e |-> g[n].t[i]]>>])

MergeMember(g, x, n) ==
  LET prevs == SelectSeq(x.done, LAMBDA m : m \in DepPrev(g, n))
      prev == prevOrderPath(prevs, x.paths)
      merged == FoldLeft(LAMBDA y, a : mergeExpTree(y.s, a.n, a.e, prev, y.p),
                         [s |-> x.s, p |-> <<>>], Assigned(g, n))
  IN [s |-> merged.s, paths |-> [x.paths EXCEPT ![n] = merged.p], done |-> Append(x.done, n)]

superStmtTree(g, members) ==
  FoldLeft(LAMBDA x, n : MergeMember(g, x, n),
           [s |-> Seq1(<<>>), paths |-> [n \in DOMAIN g |-> <<>>], done |-> <<>>],
           reorderMember(g, members, <<>>)).s

\* mergeResetAll and the statement tree of a reset function: both halves of the registers
\* that node r resets, of one kind of reset.
resetStmtTree(g, r, kind) ==
  LET regs == InOrder({n \in Live(g) : /\ g[n].ty = "src" /\ g[n].rst = kind
                                       /\ r \in RelyNodes(g[n].rt.k[1])})
      halves(n) == IF g[g[n].pair].st = "valid" THEN <<n, g[n].pair>> ELSE <<n>>
      all == FlattenSeq([i \in DOMAIN regs |-> [j \in DOMAIN halves(regs[i]) |->
               [n |-> halves(regs[i])[j], e |-> g[regs[i]].rt]]])
  IN FoldLeft(LAMBDA s, a : mergeExpTree(s, a.n, a.e, <<>>, <<>>).s, Seq1(<<>>), all)
=============================================================================
