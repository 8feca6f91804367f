-------------------------- MODULE ConstantAnalysis --------------------------
(***************************************************************************)
(* constantAnalysis (constantNode.cpp).  First one tree: what is known of  *)
(* an expression when i[n] is known of node n, and how the tree is then    *)
(* simplified.                                                             *)
(***************************************************************************)
EXTENDS GraphPasses

Consts(x) == \A i \in DOMAIN x : IsConst(x[i])
EmptyInfo == Marked(ValInfo(0, FALSE), "empty")
Absent(info) == info.st = "absent"
NoInfo == Marked(ValInfo(0, FALSE), "absent")

\* x is the sequence of the children's infos, t the expression in every operator below.
Folded(t, c) == updateConsVal(ValInfo(t.w, t.s), c)
FoldedUnsigned(t, c) == IF t.s THEN Aborted ELSE Folded(t, c)

ConsMux(t, x) ==
  CASE IsConst(x[1]) -> IF x[1].c = 0 THEN x[3] ELSE x[2]
    [] ~IsConst(x[1]) /\ IsConst(x[2]) /\ IsConst(x[3]) /\ x[2].c = x[3].c -> x[2]
    [] OTHER -> ValInfo(t.w, t.s)

\* With a when taken for empty if only one of its branches is.
SharedEither(info, x) ==
  LET none(i) == Absent(x[i]) \/ x[i].st = "empty"
  IN IF none(2) \/ none(3) THEN Marked(info, "empty")
     ELSE IF x[2].same /\ x[3].same /\ x[2].a = x[3].a THEN [info EXCEPT !.same = TRUE, !.a = x[2].a] ELSE info

\* The constant that both branches of a when assign, if there is one.
Shared(info, x) ==
  LET none(i) == Absent(x[i]) \/ x[i].st = "empty"
      taking(j) == [info EXCEPT !.same = TRUE, !.a = x[j].a]
  IN CASE none(2) /\ none(3) -> Marked(info, "empty")
       [] none(2) /\ ~none(3) -> IF x[3].same THEN taking(3) ELSE info
       [] ~none(2) /\ none(3) -> IF x[2].same THEN taking(2) ELSE info
       [] OTHER -> IF x[2].same /\ x[3].same /\ x[2].a = x[3].a THEN taking(2) ELSE info

Branch(info) == IF Absent(info) THEN EmptyInfo ELSE info

\* An invalid branch of a wire is given the value of the other one.
ConsWhen(t, ty, x) ==
  CASE IsConst(x[1]) -> Branch(IF x[1].c = 0 THEN x[3] ELSE x[2])
    [] ~IsConst(x[1]) /\ IsConst(x[2]) /\ IsConst(x[3]) /\ x[2].c = x[3].c -> x[2]
    [] ~IsConst(x[1]) /\ x[2].st = "invalid" /\ ty = "others" -> Branch(x[3])
    [] ~IsConst(x[1]) /\ x[2].st # "invalid" /\ x[3].st = "invalid" /\ ty = "others" -> Branch(x[2])
    [] OTHER -> Shared(ValInfo(t.w, t.s), x)

ConsArith(t, x) ==
  LET a == x[1].c
      b == x[2].c
  IN Folded(t, CASE t.op = "add" -> us_add(a, b) [] t.op = "sub" -> us_sub(a, b, t.w)
                 [] t.op = "mul" -> us_mul(a, b) [] t.op = "div" -> us_div(a, b)
                 [] t.op = "rem" -> us_rem(a, b))

\* mpzOutOfBound: the constant is larger than any value of the other operand.
OutOfBound(info, w) == IsConst(info) /\ info.c > 2^w - 1
ConsCompare(t, x) ==
  CASE Consts(x) -> Folded(t, us_compare(t.op, x[1].c, x[2].c))
    [] ~Consts(x) /\ t.op = "lt" /\ ~t.k[1].s /\ IsConst(x[2]) /\ x[2].c = 0 -> Folded(t, 0)
    [] ~Consts(x) /\ t.op = "eq" /\ (OutOfBound(x[1], t.k[2].w) \/ OutOfBound(x[2], t.k[1].w)) ->
         Folded(t, 0)
    [] OTHER -> ValInfo(t.w, t.s)

ConsShift(t, x) ==
  IF t.op = "dshl" THEN FoldedUnsigned(t, u_dshl(x[1].c, x[2].c))
  ELSE Folded(t, IF t.s THEN s_dshr(x[1].c, x[2].c) ELSE u_dshr(x[1].c, x[2].c))

ConsLogic(t, x) ==
  LET some(c) == \E i \in {1, 2} : IsConst(x[i]) /\ x[i].c = c IN
  CASE Consts(x) -> FoldedUnsigned(t, u_logic(t.op, x[1].c, x[2].c))
    [] ~Consts(x) /\ t.op = "and" /\ some(0) -> Folded(t, 0)
    [] ~Consts(x) /\ t.op = "or" /\ some(2^t.w - 1) -> Folded(t, 2^t.w - 1)
    [] OTHER -> ValInfo(t.w, t.s)

ConsCat(t, x) ==
  IF CatOperands(x[1].c, x[2].c) THEN FoldedUnsigned(t, u_cat(x[1].c, x[2].c, x[2].w)) ELSE Aborted

ConsCast(t, x) ==
  LET c == x[1].c IN
  CASE t.op = "asuint" -> FoldedUnsigned(t, u_asUInt(c, x[1].w))
    [] t.op \in {"assint", "sext"} -> IF t.s THEN Folded(t, s_asSInt(c, x[1].w)) ELSE Aborted
    [] t.op \in {"asclock", "asasyncreset"} -> FoldedUnsigned(t, c)
    [] t.op = "cvt" -> Folded(t, c)
    [] t.op = "neg" -> IF t.s THEN Folded(t, s_neg(c)) ELSE Aborted
    [] t.op = "not" -> FoldedUnsigned(t, u_not(c, x[1].w))

ConsReduce(t, x) ==
  FoldedUnsigned(t, CASE t.op = "andr" -> u_andr(x[1].c, x[1].w) [] t.op = "orr" -> u_orr(x[1].c)
                      [] t.op = "xorr" -> u_xorr(x[1].c))

\* Padding an unsigned value hands the child's info on, its width included.
ConsPad(t, x) ==
  CASE ~t.s \/ t.w <= x[1].w -> x[1]
    [] t.s /\ t.w > x[1].w /\ IsConst(x[1]) -> Folded(t, s_pad(x[1].c, x[1].w, t.v[1]))
    [] OTHER -> ValInfo(t.w, t.s)

ConsSlice(t, x) ==
  LET c == x[1].c IN
  CASE t.op = "shl" -> FoldedUnsigned(t, u_shl(c, t.v[1]))
    [] t.op = "shr" -> Folded(t, IF t.s THEN s_shr(c, t.v[1]) ELSE u_shr(c, t.v[1]))
    [] t.op = "head" -> FoldedUnsigned(t, u_head(c, t.v[1]))
    [] t.op = "tail" -> FoldedUnsigned(t, u_tail(c, x[1].w, Smaller(t.w, t.v[1])))

ConsBits(t, x) ==
  CASE IsConst(x[1]) ->
         Folded(t, IF t.op = "bits" THEN u_bits(x[1].c, x[1].w, t.v[1], t.v[2])
                   ELSE u_bits_noshift(x[1].c, x[1].w, t.v[1], t.v[2]))
    [] ~IsConst(x[1]) /\ (t.v[2] >= t.k[1].w \/ t.v[2] >= x[1].w) -> Folded(t, 0)
    [] OTHER -> ValInfo(t.w, t.s)

\* A literal written with a minus sign is signed whatever the tree says.
ConsInt(t) == updateConsVal(ValInfo(t.w, t.s \/ t.c < 0), t.c)

ConsReset(t, x) ==
  LET info == CASE IsConst(x[1]) /\ x[1].c = 0 -> Marked(ValInfo(t.w, t.s), "empty")
                [] IsConst(x[1]) /\ x[1].c # 0 -> x[2]
                [] OTHER -> ValInfo(t.w, t.s)
  IN [info EXCEPT !.same = x[2].same, !.a = x[2].c]

\* The operations that fold only when every operand is constant.
ConsAll(t, x) ==
  CASE ~Consts(x) -> ValInfo(t.w, t.s)
    [] Consts(x) /\ t.op \in {"add", "sub", "mul", "div", "rem"} -> ConsArith(t, x)
    [] Consts(x) /\ t.op \in {"dshl", "dshr"} -> ConsShift(t, x)
    [] Consts(x) /\ t.op = "cat" -> ConsCat(t, x)
    [] Consts(x) /\ t.op \in Reduce -> ConsReduce(t, x)
    [] Consts(x) /\ t.op \in {"shl", "shr", "head", "tail"} -> ConsSlice(t, x)
    [] OTHER -> ConsCast(t, x)

ConsOp(t, ty, x) ==
  CASE t.op = "mux" -> ConsMux(t, x)
    [] t.op = "when" -> ConsWhen(t, ty, x)
    [] t.op = "reset" -> ConsReset(t, x)
    [] t.op \in Compare -> ConsCompare(t, x)
    [] t.op \in Bitwise2 -> ConsLogic(t, x)
    [] t.op = "pad" -> ConsPad(t, x)
    [] t.op \in {"bits", "bitsnoshift"} -> ConsBits(t, x)
    [] t.op = "int" -> ConsInt(t)
    [] t.op = "invalid" -> Marked(ValInfo(t.w, t.s), "invalid")
    [] OTHER -> ConsAll(t, x)

\* A node's constant seen through a reference: cut at its own width, then given the reference's.
RefInfo(t, info) ==
  LET cut == IF info.w > t.w /\ IsConst(info) THEN updateConsVal(info, info.c) ELSE info
  IN [cut EXCEPT !.w = t.w]

\* ENode::computeConstant, for a tree of a node of type ty.
RECURSIVE ComputeENode(_, _, _)
ComputeENode(i, ty, t) ==
  CASE t.op = "null" -> NoInfo
    [] t.op # "null" /\ t.w = 0 -> updateConsVal(ValInfo(0, t.s), 0)
    [] t.w # 0 /\ t.op = "node" -> RefInfo(t, i[t.n])
    [] OTHER -> LET x == [j \in DOMAIN t.k |-> ComputeENode(i, ty, t.k[j])]
                IN IF \E j \in DOMAIN x : x[j].st = "abort" THEN Aborted ELSE ConsOp(t, ty, x)

\* fillEmptyWhen: the branches a later assignment leaves open take the earlier value.
\* A filler (n = -1) is new to the analysis: the infos of its tree are older than it.
Filler(t) == [t EXCEPT !.n = -1]

RECURSIVE FillEmptyWhen(_, _)
FillEmptyWhen(t, old) ==
  IF t.op # "when" THEN t
  ELSE [t EXCEPT !.k = <<t.k[1],
          IF t.k[2].op = "null" THEN old ELSE FillEmptyWhen(t.k[2], old),
          IF t.k[3].op = "null" THEN old ELSE FillEmptyWhen(t.k[3], old)>>]

RECURSIVE Unfilled(_)
Unfilled(t) ==
  IF t.n = -1 THEN Null ELSE [t EXCEPT !.k = [i \in DOMAIN t.k |-> Unfilled(t.k[i])]]

(***************************************************************************)
(* removeConstant: constants become literals, decided and invalid branches *)
(* go away, and the operations that a constant operand makes pointless.    *)
(***************************************************************************)
Literal(t, info) == [IntENode(info.c, t.w, info.s) EXCEPT !.v = t.v]

OrOperand(t, k) == IF t.w > k.w THEN ENode("pad", t.w, FALSE, <<t.w>>, <<k>>) ELSE k

\* One step at t, with what is known of it and of its children: the tree to go on with, or t.
RemoveHere(t, info) ==
  LET is(j, c) == IsConst(info[j]) /\ info[j].c = c
      ones(j) == t.k[1].w = t.k[2].w /\ is(j, 2^t.k[j].w - 1)
      branches == t.op \in {"mux", "when"}
  IN CASE branches /\ IsConst(info[1]) -> IF info[1].c = 0 THEN t.k[3] ELSE t.k[2]
       [] t.op = "when" /\ ~IsConst(info[1]) /\ info[2].st = "invalid" /\ ~Absent(info[3]) -> t.k[3]
       [] t.op = "when" /\ ~IsConst(info[1]) /\ info[2].st # "invalid"
            /\ info[3].st = "invalid" /\ ~Absent(info[2]) -> t.k[2]
       [] branches /\ ~IsConst(info[1]) /\ t.w = 1
            /\ IsConst(info[2]) /\ info[2].c # 0 /\ is(3, 0) -> t.k[1]
       [] t.op = "or" /\ is(1, 0) -> OrOperand(t, t.k[2])
       [] t.op = "or" /\ ~is(1, 0) /\ is(2, 0) -> OrOperand(t, t.k[1])
       [] t.op = "and" /\ ones(1) -> t.k[2]
       [] t.op = "and" /\ ~ones(1) /\ ones(2) -> t.k[1]
       [] OTHER -> t

RECURSIVE RemoveConstant(_, _, _)
RemoveConstant(i, ty, t) ==
  LET descend(u) == IF u # t THEN RemoveConstant(i, ty, u)
                    ELSE [t EXCEPT !.k = [j \in DOMAIN t.k |-> RemoveConstant(i, ty, t.k[j])]]
      known(own) == IF IsConst(own) THEN Literal(t, own)
                    ELSE descend(RemoveHere(t, [j \in DOMAIN t.k |-> ComputeENode(i, ty, Unfilled(t.k[j]))]))
  IN IF t.op = "null" THEN t ELSE known(ComputeENode(i, ty, Unfilled(t)))

(***************************************************************************)
(* Then the graph.  c.i is consMap, what is known of every node, and c.st  *)
(* the node's status; a node is recomputed whenever what is known of a node*)
(* it reads has changed, and at the end the constant nodes leave the graph *)
(* and the trees that read them are folded.                                *)
(***************************************************************************)

InitCons(g) ==
  [i |-> [n \in DOMAIN g |-> ValInfo(g[n].w, g[n].s)], st |-> [n \in DOMAIN g |-> "valid"]]

\* Without a look at the constant a reset gives.
ResetConsIgnored(update, reset) == IsConst(update) \/ update.same

\* cons_resetConsEq: a reset that does not change the constant a register is given.
ResetConsEq(update, reset) ==
  LET c == IF IsConst(update) THEN update.c ELSE update.a
  IN \/ Absent(reset) \/ reset.st = "empty"
     \/ IsConst(reset) /\ reset.c = c
     \/ reset.same /\ reset.a = c

\* Node::computeRegConstant, for the src of a register, its reset and its update.
RegConstant(g, c, n, reset, update) ==
  LET d == g[n].pair
      open == ValInfo(g[n].w, g[n].s)
      alone == [c EXCEPT !.i[n] = open]
      both(info, st) == [c EXCEPT !.i[n] = info, !.i[d] = info, !.st[n] = st, !.st[d] = st]
      held == update.same /\ update.direct
  IN CASE IsConst(reset) -> both(reset, "const")
       [] ~IsConst(reset) /\ c.i[d].st = "empty" ->
            CASE Absent(reset) \/ reset.st = "empty" -> both(updateConsVal(c.i[d], 0), "const")
              [] ~Absent(reset) /\ reset.same -> both(updateConsVal(c.i[d], reset.a), "const")
              [] OTHER -> both(Aborted, "valid")
       [] ~IsConst(reset) /\ c.i[d].st # "empty" /\ (IsConst(update) \/ held)
            /\ ResetConsEq(update, reset) ->
            both(updateConsVal(open, IF IsConst(update) THEN update.c ELSE update.a), "const")
       [] ~IsConst(reset) /\ c.i[d].st # "empty" /\ IsConst(update)
            /\ ~ResetConsEq(update, reset) ->
            IF g[n].rst = "uint" THEN both(open, "valid") ELSE alone
       [] OTHER -> alone

computeRegConstant(g, c, n) ==
  RegConstant(g, c, n, ComputeENode(c.i, "src", g[n].rt), ComputeENode(c.i, "src", Last(g[n].t)))

\* The info of a node with several trees: the last that assigns something, unless the
\* trees assign different constants.
Combined(ty, x) ==
  LET none(info) == info.st \in {"invalid", "empty"}
      some == {j \in DOMAIN x : ~none(x[j])}
      last == x[IF some = {} THEN Len(x) ELSE Max(some)]
      ret == IF ty = "others" /\ none(last) THEN updateConsVal(last, 0) ELSE last
      agree == \A j \in DOMAIN x : x[j].same /\ x[j].a = x[1].a
  IN CASE \E j \in DOMAIN x : x[j].st = "abort" -> Aborted
       [] Len(x) = 1 -> ret
       [] Len(x) > 1 /\ (IsConst(ret) \/ ~ret.same \/ agree) -> [ret EXCEPT !.direct = FALSE]
       [] OTHER -> ValInfo(0, FALSE)

TreeInfos(g, c, n) == [j \in DOMAIN g[n].t |-> ComputeENode(c.i, g[n].ty, g[n].t[j])]

\* Node::computeConstant.
computeConstant(g, c, n) ==
  LET open == ValInfo(g[n].w, g[n].s)
      known(info) == [c EXCEPT !.i[n] = info, !.st[n] = IF IsConst(info) THEN "const" ELSE "valid"]
  IN CASE g[n].w = 0 -> known(updateConsVal(open, 0))
       [] g[n].w # 0 /\ g[n].ty = "src" -> computeRegConstant(g, [c EXCEPT !.st[n] = "valid"], n)
       [] g[n].w # 0 /\ g[n].ty # "src" /\ g[n].t = <<>> ->
            known(CASE g[n].ty = "others" -> updateConsVal(open, 0)
                    [] g[n].ty = "dst" -> Marked(open, "empty")
                    [] OTHER -> open)
       [] OTHER -> known([Combined(g[n].ty, TreeInfos(g, c, n)) EXCEPT !.w = g[n].w, !.s = g[n].s])

\* Without the test whether anything changed.
ReadersAlways(g, c, after, n) == IF g[n].ty = "dst" THEN {g[n].pair} ELSE NextNodes(g, n)

\* Node::recomputeConstant: the nodes to visit again because of n.
Readers(g, c, after, n) ==
  LET x == c.i[n]
      y == after.i[n]
      changed == \/ x.st # y.st \/ x.same # y.same
                 \/ IsConst(x) /\ IsConst(y) /\ x.c # y.c
                 \/ y.same /\ x.a # y.a
  IN CASE ~changed -> {}
       [] changed /\ g[n].ty = "dst" -> {g[n].pair}
       [] OTHER -> NextNodes(g, n)

\* computeOrder: the src of a register waits for everything else.
NextUp(g, queue) ==
  LET plain == {n \in queue : g[n].ty # "src"}
  IN IF plain = {} THEN queue ELSE {Min(plain)}

(***************************************************************************)
(* Folding                                                                 *)
(***************************************************************************)
\* The trees of a node that stays, with the infos x found when it was last computed.
RECURSIVE FoldTrees(_, _, _, _)
FoldTrees(c, ty, trees, x) ==
  IF trees = <<>> THEN <<>>
  ELSE LET filler == Filler(IF IsConst(x[1]) THEN IntENode(x[1].c, x[1].w, x[1].s)
                            ELSE ENode("invalid", 0, FALSE, <<>>, <<>>))
           rest == Tail(trees)
       IN CASE x[1].st = "empty" -> FoldTrees(c, ty, rest, Tail(x))
            [] x[1].st \in {"invalid", "const"} /\ rest # <<>> ->
                 FoldTrees(c, ty, <<FillEmptyWhen(rest[1], filler)>> \o Tail(rest), Tail(x))
            [] OTHER -> <<RemoveConstant(c.i, ty, trees[1])>> \o FoldTrees(c, ty, rest, Tail(x))

FoldNode(g, c, n) ==
  LET folded == FoldTrees(c, g[n].ty, g[n].t, TreeInfos(g, c, n))
  IN IF c.st[n] = "const"
     THEN [g[n] EXCEPT !.t = <<IntENode(c.i[n].c, g[n].w, g[n].s)>>, !.rt = Null, !.rst = "none", !.st = "const"]
     ELSE [g[n] EXCEPT !.t = SelectSeq(folded, LAMBDA t : t # Null),
                       !.rt = IF @ = Null THEN Null ELSE RemoveConstant(c.i, "src", @)]

foldConstants(g, c) == EachLive(g, LAMBDA n : FoldNode(g, c, n))
=============================================================================
