----------------------------- MODULE TreePasses -----------------------------
(***************************************************************************)
(* The passes that rewrite one expression tree: the tree is fitted to the  *)
(* widths its nodes were given (updateWithNewWidth, matchWidth), cut to    *)
(* the bits that are used (passWidthToChild, updateWidth) and simplified   *)
(* (treeOpt, when2mux).  g is the graph, read only for its nodes' types.   *)
(***************************************************************************)
EXTENDS ExprTree

Pad(t, w, s) == ENode("pad", w, s, <<w>>, <<t>>)
Sext(t, w) == ENode("sext", w, TRUE, <<w>>, <<t>>)
BitsTo(t, w, s) == ENode("bits", w, s, <<w - 1, 0>>, <<t>>)
Widened(t, w) == IF t.s THEN Sext(t, w) ELSE Pad(t, w, FALSE)

(***************************************************************************)
(* ExpTree::updateWithNewWidth walks the tree from the root.  Reshape is   *)
(* one visit: the replacement of the tree under parent operation p, and    *)
(* whether that replacement is visited again in the same place.            *)
(***************************************************************************)
Kept(t) == [t |-> t, again |-> FALSE]
Replaced(t) == [t |-> t, again |-> TRUE]

ReshapeRef(g, p, t) ==
  LET nw == g[t.n].w
      full == [t EXCEPT !.w = nw]
      cut == BitsTo(full, t.w, FALSE)
  IN CASE t.w < nw /\ p = "bits" -> Kept(full)
       [] t.w < nw /\ p # "bits" ->
            Replaced(IF t.s THEN ENode("assint", t.w, TRUE, <<>>, <<cut>>) ELSE cut)
       [] t.w > nw -> Replaced(Widened(full, t.w))
       [] OTHER -> Kept(t)

ReshapeBits(t) ==
  LET k == t.k[1] IN
  CASE t.w = k.w /\ t.s = k.s -> Replaced(k)
    [] t.w > k.w -> Kept([t EXCEPT !.op = IF t.s THEN "sext" ELSE "pad", !.v = <<t.w>>])
    [] OTHER -> Kept([t EXCEPT !.v[1] = Smaller(t.v[1], t.v[2] + t.w - 1)])

\* Operands of add, sub and the comparisons are widened to the larger one.
EvenOperands(t) ==
  LET m == Larger(t.k[1].w, t.k[2].w)
  IN [t EXCEPT !.k = [i \in 1..2 |-> IF t.k[i].w = m THEN t.k[i] ELSE Widened(t.k[i], m)]]

\* Operands of or and xor are padded to the result; mux pads the wider branch.
PadOperands(t) ==
  [t EXCEPT !.k = [i \in 1..2 |-> IF t.k[i].w < t.w THEN Pad(t.k[i], t.w, t.k[i].s) ELSE t.k[i]]]
PadMux(t) ==
  [t EXCEPT !.k = [i \in 1..3 |->
     IF i > 1 /\ t.k[i].w > t.k[5 - i].w THEN Pad(t.k[i], t.w, t.k[i].s) ELSE t.k[i]]]

Reshape(g, p, t) ==
  CASE t.op = "node" -> ReshapeRef(g, p, t)
    [] t.op = "bits" -> ReshapeBits(t)
    [] t.op \in {"pad", "sext", "tail", "head"} /\ t.w = t.k[1].w -> Replaced(t.k[1])
    [] t.op = "pad" /\ t.w # t.k[1].w -> Kept([t EXCEPT !.v[1] = Smaller(t.v[1], t.w)])
    [] t.op = "sext" /\ t.w # t.k[1].w -> Kept([t EXCEPT !.v[1] = t.w])
    [] t.op = "cat" /\ t.w = t.k[2].w -> Replaced(t.k[2])
    [] t.op = "mul" /\ t.w # t.k[1].w + t.k[2].w ->
         Replaced(BitsTo([t EXCEPT !.w = t.k[1].w + t.k[2].w], t.w, t.s))
    [] t.op \in Compare \cup {"add", "sub"} -> Kept(EvenOperands(t))
    [] t.op \in {"or", "xor"} -> Kept(PadOperands(t))
    [] t.op = "mux" -> Kept(PadMux(t))
    [] OTHER -> Kept(t)

RECURSIVE NewWidth(_, _, _)
NewWidth(g, p, t) ==
  IF t.op = "null" THEN t
  ELSE LET r == Reshape(g, p, t)
       IN IF r.again THEN NewWidth(g, p, r.t)
          ELSE [r.t EXCEPT !.k = [i \in DOMAIN r.t.k |-> NewWidth(g, r.t.op, r.t.k[i])]]

\* ExpTree::matchWidth: the tree's value, down every when branch, gets the node's width.
FitLeaf(t, w) ==
  CASE t.op = "invalid" -> [t EXCEPT !.w = w]
    [] t.op = "int" /\ w > t.w -> [t EXCEPT !.w = w]
    [] t.op # "invalid" /\ t.op # "int" /\ w > t.w -> Widened(t, w)
    [] t.op # "invalid" /\ w < t.w -> BitsTo(t, w, t.s)
    [] OTHER -> t

RECURSIVE MatchWidth(_, _)
MatchWidth(t, w) ==
  CASE t.op = "null" -> t
    [] t.op \in {"when", "reset"} ->
         [t EXCEPT !.w = w,
                   !.k = [i \in DOMAIN t.k |-> IF i = 1 THEN t.k[1] ELSE MatchWidth(t.k[i], w)]]
    [] OTHER -> FitLeaf(t, w)

\* Node::updateTreeWithNewWIdth.
FitTree(g, t, w) == MatchWidth(NewWidth(g, "root", t), w)

(***************************************************************************)
(* Used bits                                                               *)
(***************************************************************************)
\* ENode::passWidthToChild: how many bits of each child matter when u bits of t do.
ChildBits(t, u) ==
  LET w(i) == t.k[i].w IN
  CASE t.op \in {"add", "sub"} \cup Bitwise2 -> <<u, u>>
    [] t.op = "mul" -> <<Smaller(u, w(1)), Smaller(u, w(2))>>
    [] t.op \in {"div", "rem", "dshl", "dshr"} \cup Compare -> <<w(1), w(2)>>
    [] t.op = "cat" -> <<Larger(u - w(2), 0), Smaller(w(2), u)>>
    [] t.op \in Reduce \cup {"asclock", "asasyncreset"} -> <<w(1)>>
    [] t.op \in {"cvt", "asuint", "assint", "not", "neg", "pad", "tail", "bitsnoshift", "sext"} -> <<u>>
    [] t.op = "shl" -> <<Larger(0, u - t.v[1])>>
    [] t.op \in {"shr", "head"} -> <<u + t.v[1]>>
    [] t.op = "bits" -> <<Smaller(u + t.v[2], t.v[1] + 1)>>
    [] t.op \in {"mux", "when"} -> <<1, u, u>>
    [] t.op = "reset" -> <<1, u>>
    [] OTHER -> <<>>

RealBits(t, u, i) == Smaller(t.k[i].w, ChildBits(t, u)[i])

\* The nodes the tree reads, each with the number of its bits that are used, in visiting order.
RECURSIVE UsedRefs(_, _)
UsedRefs(t, u) ==
  IF t.op = "node" THEN <<[n |-> t.n, u |-> u]>>
  ELSE LET RECURSIVE from(_)
           from(i) == IF i > Len(t.k) THEN <<>>
                      ELSE (IF t.k[i].op = "null" THEN <<>> ELSE UsedRefs(t.k[i], RealBits(t, u, i)))
                           \o from(i + 1)
       IN from(1)

\* ENode::updateWidth: every tree node keeps just its used bits.
RECURSIVE CutToUsed(_, _)
CutToUsed(t, u) ==
  IF t.op = "null" THEN t
  ELSE [t EXCEPT !.w = u, !.k = [i \in DOMAIN t.k |->
          IF t.k[i].op = "null" THEN t.k[i] ELSE CutToUsed(t.k[i], RealBits(t, u, i))]]

(***************************************************************************)
(* Simplification                                                          *)
(***************************************************************************)
\* ExpTree::treeOpt: equal branches, the async-reset cast and casts that change nothing.
\* A cast that stays hides everything below it.
RECURSIVE TreeOpt(_)
TreeOpt(t) ==
  CASE t.op \in {"mux", "when"} /\ t.k[2] = t.k[3] -> TreeOpt(t.k[2])
    [] t.op = "asasyncreset" -> TreeOpt(t.k[1])
    [] t.op \in {"assint", "asuint"} ->
         IF t.k[1].s = t.s /\ t.k[1].w = t.w THEN TreeOpt(t.k[1]) ELSE t
    [] OTHER -> [t EXCEPT !.k = [i \in DOMAIN t.k |-> TreeOpt(t.k[i])]]
=============================================================================
