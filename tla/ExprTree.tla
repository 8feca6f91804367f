------------------------------ MODULE ExprTree ------------------------------
(***************************************************************************)
(* Expression trees (ENode, ExpTree) and what the width passes do to them. *)
(*                                                                         *)
(* A tree is a record: the operation, the width and sign of its value, its *)
(* integer parameters, its children, the node it reads and the literal it  *)
(* holds.  Arrays and memories are left out, so a tree has no index        *)
(* children.                                                               *)
(***************************************************************************)
EXTENDS Integers, Sequences, Bitwise

Larger(a, b) == IF a >= b THEN a ELSE b
Smaller(a, b) == IF a >= b THEN b ELSE a

\* Two's complement: the w low bits of v, read as unsigned and as signed.
Low(v, w) == v % 2^w
AsSigned(v, w) == IF w > 0 /\ Low(v, w) >= 2^(w - 1) THEN Low(v, w) - 2^w ELSE Low(v, w)
Cut(v, w, s) == IF s THEN AsSigned(v, w) ELSE Low(v, w)

Compare == {"lt", "leq", "gt", "geq", "eq", "neq"}
Reduce == {"andr", "orr", "xorr"}
Bitwise2 == {"and", "or", "xor"}

\* The three ways to build an ENode: an operation, a node reference, a literal.
ENode(op, w, s, v, k) == [op |-> op, w |-> w, s |-> s, v |-> v, k |-> k, n |-> 0, c |-> 0]
Ref(n) == [op |-> "node", w |-> -1, s |-> FALSE, v |-> <<>>, k |-> <<>>, n |-> n, c |-> 0]
IntENode(c, w, s) == [op |-> "int", w |-> w, s |-> s, v |-> <<>>, k |-> <<>>, n |-> 0, c |-> c]
Null == ENode("null", 0, FALSE, <<>>, <<>>)

\* Division rounds towards zero, and dividing by zero gives zero (gdiv).
Quotient(x, y) ==
  LET mag(a) == IF a < 0 THEN -a ELSE a
      q == IF y = 0 THEN 0 ELSE mag(x) \div mag(y)
  IN IF (x < 0) # (y < 0) THEN -q ELSE q

RECURSIVE Ones(_)
Ones(v) == IF v = 0 THEN 0 ELSE (v % 2) + Ones(v \div 2)

\* The nodes a tree reads (getENodeRelyNodes).
RECURSIVE RelyNodes(_)
RelyNodes(t) == (IF t.op = "node" THEN {t.n} ELSE {})
                \cup UNION {RelyNodes(t.k[i]) : i \in DOMAIN t.k}

(***************************************************************************)
(* Width inference                                                         *)
(***************************************************************************)
\* The branches of a mux or when that are there.
Arms(k) == SelectSeq(<<k[2], k[3]>>, LAMBDA a : a.op # "null")

OpWidth(t, k) ==
  LET w(i) == k[i].w IN
  CASE t.op = "int" -> t.w
    [] t.op \in {"add", "sub"} -> Larger(w(1), w(2)) + 1
    [] t.op \in {"mul", "cat"} -> w(1) + w(2)
    [] t.op = "div" -> w(1) + (IF k[1].s THEN 1 ELSE 0)
    [] t.op = "rem" -> Smaller(w(1), w(2))
    [] t.op \in Compare \cup Reduce \cup {"asclock", "asasyncreset"} -> 1
    [] t.op = "dshl" -> w(1) + 2^w(2) - 1
    [] t.op \in Bitwise2 -> Larger(w(1), w(2))
    [] t.op \in {"dshr", "asuint", "assint", "not"} -> w(1)
    [] t.op = "cvt" -> w(1) + (IF k[1].s THEN 0 ELSE 1)
    [] t.op = "neg" -> w(1) + 1
    [] t.op = "pad" -> Larger(w(1), t.v[1])
    [] t.op = "shl" -> w(1) + t.v[1]
    [] t.op = "shr" -> Larger(w(1) - t.v[1], 0)
    [] t.op = "head" -> t.v[1]
    [] t.op = "tail" -> Larger(w(1) - t.v[1], 0)
    [] t.op = "bits" -> t.v[1] - t.v[2] + 1
    [] t.op = "bitsnoshift" -> t.v[1] + 1
    [] t.op \in {"mux", "when"} ->
         IF Len(Arms(k)) = 2 THEN Larger(w(2), w(3)) ELSE Arms(k)[1].w
    [] t.op = "invalid" -> 0
    [] t.op = "reset" -> w(2)

OpSign(t, k) ==
  CASE t.op = "int" -> t.s
    [] t.op \in {"add", "sub", "mul", "div", "rem", "dshl", "dshr", "pad", "shl", "shr"} -> k[1].s
    [] t.op \in {"assint", "cvt", "neg"} -> TRUE
    [] t.op \in {"mux", "when"} -> Arms(k)[1].s
    [] OTHER -> FALSE

\* ENode::inferWidth: children first, a leaf takes its node's type.
RECURSIVE InferWidth(_, _)
InferWidth(g, t) ==
  LET k == [i \in DOMAIN t.k |-> InferWidth(g, t.k[i])] IN
  CASE t.op = "null" -> t
    [] t.op = "node" -> [t EXCEPT !.w = g[t.n].w, !.s = g[t.n].s]
    [] OTHER -> [t EXCEPT !.k = k, !.w = OpWidth(t, k), !.s = OpSign(t, k)]

\* Node::updateHeadTail: head and tail count low bits from here on.
RECURSIVE HeadTail(_)
HeadTail(t) ==
  LET k == [i \in DOMAIN t.k |-> HeadTail(t.k[i])] IN
  [t EXCEPT !.k = k, !.v = IF t.op \in {"head", "tail"} THEN <<t.k[1].w - t.v[1]>> ELSE t.v]

(***************************************************************************)
(* Constant arithmetic: the functions of opFuncs.cpp on GMP integers and   *)
(* the valInfo that records what is known of an expression.  A function    *)
(* that leaves its destination alone leaves the zero it was created with.  *)
(***************************************************************************)
\* GMP's bitwise operations treat a negative number as infinitely sign-extended;
\* every number of the model fits the Limb bits taken here.
Limb == 20
MpzAnd(x, y) == AsSigned(Low(x, Limb) & Low(y, Limb), Limb)
MpzIor(x, y) == AsSigned(Low(x, Limb) | Low(y, Limb), Limb)
MpzXor(x, y) == AsSigned(Low(x, Limb) ^^ Low(y, Limb), Limb)

\* mpz_tdiv_q_2exp rounds towards zero, mpz_fdiv_q_2exp towards minus infinity.
TdivPow(x, n) == IF x < 0 THEN -((-x) \div 2^n) ELSE x \div 2^n
FdivPow(x, n) == x \div 2^n
Truth(b) == IF b THEN 1 ELSE 0

s_pad(src, bits, n) == IF bits >= n \/ src >= 0 THEN src ELSE MpzIor(2^n - 2^bits, src)
u_shl(src, n) == src * 2^n
u_shr(src, n) == TdivPow(src, n)
s_shr(src, n) == IF src < 0 THEN FdivPow(0, n) ELSE TdivPow(src, n)
u_head(src, n) == TdivPow(src, n)
u_tail(src, bits, n) == MpzAnd(2^n - 1, IF src < 0 THEN 2^bits + src ELSE src)
u_asUInt(src, bits) == IF src < 0 THEN 2^bits + src ELSE src
s_asSInt(src, bits) ==
  IF src > 0 /\ bits > 0 /\ MpzAnd(src, 2^(bits - 1)) # 0 THEN -(2^bits - src) ELSE src
s_neg(src) == 0 - src
u_not(src, bits) == MpzXor(2^bits - 1, src)
u_orr(src) == Truth(src # 0)
u_andr(src, bits) == Truth(src = 2^bits - 1)
u_xorr(src) == Ones(src) % 2

us_add(a, b) == a + b
us_sub(a, b, bits) == IF b = 0 THEN a ELSE 2^bits - b + a
us_mul(a, b) == a * b
us_div(a, b) == IF b = 0 THEN 0 ELSE Quotient(a, b)
us_rem(a, b) == IF b = 0 THEN 0 ELSE a - b * Quotient(a, b)
us_compare(op, a, b) ==
  Truth(CASE op = "lt" -> a < b [] op = "leq" -> a <= b [] op = "gt" -> a > b
          [] op = "geq" -> a >= b [] op = "eq" -> a = b [] op = "neq" -> a # b)
u_dshl(a, b) == a * 2^b
u_dshr(a, b) == TdivPow(a, b)
s_dshr(a, b) == IF a < 0 THEN FdivPow(a, b) ELSE TdivPow(a, b)
u_logic(op, a, b) ==
  CASE op = "and" -> MpzAnd(a, b) [] op = "or" -> MpzIor(a, b) [] op = "xor" -> MpzXor(a, b)
\* u_cat, after its assertion.
CatOperands(a, b) == a >= 0 /\ b >= 0
u_cat(a, b, bits) == MpzIor(a * 2^bits, b)
u_bits(src, bits, h, l) ==
  MpzAnd(TdivPow(IF src < 0 THEN 2^bits + src ELSE src, l), 2^(h - l + 1) - 1)
u_bits_noshift(src, bits, h, l) ==
  MpzAnd(IF src < 0 THEN 2^bits + src ELSE src, (2^(h - l + 1) - 1) * 2^l)

(***************************************************************************)
(* valInfo: the status of an expression, its constant c when it has one,   *)
(* and the constant a that every assignment below it assigns (same).       *)
(* "abort" stands for the TODO() and Assert that end the generator.        *)
(***************************************************************************)
ValInfo(w, s) ==
  [st |-> "valid", c |-> 0, w |-> w, s |-> s, same |-> FALSE, a |-> 0, direct |-> TRUE]
Marked(info, st) == [info EXCEPT !.st = st]
Aborted == Marked(ValInfo(0, FALSE), "abort")

\* setConsStr and updateConsVal: the constant is cut to the width, then read with the sign.
setConsStr(info, c) == [info EXCEPT !.st = "const", !.c = c, !.a = c, !.same = TRUE]
updateConsVal(info, c) ==
  LET masked == MpzAnd(c, 2^info.w - 1)
  IN setConsStr(info, IF info.s THEN s_asSInt(masked, info.w) ELSE masked)
IsConst(info) == info.st = "const"
=============================================================================
