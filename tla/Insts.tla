-------------------------------- MODULE Insts --------------------------------
(***************************************************************************)
(* The C++ integer expressions the generator writes, what they evaluate    *)
(* to, and the expression of a tree (instsGenerator.cpp).  A term stands   *)
(* for its text: two texts are equal when the terms are.  The machine is   *)
(* scaled: uint8_t and uint16_t are one type of Narrow bits, int has       *)
(* IntBits and long has LongBits, and a wider value is a _BitInt of a      *)
(* multiple of LongBits.  The second half has every insts* of              *)
(* ENode::compute, from the infos x of the children of tree t.  An info is *)
(* a valInfo: the text val, the number ops of operations in it, and the    *)
(* constant c when st = "const".  Nodes wider than BASIC_WIDTH, arrays and *)
(* memories are left out; GSIM_MUX_SHORTCIRCUIT is off, its default.       *)
(***************************************************************************)
EXTENDS ExprTree

Narrow == 2
IntBits == 4
LongBits == 8

\* The size of the smallest type that holds w bits (the widthBits macro).
WidthBits(w) ==
  CASE w <= Narrow -> Narrow
    [] w > Narrow /\ w <= IntBits -> IntBits
    [] w > IntBits /\ w <= LongBits -> LongBits
    [] OTHER -> ((w + LongBits - 1) \div LongBits) * LongBits

Var(n) == <<"var", n>>
Lit(c) == <<"lit", c>>
Cast(w, s, e) == <<"cast", WidthBits(w), s, e>>
Bin(op, a, b) == <<"bin", op, a, b>>
Bang(e) == <<"bang", e>>
Minus(e) == <<"minus", e>>
Ternary(c, a, b) == <<"ternary", c, a, b>>
Gdiv(a, b) == <<"gdiv", a, b>>
Parity(e) == <<"parity", e>>

\* shiftBits of a number writes nothing for zero; of a text, nothing for a literal zero.
ShiftL(e, n) == IF n = 0 THEN e ELSE Bin("<<", e, Lit(n))
ShiftR(e, n) == IF n = 0 THEN e ELSE Bin(">>", e, Lit(n))
ShiftBy(op, e, amount) == IF amount = Lit(0) THEN e ELSE Bin(op, e, amount)

\* bitMask: a hex literal, or beyond long an expression of the wide type.
Mask(w) ==
  CASE w <= LongBits -> Lit(2^w - 1)
    [] w > LongBits /\ w % LongBits = 0 -> Bin("-", Cast(w, FALSE, Lit(0)), Lit(1))
    [] OTHER -> Bin("-", Bin("<<", Cast(w, FALSE, Lit(1)), Lit(w)), Lit(1))
Masked(e, w) == Bin("&", e, Mask(w))

(***************************************************************************)
(* Evaluation: a value v of a type of b bits and sign s.  Signed           *)
(* arithmetic wraps; ub marks a shift by at least the width of its operand *)
(* and a remainder by zero, whose result the language leaves open.         *)
(***************************************************************************)
Typed(v, b, s) == [v |-> Cut(v, b, s), b |-> b, s |-> s, ub |-> FALSE]
Boolean(v) == Typed(v, 1, FALSE)

\* The first type of int, unsigned, long and unsigned long that holds the literal.
LitValue(c) ==
  CASE c < 2^(IntBits - 1) -> Typed(c, IntBits, TRUE)
    [] c >= 2^(IntBits - 1) /\ c < 2^IntBits -> Typed(c, IntBits, FALSE)
    [] c >= 2^IntBits /\ c < 2^(LongBits - 1) -> Typed(c, LongBits, TRUE)
    [] OTHER -> Typed(c, CHOOSE b \in {LongBits, 2 * LongBits, 3 * LongBits} :
                           2^b > c /\ (b > LongBits => 2^(b - LongBits) <= c), FALSE)

Promoted(x) == IF x.b < IntBits THEN [x EXCEPT !.b = IntBits, !.s = TRUE] ELSE x
CommonType(x, y) ==
  LET p == Promoted(x)
      q == Promoted(y)
  IN CASE p.b > q.b -> [b |-> p.b, s |-> p.s]
       [] p.b < q.b -> [b |-> q.b, s |-> q.s]
       [] OTHER -> [b |-> p.b, s |-> p.s /\ q.s]
Converted(x, ty) == Cut(x.v, ty.b, ty.s)

\* a and b have been converted to the common type ty.
ArithIn(op, a, b, ty) ==
  CASE op = "%" /\ b = 0 -> [Typed(0, ty.b, ty.s) EXCEPT !.ub = TRUE]
    [] op \in {"<", "<=", ">", ">=", "==", "!="} ->
         Boolean(IF CASE op = "<" -> a < b [] op = "<=" -> a <= b [] op = ">" -> a > b
                      [] op = ">=" -> a >= b [] op = "==" -> a = b [] op = "!=" -> a # b
                 THEN 1 ELSE 0)
    [] OTHER ->
         Typed(CASE op = "+" -> a + b
                 [] op = "-" -> a - b
                 [] op = "*" -> a * b
                 [] op = "&" -> Low(a, ty.b) & Low(b, ty.b)
                 [] op = "|" -> Low(a, ty.b) | Low(b, ty.b)
                 [] op = "^" -> Low(a, ty.b) ^^ Low(b, ty.b)
                 [] op = "/" -> Quotient(a, b)
                 [] op = "%" -> a - b * Quotient(a, b), ty.b, ty.s)

Arith(op, x, y) ==
  LET in(ty) == ArithIn(op, Converted(x, ty), Converted(y, ty), ty) IN in(CommonType(x, y))

Shift(op, x, y) ==
  LET p == Promoted(x) IN
  CASE y.v < 0 \/ y.v >= p.b -> [p EXCEPT !.ub = TRUE]
    [] y.v \in 0..(p.b - 1) /\ op = "<<" -> Typed(Low(p.v, p.b - y.v) * 2^y.v, p.b, p.s)
    [] OTHER -> Typed(p.v \div 2^y.v, p.b, p.s)

\* store gives each variable's number and type.
RECURSIVE Eval(_, _)
Eval(e, store) ==
  CASE e[1] = "var" -> store[e[2]]
    [] e[1] = "lit" -> LitValue(e[2])
    [] e[1] = "cast" -> LET x == Eval(e[4], store)
                        IN [Typed(x.v, e[2], e[3]) EXCEPT !.ub = x.ub]
    [] e[1] = "bin" -> LET x == Eval(e[3], store)
                           y == Eval(e[4], store)
                           r == IF e[2] \in {"<<", ">>"} THEN Shift(e[2], x, y) ELSE Arith(e[2], x, y)
                       IN [r EXCEPT !.ub = @ \/ x.ub \/ y.ub]
    [] e[1] = "bang" -> LET x == Eval(e[2], store)
                        IN [Boolean(IF x.v = 0 THEN 1 ELSE 0) EXCEPT !.ub = x.ub]
    [] e[1] = "minus" -> LET x == Eval(e[2], store)
                             p == Promoted(x)
                         IN [Typed(-p.v, p.b, p.s) EXCEPT !.ub = x.ub]
    [] e[1] = "ternary" -> LET c == Eval(e[2], store)
                               x == Eval(e[3], store)
                               y == Eval(e[4], store)
                               taken == IF c.v # 0 THEN x ELSE y
                               ty == CommonType(x, y)
                           IN [Typed(taken.v, ty.b, ty.s) EXCEPT !.ub = c.ub \/ taken.ub]
    [] e[1] = "gdiv" -> LET x == Eval(e[2], store)
                            y == Eval(e[3], store)
                        IN [Arith("/", x, y) EXCEPT !.ub = x.ub \/ y.ub]
    [] e[1] = "parity" -> LET x == Eval(e[2], store)
                          IN [Typed(Ones(Low(x.v, LongBits)) % 2, IntBits, TRUE) EXCEPT !.ub = x.ub]

-----------------------------------------------------------------------------

Info(t) == [st |-> "valid", c |-> 0, w |-> t.w, s |-> t.s, val |-> Lit(0), ops |-> 0]
Text(t, val, ops) == [Info(t) EXCEPT !.val = val, !.ops = ops]
InstAbort == [Info(Null) EXCEPT !.st = "abort"]

\* setConsStr: a negative constant is written as its two's complement, cast when signed.
ConsInfo(info, c) ==
  LET lit == Lit(IF c >= 0 THEN c ELSE u_asUInt(c, WidthBits(info.w)))
  IN [info EXCEPT !.st = "const", !.c = c, !.ops = 0,
                  !.val = IF info.s /\ lit[2] < 2^LongBits THEN Cast(info.w, TRUE, lit) ELSE lit]
ConsText(t, c) == ConsInfo(Info(t), c)
ConsUnsigned(t, c) == IF t.s THEN InstAbort ELSE ConsText(t, c)
\* setConstantByStr masks the constant first.
ConsMasked(info, c) ==
  ConsInfo(info, IF info.s THEN s_asSInt(MpzAnd(c, 2^info.w - 1), info.w) ELSE MpzAnd(c, 2^info.w - 1))

AllConst(x) == \A i \in DOMAIN x : IsConst(x[i])
Zero(info) == IsConst(info) /\ info.c = 0
NonZero(info) == IsConst(info) /\ info.c # 0
AddOps(x) == IF Len(x) = 1 THEN x[1].ops + 1 ELSE x[1].ops + x[2].ops + 1

\* upperCast: cast only to a larger type.
Upper(w, x, s) == IF WidthBits(w) > WidthBits(x.w) THEN Cast(w, s, x.val) ELSE x.val

(***************************************************************************)
(* Selection                                                               *)
(***************************************************************************)
\* A one-bit mux is written with and and or.
MuxBit(t, x) ==
  LET c == x[1].val
      no == Bang(c)
      ops == x[1].ops + x[2].ops + x[3].ops + 1
  IN CASE IsConst(x[2]) /\ IsConst(x[3]) ->
            CASE NonZero(x[2]) /\ Zero(x[3]) -> Text(t, c, ops)
              [] Zero(x[2]) /\ NonZero(x[3]) -> Text(t, no, ops)
              [] OTHER -> InstAbort
       [] Zero(x[2]) /\ ~IsConst(x[3]) -> Text(t, Bin("&", no, x[3].val), ops)
       [] NonZero(x[2]) /\ ~IsConst(x[3]) -> Text(t, Bin("|", c, x[3].val), ops)
       [] ~IsConst(x[2]) /\ Zero(x[3]) -> Text(t, Bin("&", c, x[2].val), ops)
       [] ~IsConst(x[2]) /\ NonZero(x[3]) -> Text(t, Bin("|", no, x[2].val), ops)
       [] OTHER -> Text(t, Bin("|", Bin("&", c, x[2].val), Bin("&", no, x[3].val)), ops)

\* A wider one is written with masks when its operands are simple, otherwise as ?:.
MuxWide(t, x) ==
  LET c == x[1].val
      ops == x[1].ops + x[2].ops + x[3].ops + 1
      arm(i) == IF IsConst(x[i]) THEN Cast(t.w, t.s, x[i].val) ELSE x[i].val
      select(cond, i) == Bin("&", Minus(Cast(t.w, FALSE, cond)), x[i].val)
  IN IF \A i \in 1..3 : x[i].ops <= 1
     THEN Text(t, Bin("|", select(c, 2), select(Bang(c), 3)), ops)
     ELSE Text(t, Ternary(c, arm(2), arm(3)), ops)

instsMux(t, x) ==
  CASE IsConst(x[1]) -> IF x[1].c = 0 THEN x[3] ELSE x[2]
    [] ~IsConst(x[1]) /\ IsConst(x[2]) /\ IsConst(x[3]) /\ x[2].val = x[3].val -> x[2]
    [] OTHER -> IF t.w = 1 /\ ~t.s THEN MuxBit(t, x) ELSE MuxWide(t, x)

(***************************************************************************)
(* Arithmetic                                                              *)
(***************************************************************************)
instsAdd(t, x) ==
  LET signedOp == t.s /\ x[1].s /\ x[2].s
      m == Larger(x[1].w, x[2].w)
      w == Larger(t.w, m)
      ext(y) == LET n == WidthBits(w) - y.w
                IN IF n = 0 \/ IsConst(y) THEN Cast(w, FALSE, Cast(y.w, TRUE, y.val))
                   ELSE Cast(w, FALSE, ShiftR(Cast(w, TRUE, ShiftL(Cast(w, FALSE, y.val), n)), n))
      plain == Bin("+", Upper(t.w, x[1], FALSE), x[2].val)
  IN CASE AllConst(x) -> ConsText(t, us_add(x[1].c, x[2].c))
       [] ~AllConst(x) /\ signedOp -> Text(t, Bin("+", ext(x[1]), ext(x[2])), AddOps(x))
       [] OTHER -> Text(t, IF t.w <= m THEN Masked(plain, t.w) ELSE plain, AddOps(x))

instsSub(t, x) ==
  LET w == Larger(x[1].w, x[2].w)
      ext(y) == LET n == WidthBits(w) - y.w
                IN IF n = 0 \/ IsConst(y) THEN Cast(y.w, TRUE, y.val)
                   ELSE ShiftR(Cast(w, TRUE, ShiftL(Cast(y.w, FALSE, y.val), n)), n)
      operand(y) == IF t.s THEN [y EXCEPT !.val = ext(y)] ELSE y
      difference == Bin("-", Upper(t.w, operand(x[1]), t.s), operand(x[2]).val)
  IN IF AllConst(x) THEN ConsText(t, us_sub(x[1].c, x[2].c, t.w))
     ELSE Text(t, IF t.s THEN difference ELSE Masked(difference, t.w), AddOps(x))

instsMulDivRem(t, x) ==
  LET a == Upper(t.w, x[1], t.s)
      b == x[2].val
  IN IF AllConst(x) THEN ConsText(t, CASE t.op = "mul" -> us_mul(x[1].c, x[2].c)
                                       [] t.op = "div" -> us_div(x[1].c, x[2].c)
                                       [] t.op = "rem" -> us_rem(x[1].c, x[2].c))
     ELSE Text(t, CASE t.op = "mul" -> Bin("*", a, b) [] t.op = "div" -> Gdiv(a, b)
                    [] t.op = "rem" -> Bin("%", a, b), AddOps(x))

CppCompare ==
  [lt |-> "<", leq |-> "<=", gt |-> ">", geq |-> ">=", eq |-> "==", neq |-> "!="]

\* Operands with the same text compare equal; signed ones are cast to their own type.
instsOrder(t, x) ==
  LET op == CppCompare[t.op]
      k == t.k
  IN CASE AllConst(x) -> ConsText(t, us_compare(t.op, x[1].c, x[2].c))
       [] ~AllConst(x) /\ x[1].val = x[2].val ->
            ConsMasked(Info(t), IF t.op \in {"leq", "geq"} THEN 1 ELSE 0)
       [] OTHER ->
            Text(t, IF k[1].s
                    THEN Bin(op, Cast(k[1].w, k[1].s, x[1].val), Cast(k[2].w, k[2].s, x[2].val))
                    ELSE Bin(op, x[1].val, x[2].val), AddOps(x))

\* Comparing a bit with the constant it is when true is the bit itself.
instsEquality(t, x) ==
  LET op == CppCompare[t.op]
      k == t.k
      truth == IF t.op = "eq" THEN 1 ELSE 0
      out(i, j) == t.op = "eq" /\ IsConst(x[i]) /\ x[i].c > 2^k[j].w - 1
      itself(i, j) == k[j].w = 1 /\ IsConst(x[i]) /\ x[i].c = truth
      own(y) == IF IsConst(y) THEN y.val ELSE Cast(y.w, y.s, y.val)
  IN CASE AllConst(x) -> ConsText(t, us_compare(t.op, x[1].c, x[2].c))
       [] ~AllConst(x) /\ x[1].val = x[2].val -> ConsMasked(Info(t), truth)
       [] ~AllConst(x) /\ x[1].val # x[2].val /\ (out(1, 2) \/ out(2, 1)) -> ConsMasked(Info(t), 0)
       [] OTHER ->
            CASE itself(1, 2) -> x[2]
              [] ~itself(1, 2) /\ itself(2, 1) -> x[1]
              [] OTHER -> IF k[1].s THEN Text(t, Bin(op, own(x[1]), own(x[2])), 0)
                          ELSE Text(t, Bin(op, x[1].val, x[2].val), AddOps(x))

(***************************************************************************)
(* Shifts, logic and concatenation                                         *)
(***************************************************************************)
\* A shift left is done in a type that holds the largest shift.
instsDshl(t, x) ==
  LET room == Larger(t.w, 2^x[2].w + 1) IN
  IF AllConst(x) THEN ConsUnsigned(t, u_dshl(x[1].c, x[2].c))
  ELSE Text(t, Masked(Cast(t.w, t.s, ShiftBy("<<", Upper(room, x[1], t.s), x[2].val)), t.w), AddOps(x))

instsDshr(t, x) ==
  CASE AllConst(x) ->
         ConsText(t, IF t.s THEN s_dshr(x[1].c, x[2].c) ELSE u_dshr(x[1].c, x[2].c))
    [] ~AllConst(x) /\ Zero(x[2]) ->
         IF t.w = x[1].w THEN Text(t, x[1].val, x[1].ops)
         ELSE Text(t, Masked(x[1].val, t.w), x[1].ops + 1)
    [] OTHER -> Text(t, Masked(ShiftBy(">>", Cast(x[1].w, t.k[1].s, x[1].val), x[2].val), t.w), AddOps(x))

\* Each operand of a bitwise operation is widened to the result with its own sign.
Widen2(t, op, x) == Bin(op, Upper(t.w, x[1], t.k[1].s), Upper(t.w, x[2], t.k[2].s))

instsAnd(t, x) ==
  LET ones(i) == IsConst(x[i]) /\ x[1].w = x[2].w /\ x[i].c = 2^t.w - 1 IN
  CASE AllConst(x) -> ConsUnsigned(t, u_logic("and", x[1].c, x[2].c))
    [] ~AllConst(x) /\ (Zero(x[1]) \/ Zero(x[2])) -> ConsMasked(Info(t), 0)
    [] ~AllConst(x) /\ ~Zero(x[1]) /\ ~Zero(x[2]) /\ ones(1) -> x[2]
    [] ~AllConst(x) /\ ~Zero(x[1]) /\ ~Zero(x[2]) /\ ~ones(1) /\ ones(2) -> x[1]
    [] OTHER -> Text(t, Widen2(t, "&", x), AddOps(x))

instsOr(t, x) ==
  CASE AllConst(x) -> ConsUnsigned(t, u_logic("or", x[1].c, x[2].c))
    [] ~AllConst(x) /\ Zero(x[1]) -> Text(t, x[2].val, x[2].ops)
    [] ~AllConst(x) /\ Zero(x[2]) -> Text(t, x[1].val, x[1].ops)
    [] OTHER -> Text(t, Widen2(t, "|", x), AddOps(x))

instsXor(t, x) ==
  IF AllConst(x) THEN ConsUnsigned(t, u_logic("xor", x[1].c, x[2].c))
  ELSE Text(t, Widen2(t, "^", x), AddOps(x))

\* A constant upper half is shifted by the generator, another one by the emitted code.
instsCat(t, x) ==
  LET k == t.k
      hi == IF IsConst(x[1]) THEN Lit(u_shl(x[1].c, x[2].w))
            ELSE ShiftL(Upper(t.w, x[1], FALSE), k[2].w)
      low == Bin("|", hi, Cast(k[2].w, FALSE, x[2].val))
  IN CASE AllConst(x) ->
            IF CatOperands(x[1].c, x[2].c) THEN ConsUnsigned(t, u_cat(x[1].c, x[2].c, x[2].w)) ELSE InstAbort
       [] ~AllConst(x) /\ IsConst(x[1]) /\ k[1].s -> InstAbort
       [] ~AllConst(x) /\ ~k[1].s /\ Zero(x[1]) -> Text(t, Upper(t.w, x[2], x[2].s), x[2].ops + 1)
       [] OTHER -> Text(t, IF Zero(x[2]) THEN hi ELSE low, AddOps(x))

(***************************************************************************)
(* Conversions                                                             *)
(***************************************************************************)
instsAsUInt(t, x) ==
  IF IsConst(x[1]) THEN ConsUnsigned(t, u_asUInt(x[1].c, x[1].w))
  ELSE Text(t, Masked(Cast(t.w, FALSE, x[1].val), t.k[1].w), x[1].ops + 1)

\* asSInt and sign extension: an unsigned operand is extended by two shifts.
instsAsSInt(t, x) ==
  LET n == WidthBits(t.w) - x[1].w IN
  CASE IsConst(x[1]) -> IF t.s THEN ConsText(t, s_asSInt(x[1].c, x[1].w)) ELSE InstAbort
    [] ~IsConst(x[1]) /\ t.k[1].s ->
         Text(t, Cast(t.w, TRUE, Cast(x[1].w, TRUE, x[1].val)), x[1].ops + 1)
    [] OTHER -> Text(t, IF n = 0 THEN Cast(t.w, TRUE, x[1].val)
                        ELSE ShiftR(Cast(t.w, TRUE, ShiftL(Cast(t.w, FALSE, x[1].val), n)), n),
                     x[1].ops + 1)

\* asClock compares with zero, and so does asAsyncReset unless its operand is one bit.
instsAsClock(t, x) ==
  IF IsConst(x[1]) THEN ConsUnsigned(t, x[1].c)
  ELSE Text(t, IF t.op = "asasyncreset" /\ x[1].w = 1 THEN x[1].val
               ELSE Bin("!=", x[1].val, Lit(0)), x[1].ops + 1)

instsCvt(t, x) ==
  IF IsConst(x[1]) THEN ConsText(t, x[1].c)
  ELSE Text(t, Cast(t.w, t.s, x[1].val), x[1].ops + 1)

instsNeg(t, x) ==
  CASE IsConst(x[1]) -> IF t.s THEN ConsText(t, s_neg(x[1].c)) ELSE InstAbort
    [] OTHER -> Text(t, Minus(IF WidthBits(t.w) > WidthBits(x[1].w) \/ ~t.k[1].s
                              THEN Cast(t.w, t.s, x[1].val) ELSE x[1].val), x[1].ops + 1)

instsNot(t, x) ==
  CASE t.k[1].w # x[1].w -> InstAbort
    [] t.k[1].w = x[1].w /\ IsConst(x[1]) -> ConsUnsigned(t, u_not(x[1].c, x[1].w))
    [] OTHER -> Text(t, Bin("^", x[1].val, Mask(t.w)), x[1].ops + 1)

instsReduce(t, x) ==
  LET w == x[1].w IN
  CASE t.op # "xorr" /\ t.k[1].w # w -> InstAbort
    [] (t.op = "xorr" \/ t.k[1].w = w) /\ IsConst(x[1]) ->
         ConsUnsigned(t, CASE t.op = "andr" -> u_andr(x[1].c, w) [] t.op = "orr" -> u_orr(x[1].c)
                           [] t.op = "xorr" -> u_xorr(x[1].c))
    [] OTHER ->
         Text(t, CASE t.op = "andr" -> Bin("==", x[1].val, Mask(w))
                   [] t.op = "orr" -> Bin("!=", x[1].val, Lit(0))
                   [] t.op = "xorr" ->
                        IF t.k[1].w <= LongBits THEN Parity(x[1].val)
                        ELSE Bin("^", Parity(x[1].val), Parity(ShiftR(x[1].val, LongBits))),
              x[1].ops + 1)

\* Padding an unsigned value changes at most its type; a signed one is extended, then masked.
instsPad(t, x) ==
  LET n == WidthBits(t.w) - x[1].w IN
  CASE ~t.s \/ t.w <= x[1].w ->
         IF WidthBits(x[1].w) < t.w THEN Text(t, Cast(t.w, FALSE, x[1].val), x[1].ops + 1)
         ELSE Text(t, x[1].val, x[1].ops)
    [] t.s /\ t.w > x[1].w /\ IsConst(x[1]) -> ConsText(t, s_pad(x[1].c, x[1].w, t.v[1]))
    [] OTHER -> Text(t, Masked(ShiftR(ShiftL(Cast(t.w, TRUE, x[1].val), n), n), t.w), x[1].ops + 1)

instsShl(t, x) ==
  IF IsConst(x[1]) THEN ConsUnsigned(t, u_shl(x[1].c, t.v[1]))
  ELSE Text(t, ShiftL(Upper(t.w, x[1], t.s), t.v[1]), x[1].ops + 1)

instsShr(t, x) ==
  IF IsConst(x[1]) THEN ConsText(t, IF t.s THEN s_shr(x[1].c, t.v[1]) ELSE u_shr(x[1].c, t.v[1]))
  ELSE Text(t, ShiftR(x[1].val, t.v[1]), x[1].ops + 1)

\* head drops the n low bits and tail keeps them; a signed operand is cast first.
instsHead(t, x) ==
  IF IsConst(x[1]) THEN ConsUnsigned(t, u_head(x[1].c, t.v[1]))
  ELSE Text(t, ShiftR(IF t.k[1].s THEN Cast(t.w, t.s, x[1].val) ELSE x[1].val, t.v[1]), x[1].ops + 1)

instsTail(t, x) ==
  LET n == Smaller(t.w, t.v[1]) IN
  IF IsConst(x[1]) THEN ConsUnsigned(t, u_tail(x[1].c, x[1].w, n))
  ELSE Text(t, Masked(IF t.k[1].s THEN Cast(t.w, t.s, x[1].val) ELSE x[1].val, n), x[1].ops + 1)

instsBits(t, x) ==
  LET hi == t.v[1]
      lo == t.v[2]
      own == IF x[1].s THEN Cast(x[1].w, TRUE, x[1].val) ELSE x[1].val
  IN CASE IsConst(x[1]) -> ConsUnsigned(t, u_bits(x[1].c, x[1].w, hi, lo))
       [] ~IsConst(x[1]) /\ (lo >= t.k[1].w \/ lo >= x[1].w) -> ConsMasked(Info(t), 0)
       [] ~IsConst(x[1]) /\ lo = 0 /\ hi + 1 = x[1].w -> Text(t, x[1].val, x[1].ops)
       [] OTHER -> Text(t, Masked(ShiftR(own, lo), hi - lo + 1), x[1].ops + 1)

instsBitsNoShift(t, x) ==
  LET hi == t.v[1]
      lo == t.v[2]
      range == ShiftL(ShiftR(Mask(hi + 1), lo), lo)
  IN CASE IsConst(x[1]) -> ConsUnsigned(t, u_bits_noshift(x[1].c, x[1].w, hi, lo))
       [] ~IsConst(x[1]) /\ (lo >= t.k[1].w \/ lo >= x[1].w) -> ConsMasked(Info(t), 0)
       [] ~IsConst(x[1]) /\ lo = 0 /\ hi + 1 = x[1].w -> Text(t, x[1].val, x[1].ops)
       [] OTHER -> Text(t, Bin("&", x[1].val, range), x[1].ops + 1)

instsInt(t) ==
  LET info == [Info(t) EXCEPT !.s = t.s \/ t.c < 0]
  IN IF info.s THEN ConsInfo(info, s_asSInt(MpzAnd(t.c, 2^t.w - 1), t.w)) ELSE ConsMasked(info, t.c)

\* A node read: cut to the width of the reference, and sign-extended unless the variable is.
instsRef(t, node, root) ==
  LET cut == Larger(0, node.w - t.w) > 0
      w == Smaller(node.w, t.w)
      own == IF cut THEN Masked(Var(t.n), t.w) ELSE Var(t.n)
      n == WidthBits(t.w) - w
      shifted == ShiftR(Cast(t.w, TRUE, ShiftL(Cast(w, FALSE, own), n)), n)
      info(val, ops, width) == [Info(t) EXCEPT !.s = node.s, !.val = val, !.ops = ops, !.w = width]
  IN CASE ~t.s -> info(own, 0, w)
       [] t.s /\ w < t.w ->
            info(IF WidthBits(t.w) # t.w THEN Masked(shifted, t.w) ELSE shifted, 1, t.w)
       [] t.s /\ w >= t.w /\ root /\ w < WidthBits(t.w) -> info(shifted, 0, w)
       [] OTHER -> info(Cast(t.w, TRUE, own), 0, w)

InstsOp(t, x) ==
  CASE t.op = "mux" -> instsMux(t, x)
    [] t.op = "add" -> instsAdd(t, x)
    [] t.op = "sub" -> instsSub(t, x)
    [] t.op \in {"mul", "div", "rem"} -> instsMulDivRem(t, x)
    [] t.op \in {"lt", "leq", "gt", "geq"} -> instsOrder(t, x)
    [] t.op \in {"eq", "neq"} -> instsEquality(t, x)
    [] t.op = "dshl" -> instsDshl(t, x)
    [] t.op = "dshr" -> instsDshr(t, x)
    [] t.op = "and" -> instsAnd(t, x)
    [] t.op = "or" -> instsOr(t, x)
    [] t.op = "xor" -> instsXor(t, x)
    [] t.op = "cat" -> instsCat(t, x)
    [] t.op = "asuint" -> instsAsUInt(t, x)
    [] t.op \in {"assint", "sext"} -> instsAsSInt(t, x)
    [] t.op \in {"asclock", "asasyncreset"} -> instsAsClock(t, x)
    [] t.op = "cvt" -> instsCvt(t, x)
    [] t.op = "neg" -> instsNeg(t, x)
    [] t.op = "not" -> instsNot(t, x)
    [] t.op \in Reduce -> instsReduce(t, x)
    [] t.op = "pad" -> instsPad(t, x)
    [] t.op = "shl" -> instsShl(t, x)
    [] t.op = "shr" -> instsShr(t, x)
    [] t.op = "head" -> instsHead(t, x)
    [] t.op = "tail" -> instsTail(t, x)
    [] t.op = "bits" -> instsBits(t, x)
    [] t.op = "bitsnoshift" -> instsBitsNoShift(t, x)

\* ENode::compute: g has the nodes, root tells which of them are read outside one expression.
RECURSIVE Compute(_, _, _)
Compute(g, root, t) ==
  CASE t.w = 0 -> ConsInfo(Info(Null), 0)
    [] t.w > 0 /\ t.op = "node" -> instsRef(t, g[t.n], root[t.n])
    [] t.w > 0 /\ t.op = "int" -> instsInt(t)
    [] t.w > 0 /\ t.op = "invalid" -> [Info(t) EXCEPT !.st = "invalid"]
    [] OTHER -> LET x == [i \in DOMAIN t.k |-> Compute(g, root, t.k[i])]
                IN IF \E i \in DOMAIN x : x[i].st = "abort" THEN InstAbort ELSE InstsOp(t, x)
=============================================================================
