------------------------------ MODULE MCCompile ------------------------------
(***************************************************************************)
(* The circuits that are compiled: every operation over operands of        *)
(* several widths, expressions of two levels, connects under whens,        *)
(* registers with and without resets, and the shapes that aliasAnalysis,   *)
(* commonExpr and patternDetect look for.  The integers of the emitted     *)
(* program have 2, 4, 8 or 16 bits (Insts), so that operands of 1 to 5     *)
(* bits already cross from one type to the next.                           *)
(***************************************************************************)
EXTENDS Compile

Inp(w, s) == Node("inp", w, s, <<>>)
Out(w, s) == Node("out", w, s, <<>>)
Wire(w) == Node("others", w, FALSE, <<>>)
Src(w, pair, rt) == [Node("src", w, FALSE, <<>>) EXCEPT !.pair = pair, !.rt = rt]
Dst(w, pair) == [Node("dst", w, FALSE, <<>>) EXCEPT !.pair = pair]
UInt(c, w) == IntENode(c, w, FALSE)
Unop(op, v, x) == ENode(op, -1, FALSE, v, <<x>>)
Binop(op, x, y) == ENode(op, -1, FALSE, <<>>, <<x, y>>)
MuxOp(c, x, y) == ENode("mux", -1, FALSE, <<>>, <<c, x, y>>)
Reset(cond, val) == ENode("reset", -1, FALSE, <<>>, <<cond, val>>)
Bad == ENode("invalid", 0, FALSE, <<>>, <<>>)
Connect(n, e) == <<[n |-> n, tr |-> <<>>, e |-> e]>>
Circuit(nodes, solo, blocks, inputs, cycles) ==
  [nodes |-> nodes, solo |-> solo, blocks |-> blocks, inputs |-> inputs, cycles |-> cycles]

(***************************************************************************)
(* One operation.  A quotient or remainder goes to an output that is wide  *)
(* enough for it, a signed pad or shl is not cut afterwards, and a signed  *)
(* shr leaves at least the sign.                                           *)
(***************************************************************************)
Arith2 == {"add", "sub", "mul", "div", "rem"}
Corners(w, s) ==
  IF s THEN {-(2^(w - 1)), -1, 0, 2^(w - 1) - 1} ELSE {0, 1, 2^(w - 1), 2^w - 1}
OutWidths(op) == IF op \in {"div", "rem"} THEN {9} ELSE {3, 9}

One2(op, w1, w2, s, so, wo) ==
  Circuit(<<Inp(w1, s), Inp(w2, s), Out(wo, so)>>, TRUE, <<Connect(3, Binop(op, Ref(1), Ref(2)))>>,
          Corners(w1, s) \X Corners(w2, s), 1)
One1(op, v, w, s, so, wo) ==
  Circuit(<<Inp(w, s), Out(wo, so)>>, TRUE, <<Connect(2, Unop(op, v, Ref(1)))>>,
          {<<x>> : x \in Corners(w, s)}, 1)

Binaries ==
  UNION {{One2(op, w1, w2, FALSE, FALSE, wo) : w1 \in {1, 3, 5}, w2 \in {1, 2}, wo \in OutWidths(op)} :
           op \in Arith2 \cup Compare \cup Bitwise2 \cup {"cat", "dshl", "dshr"}}
  \cup UNION {{One2(op, w1, w2, TRUE, TRUE, wo) : w1 \in {1, 3, 5}, w2 \in {1, 2, 5}, wo \in OutWidths(op)} :
           op \in Arith2}
  \cup {One2(op, w1, w2, TRUE, FALSE, 1) : op \in Compare, w1 \in {1, 3, 5}, w2 \in {1, 2, 5}}
Unaries ==
  LET ws == {1, 2, 3, 5}
      wo == {3, 8}
  IN UNION {
       {One1(op, <<>>, 1, FALSE, FALSE, 1) : op \in {"asclock", "asasyncreset"}},
       {One1(op, <<>>, w, FALSE, FALSE, 1) : op \in Reduce, w \in ws},
       {One1("asuint", <<>>, w, s, FALSE, o) : w \in ws, s \in BOOLEAN, o \in wo},
       {One1(op, <<>>, w, s, TRUE, o) : op \in {"assint", "cvt", "neg"}, w \in ws, s \in BOOLEAN, o \in wo},
       {One1("not", <<>>, w, FALSE, FALSE, o) : w \in ws, o \in wo},
       {One1("shr", <<i>>, w, FALSE, FALSE, o) : i \in {0, 1, 2, 5}, w \in ws, o \in wo},
       {One1("shr", <<i>>, w, TRUE, TRUE, o) : i \in {0, 1}, w \in {2, 3, 5}, o \in wo},
       {One1(op, <<i>>, w, FALSE, FALSE, o) : op \in {"pad", "shl"}, i \in {0, 1, 2, 5}, w \in ws, o \in wo},
       {One1("pad", <<i>>, w, TRUE, TRUE, Larger(i, w)) : i \in {0, 1, 2, 5}, w \in ws},
       {One1("shl", <<i>>, w, TRUE, TRUE, 8) : i \in {0, 1, 2}, w \in ws},
       {One1(op, <<i>>, w, FALSE, FALSE, o) : op \in {"head", "tail"}, i \in {1, 2}, w \in {2, 3, 5}, o \in wo},
       {One1("bits", <<h, l>>, w, FALSE, FALSE, o) : h \in {1, 2}, l \in {0, 1}, w \in {3, 5}, o \in wo}}

(***************************************************************************)
(* Two operations, the inner one in the same tree or in a wire of its own. *)
(* Inputs 1 and 2 are unsigned, of 3 and 2 bits; input 3 is signed.        *)
(***************************************************************************)
Inner == {Binop(op, Ref(1), Ref(2)) : op \in {"add", "sub", "mul", "cat", "dshl", "dshr", "lt"} \cup Bitwise2}
  \cup {Unop(p[1], p[2], Ref(1)) : p \in {<<"not", <<>>>>, <<"xorr", <<>>>>, <<"shl", <<1>>>>, <<"shr", <<1>>>>,
          <<"pad", <<4>>>>, <<"bits", <<2, 1>>>>, <<"head", <<1>>>>, <<"tail", <<1>>>>}}
  \cup {MuxOp(Unop("bits", <<0, 0>>, Ref(2)), Ref(1), UInt(1, 1)), Unop("asuint", <<>>, Ref(3)),
        Binop("leq", Ref(3), IntENode(-2, 2, TRUE))}
Outer(x) == {Binop(op, x, y) : op \in {"add", "sub", "mul", "cat", "geq", "eq"} \cup Bitwise2, y \in {Ref(2), UInt(2, 2)}}
  \cup {Binop(op, Ref(1), x) : op \in {"sub", "cat", "lt"}}
  \cup {Unop(p[1], p[2], x) : p \in {<<"not", <<>>>>, <<"andr", <<>>>>, <<"shl", <<1>>>>, <<"shr", <<1>>>>, <<"pad", <<4>>>>}}
  \cup {MuxOp(Unop("bits", <<0, 0>>, Ref(2)), x, Ref(2))}
InnerSigned == {Unop(op, <<>>, Ref(1)) : op \in {"assint", "cvt", "neg"}}
  \cup {Unop("neg", <<>>, Ref(3)), Unop("shr", <<1>>, Ref(3)), Unop("shl", <<1>>, Ref(3)),
        MuxOp(Unop("bits", <<0, 0>>, Ref(2)), Ref(3), IntENode(-2, 2, TRUE))}
  \cup {Binop(op, Ref(3), IntENode(-2, 2, TRUE)) : op \in Arith2 \ {"rem"}}
OuterSigned(x) == {Unop(op, <<>>, x) : op \in {"assint", "cvt", "neg"}}
  \cup {Binop(op, x, Ref(3)) : op \in Arith2 \ {"rem"}} \cup {Binop(op, Ref(3), x) : op \in {"sub", "div"}}
  \cup {MuxOp(Unop("bits", <<0, 0>>, Ref(2)), x, Ref(3))}

Values3 == {<<0, 1, -1>>, <<7, 3, -4>>, <<5, 2, 3>>, <<4, 0, 0>>, <<2, 3, -3>>, <<6, 1, 2>>}
Two(wires, blocks, s) ==
  Circuit(<<Inp(3, FALSE), Inp(2, FALSE), Inp(3, TRUE)>> \o wires \o <<Out(3, s)>>, TRUE, blocks, Values3, 1)
Nested == UNION {{Two(<<>>, <<Connect(4, e)>>, FALSE) : e \in Outer(x)} : x \in Inner}
Wired == UNION {{Two(<<Wire(-1)>>, <<Connect(4, x), Connect(5, e)>>, FALSE) : e \in Outer(Ref(4))} : x \in Inner}
WiredSigned ==
  UNION {{Two(<<Wire(-1)>>, <<Connect(4, x), Connect(5, e)>>, TRUE) : e \in OuterSigned(Ref(4))} : x \in InnerSigned}

(***************************************************************************)
(* Connects under whens: input 1 has two bits, c and d are conditions.     *)
(***************************************************************************)
T(c) == [taken |-> TRUE, c |-> c]
F(c) == [taken |-> FALSE, c |-> c]
At0(n, tr, e) == [n |-> n, tr |-> tr, e |-> e]
Shapes(n, c, d, x, y) ==
  { <<At0(n, <<T(c)>>, x)>>, <<At0(n, <<T(c)>>, x), At0(n, <<F(c)>>, y)>>, <<At0(n, <<F(c), T(d)>>, x)>>,
    <<At0(n, <<T(c)>>, x), At0(n, <<T(c), T(d)>>, y)>>, <<At0(n, <<T(c), T(d)>>, x), At0(n, <<T(c)>>, y)>>,
    <<At0(n, <<T(c), T(d)>>, x), At0(n, <<F(c)>>, y)>>, <<At0(n, <<T(c), T(d)>>, x), At0(n, <<F(c), F(d)>>, y)>> }
Some(n, c, d, x, y) ==
  { <<At0(n, <<T(c)>>, x)>>, <<At0(n, <<T(c)>>, x), At0(n, <<F(c)>>, y)>>, <<At0(n, <<F(c), T(d)>>, x)>>,
    <<At0(n, <<T(c)>>, x), At0(n, <<T(c), T(d)>>, y)>>, <<At0(n, <<T(c), T(d)>>, x), At0(n, <<F(c)>>, y)>> }
K(c) == UInt(c, 2)
In3 == {1, 2} \X {0, 1} \X {0, 1}
Front3 == <<Inp(2, FALSE), Inp(1, FALSE), Inp(1, FALSE)>>

\* One wire that two top-level whens assign; c is an input or a wire that is always c.
Whens == {Circuit(Front3 \o <<Wire(2), Out(2, FALSE)>>, FALSE, <<Connect(4, v), b1, b2, Connect(5, Ref(4))>>, In3, 1) :
            v \in {K(0), Ref(1), Bad}, b1 \in Shapes(4, 2, 3, K(1), Ref(1)),
            b2 \in Shapes(4, 2, 3, K(3), Ref(1)) \cup Shapes(4, 3, 2, K(3), Ref(1))}
ConstantWhens ==
  {Circuit(<<Inp(2, FALSE), Wire(1), Inp(1, FALSE), Wire(2), Out(2, FALSE)>>, FALSE,
           <<Connect(2, UInt(c, 1)), Connect(4, v), b1, b2, Connect(5, Ref(4))>>, In3, 1) :
     c \in {0, 1}, v \in {K(0), Ref(1), Bad}, b1 \in Shapes(4, 2, 3, K(1), Ref(1)) \cup Shapes(4, 3, 2, K(1), Ref(1)),
     b2 \in Shapes(4, 2, 3, K(3), Ref(1)) \cup Shapes(4, 3, 2, K(3), Ref(1))}
\* Three nodes assigned under the same conditions, of which d may depend on the first.
SharedWhens ==
  UNION {{Circuit(Front3 \o <<Wire(2), Wire(1), Wire(2), Out(2, FALSE)>>, FALSE,
                  <<Connect(4, Ref(1)), b1, Connect(5, Binop("eq", Ref(4), K(3))), Connect(6, K(2)), b2,
                    Connect(7, Ref(6)), b3>>, In3, 1) :
            b1 \in Some(4, 2, 3, K(0), K(3)), b2 \in Some(6, 2, d, Ref(4), K(1)) \cup Some(6, d, 2, Ref(4), K(1)),
            b3 \in Some(7, 2, d, Ref(6), Ref(4)) \cup Some(7, d, 2, Ref(4), Ref(6))} : d \in {3, 5}}

(***************************************************************************)
(* Registers, run for three cycles                                         *)
(***************************************************************************)
Front4(kind, rt, pair) == <<Inp(2, FALSE), Inp(1, FALSE), Src(2, pair, rt), [Inp(1, FALSE) EXCEPT !.rst = kind]>>
In4 == {1, 2} \X {0, 1} \X {0} \X {0, 1}
Resets(kind) == IF kind = "none" THEN {Null} ELSE {Reset(Ref(4), v) : v \in {K(1), Ref(1)}}
Registers ==
  UNION {{Circuit(Front4(kind, rt, 5) \o <<Dst(2, 3), Out(2, FALSE)>>, solo,
                  b0 \o <<b1, Connect(6, Ref(3))>>, In4, 3) :
            solo \in BOOLEAN, rt \in Resets(kind),
            b0 \in {<<>>, <<Connect(3, K(1))>>, <<Connect(3, Unop("not", <<>>, Ref(3)))>>},
            b1 \in Some(3, 2, 4, K(1), Ref(1))} : kind \in {"none", "uint", "async"}}
\* The reset is a wire of type Reset: its kind is that of the input it is connected to, or
\* asynchronous after asAsyncReset.
ResetWires ==
  UNION {{Circuit(<<Inp(2, FALSE), Inp(1, FALSE), [Inp(1, FALSE) EXCEPT !.rst = kind], Wire(1),
                    Src(2, 6, Reset(Ref(4), v)), Dst(2, 5), Out(2, FALSE)>>, solo,
                  <<Connect(4, e), b, Connect(7, Ref(5))>>, {1, 2} \X {0, 1} \X {0, 1}, 3) :
            solo \in BOOLEAN, v \in {K(1), Ref(1)}, e \in {Ref(3), Unop("asasyncreset", <<>>, Ref(3))},
            b \in Some(5, 2, 3, K(1), Ref(1))} : kind \in {"uint", "async"}}
\* Two registers that read each other, or of which one keeps what it is reset to.
RegisterPairs ==
  {Circuit(Front4("uint", Reset(Ref(4), K(1)), 6) \o
           <<Src(2, 7, rt), Dst(2, 3), Dst(2, 5), Out(2, FALSE), Out(2, FALSE)>>, solo,
           b1 \o <<b2, Connect(8, Ref(3)), Connect(9, Ref(5))>>, In4, 3) :
     solo \in BOOLEAN, rt \in {Null, Reset(Ref(4), Ref(1))},
     b1 \in {<<b>> : b \in Some(3, 2, 4, Ref(5), Ref(1))} \cup {<<Connect(3, Ref(3))>>, <<Connect(3, K(1))>>},
     b2 \in Some(5, 2, 4, Ref(3), K(2)) \cup {Connect(5, Ref(3))}}

(***************************************************************************)
(* Aliases, equal expressions, one-hot tests                               *)
(***************************************************************************)
Wires(k) == [i \in 1..k |-> Wire(-1)]
Many(k, blocks, w) ==
  Circuit(<<Inp(3, FALSE), Inp(2, FALSE), Inp(3, TRUE)>> \o Wires(k) \o <<Out(w, FALSE), Out(w, FALSE)>>,
          TRUE, blocks, Values3, 1)
Equal == {Binop("add", Ref(1), Ref(2)), Ref(1), Unop("not", <<>>, Ref(1)), Unop("tail", <<1>>, Ref(1))}
Merged ==
  {Many(3, <<Connect(4, e1), Connect(5, e2), Connect(6, e3), Connect(7, e4), Connect(8, Ref(x))>>, 3) :
     e1 \in Equal, e2 \in Equal \cup {Ref(4)}, e3 \in {Ref(5), Binop("add", Ref(1), Ref(2)), Binop("add", Ref(4), Ref(5)), Binop("sub", Ref(4), Ref(5))},
     e4 \in {Binop("xor", Ref(6), Ref(4)), Unop("bits", <<1, 1>>, Ref(6))}, x \in {5, 6}}
OneHots ==
  {Many(3, <<Connect(4, Binop("dshl", UInt(1, 1), Ref(2))), Connect(5, Unop("bits", <<i, i>>, Ref(4))), Connect(6, e),
             Connect(7, Ref(5)), Connect(8, Ref(6))>>, 3) :
     i \in 0..3, e \in {Unop("bits", <<j, j>>, Ref(4)) : j \in 0..3} \cup {Binop("or", Ref(4), Ref(1)), Unop("bits", <<2, 1>>, Ref(4))}}
ShiftTests ==
  {Many(1, <<Connect(4, Binop("eq", Binop("or", Unop("shl", <<2>>, Ref(1)), Unop("pad", <<5>>, Ref(2))), UInt(c, 5))),
             Connect(5, Ref(4)), Connect(6, Ref(1))>>, 3) : c \in {0, 1, 7, 16, 22, 31}}

MCCircuits ==
  UNION {Binaries, Unaries, Nested, Wired, WiredSigned, Whens, ConstantWhens, SharedWhens, Registers, ResetWires,
         RegisterPairs, Merged, OneHots, ShiftTests}

\* Concatenations compared with a constant.
MCCatTests ==
  {Many(1, <<Connect(4, Binop("eq", Binop("cat", Ref(1), Ref(2)), UInt(c, 5))), Connect(5, Ref(4)), Connect(6, Ref(1))>>, 3) :
     c \in {0, 1, 7, 16, 22, 31}}
=============================================================================
