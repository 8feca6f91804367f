------------------------------- MODULE Firrtl -------------------------------
(***************************************************************************)
(* What a circuit means, for comparison with the program that gsim emits   *)
(* for it.  A circuit is a list of connects [n, tr, e]: node n gets the    *)
(* value of e when the conditions of tr hold, and the last connect that    *)
(* applies wins.  Arithmetic is exact: a result has no width, so a width   *)
(* that is too small shows.  A value nobody determined is Undef: a         *)
(* register before its first assignment or reset, an invalid wire, and a   *)
(* remainder or quotient of a division by zero.                            *)
(***************************************************************************)
EXTENDS ExprTree, SequencesExt

Undef == 2^30
Bit(b) == IF b THEN 1 ELSE 0

Binary(t, x, y) ==
  LET w == Larger(t.k[1].w, t.k[2].w) IN
  CASE t.op = "add" -> x + y
    [] t.op = "sub" -> IF t.s THEN x - y ELSE Low(x - y, w + 1)
    [] t.op = "mul" -> x * y
    [] t.op = "div" -> IF y = 0 THEN Undef ELSE Quotient(x, y)
    [] t.op = "rem" -> IF y = 0 THEN Undef ELSE x - y * Quotient(x, y)
    [] t.op = "lt" -> Bit(x < y)
    [] t.op = "leq" -> Bit(x <= y)
    [] t.op = "gt" -> Bit(x > y)
    [] t.op = "geq" -> Bit(x >= y)
    [] t.op = "eq" -> Bit(x = y)
    [] t.op = "neq" -> Bit(x # y)
    [] t.op = "dshl" -> x * 2^y
    [] t.op = "dshr" -> x \div 2^y
    [] t.op = "and" -> Low(x, w) & Low(y, w)
    [] t.op = "or" -> Low(x, w) | Low(y, w)
    [] t.op = "xor" -> Low(x, w) ^^ Low(y, w)
    [] t.op = "cat" -> Low(x, t.k[1].w) * 2^t.k[2].w + Low(y, t.k[2].w)

Unary(t, x) ==
  LET w == t.k[1].w
      u == Low(x, w)
  IN CASE t.op = "asuint" -> u
       [] t.op = "assint" -> AsSigned(x, w)
       [] t.op \in {"cvt", "pad", "asasyncreset", "asclock"} -> x
       [] t.op = "neg" -> -x
       [] t.op = "not" -> 2^w - 1 - u
       [] t.op = "andr" -> Bit(u = 2^w - 1)
       [] t.op = "orr" -> Bit(x # 0)
       [] t.op = "xorr" -> Ones(u) % 2
       [] t.op = "shl" -> x * 2^t.v[1]
       [] t.op = "shr" -> x \div 2^t.v[1]
       [] t.op = "head" -> u \div 2^(w - t.v[1])
       [] t.op = "tail" -> u % 2^(w - t.v[1])
       [] t.op = "bits" -> (u \div 2^t.v[2]) % 2^(t.v[1] - t.v[2] + 1)

\* The value of an expression when env gives the values of the nodes.
RECURSIVE Meaning(_, _)
Meaning(t, env) ==
  CASE t.op = "node" -> env[t.n]
    [] t.op = "int" -> t.c
    [] t.op = "invalid" -> Undef
    [] t.op = "mux" ->
         LET c == Meaning(t.k[1], env)
         IN IF c = Undef THEN Undef ELSE Meaning(t.k[IF c # 0 THEN 2 ELSE 3], env)
    [] OTHER ->
         LET x == [i \in DOMAIN t.k |-> Meaning(t.k[i], env)]
         IN CASE \E i \in DOMAIN x : x[i] = Undef -> Undef
              [] Len(x) = 1 -> Unary(t, x[1])
              [] OTHER -> Binary(t, x[1], x[2])

\* A node with a declared width keeps that many bits.
Held(v, node) == IF v = Undef \/ ~node.fix THEN v ELSE Cut(v, node.w, node.s)

\* The value the connects give a node that would otherwise keep old.
Driven(node, connects, env, old) ==
  LET open(c) == \E i \in DOMAIN c.tr : env[c.tr[i].c] = Undef
      taken(c) == \A i \in DOMAIN c.tr : (env[c.tr[i].c] # 0) = c.tr[i].taken
      apply(v, c) == CASE open(c) -> Undef
                       [] ~open(c) /\ taken(c) -> Held(Meaning(c.e, env), node)
                       [] OTHER -> v
  IN FoldLeft(apply, old, connects)

(***************************************************************************)
(* One cycle, from the node values before it and the new inputs.  Nodes    *)
(* are numbered in dependency order.  As in the emitted step, a register   *)
(* takes the value computed for it in the cycle before unless its reset is *)
(* up now.                                                                 *)
(***************************************************************************)
Cycle(nodes, connects, before, inputs) ==
  LET to(n) == SelectSeq(connects, LAMBDA c : c.n = n)
      known(env) == env @@ inputs
      value(env, n) ==
        LET node == nodes[n] IN
        CASE node.ty = "inp" -> inputs[n]
          [] node.ty = "src" ->
               IF node.rt.op = "reset" /\ Meaning(node.rt.k[1], known(env)) # 0
               THEN Held(Meaning(node.rt.k[2], known(env)), node) ELSE before[node.pair]
          [] node.ty = "dst" -> Driven(node, to(node.pair), env, env[node.pair])
          [] OTHER -> Driven(node, to(n), env, Undef)
  IN FoldLeft(LAMBDA env, n : Append(env, value(env, n)), <<>>, [n \in DOMAIN nodes |-> n])
=============================================================================
