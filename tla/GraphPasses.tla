----------------------------- MODULE GraphPasses -----------------------------
(***************************************************************************)
(* The passes main() runs over the whole graph before the super nodes are  *)
(* formed.  g[n] is a Node: its type, width and sign, its assignTrees, its *)
(* resetTree, the other half of its register and its status; val and depth *)
(* are those of the connects that are still being read, and fix tells      *)
(* whether the width was declared.  Node numbers are positions in the      *)
(* topological order, so members are visited by number.  An edge needs no  *)
(* state: it is read off the trees, as reconnectAll does after every pass. *)
(***************************************************************************)
EXTENDS TreePasses, SequencesExt

CONSTANTS MaxCommonNext,   \* MAX_COMMON_NEXT: copies that are always merged
          BasicWidth,      \* BASIC_WIDTH: copies that are wider are always merged
          When2muxBound    \* whens on one condition that still become muxes

ASSUME PassAssumption == MaxCommonNext \in Nat /\ BasicWidth \in Nat /\ When2muxBound \in Nat

Node(ty, w, s, t) ==
  [ty |-> ty, w |-> w, s |-> s, t |-> t, rt |-> Null, pair |-> 0, rst |-> "none", st |-> "valid",
   fix |-> w # -1, val |-> Null, depth |-> 0]

InOrder(S) == SelectSeq([n \in 1..Max({0} \cup S) |-> n], LAMBDA n : n \in S)
Live(g) == {n \in DOMAIN g : g[n].st = "valid"}
Drop(g, dead, st) == [n \in DOMAIN g |-> IF n \in dead THEN [g[n] EXCEPT !.st = st] ELSE g[n]]
MapTrees(g, n, F(_)) ==
  [g[n] EXCEPT !.t = [i \in DOMAIN @ |-> F(@[i])], !.rt = IF @ = Null THEN Null ELSE F(@)]
EachLive(g, F(_)) == [n \in DOMAIN g |-> IF g[n].st = "valid" THEN F(n) ELSE g[n]]

\* Node::updateConnect: a register's src takes its dst without an edge.
Prev(g, n) ==
  IF g[n].ty = "src" THEN {} ELSE UNION {RelyNodes(g[n].t[i]) : i \in DOMAIN g[n].t}
NextNodes(g, n) == {m \in Live(g) : n \in Prev(g, m)}

(***************************************************************************)
(* inferAllWidth                                                           *)
(***************************************************************************)
\* Node::inferWidth, after clearWidth.  A declared width stays.
InferNode(g, n, fixed) ==
  LET trees == [i \in DOMAIN g[n].t |-> InferWidth(g, g[n].t[i])]
      rt == IF g[n].rt = Null THEN Null ELSE InferWidth(g, g[n].rt)
      seen == (IF g[n].ty = "src" /\ rt # Null THEN <<rt>> ELSE <<>>) \o trees
      kept == [g EXCEPT ![n].t = trees, ![n].rt = rt]
  IN IF n \in fixed THEN kept
     ELSE [kept EXCEPT ![n].w = Max({0} \cup {seen[i].w : i \in DOMAIN seen}),
                       ![n].s = IF seen = <<>> THEN @ ELSE Last(seen).s]

\* Once nothing is queued both halves of a register get the larger width.
EvenRegisters(g) ==
  [n \in DOMAIN g |->
     IF g[n].pair # 0 THEN [g[n] EXCEPT !.w = Larger(@, g[g[n].pair].w)] ELSE g[n]]

RECURSIVE InferLoop(_, _, _)
InferLoop(g, queue, fixed) ==
  IF queue = {}
  THEN LET even == EvenRegisters(g)
           grown == UNION {NextNodes(g, n) : n \in {m \in DOMAIN g : even[m].w # g[m].w}}
       IN IF grown = {} THEN even ELSE InferLoop(even, grown, fixed)
  ELSE LET n == Min(queue)
           readers == NextNodes(g, n) \cup (IF g[n].ty = "dst" THEN {g[n].pair} ELSE {})
           loop(after) ==
             InferLoop(after, (queue \ {n}) \cup (IF after[n].w # g[n].w THEN readers ELSE {}), fixed)
       IN loop(InferNode(g, n, fixed))

inferTypes(g) == InferLoop(g, Live(g), {n \in Live(g) : g[n].fix})

\* updateHeadTail, then the width of the node for every tree of it.
CountLow(g) ==
  EachLive(g, LAMBDA n : MapTrees(g, n, LAMBDA t :
    HeadTail(IF t.op = "reset" THEN InferWidth(g, t) ELSE t)))
FitNodes(g) == EachLive(g, LAMBDA n : MapTrees(g, n, LAMBDA t : FitTree(g, t, g[n].w)))

inferAllWidth(g) == FitNodes(CountLow(inferTypes(g)))

(***************************************************************************)
(* usedBits: a stack of nodes whose readers changed.  used[n] is the       *)
(* number of bits of n that are read, -1 at first.                         *)
(***************************************************************************)
Fewest(g, n, u, used) == Smaller(g[n].w, Larger(u, used))

\* ENode::passWidthToChild at a leaf that reads u bits of n; a register shares them.
PassLeaf(g, x, r) ==
  LET n == r.n
      now == Fewest(g, n, r.u, x.used[n])
      d == g[n].pair
      grew == IF r.u > x.used[n] THEN <<n>> ELSE <<>>
  IN IF g[n].ty = "src" /\ x.used[d] # now
     THEN [used |-> [x.used EXCEPT ![n] = now, ![d] = now], stack |-> x.stack \o grew \o <<d>>]
     ELSE [used |-> [x.used EXCEPT ![n] = now], stack |-> x.stack \o grew]

\* Node::passWidthToPrev.
PassWidth(g, x, n) ==
  LET trees == (IF g[n].rt = Null THEN <<>> ELSE <<g[n].rt>>) \o g[n].t
      refs == FlattenSeq([i \in DOMAIN trees |-> UsedRefs(trees[i], x.used[n])])
  IN FoldLeft(LAMBDA y, r : PassLeaf(g, y, r), x, refs)

RECURSIVE UsedLoop(_, _, _)
UsedLoop(g, x, visited) ==
  IF x.stack = <<>> THEN [n \in visited |-> x.used[n]]
  ELSE LET top == Last(x.stack)
       IN UsedLoop(g, PassWidth(g, [x EXCEPT !.stack = Front(@)], top), visited \cup {top})

\* The sinks are the registers and the outputs.
usedBits(g) ==
  LET kind(ty) == InOrder({n \in Live(g) : g[n].ty = ty})
      sinks == kind("dst") \o kind("out")
      start == [used |-> [n \in DOMAIN g |-> IF n \in Range(sinks) THEN g[n].w ELSE -1], stack |-> sinks]
      cut(used) ==
        [n \in DOMAIN g |->
           IF n \in DOMAIN used
           THEN [MapTrees(g, n, LAMBDA t : CutToUsed(t, used[n])) EXCEPT !.w = used[n]]
           ELSE g[n]]
  IN FitNodes(cut(UsedLoop(g, start, {})))

(***************************************************************************)
(* exprOpt, removeDeadNodes                                                *)
(***************************************************************************)
exprOpt(g) ==
  EachLive(g, LAMBDA n :
    IF g[n].w = 0 THEN [g[n] EXCEPT !.t = <<IntENode(0, 0, FALSE)>>]
    ELSE MapTrees(g, n, TreeOpt))

RECURSIVE ReachBack(_, _, _)
ReachBack(g, todo, seen) ==
  IF todo = {} THEN seen
  ELSE LET from(n) == Prev(g, n) \cup (IF g[n].ty = "src" THEN {g[n].pair} \cup RelyNodes(g[n].rt) ELSE {})
           new == (UNION {from(n) : n \in todo}) \ seen
       IN ReachBack(g, new, seen \cup new)

removeDeadNodes(g) ==
  LET outs == {n \in Live(g) : g[n].ty = "out"}
      reached == ReachBack(g, outs, outs)
  IN Drop(g, {n \in Live(g) : g[n].ty \notin {"inp", "out"} /\ n \notin reached}, "dead")

(***************************************************************************)
(* The passes after the constant analysis: aliasAnalysis, patternDetect    *)
(* and commonExpr remove nodes by rewriting the trees that read them, and  *)
(* when2mux turns the whens of a super node that are not worth a branch    *)
(* into muxes.                                                             *)
(***************************************************************************)

(***************************************************************************)
(* aliasAnalysis                                                           *)
(***************************************************************************)
\* Node::isAlias.
IsAlias(g, n) ==
  /\ g[n].ty = "others" /\ Len(g[n].t) = 1
  /\ g[n].t[1].op = "node"
  /\ Cardinality(Prev(g, n)) = 1

\* ExpTree::replace: what stands for the alias keeps the width of the reference.
RECURSIVE ReplaceAlias(_, _)
ReplaceAlias(t, alias) ==
  IF t.op = "node" /\ t.n \in DOMAIN alias THEN [alias[t.n] EXCEPT !.w = t.w]
  ELSE [t EXCEPT !.k = [i \in DOMAIN @ |-> ReplaceAlias(@[i], alias)]]

\* An alias of an alias stands for what that one stands for.
aliasAnalysis(g) ==
  LET target(alias, t) == IF t.n \in DOMAIN alias THEN alias[t.n] ELSE t
      alias == FoldLeft(LAMBDA a, n : a @@ (n :> target(a, g[n].t[1])), <<>>,
                        InOrder({n \in Live(g) : IsAlias(g, n)}))
      left == Drop(g, DOMAIN alias, "dead")
  IN EachLive(left, LAMBDA n : MapTrees(left, n, LAMBDA t : ReplaceAlias(t, alias)))

(***************************************************************************)
(* patternDetect                                                           *)
(***************************************************************************)
Eq(a, c, w) == ENode("eq", 1, FALSE, <<>>, <<a, IntENode(c, w, FALSE)>>)
OneTree(g, n) == g[n].ty = "others" /\ Len(g[n].t) = 1

\* checkPattern1: the bits of a one-hot value are comparisons of the shift amount.
IsDshlOne(t) == t.op = "dshl" /\ t.k[1].op = "int" /\ t.k[1].c = 1 /\ t.k[2].op = "node"
IsBitsOne(g, m) ==
  Len(g[m].t) = 1 /\ g[m].t[1].op = "bits" /\ g[m].t[1].v[1] = g[m].t[1].v[2]
Pattern1(g, n, nexts) ==
  IF ~OneTree(g, n) \/ ~IsDshlOne(g[n].t[1]) THEN g
  ELSE LET shift == g[n].t[1].k[2]
           hot == {m \in nexts : IsBitsOne(g, m)}
           tests == [m \in DOMAIN g |-> IF m \in hot
                       THEN [g[m] EXCEPT !.t = <<Eq(shift, g[m].t[1].v[1], shift.w)>>] ELSE g[m]]
       IN IF hot = nexts THEN Drop(tests, {n}, "dead") ELSE tests

BITS_mpz(c, high, low) == (c \div 2^low) % 2^(high - low + 1)
Skip(t, op) == IF t.op = op THEN t.k[1] ELSE t
SplitTest(t, l, high, r) ==
  [t EXCEPT !.op = "and",
            !.k = <<Eq(l, high, l.w), Eq(r, BITS_mpz(t.k[2].c, r.w - 1, 0), r.w)>>]

\* checkPattern2: a concatenation compared with a constant, or a shifted value or'ed
\* with another, is compared part by part.
Pattern2(g, n) ==
  LET t == g[n].t[1]
      joined == t.k[1]
      l == Skip(joined.k[1], "shl")
      r == Skip(joined.k[2], "pad")
      split(high) == [g EXCEPT ![n].t = <<SplitTest(t, l, high, r)>>]
  IN CASE ~OneTree(g, n) -> g
       [] OneTree(g, n) /\ (t.op # "eq" \/ t.k[2].op # "int") -> g
       [] OTHER ->
            CASE joined.op = "cat" -> split(BITS_mpz(t.k[2].c, l.w + r.w, r.w + 1))
              [] joined.op = "or" /\ joined.k[1].op = "shl" ->
                   split(BITS_mpz(t.k[2].c, joined.k[1].w - 1, joined.k[1].v[1]))
              [] OTHER -> g

patternDetect(g) ==
  FoldLeft(LAMBDA h, n : Pattern1(Pattern2(h, n), n, NextNodes(g, n)), g, InOrder(Live(g)))

(***************************************************************************)
(* commonExpr.  The hash of a node only groups the candidates: nodes that  *)
(* are equal have equal hashes.                                            *)
(***************************************************************************)
RECURSIVE Canon(_, _)
Canon(t, real) ==
  [t EXCEPT !.n = IF t.op = "node" THEN real[t.n] ELSE 0,
            !.k = [i \in DOMAIN @ |-> Canon(@[i], real)]]

\* checkNodeEq.
SameTrees(g, real, m, n) ==
  /\ Len(g[m].t) = Len(g[n].t)
  /\ \A i \in DOMAIN g[n].t : Canon(g[m].t[i], real) = Canon(g[n].t[i], real)

\* realValue: the first node that has the same trees.
RealValues(g) ==
  LET candidate(n) == g[n].ty = "others" /\ Prev(g, n) # {}
      first(real, n) ==
        {m \in Live(g) : m < n /\ candidate(m) /\ real[m] = m /\ SameTrees(g, real, m, n)}
  IN FoldLeft(LAMBDA real, n :
                [real EXCEPT ![n] = IF candidate(n) /\ first(real, n) # {} THEN Min(first(real, n)) ELSE n],
              [n \in DOMAIN g |-> n], InOrder(Live(g)))

RECURSIVE Renamed(_, _)
Renamed(t, to) ==
  [t EXCEPT !.n = IF t.op = "node" THEN to[t.n] ELSE @, !.k = [i \in DOMAIN @ |-> Renamed(@[i], to)]]

commonExpr(g) ==
  LET real == RealValues(g)
      copies(u) == {n \in Live(g) : real[n] = u}
      merged(u) == \/ Cardinality(copies(u)) >= MaxCommonNext \/ g[u].w > BasicWidth
                   \/ \E n \in copies(u) : Cardinality(NextNodes(g, n)) > 1
      to == [n \in DOMAIN g |-> IF n \in Live(g) /\ merged(real[n]) THEN real[n] ELSE n]
      left == Drop(g, {n \in Live(g) : to[n] # n}, "dead")
  IN EachLive(left, LAMBDA n : MapTrees(left, n, LAMBDA t : Renamed(t, to)))

(***************************************************************************)
(* when2mux                                                                *)
(***************************************************************************)
\* How often the whens of a tree branch on each node.
RECURSIVE WhenConds(_)
WhenConds(t) ==
  IF t.op # "when" THEN <<>> ELSE <<t.k[1].n>> \o WhenConds(t.k[2]) \o WhenConds(t.k[3])

RECURSIVE ToMux(_, _)
ToMux(t, rare) ==
  IF t.op # "when" THEN t
  ELSE LET k == <<t.k[1], ToMux(t.k[2], rare), ToMux(t.k[3], rare)>>
           plain(a) == a.op \notin {"null", "when", "invalid"}
       IN [t EXCEPT !.k = k, !.op = IF t.k[1].n \in rare /\ plain(k[2]) /\ plain(k[3]) THEN "mux" ELSE "when"]

when2mux(g, members) ==
  LET trees == FlattenSeq([i \in DOMAIN members |-> g[members[i]].t])
      conds == FlattenSeq([i \in DOMAIN trees |-> WhenConds(trees[i])])
      times(n) == Cardinality({i \in DOMAIN conds : conds[i] = n})
      rare == {n \in Range(conds) : times(n) <= When2muxBound}
  IN [n \in DOMAIN g |-> IF n \in Range(members)
        THEN [g[n] EXCEPT !.t = [i \in DOMAIN @ |-> ToMux(@[i], rare)]] ELSE g[n]]
=============================================================================
