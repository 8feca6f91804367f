------------------------------- MODULE Compile -------------------------------
(***************************************************************************)
(* gsim on one circuit, from the statements of its module to the emitted   *)
(* step function, and the emitted program beside the circuit it was made   *)
(* from.  The passes run in the order of main(); detectLoop, topoSort and  *)
(* graphPartition are given their results: the nodes are numbered in       *)
(* dependency order, and a circuit says whether every node is a super node *)
(* of its own or all of them are one.                                      *)
(***************************************************************************)
EXTENDS ConstantAnalysis, StmtTree, WhenTrace, Insts, Firrtl

CONSTANT Circuits   \* [nodes, blocks, solo, inputs, cycles]: what is compiled, and run for so many cycles

VARIABLES circ,   \* the circuit
          pc,     \* position in the pass order
          todo,   \* blocks of statements not yet visited
          g,      \* the graph
          wide,   \* the nodes with their inferred widths, before any pass cuts them
          cons,   \* what the constant analysis knows
          queue,  \* nodes it has to compute
          visits, \* how often it has computed each node
          code,   \* the emitted statements: of the resets, then of every super node
          store,  \* the emitted program's variables
          env,    \* the node values of the circuit itself
          cycle   \* cycles run
vars == <<circ, pc, todo, g, wide, cons, queue, visits, code, store, env, cycle>>

PassOrder == <<"ast", "infer", "dead", "opt", "used", "dead", "cons", "fold", "dead", "alias",
               "pattern", "common", "dead", "when2mux", "insts", "run">>
AtPass(pass) == PassOrder[pc] = pass

\* The connects of the circuit, with the types the inference gave their operands.
Connects ==
  LET all == FlattenSeq(circ.blocks)
      outer(c) == SubSeq(c.tr, circ.nodes[c.n].depth + 1, Len(c.tr))
  IN [i \in DOMAIN all |->
        [n |-> all[i].n, tr |-> outer(all[i]), e |-> InferWidth(wide, all[i].e)]]
Typed0 == [n \in DOMAIN wide |-> [wide[n] EXCEPT !.rt = circ.nodes[n].rt]]

\* The nodes that registers are reset by.  One that resets asynchronously is a super node
\* of its own, also where everything before it and everything behind it is one.
ResetNodes(h, kind) ==
  UNION {RelyNodes(h[r].rt.k[1]) : r \in {n \in Live(h) : h[n].ty = "src" /\ h[n].rst = kind}}
Groups(h) ==
  LET live == InOrder(Live(h))
      alone == ResetNodes(h, "async")
      before(n) == Cardinality({r \in alone : r < n})
      part(i) == SelectSeq(live, LAMBDA n : n \notin alone /\ before(n) = i)
      last == InOrder(alone)
  IN IF circ.solo THEN [i \in DOMAIN live |-> <<live[i]>>]
     ELSE <<part(0)>> \o FlattenSeq([i \in DOMAIN last |-> <<<<last[i]>>, part(i)>>])

(***************************************************************************)
(* Emission and execution                                                  *)
(***************************************************************************)
\* Node::updateIsRoot.
IsRoot(h) ==
  [n \in DOMAIN h |->
     \/ circ.solo /\ NextNodes(h, n) # {}
     \/ Cardinality(NextNodes(h, n)) # 1
     \/ n \in ResetNodes(h, "uint") \cup ResetNodes(h, "async")]

\* StmtNode::compute: an invalid value is not assigned.
IfInst(cond, yes, no) == <<[ty |-> "if", st |-> cond.st, c |-> cond.val, yes |-> yes, no |-> no]>>
SetInst(n, info) ==
  IF info.st = "invalid" THEN <<>> ELSE <<[ty |-> "set", st |-> info.st, n |-> n, val |-> info.val]>>

RECURSIVE Emit(_, _, _)
Emit(h, root, s) ==
  CASE s.ty = "seq" -> FlattenSeq([i \in DOMAIN s.k |-> Emit(h, root, s.k[i])])
    [] s.ty = "when" ->
         IfInst(Compute(h, root, s.c), Emit(h, root, s.k[1]), Emit(h, root, s.k[2]))
    [] OTHER -> SetInst(s.n, Compute(h, root, s.e))

RECURSIVE EmitAborts(_)
EmitAborts(insts) ==
  \E i \in DOMAIN insts :
    \/ insts[i].st = "abort"
    \/ insts[i].ty = "if" /\ (EmitAborts(insts[i].yes) \/ EmitAborts(insts[i].no))

\* A variable has the unsigned type of its node's width.
Assign(h, mem, n, x) == [mem EXCEPT ![n] = [Typed(x.v, WidthBits(h[n].w), FALSE) EXCEPT !.ub = x.ub]]

RECURSIVE Exec(_, _, _)
Exec(h, mem, insts) ==
  IF insts = <<>> THEN mem
  ELSE LET i == insts[1]
           after(x) == IF i.ty = "set" THEN Assign(h, mem, i.n, x)
                       ELSE Exec(h, mem, IF x.v # 0 THEN i.yes ELSE i.no)
       IN Exec(h, after(Eval(IF i.ty = "if" THEN i.c ELSE i.val, mem)), Tail(insts))

\* set_<input> stores what it is given; a caller gives it the bits that are used.
SetInputs(h, mem, inputs) ==
  [n \in DOMAIN mem |->
     IF h[n].ty = "inp" THEN Typed(Low(inputs[n], h[n].w), WidthBits(h[n].w), FALSE) ELSE mem[n]]

(***************************************************************************)
(* The compiler                                                            *)
(***************************************************************************)
Init ==
  /\ circ \in Circuits
  /\ pc = 1 /\ todo = circ.blocks /\ g = circ.nodes /\ wide = circ.nodes
  /\ cons = InitCons(circ.nodes) /\ queue = {} /\ visits = [n \in DOMAIN circ.nodes |-> 0]
  /\ code = <<>> /\ store = <<>> /\ cycle = 0
  /\ env = [n \in DOMAIN circ.nodes |-> Undef]

\* A reset whose kind is not clear, or a tree the constant analysis cannot handle, stops the
\* generator.
Stuck == \E n \in DOMAIN g : g[n].rst = "abort" \/ cons.i[n].st = "abort"

VisitStmt ==
  /\ AtPass("ast") /\ todo # <<>>
  /\ g' = visitStmt(g, Head(todo))
  /\ todo' = Tail(todo)
  /\ UNCHANGED <<circ, pc, wide, cons, queue, visits, code, store, env, cycle>>

FinishAST ==
  /\ AtPass("ast") /\ todo = <<>>
  /\ g' = finishAST(g) /\ pc' = pc + 1
  /\ UNCHANGED <<circ, todo, wide, cons, queue, visits, code, store, env, cycle>>

InferAllWidth ==
  /\ AtPass("infer") /\ ~Stuck
  /\ g' = inferAllWidth(g) /\ wide' = inferTypes(g) /\ pc' = pc + 1
  /\ UNCHANGED <<circ, todo, cons, queue, visits, code, store, env, cycle>>

\* The passes that only rewrite the graph.
Rewrite(pass, h) ==
  /\ AtPass(pass)
  /\ g' = h /\ pc' = pc + 1
  /\ UNCHANGED <<circ, todo, wide, cons, queue, visits, code, store, env, cycle>>
RemoveDeadNodes == Rewrite("dead", removeDeadNodes(g))
ExprOpt == Rewrite("opt", exprOpt(g))
UsedBits == Rewrite("used", usedBits(g))
AliasAnalysis == Rewrite("alias", aliasAnalysis(g))
PatternDetect == Rewrite("pattern", patternDetect(g))
CommonExpr == Rewrite("common", commonExpr(g))
When2mux ==
  Rewrite("when2mux", FoldLeft(LAMBDA h, members : when2mux(h, members), g, Groups(g)))

StartConstants ==
  /\ AtPass("cons")
  /\ cons' = InitCons(g) /\ queue' = Live(g) /\ pc' = pc + 1
  /\ UNCHANGED <<circ, todo, g, wide, visits, code, store, env, cycle>>

\* recomputeAllNodes: one node at a time.
ComputeNode ==
  /\ AtPass("fold") /\ queue # {}
  /\ \E n \in NextUp(g, queue) :
       /\ cons' = computeConstant(g, cons, n)
       /\ queue' = (queue \ {n}) \cup Readers(g, cons, cons', n)
       /\ visits' = [visits EXCEPT ![n] = @ + 1]
  /\ UNCHANGED <<circ, pc, todo, g, wide, code, store, env, cycle>>

FoldConstants ==
  /\ AtPass("fold") /\ queue = {} /\ ~Stuck
  /\ g' = foldConstants(g, cons) /\ pc' = pc + 1
  /\ UNCHANGED <<circ, todo, wide, cons, queue, visits, code, store, env, cycle>>

\* generateStmtTree, instsGenerator and the step function: the synchronous resets, then the
\* super nodes.  One with an asynchronous reset node resets before and behind its statements.
InstsGenerator ==
  /\ AtPass("insts")
  /\ LET sync == InOrder(ResetNodes(g, "uint"))
         evalSuper(members) ==
           LET last == Last(members)
               reset == IF members # <<>> /\ last \in ResetNodes(g, "async")
                        THEN <<resetStmtTree(g, last, "async")>> ELSE <<>>
           IN reset \o <<superStmtTree(g, members)>> \o reset
         groups == Groups(g)
         emit(trees) == [i \in DOMAIN trees |-> Emit(g, IsRoot(g), trees[i])]
     IN code' = emit([i \in DOMAIN sync |-> resetStmtTree(g, sync[i], "uint")]
                     \o FlattenSeq([i \in DOMAIN groups |-> evalSuper(groups[i])]))
  /\ store' = [n \in Live(g) |-> Typed(0, WidthBits(g[n].w), FALSE)]
  /\ pc' = pc + 1
  /\ UNCHANGED <<circ, todo, g, wide, cons, queue, visits, env, cycle>>

Step ==
  /\ AtPass("run") /\ cycle < circ.cycles
  /\ \E inputs \in circ.inputs :
       /\ env' = Cycle(Typed0, Connects, env, inputs)
       /\ store' = FoldLeft(LAMBDA mem, insts : Exec(g, mem, insts), SetInputs(g, store, inputs), code)
  /\ cycle' = cycle + 1
  /\ UNCHANGED <<circ, pc, todo, g, wide, cons, queue, visits, code>>

\* The simulation ends; the compiler itself never stops half way.
Finished == AtPass("run") /\ cycle = circ.cycles /\ UNCHANGED vars

Next ==
  \/ VisitStmt \/ FinishAST \/ InferAllWidth \/ RemoveDeadNodes \/ ExprOpt \/ UsedBits
  \/ StartConstants \/ ComputeNode \/ FoldConstants \/ AliasAnalysis \/ PatternDetect
  \/ CommonExpr \/ When2mux \/ InstsGenerator \/ Step \/ Finished

Spec == Init /\ [][Next]_vars

(***************************************************************************)
(* Properties                                                              *)
(***************************************************************************)
\* After a call of step(), every variable of the emitted program holds the value the
\* circuit gives its node, in the bits that usedBits left, and no bits above them.  All
\* passes have to agree for this: the inferred widths, the cuts, the folded constants,
\* the merged nodes, the order of the statements and the C++ types of the instructions.
NodesExact ==
  cycle > 0 =>
    \A n \in DOMAIN store :
      env[n] # Undef =>
        /\ ~store[n].ub
        /\ Low(store[n].v, g[n].w) = Low(env[n], g[n].w)
        /\ ~g[n].s => store[n].v < 2^g[n].w

\* A node that constantAnalysis took out of the graph has its constant in every cycle of
\* the circuit, whatever the inputs and whenever a reset is up.
FoldedExact ==
  cycle > 0 =>
    \A n \in DOMAIN g :
      g[n].st = "const" /\ env[n] # Undef => Low(env[n], g[n].w) = Low(cons.i[n].c, g[n].w)

\* No assertion of the reset inference, the constant analysis or the instruction generation
\* fails.
NeverAborts == ~Stuck /\ \A i \in DOMAIN code : ~EmitAborts(code[i])

\* The constant analysis settles although registers feed back into it: a node is
\* computed again at most once for every register.
Settles == \A n \in DOMAIN g : visits[n] <= 1 + Cardinality({r \in DOMAIN g : g[r].ty = "src"})

\* "_T = Cat(lsignal, rsignal) == constant ; optimized: _T = (lsignal == constant1) & (rsignal
\* == constant2)" (checkPattern2): a node that compares a concatenation with a constant has
\* the value of that comparison, also where the test was split.
CatTestKept ==
  cycle > 0 =>
    \A i \in DOMAIN Connects :
      LET c == Connects[i]
      IN /\ c.e.op = "eq" /\ c.e.k[1].op = "cat"
         /\ c.n \in DOMAIN store /\ env[c.n] # Undef
         => store[c.n].v = env[c.n]
=============================================================================
