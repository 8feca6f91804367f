------------------------------ MODULE SparseStep ----------------------------
(***************************************************************************)
(* The sparse serial step(): subStepN scans the activeFlags word by word   *)
(* and evaluates the supernodes whose bit is set; a node that changes sets *)
(* the bits of the supernodes that read it.  Beside it the step that       *)
(* evaluates everything, as the bodies of the dense executor do, on the    *)
(* same circuit and the same inputs.                                       *)
(*                                                                         *)
(* A circuit is a list of nodes in evaluation order, cut into supernodes.  *)
(* Values are bits.  A register is a node pair: "src", which readers see   *)
(* and which takes the value of "dst", and "dst", its next value.          *)
(***************************************************************************)
EXTENDS Integers, FiniteSets, FiniteSetsExt, Folds

CONSTANTS Circuits,     \* [kind, reads, pair, super, hasReset, resetNode]
          ActiveWidth,  \* ACTIVE_WIDTH: bits of a word of activeFlags
          ResetFanout   \* readers above which a reset activates all; 100 in the code

Idle == -1
In == 0           \* a data input
Reset == -1       \* the reset input
Inputs == {In, Reset}

\* What the passes before hand over: nodes in evaluation order, which read inputs
\* and earlier nodes and never the next value of a register; a register is two
\* nodes, the src before the dst, which the reset treats alike; the supernodes are
\* runs of nodes, numbered in their order.
CircuitOK(c) ==
  LET nodes == DOMAIN c.kind
      supers == {c.super[n] : n \in nodes}
  IN  /\ IsFiniteSet(nodes) /\ nodes # {} /\ nodes = 1..Cardinality(nodes)
      /\ c.reads \in [nodes -> SUBSET (nodes \cup Inputs)]
      /\ \A n \in nodes : \A m \in c.reads[n] \cap nodes : m < n /\ c.kind[m] # "dst"
      /\ c.pair \in [nodes -> nodes]
      /\ \A n \in nodes : c.kind[n] = "src" =>
           n < c.pair[n] /\ c.kind[c.pair[n]] = "dst" /\ c.pair[c.pair[n]] = n
      /\ c.hasReset \in [nodes -> BOOLEAN]
      /\ \A n \in nodes : c.kind[n] = "src" => c.hasReset[n] = c.hasReset[c.pair[n]]
      /\ \A n \in nodes : c.hasReset[n] => c.kind[n] \in {"src", "dst"}
      /\ c.resetNode \in nodes \cup Inputs
      /\ c.super \in [nodes -> Nat]
      /\ supers = 0..(Cardinality(supers) - 1)
      /\ \A n, m \in nodes : n <= m => c.super[n] <= c.super[m]

ASSUME SparseAssumption ==
  /\ ActiveWidth \in Nat \ {0} /\ ResetFanout \in Nat
  /\ \A c \in Circuits : CircuitOK(c)

VARIABLES
  circuit,
  val,      \* of every node and input
  copy,     \* the $RESET copy of a reset node that is a register
  flags,    \* activeFlags: the cppIds whose bit is set
  local,    \* oldFlag
  scan,     \* the cppId the scan is at; Idle outside step()
  entered,  \* the word of scan has been entered
  parity,   \* cycles, modulo 2
  dense     \* val and copy of the model that evaluates everything

vars == <<circuit, val, copy, flags, local, scan, entered, parity, dense>>

Nodes == DOMAIN circuit.kind
Supers == {circuit.super[n] : n \in Nodes}
Members(s) == {n \in Nodes : circuit.super[n] = s}

\* Node::next of a node or an input.  A src takes its dst without an edge.
NextNodes(n) == {m \in Nodes : circuit.kind[m] # "src" /\ n \in circuit.reads[m]}
ReaderSupers(n) == {circuit.super[m] : m \in NextNodes(n)}

\* alwaysActive: the external modules.
AlwaysActive == {s \in Supers : \E n \in Members(s) : circuit.kind[n] = "ext"}

\* Node::updateActivate.  Readers in the same supernode come later in it.
NextActiveId(n) ==
  (ReaderSupers(n) \ {circuit.super[n]})
    \cup (IF circuit.kind[n] = "dst" THEN {circuit.super[circuit.pair[n]]} ELSE {})

-----------------------------------------------------------------------------
(* Evaluation.  An external module has state of its own: its result depends
   on how often it was called. *)

ValueOf(v, n) ==
  LET ones == Cardinality({r \in circuit.reads[n] : v[r] = 1})
  IN  CASE circuit.kind[n] = "src" -> v[circuit.pair[n]]
        [] circuit.kind[n] = "and" -> IF ones = Cardinality(circuit.reads[n]) THEN 1 ELSE 0
        [] circuit.kind[n] = "ext" -> (ones + parity) % 2
        [] OTHER -> ones % 2

\* The nodes from..to in order: genSuperEval of one supernode or of all.
EvalNodes(v, from, to) ==
  LET after[n \in (from - 1)..to] ==
        IF n < from THEN v ELSE [after[n - 1] EXCEPT ![n] = ValueOf(after[n - 1], n)]
  IN  after[to]

EvalSuper(v, s) == EvalNodes(v, Min(Members(s)), Max(Members(s)))

\* The reset condition as resetAll sees it.
ResetOn(v, c) ==
  1 = IF circuit.resetNode \in Nodes /\ circuit.kind[circuit.resetNode] = "src"
      THEN c ELSE v[circuit.resetNode]

\* The body of subResetN: both halves of a register take the reset value, 0.
ResetRegs(v) ==
  [n \in DOMAIN v |-> IF n \in Nodes /\ circuit.hasReset[n] THEN 0 ELSE v[n]]

\* resetAll, then the copy of the reset register.
AfterReset(v, c) ==
  LET w == IF ResetOn(v, c) THEN ResetRegs(v) ELSE v
  IN  [val |-> w, copy |-> w[circuit.resetNode]]

\* stepDense: everything is evaluated.
DenseStep(d) ==
  LET r == AfterReset(d.val, d.copy)
  IN  [r EXCEPT !.val = EvalNodes(@, 1, Cardinality(Nodes))]

-----------------------------------------------------------------------------
(* The flags *)

WordOf(s) == s \div ActiveWidth
WordIds(w) == {s \in Supers : WordOf(s) = w}

\* prevActiveWhole: the word has no always active supernode.  Only then it is
\* taken into oldFlag and cleared; otherwise its bits stay set.
Whole(w) == WordIds(w) \cap AlwaysActive = {}

\* Mutant: bits of the own word all go to the copy that is scanned.
InOldFlagAny(cur, s) == WordOf(s) = WordOf(cur)

\* activeSet2bitMap: a later bit of the own word goes to flagName.
InOldFlag(cur, s) == s > cur /\ WordOf(s) = WordOf(cur)

\* The readers of the registers of the reset, or all.
ResetActivates ==
  LET allNext == UNION {ReaderSupers(n) : n \in {m \in Nodes : circuit.kind[m] = "src" /\ circuit.hasReset[m]}}
  IN  IF Cardinality(allNext) > ResetFanout THEN Supers ELSE allNext \ AlwaysActive

-----------------------------------------------------------------------------
(* Actions *)

\* init() activates all.  Variables begin at 0 or, with RANDOMIZE_INIT, anywhere:
\* here all at one bit, which the register and the reset condition show.
Init ==
  /\ circuit \in Circuits
  /\ copy \in 0..1
  /\ val = [n \in Nodes \cup Inputs |-> IF n \in Nodes THEN copy ELSE 0]
  /\ flags = Supers
  /\ local = {}
  /\ scan = Idle
  /\ entered = FALSE
  /\ parity = 0
  /\ dense = [val |-> val, copy |-> copy]

\* set_<input>
SetInput(i, b) ==
  /\ scan = Idle /\ val[i] # b
  /\ val' = [val EXCEPT ![i] = b]
  /\ flags' = flags \cup (ReaderSupers(i) \ AlwaysActive)
  /\ dense' = [dense EXCEPT !.val[i] = b]
  /\ UNCHANGED <<circuit, copy, local, scan, entered, parity>>

BeginStep ==
  /\ scan = Idle
  /\ scan' = 0
  /\ entered' = FALSE
  /\ LET r == AfterReset(val, copy)
     IN  val' = r.val /\ copy' = r.copy
  /\ flags' = flags \cup (IF ResetOn(val, copy) THEN ResetActivates ELSE {})
  /\ UNCHANGED <<circuit, local, parity, dense>>

\* The head of a word: leave it out, or take it and clear it.
EnterWord ==
  /\ scan \in Supers /\ ~entered
  /\ LET w == WordOf(scan)
     IN  IF Whole(w) /\ flags \cap WordIds(w) = {}
         THEN scan' = (w + 1) * ActiveWidth /\ UNCHANGED <<flags, local, entered>>
         ELSE /\ entered' = TRUE
              /\ local' = IF Whole(w) THEN flags \cap WordIds(w) ELSE {}
              /\ flags' = IF Whole(w) THEN flags \ WordIds(w) ELSE flags
              /\ UNCHANGED scan
  /\ UNCHANGED <<circuit, val, copy, parity, dense>>

IsActive(s) == s \in AlwaysActive \cup (IF Whole(WordOf(s)) THEN local ELSE flags)

\* Evaluate the supernode if its bit is set, and activate for every node whose
\* value has changed.
Visit ==
  /\ scan \in Supers /\ entered
  /\ IF IsActive(scan)
     THEN /\ val' = EvalSuper(val, scan)
          /\ LET changed == {n \in Members(scan) : val'[n] # val[n]}
                 ids == (UNION {NextActiveId(n) : n \in changed}) \ AlwaysActive
                 own == {s \in ids : Whole(WordOf(scan)) /\ InOldFlag(scan, s)}
             IN  local' = local \cup own /\ flags' = flags \cup (ids \ own)
     ELSE UNCHANGED <<val, flags, local>>
  /\ scan' = scan + 1
  /\ entered' = (WordOf(scan + 1) = WordOf(scan))
  /\ UNCHANGED <<circuit, copy, parity, dense>>

EndStep ==
  /\ scan >= Cardinality(Supers)
  /\ scan' = Idle
  /\ local' = {}
  /\ entered' = FALSE
  /\ parity' = 1 - parity
  /\ dense' = DenseStep(dense)
  /\ UNCHANGED <<circuit, val, copy, flags>>

Next == BeginStep \/ EnterWord \/ Visit \/ EndStep \/ \E i \in Inputs, b \in 0..1 : SetInput(i, b)

Spec == Init /\ [][Next]_vars

-----------------------------------------------------------------------------
(* Properties *)

\* Between steps every node of the model run by the sparse step has the value it
\* has in the model that evaluates everything: the flags never leave out a
\* supernode that would have computed something else.
SparseExact == scan = Idle => val = dense.val

\* "The dense-only model keeps the dense path and the serial-fast fallback
\* bit-exact" (README.md:98): between steps whatever another node or a caller can
\* read, the next values of registers left out, is the same in both.
ReadableExact ==
  scan = Idle =>
    \A n \in Nodes : circuit.kind[n] # "dst" => val[n] = dense.val[n]
=============================================================================
