---------------------------- MODULE MCSparseStep ----------------------------
(* Circuits of NumNodes nodes: one register, conjunctions of one or two and
   external modules, at most two nodes in one supernode; and wider ones for the
   workers. *)
EXTENDS MtRunners

CONSTANT NumNodes

Index == 1..NumNodes
KindSeqs ==
  {k \in [Index -> {"src", "dst", "and", "ext"}] :
     \E s, d \in Index : /\ s < d /\ k[s] = "src" /\ k[d] = "dst"
                         /\ \A n \in Index \ {s, d} : k[n] \notin {"src", "dst"}}
SrcOf(k) == CHOOSE n \in Index : k[n] = "src"
DstOf(k) == CHOOSE n \in Index : k[n] = "dst"

\* What a node may read: the data input, and nodes before it that are no dst.
ReadsOf(k, n) ==
  IF k[n] = "src" THEN {{}}
  ELSE LET can == {In} \cup {m \in 1..(n - 1) : k[m] # "dst"}
       IN  {r \in SUBSET can : Cardinality(r) \in (IF k[n] = "and" THEN 1..2 ELSE {1})}

\* The choices of ReadsOf for the nodes 1..n.
ReadSeqs(k) ==
  LET upTo[n \in 0..NumNodes] ==
        IF n = 0 THEN {<<>>}
        ELSE {Append(f, r) : f \in upTo[n - 1], r \in ReadsOf(k, n)}
  IN  upTo[NumNodes]

\* Supernodes are runs of nodes; an external module is one of its own.
SuperSeqs(k) ==
  {s \in [Index -> 0..(NumNodes - 1)] :
     /\ s[1] = 0
     /\ \A n \in 2..NumNodes : s[n] - s[n - 1] \in 0..1
     /\ s[NumNodes] >= NumNodes - 2
     /\ \A n, m \in Index : n # m /\ k[n] = "ext" => s[n] # s[m]}

\* The resets: none, the input, a conjunction or the register itself.
ResetNodes(k) == {Reset} \cup {n \in Index : k[n] \in {"and", "src"}}

CircuitsOf(k) ==
  {[kind |-> k, reads |-> r, super |-> s, resetNode |-> z.node,
    pair |-> [n \in Index |-> IF n = SrcOf(k) THEN DstOf(k) ELSE SrcOf(k)],
    hasReset |-> [n \in Index |-> z.has /\ k[n] \in {"src", "dst"}]] :
     r \in ReadSeqs(k), s \in SuperSeqs(k),
     z \in {[has |-> FALSE, node |-> Reset]} \cup [has : {TRUE}, node : ResetNodes(k)]}

AllCircuits == UNION {CircuitsOf(k) : k \in KindSeqs}

\* The supernode of the dst reads the src, or the reset activates everything.
ResetSafe(c) ==
  \/ \A n \in Index : ~c.hasReset[n]
  \/ LET s == SrcOf(c.kind)
         readers == {c.super[m] : m \in {n \in Index : s \in c.reads[n]}}
     IN  c.super[c.pair[s]] \in readers \/ Cardinality(readers) > ResetFanout

\* Nine supernodes, so that regions have up to three words, and the reads of each:
\* layers of several tasks, edges in a word, between words and against the order.
WideCircuit(k, r) ==
  [kind |-> k, reads |-> r, super |-> [n \in 1..9 |-> n - 1], resetNode |-> Reset,
   pair |-> [n \in 1..9 |-> IF k[n] = "src" THEN CHOOSE d \in 1..9 : k[d] = "dst"
                            ELSE CHOOSE s \in 1..9 : k[s] = "src"],
   hasReset |-> [n \in 1..9 |-> FALSE]]

WideCircuits ==
  {WideCircuit(<<"src", "and", "and", "and", "and", "and", "and", "and", "dst">>,
               <<{}, {1}, a, b, {In}, c, {3}, d, {In}>>) :
     a \in {{In}, {2}}, b \in {{1}, {1, 3}}, c \in {{4, 5}}, d \in {{5}, {2, 7}}}
  \cup
  {WideCircuit(<<"and", "and", "and", "and", "and", "and", "and", "src", "dst">>,
               <<{In}, {In}, a, b, {2}, c, {4, 6}, {}, d>>) :
     a \in {{1}, {In}}, b \in {{In}, {2, 3}}, c \in {{3}, {4}}, d \in {{7}}}
  \cup
  {WideCircuit(<<"src", "ext", "and", "and", "and", "and", "and", "dst", "and">>,
               <<{}, {1}, {1}, a, b, c, {3}, d, {2, 5}>>) :
     a \in {{1}, {2}}, b \in {{3}}, c \in {{4}, {In}}, d \in {{3}, {7}}}

SerialMode == [mode |-> "serial", level |-> FALSE, runtime |-> "layered", inline |-> 0, minBatch |-> 2]

MtModes ==
  [mode : {"legacy", "active-frequency"}, level : {FALSE}, runtime : {"layered"}, inline : {0}, minBatch : {2}]
  \cup [mode : {"legacy"}, level : {FALSE}, runtime : {"layered"}, inline : {0}, minBatch : {3}]
  \cup [mode : {"coarse"}, level : {TRUE}, runtime : {"layered", "range", "list", "dstatic"},
        inline : {0}, minBatch : {2}]
  \cup [mode : {"coarse"}, level : {FALSE}, runtime : {"layered", "list"}, inline : {0}, minBatch : {2}]
  \cup [mode : {"coarse"}, level : BOOLEAN, runtime : {"list"}, inline : {6}, minBatch : {2}]

\* Small circuits are run serially, wide ones by the workers.
MCConfigs(c) == IF DOMAIN c.kind = Index THEN {SerialMode} ELSE MtModes

\* The passing run, and the one that shows what a reset leaves behind.
MCCircuits == {c \in AllCircuits : ResetSafe(c)} \cup WideCircuits
AnyCircuits == AllCircuits
=============================================================================
