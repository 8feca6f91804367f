------------------------------ MODULE Partition ------------------------------
(* Two runs of the generator over the partitioning passes of main(): the first *)
(* records its ordering decisions in a schedule seed, the second reads the     *)
(* seed and replays them (GSIM_SCHEDULE_SEED2_WRITE then GSIM_SCHEDULE_SEED2,  *)
(* or the text format's GSIM_SCHEDULE_SEED_WRITE then GSIM_SCHEDULE_SEED).     *)
(*                                                                           *)
(* A configuration cf gives the circuit of each run, the environment variables *)
(* that matter, what happens to the file in between and the addresses the      *)
(* allocator hands out. One action is one pass, with its pin.                  *)
EXTENDS PartitionPasses, Seed2

CONSTANT Configs

VARIABLES
    cf,       \* the configuration of the two runs
    run,      \* "record" or "replay"
    pc,       \* the next pass
    g,        \* the graph
    w,        \* Seed2Writer
    file,     \* the seed between the runs
    r,        \* Seed2Reader
    first,    \* the graph the recording run ended with
    topo      \* the order topoSort left in each run

vars == <<cf, run, pc, g, w, file, r, first, topo>>

Input == IF run = "record" THEN cf.circuit ELSE cf.again

(* Node::constructSuperNode and constructSuperConnect, one super node per node *)
(* in creation order; sortedSuper is still empty.                             *)
AST2Graph(c) ==
    LET ids == 1..c.n
        zero == [s \in ids |-> 0]
        none == [s \in ids |-> {}]
    IN [ReconnectSuper(
           [sorted |-> [i \in ids |-> i], mem |-> [s \in ids |-> <<s>>],
            prev |-> none, next |-> none, depPrev |-> none, depNext |-> none, order |-> zero,
            type |-> [s \in ids |-> IF s \in c.ext THEN "ext" ELSE "valid"],
            data |-> c.data, dep |-> c.dep]) EXCEPT !.sorted = <<>>]

(* supersrc: the super nodes without a predecessor, by id.                    *)
SuperSrc(h) == SetToSortSeq({s \in DOMAIN h.mem : h.prev[s] = {}}, <)

Policy ==
    IF run = "record" THEN [kind |-> cf.recordOrder, line |-> cf.line]
    ELSE IF cf.format = "text" THEN [kind |-> "rank", line |-> cf.line, rank |-> file.rank]
    ELSE [kind |-> cf.replayOrder, line |-> cf.line]

Writes == run = "record" /\ cf.format = "seed2"

Replays == run = "replay" /\ cf.format = "seed2"

Init ==
    /\ cf \in Configs
    /\ run = "record" /\ pc = "topoSort"
    /\ g = AST2Graph(cf.circuit)
    /\ w = EmptyWriter(0, cf.algo)
    /\ file = 0 /\ r = 0 /\ first = 0 /\ topo = [record |-> <<>>, replay |-> <<>>]

-----------------------------------------------------------------------------
Aborted(from) == pc = from /\ pc' = "aborted" /\ UNCHANGED <<cf, run, g, w, file, r, first, topo>>

(* A pass that ends in graph h: the pin records it, or checks it and forces    *)
(* the recorded order; orderAllNodes runs only on the replaying side.         *)
PinnedAs(h, tag, next) ==
    IF Replays /\ ~PointAccepted(r, tag, h, cf.verify)
    THEN pc' = "aborted" /\ UNCHANGED <<g, w, r>>
    ELSE /\ pc' = next
         /\ g' = IF Replays THEN OrderAllNodes([h EXCEPT !.sorted = ForcedOrder(r, h)]) ELSE h
         /\ w' = IF Writes THEN RecordPoint(w, tag, h) ELSE w
         /\ r' = IF Replays THEN [r EXCEPT !.cursor = @ + 1] ELSE r

(* graph::topoSort. The input hash is taken before the sort, over a            *)
(* sortedSuper that is still empty.                                           *)
InputHash == CanonInputHash(g, IF Replays THEN r.points[1].algo ELSE IF cf.format = "seed2" THEN cf.algo ELSE 1)

SeedRejected ==
    run = "replay" /\ IF cf.format = "text" THEN ~TextSeedOk(file, InputHash)
                      ELSE r.hash # InputHash

TopoSort ==
    /\ pc = "topoSort" /\ ~SeedRejected
    /\ LET h == TopoOrder(g, Policy, SuperSrc(g))
           w0 == IF Writes THEN [w EXCEPT !.hash = InputHash] ELSE w
       IN IF Replays /\ ~PointAccepted(r, "pass.topoSort", h, cf.verify)
          THEN pc' = "aborted" /\ UNCHANGED <<g, w, r, topo, file>>
          ELSE /\ pc' = "removeDeadNodes"
               /\ g' = IF Replays THEN OrderAllNodes([h EXCEPT !.sorted = ForcedOrder(r, h)]) ELSE h
               /\ w' = IF Writes THEN RecordPoint(w0, "pass.topoSort", h) ELSE w
               /\ r' = IF Replays THEN [r EXCEPT !.cursor = @ + 1] ELSE r
               /\ file' = IF run = "record" /\ cf.format = "text" THEN TextSeed(h, InputHash) ELSE file
               /\ topo' = [topo EXCEPT ![run] = g'.sorted]
    /\ UNCHANGED <<cf, run, first>>

TopoSortRejects == Aborted("topoSort") /\ SeedRejected

(* graph::removeDeadNodes takes the nodes nothing observes out of the graph.   *)
RemoveDeadNodes ==
    /\ pc = "removeDeadNodes" /\ pc' = "mergeResetAll"
    /\ g' = OrderAllNodes(RemoveNodes(g, Input.dead))
    /\ UNCHANGED <<cf, run, w, file, r, first, topo>>

CoarsenResets ==
    /\ pc = "mergeResetAll" /\ pc' = "mergeWhenNodes"
    /\ g' = MergeResetAll(g, {x \in Input.resets : x.sig \in LiveNodes(g)})
    /\ UNCHANGED <<cf, run, w, file, r, first, topo>>

(* graph::mergeWhenNodes decides its groups, or takes the recorded ones. Its   *)
(* call of detectSortedSuperLoop has no effect: every super node is marked     *)
(* before the walk begins, so the walk expands one at a time and meets no      *)
(* other expanded one.                                                        *)
CoarsenWhens ==
    /\ pc = "mergeWhenNodes"
    /\ IF Replays /\ ~GroupsFound(r, g) THEN pc' = "aborted" /\ UNCHANGED <<g, w>>
       ELSE LET groups == IF Replays THEN ReplayGroups(r, g)
                          ELSE [i \in DOMAIN WhenGroups(g, Policy, Input.cond) |->
                                   WhenGroups(g, Policy, Input.cond)[i].sources]
                h == MergeWhenNodes(g, groups)
            IN /\ pc' = "resortWhen"
               /\ g' = h
               /\ w' = IF Writes
                       THEN FoldLeft(LAMBDA v, x : RecordWhenGroup(v, g, x), w,
                                     WhenGroups(g, Policy, Input.cond))
                       ELSE w
    /\ UNCHANGED <<cf, run, file, r, first, topo>>

(* graph::resort asserts that it lost no super node.                          *)
Resort(from, tag, next) ==
    /\ pc = from
    /\ IF Len(ResortOrder(g, Policy).sorted) # Len(g.sorted) THEN pc' = "aborted" /\ UNCHANGED <<g, w, r>>
       ELSE PinnedAs(ResortOrder(g, Policy), tag, next)
    /\ UNCHANGED <<cf, run, file, first, topo>>

ResortWhen == Resort("resortWhen", "coarsen.when.resort", "mergeOut1")

Coarsen(from, h, tag, next) ==
    /\ pc = from /\ PinnedAs(h, tag, next)
    /\ UNCHANGED <<cf, run, file, first, topo>>

CoarsenOut1 == Coarsen("mergeOut1", MergeOut1(g), "coarsen.out1", "mergeIn1")

CoarsenIn1 == Coarsen("mergeIn1", MergeIn1(g), "coarsen.in1", "mergeSublings")

CoarsenSublings == Coarsen("mergeSublings", MergeSublings(g), "coarsen.sublings", "postCoarsen")

ResortCoarsened == Resort("postCoarsen", "partition.postCoarsen.resort", "initPartition")

GraphInitPartition ==
    Coarsen("initPartition", OrderAllNodes(InitPartition(g)), "partition.init", "replication")

Replication ==
    Coarsen("replication",
            ReplicationOpt(g, Input.ops, IF run = "record" THEN cf.addr ELSE cf.addrAgain),
            "pass.replication", "preEmit")

PreEmit ==
    /\ pc = "preEmit" /\ PinnedAs(g, "pass.preEmit", "emitted")
    /\ UNCHANGED <<cf, run, file, first, topo>>

-----------------------------------------------------------------------------
(* mtSeed2Finalize runs at exit; the machine may stop in the middle of it.    *)
(* The file is then left alone, re-framed, cut short or altered on disk.      *)
SavedFile ==
    CASE cf.fault.kind = "crash"    -> CrashedFinalize(w, cf.codec, cf.fault.at)
      [] cf.fault.kind = "truncate" ->
            LET f == Finalize(w, cf.codec)
            IN [f EXCEPT !.body = SubSeq(@, 1, Len(@) - cf.fault.at)]
      [] cf.fault.kind = "flip"     ->
            LET f == Finalize(w, cf.codec)
                flip(t) == CASE t.k = "u32" -> [t EXCEPT !.v = @ + 1]
                             [] t.k = "u8"  -> [t EXCEPT !.v = 3 - @]
                             [] OTHER       -> t
            IN [f EXCEPT !.body = [i \in DOMAIN @ |-> IF i = cf.fault.at THEN flip(@[i]) ELSE @[i]]]
      [] OTHER -> Finalize(w, cf.codec)

SecondRun(f) ==
    /\ run' = "replay" /\ first' = g /\ file' = f
    /\ g' = AST2Graph(cf.again)
    /\ UNCHANGED <<cf, w, topo>>

(* mtSeed2Load *)
LoadSeed2 ==
    /\ run = "record" /\ pc = "emitted" /\ cf.format = "seed2"
    /\ LET saved == SavedFile
           f == IF cf.transcode /\ TranscodeOk(saved) THEN Transcode(saved, "none") ELSE saved
           l == Load(f)
       IN /\ SecondRun(f)
          /\ r' = l
          /\ pc' = IF l.ok /\ (cf.transcode => TranscodeOk(saved)) THEN "topoSort" ELSE "rejected"

(* mtSeedLoad *)
LoadText ==
    /\ run = "record" /\ pc = "emitted" /\ cf.format = "text"
    /\ SecondRun(TextLoad(file, cf.fault.at)) /\ pc' = "topoSort" /\ UNCHANGED r

Finished ==
    /\ pc \in {"aborted", "rejected"} \/ (pc = "emitted" /\ run = "replay")
    /\ UNCHANGED vars

Next ==
    \/ TopoSort \/ TopoSortRejects \/ RemoveDeadNodes
    \/ CoarsenResets \/ CoarsenWhens \/ ResortWhen
    \/ CoarsenOut1 \/ CoarsenIn1 \/ CoarsenSublings \/ ResortCoarsened
    \/ GraphInitPartition \/ Replication \/ PreEmit
    \/ LoadSeed2 \/ LoadText \/ Finished

Spec == Init /\ [][Next]_vars

-----------------------------------------------------------------------------
(* The merges and the partition never put a node before one it depends on:     *)
(* emitted in member order, super node after super node, every dependence of   *)
(* the circuit points forward. The one exception is between mergeWhenNodes and *)
(* the resort that follows it.                                                *)
NodesOrdered ==
    pc \notin {"topoSort", "resortWhen", "aborted", "rejected"} =>
        LET nodes == FlattenSeq([i \in DOMAIN g.sorted |-> g.mem[g.sorted[i]]])
            at(n) == CHOOSE i \in DOMAIN nodes : nodes[i] = n
        IN \A e \in g.data \cup g.dep :
               {e[1], e[2]} \subseteq LiveNodes(g) => at(e[1]) < at(e[2])

(* graphInitPartition's dynamic program finds the cheapest cut: among all the  *)
(* ways to cut the order into parts of at most SuperNodeMaxSize members (or a  *)
(* single super node) none has fewer edges between parts.                     *)
CutIsCheapest ==
    pc = "initPartition" =>
        LET n == Len(g.sorted)
            size == [i \in 1..n |-> Len(g.mem[g.sorted[i]])]
            part(cut, i) == Cardinality({c \in cut : c < i})
            legal(cut) == \A i, j \in 1..n :
                i < j /\ part(cut, i) = part(cut, j) => SumFunctionOnSet(size, i..j) <= MaxSize
            crossing(cut) == Cardinality({p \in (1..n) \X (1..n) :
                g.sorted[p[2]] \in g.next[g.sorted[p[1]]] /\ part(cut, p[1]) # part(cut, p[2])})
        IN n > 0 => LET mine == PartitionCuts(g)
                    IN /\ legal(mine)
                       /\ \A cut \in SUBSET (1..(n - 1)) : legal(cut) => crossing(mine) <= crossing(cut)

(* No assertion of the passes fires in a recording run: mergeWhenNodes and     *)
(* mergeSublings close no dependence cycle, which a resort would notice by the *)
(* super nodes it loses. A replay of the same input from an intact seed, in the same address   *)
(* layout, is not rejected anywhere either, whatever order the build prefers.  *)
Intact == cf.fault.kind = "none"

RunCompletes ==
    pc \in {"aborted", "rejected"} =>
        run = "replay" /\ ~(Intact /\ cf.again = cf.circuit /\ cf.addr = cf.addrAgain)

(* A seed2 replay that reaches emission, of any input, from a file that lived  *)
(* through any of the faults, and with any ordering policy, has the super      *)
(* nodes of the recording run in the recorded order.                          *)
ReplayExact ==
    run = "replay" /\ pc = "emitted" /\ cf.format = "seed2" =>
        [i \in DOMAIN g.sorted |-> g.mem[g.sorted[i]]]
            = [i \in DOMAIN first.sorted |-> first.mem[first.sorted[i]]]

(* What mtSeed2Load accepts in the checksummed versions is what was recorded.  *)
LoadIsSound ==
    run = "replay" /\ cf.format = "seed2" /\ r.ok /\ file.header.version >= 2 /\ cf.codec # "v1" =>
        <<r.hash, r.keys, r.points, r.groups>> = <<w.hash, w.keys, w.points, w.groups>>

(* A seed2 replay of a circuit with other edges never reaches emission: the     *)
(* canonical hashes of the points stop it although the input hash does not.   *)
OtherInputStopped ==
    run = "replay" /\ pc = "emitted" /\ cf.format = "seed2" /\ cf.verify =>
        <<cf.again.data, cf.again.dep>> = <<cf.circuit.data, cf.circuit.dep>>

(* Replaying a text seed, topoSort takes the recorded order or refuses the      *)
(* file: the frontier walk by rank reproduces any topological order of the same *)
(* input, and a file that lost lines but not its node_count is noticed.         *)
TextOrderKept ==
    run = "replay" /\ cf.format = "text" /\ cf.again = cf.circuit /\ file.count >= 0
        /\ pc \notin {"topoSort", "aborted"} =>
        topo.replay = topo.record

(* "schedule seed input mismatch: seed hash %s vs current graph hash %s (input  *)
(* FIR or generator pipeline changed; ...)" (mtSeedVerifyInputHash): a text     *)
(* seed of another input is refused where it is loaded.                       *)
SeedInputChecked ==
    run = "replay" /\ cf.format = "text" /\ cf.again # cf.circuit => pc \in {"topoSort", "aborted"}
=============================================================================
