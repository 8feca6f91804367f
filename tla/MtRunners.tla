------------------------------ MODULE MtRunners -----------------------------
(***************************************************************************)
(* The multithreaded sparse step: subStepN scans the words as the serial   *)
(* step does, but gives a pure batch (mtRunPureBatch) or a coarse region   *)
(* (mtRunCoarseRegion) to the workers.  A worker runs its tasks on a copy  *)
(* of the flags of its own, and keeps what they activate elsewhere in an   *)
(* ActivationDelta; the main thread merges both after the join.            *)
(***************************************************************************)
EXTENDS MtPlan

CONSTANTS Configs(_),   \* the options a circuit is emitted and run with
          NumWorkers    \* mtConfiguredWorkerCount

ASSUME WorkersAssumption == NumWorkers \in Nat \ {0}

VARIABLES
  mt,       \* [mode, level, runtime, inline, minBatch]
  plan,     \* the batches and the coarse regions
  coarse,   \* mtCoarseWords of the region
  job,      \* what the main thread has given out
  todo,     \* the tasks of a worker: [id, mergeAfter]
  run,      \* the task a worker is in, with the values it has computed
  wflag,    \* mtWorkerFlags, mtWorkerCoarseFlags
  delta     \* mtWorkerDeltas

jobVars == <<job, todo, run, wflag, delta>>
mtVars == <<mt, plan, coarse, jobVars>>
allVars == <<vars, mtVars>>

Workers == 0..(NumWorkers - 1)
NoJob == [kind |-> "none", region |-> 0, layer |-> 0, cap |-> 0, workers |-> 0, end |-> 0]
NoTask == [id |-> -1, mergeAfter |-> FALSE]
NoRun == [task |-> NoTask, val |-> <<>>]
Tasks(seq) == [i \in DOMAIN seq |-> [id |-> seq[i], mergeAfter |-> FALSE]]

Serial == mt.mode = "serial"

\* Batches are planned in every mode, regions are used in the coarse one.
PlanOf(mode, level) ==
  [batches |-> IF mode = "serial" THEN {}
               ELSE IF mode \in {"active-frequency", "coarse"} THEN PlanMtPureBatchesActiveFrequency
               ELSE PlanMtPureBatchesLegacy,
   regions |-> IF mode = "coarse" THEN PlanMtCoarseRegions(level) ELSE <<>>]

MtInit ==
  /\ Init
  /\ \E options \in {<<m.mode, m.level>> : m \in Configs(circuit)} :
       /\ plan = PlanOf(options[1], options[2])
       /\ mt \in {m \in Configs(circuit) : options = <<m.mode, m.level>>}
  /\ coarse = {}
  /\ job = NoJob
  /\ todo = [w \in Workers |-> <<>>]
  /\ run = [w \in Workers |-> NoRun]
  /\ wflag = [w \in Workers |-> {}]
  /\ delta = [w \in Workers |-> {}]

Region == plan.regions[job.region]
RegionIds == Ids(Region.begin, Region.end)
RegionsAt(s) == {i \in DOMAIN plan.regions : plan.regions[i].begin = s}
BatchesAt(s) == {b \in plan.batches : b[1] = s}

-----------------------------------------------------------------------------
(* The scan *)

\* The head of a word: a whole word is taken and cleared, another only copied; in
\* an inlined region the bits put aside at its head count too.
MtEnterWord ==
  /\ job.kind \in {"none", "inline"}
  /\ scan \in Supers /\ ~entered
  /\ job.kind = "none" => RegionsAt(scan) = {}
  /\ LET w == WordOf(scan)
         bits == (flags \cup coarse) \cap WordIds(w)
     IN  IF Whole(w) /\ bits = {}
         THEN /\ scan' = (w + 1) * ActiveWidth
              /\ job' = IF job.kind = "inline" /\ scan' = job.end THEN NoJob ELSE job
              /\ UNCHANGED <<flags, local, entered, coarse>>
         ELSE /\ entered' = TRUE
              /\ local' = bits
              /\ flags' = IF Whole(w) THEN flags \ WordIds(w) ELSE flags
              /\ coarse' = coarse \ WordIds(w)
              /\ UNCHANGED <<scan, job>>
  /\ UNCHANGED <<circuit, val, copy, parity, dense, mt, plan, todo, run, wflag, delta>>

\* The workers of mtRunPureBatch, and the tasks of each.
BatchWorkers(b) ==
  IF b[2] - b[1] < mt.minBatch THEN 1 ELSE Min({NumWorkers, b[2] - b[1]})

BatchTasks(b, k) ==
  [w \in 0..(k - 1) |-> Tasks(Chunk([i \in 1..(b[2] - b[1]) |-> b[1] + i - 1], w, k))]

\* A batch of one worker is run where the scan is.
Forks(s) == job.kind = "none" /\ Whole(WordOf(s)) /\ \E b \in BatchesAt(s) : BatchWorkers(b) > 1

\* A task on the main thread, unbuffered: a later bit of the own word goes to the
\* copy of the word, the others to activeFlags.
MtVisit ==
  /\ job.kind \in {"none", "inline"}
  /\ scan \in Supers /\ entered /\ ~Forks(scan)
  /\ IF scan \in local \cup AlwaysActive
     THEN /\ val' = EvalSuper(val, scan)
          /\ LET changed == {n \in Members(scan) : val'[n] # val[n]}
                 ids == (UNION {NextActiveId(n) : n \in changed}) \ AlwaysActive
                 own == {s \in ids : InOldFlag(scan, s)}
             IN  local' = local \cup own /\ flags' = flags \cup (ids \ own)
     ELSE UNCHANGED <<val, flags, local>>
  /\ scan' = scan + 1
  /\ entered' = (WordOf(scan + 1) = WordOf(scan))
  /\ job' = IF job.kind = "inline" /\ scan' = job.end THEN NoJob ELSE job
  /\ UNCHANGED <<circuit, copy, parity, dense, mt, plan, coarse, todo, run, wflag, delta>>

-----------------------------------------------------------------------------
(* Jobs *)

\* Every worker below k gets its tasks, a copy of the flags and an empty delta.
Post(newJob, tasks, words) ==
  /\ job' = newJob
  /\ todo' = [w \in Workers |-> IF w < newJob.workers THEN tasks[w] ELSE <<>>]
  /\ wflag' = [w \in Workers |-> IF w < newJob.workers THEN words ELSE {}]
  /\ delta' = [w \in Workers |-> {}]
  /\ UNCHANGED run

\* Nothing is left to do for the workers, which join; what they hold is dropped.
Joined == \A w \in Workers : todo[w] = <<>> /\ run[w] = NoRun

Release ==
  /\ job' = NoJob
  /\ wflag' = [w \in Workers |-> {}]
  /\ delta' = [w \in Workers |-> {}]
  /\ UNCHANGED <<todo, run>>

AllFlags == UNION {wflag[w] : w \in Workers}
AllDeltas == UNION {delta[w] : w \in Workers}

\* mtRunPureBatch up to the post.
ForkBatch ==
  /\ ~Serial /\ scan \in Supers /\ entered /\ Forks(scan)
  /\ \E b \in BatchesAt(scan) :
       Post([NoJob EXCEPT !.kind = "batch", !.workers = BatchWorkers(b), !.end = b[2]],
            BatchTasks(b, BatchWorkers(b)), local)
  /\ UNCHANGED <<vars, mt, plan, coarse>>

\* mtRunPureBatch after the join.
JoinBatch ==
  /\ job.kind = "batch" /\ Joined
  /\ local' = local \cup AllFlags
  /\ flags' = flags \cup AllDeltas
  /\ scan' = job.end
  /\ entered' = (WordOf(job.end) = WordOf(scan))
  /\ Release
  /\ UNCHANGED <<circuit, val, copy, parity, dense, mt, plan, coarse>>

-----------------------------------------------------------------------------
(* Coarse regions *)

\* The tasks of one MTask: after the last of a layer the delta is merged.
MTaskRefs(mtask) ==
  FlattenSeq([l \in DOMAIN mtask |->
    LET ids == Ascending(mtask[l])
    IN  [i \in DOMAIN ids |-> [id |-> ids[i], mergeAfter |-> i = Len(ids)]]])

MTaskLists(region, k) ==
  LET lists == CASE mt.runtime = "range" -> RangeAssignment(region.mtasks, k)
                 [] mt.runtime = "list" -> LptAssignment(region.mtasks, k)
                 [] OTHER -> DStaticAssignment(region.mtasks, k)
  IN  [w \in 0..(k - 1) |->
         FlattenSeq([i \in DOMAIN lists[w] |-> MTaskRefs(region.mtasks[lists[w][i]])])]

LayerTasks(ids, k) == [w \in 0..(k - 1) |-> Tasks(Chunk(ids, w, k))]

\* One layer of the layered runtime, with at most as many workers as tasks.
PostLayer(i, l, k, words) ==
  LET region == plan.regions[i]
      ids == Ascending(region.layers[l])
      n == Min({k, Len(ids)})
  IN  Post([kind |-> "layer", region |-> i, layer |-> l, cap |-> k, workers |-> n, end |-> region.end],
           LayerTasks(ids, n), words)

\* All of the region at once.
PostMTasks(i, k, words) ==
  LET region == plan.regions[i]
      most == Min({k, Len(region.mtasks)})
      n == IF mt.runtime = "dstatic" THEN DStaticRounded(most) ELSE most
  IN  Post([kind |-> "mtasks", region |-> i, layer |-> 0, cap |-> k, workers |-> n, end |-> region.end],
           MTaskLists(region, n), words)

\* mtRunCoarseRegion weighs the work of the region against the cost of a
\* dispatch, by policies and limits: any number up to the configured one.
RegionWorkers(region) == 1..Min({NumWorkers, region.end - region.begin})

\* The head of a region: its words are taken and cleared.  Without a bit it is
\* left out, with few it is run inline, otherwise the workers run it.
EnterRegion ==
  /\ ~Serial /\ job = NoJob /\ ~entered
  /\ \E i \in RegionsAt(scan) :
       LET region == plan.regions[i]
           bits == flags \cap Ids(region.begin, region.end)
       IN  /\ flags' = flags \ bits
           /\ \/ /\ bits = {}
                 /\ scan' = region.end
                 /\ UNCHANGED <<coarse, jobVars>>
              \/ /\ bits # {} /\ mt.inline > 0 /\ Cardinality(bits) <= mt.inline
                 /\ coarse' = bits
                 /\ job' = [NoJob EXCEPT !.kind = "inline", !.region = i, !.end = region.end]
                 /\ UNCHANGED <<scan, todo, run, wflag, delta>>
              \/ /\ bits # {} /\ ~(mt.inline > 0 /\ Cardinality(bits) <= mt.inline)
                 /\ coarse' = bits
                 /\ \E k \in RegionWorkers(region) :
                      IF mt.runtime = "layered" THEN PostLayer(i, 1, k, bits) ELSE PostMTasks(i, k, bits)
                 /\ UNCHANGED scan
  /\ UNCHANGED <<circuit, val, copy, local, entered, parity, dense, mt, plan>>

\* After the join: bits of the region go to mtCoarseWords, the others to
\* activeFlags; then the next layer, or the words go back to activeFlags.
JoinRegion ==
  /\ job.kind \in {"layer", "mtasks"} /\ Joined
  /\ LET words == coarse \cup AllFlags \cup (AllDeltas \cap RegionIds)
         outside == flags \cup (AllDeltas \ RegionIds)
     IN  IF job.kind = "layer" /\ job.layer < Len(Region.layers)
         THEN /\ coarse' = words
              /\ flags' = outside
              /\ PostLayer(job.region, job.layer + 1, job.cap, words)
              /\ UNCHANGED scan
         ELSE /\ coarse' = {}
              /\ flags' = outside \cup words
              /\ scan' = Region.end
              /\ Release
  /\ UNCHANGED <<circuit, val, copy, local, entered, parity, dense, mt, plan>>

-----------------------------------------------------------------------------
(* Workers *)

\* What a task has activated, and mtMergeLocalCoarseDelta after a layer's last.
Activate(w, task, own, other) ==
  LET all == delta[w] \cup other
      merged == IF task.mergeAfter THEN all \cap RegionIds ELSE {}
  IN  /\ wflag' = [wflag EXCEPT ![w] = @ \cup own \cup merged]
      /\ delta' = [delta EXCEPT ![w] = all \ merged]

\* The next task, if its bit is set in the worker's flags: read and compute.
TaskStart(w) ==
  /\ run[w] = NoRun /\ todo[w] # <<>>
  /\ todo' = [todo EXCEPT ![w] = Tail(@)]
  /\ LET task == Head(todo[w])
     IN  IF task.id \in wflag[w]
         THEN /\ run' = [run EXCEPT ![w] = [task |-> task,
                           val |-> LET after == EvalSuper(val, task.id)
                                   IN  [n \in Members(task.id) |-> after[n]]]]
              /\ UNCHANGED <<wflag, delta>>
         ELSE Activate(w, task, {}, {}) /\ UNCHANGED run
  /\ UNCHANGED <<vars, mt, plan, coarse, job>>

\* Write the members, and activate for those that have changed.
TaskEnd(w) ==
  /\ run[w] # NoRun
  /\ LET task == run[w].task
         new == run[w].val
         changed == {n \in DOMAIN new : val[n] # new[n]}
         ids == (UNION {NextActiveId(n) : n \in changed}) \ AlwaysActive
         own == {s \in ids : InOldFlag(task.id, s)}
     IN  /\ val' = [n \in DOMAIN val |-> IF n \in DOMAIN new THEN new[n] ELSE val[n]]
         /\ Activate(w, task, own, ids \ own)
  /\ run' = [run EXCEPT ![w] = NoRun]
  /\ UNCHANGED <<circuit, copy, flags, local, scan, entered, parity, dense, mt, plan, coarse, job, todo>>

-----------------------------------------------------------------------------
\* What the two steps share: the inputs, the reset and the end of the step.
Ports == {i \in Inputs : NextNodes(i) # {} \/ (i = circuit.resetNode /\ \E n \in Nodes : circuit.hasReset[n])}
Shared ==
  /\ job = NoJob
  /\ BeginStep \/ EndStep \/ \E i \in Ports, b \in 0..1 : SetInput(i, b)
  /\ UNCHANGED mtVars

SerialScan == Serial /\ (EnterWord \/ Visit) /\ UNCHANGED mtVars

Dispatch ==
  ~Serial /\ (MtEnterWord \/ MtVisit \/ ForkBatch \/ JoinBatch \/ EnterRegion \/ JoinRegion)

MtNext == Shared \/ SerialScan \/ Dispatch \/ \E w \in Workers : TaskStart(w) \/ TaskEnd(w)

MtSpec == MtInit /\ [][MtNext]_allVars

-----------------------------------------------------------------------------
(* Properties.  SparseExact holds of this step as of the serial one. *)

Accesses(s) ==
  Members(s) \cup UNION {IF circuit.kind[n] = "src" THEN {circuit.pair[n]} ELSE circuit.reads[n] : n \in Members(s)}

\* The tasks of a batch, of a layer and of different MTasks run with no
\* synchronisation but the join: two workers are never in tasks of which one
\* writes a node the other reads or writes.
WorkersDisjoint ==
  \A v, w \in Workers :
    v # w /\ run[v] # NoRun /\ run[w] # NoRun =>
      Members(run[v].task.id) \cap Accesses(run[w].task.id) = {}
=============================================================================
