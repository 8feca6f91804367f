# A verification project for gsim

gsim compiles CHIRRTL to a C++ simulator.  The generator parses the circuit,
turns it into a graph of nodes, optimises the graph, groups the nodes into
super nodes and emits C++.  This branch adds a multithreaded executor: the
super nodes are condensed into MTasks, every MTask is assigned to one worker
thread when the code is generated, and the emitted program runs each worker's
MTasks in a fixed order, synchronised by tokens.

This directory holds TLA+ models of that code, the TLC configurations that
check them on small instances, and TLAPS proofs of the properties that matter
most.  Every definition that models code is mapped to source lines in
`PROJECT.json`, which also lists the runs, the mutants that show each property
can fail, the hazards, the findings and the theorems.

## The system and its parts

| part | source | modules |
|---|---|---|
| parallel parser | `firParser.cpp` | `FirParser` |
| connects and whens | `AST2Graph.cpp` | `WhenTrace` |
| expression trees and the passes over them | `inferWidth.cpp`, `usedBits.cpp`, `exprOpt.cpp`, `ExpTree.cpp`, ... | `ExprTree`, `TreePasses` |
| constant analysis | `constantNode.cpp`, `opFuncs.cpp` | `ExprTree`, `ConstantAnalysis` |
| graph passes | `deadNodes.cpp`, `aliasAnalysis.cpp`, `patternDetect.cpp`, `commonExpr.cpp`, ... | `GraphPasses` |
| statement trees and instructions | `StmtTree.cpp`, `instsGenerator.cpp` | `StmtTree`, `Insts` |
| the compiler as a whole, beside its circuit | `main.cpp` | `Compile`, reference semantics `Firrtl` |
| super node formation | `topoSort.cpp`, `mergeNodes.cpp`, `graphPartition.cpp`, `replication.cpp`, `superNode.cpp` | `SuperGraph`, `PartitionPasses`, `Partition` |
| schedule seeds | `seedOrder.cpp`, `seedOrder2.cpp` | `Seed2`, `Partition` |
| dense schedule (edges, SCCs, MTasks, assignment) | `cppEmitterDenseSchedule.cpp` | `DenseSchedule`, `DenseContract`, `DenseListSchedule` |
| tables baked into the dense executor | `cppEmitterDenseSchedule.cpp` 593-981, prologue of `genDenseExecutor` | `DensePlan`, `DenseTables` |
| parallel emission | `cppEmitter.cpp` 632-780 | `EmitUnits` |
| sparse serial step and resets | `cppEmitter.cpp`, `cppEmitterEmitCore.cpp`, `cppEmitterReset.cpp` | `SparseStep` |
| multithreaded sparse step: classification, plans, runners | `cppEmitterMtAnalysis.cpp`, `cppEmitterMtPlan.cpp`, `cppEmitterMtRunners.cpp`, `genActivateMtHelpers` in `cppEmitter.cpp` | `MtPlan`, `MtRunners` |
| worker pool of the emitted program | `cppEmitterMtRunners.cpp` 95-354 | `WorkerPool`, contract `ForkJoin` |
| dense executor `stepDense` | `cppEmitterDenseExec.cpp` | `DenseExecutor`, `DenseLookahead`, `DenseCounters`, contract `DenseCycle` |
| reports, profilers, emulator, scripts | `cppEmitterMtReport.cpp`, `emu/`, `scripts/` | not modelled |

How they interact.  The generator runs one pass after another and ends in
`cppEmitter`.  `buildMtDenseSchedule` makes the MTask graph and the owner of
every MTask; `genDenseExecutor` turns both into tables and code.  In the
emitted program the constructor starts the pool, `stepDense` posts one job per
simulated cycle, worker 0 is the main thread, and the join ends the cycle.

## Worker pool

`WorkerPool` has one main thread and `Threads` background workers.  A variable
is a field of the emitted class (`generation`, `stop`, `readyCount`,
`doneCount`, `doneFlags`), the plain job fields together (`payload`), or a
control point.  Each action is the code up to the next access to a field that
another thread writes: `Publish`, `Post`, `MainWork`, `WaitForDone` are
`mtWorkerPoolPost`, the caller's share and `mtWorkerPoolWaitForDone`;
`Baseline` to `SignalDone` are `mtWorkerPoolLoop`; `StopStore`, `StopBump`,
`JoinThreads` are `stopMtWorkerPool`.  `job` and `ran` record what a worker
read and ran.  `FlagJoin` selects the build that joins through per-worker
parity flags instead of the shared counter.

`ForkJoin` is what the pool promises its callers: a job is open from its post
to its join, every worker acknowledges it once, the join needs all of them.
The executors below are built over `ForkJoin`, not over the pool.

## Dense executor

`DensePlan` computes the tables as pure operators: the runtime successors, the
transitive reduction with worker chains, the token layout in cache-line banks,
the lookahead prerequisites.  `DenseTables` runs them in the order of
`genDenseExecutor` for each build.  `StrictPlan`, `LookaheadPlan` and
`CounterPlan` are the three programs the tables make up, and `SoundPlan`,
`SoundLookahead` and `SoundCounts` state what an executor needs of its program.

`DenseExecutor` is the strict build: a worker runs its MTasks in id order,
spins on the tokens of an MTask, runs the body, stores the tokens it publishes.
Tokens alternate between 1 and 0 with the parity of the cycle and are never
cleared.  `DenseLookahead` adds the bounded out-of-order tail, `DenseCounters` is the
build with up/down counters instead of tokens.  `DenseCycle` is the contract of
all three: in each cycle each MTask runs once, after everything it depends on.

## Dense schedule

`DenseSchedule` writes the passes of `buildMtDenseSchedule` as operators (rank of
the dependency graph, two-sweep components, chain coarsening, layers, MTasks of
a fixed size) and runs them in the order of the code on one input, an action per
pass, up to the verdict.  `DenseContract` is
the merge loop behind `GSIM_MT_DENSE_VCONTRACT`: `TryEdge` and `TrySibling` are
an iteration for a candidate pair, with the search on raw lists that hold dead
ids, the per-epoch cache `gSN` and the memo; `Materialise` is what follows the
loop.  The scores only choose the next pair, so any pair may come next.
`DenseListSchedule` is the list
scheduler behind `GSIM_MT_DENSE_SCHED_ORDER`: `Pick` is one iteration of its
loop, `Finish` the branch for MTasks that were never ready, `Renumber` the new
ids.  `input.reserve` selects `mtBuildDenseScheduleOrder`, which keeps worker 0
for pinned MTasks, or `mtBuildDensePackThreadsAssignment`, which does not.

## Sparse step

`SparseStep` runs the emitted sparse `step()` beside a step that evaluates
everything, on the same circuit and the same inputs.  A circuit is a list of
nodes with values 0 and 1, cut into super nodes: conjunctions, external modules
(always active, with state of their own) and a register as its two halves.
`SetInput` is `set_<input>`, `BeginStep` is `resetAll` and the copy of the reset
register, `EnterWord` takes and clears a word of `activeFlags`, `Visit` is the
guard, the body and the activations of one super node, `EndStep` is the rest,
where the other step is taken as a whole.  A word with an external module is
scanned in place.  `sparse_step` is restricted to circuits whose reset is
harmless (`ResetSafe` in `MCSparseStep`): the next value of a register with a
reset is computed in a super node that reads the register, or the reset
activates everything.  What happens otherwise is the finding `sparse_reset`.
Memories and asynchronous resets are left out.

`MtPlan` is what the generator plans for the multithreaded sparse step: which
super nodes are pure computations, the edges between them, the batches of a word
that has no edge inside (in both modes of forming them), the coarse regions of
whole words with their layers and their MTasks, and the assignment of MTasks to
workers (ranges, longest first, static lists).  `MtRunners` runs the plan.  The
main thread scans as before (`MtEnterWord`, `MtVisit`), posts a batch or a region
(`ForkBatch`, `EnterRegion`) and merges what the workers leave (`JoinBatch`,
`JoinRegion`, which also posts the next layer).  A worker takes its tasks in order:
`TaskStart` tests the bit in the worker's own copy of the flags and reads,
`TaskEnd` writes and notes the activations, in that copy for a later bit of the
same word and in the worker's `ActivationDelta` for any other.  Post and join are
those of `WorkerPool` and atomic here.  How many workers a region gets is a matter
of costs and limits; the model allows any number.  The parameter `mt` is the mode,
the runtime and the thresholds a program was generated and started with.

A region run by workers puts all bits that were set back into `activeFlags`, those
of the tasks it has run included (`cppEmitter.cpp:372`), and all bits are set
before the first step.  So such a region runs completely in every step: nothing is
lost, and nothing is saved.  The bits of an inlined region are cleared.

## Generator threads

`FirParser` is `parseFIR`: `Split` cuts the text into tasks, adds an exit flag
per thread and sorts, `TakeTask`, `StoreList`, `StoreRoot` are an iteration of
`parseFunc`, `Merge` joins the lists.  A text is a sequence of lines, header or
not.  The generated parser is external: it makes of a piece the list of its
headers with their line numbers.

`EmitUnits` is `emitUnitsParallel`: workers claim units and capture the calls
of a unit into its buffer, `Flush` replays the buffers.  `EmitDirect` is the
same call when it writes at once, the reference for `FilesAsSequential`.  A text
is the call, its indentation and the trace context it is printed in.

## From connects to the emitted program

`Compile` takes a circuit through the passes of `main()` and then runs the
emitted program beside the circuit.  `VisitStmt` reads one top-level statement
and `FinishAST` closes the nodes (`WhenTrace`: a connect under whens goes into
the tree of its node along the whens it shares with earlier connects);
`InferAllWidth`, `RemoveDeadNodes`, `ExprOpt`, `UsedBits`, `AliasAnalysis`,
`PatternDetect`, `CommonExpr` and `When2mux` are the passes of those names, each
a whole pass, because one pass never sees the other half done.  The constant
analysis is a work list, so it has an action per node: `StartConstants`,
`ComputeNode`, `FoldConstants`.  `InstsGenerator` builds the statement trees and
the C++ expressions; `Step` is a call of the emitted `step()` with new inputs.

A tree is an `ENode` with its width, sign, integer parameters and children; a
node of the graph holds its assign trees, its reset tree and its status.  Edges
are read off the trees, as `reconnectAll` does after each pass.  A C++
expression is a term of `Insts`, evaluated by the promotion and conversion
rules of the language on a scaled machine: `uint8_t` and `uint16_t` are one type
of 2 bits, `int` has 4, `long` 8, and wider values are `_BitInt`s, so values of
1 to 5 bits already cross the borders where the generator inserts casts.  GMP
integers stay unbounded.  `Firrtl` is not a model of code: it says what a circuit
means, with exact arithmetic and the last connect winning, and is the reference
of `NodesExact` and `FoldedExact`.

## Super nodes and schedule seeds

`Partition` runs the generator twice over one circuit or two: the first run
records its ordering decisions, the second replays them.  One action is one
pass with the pin behind it: `TopoSort`, `RemoveDeadNodes`, `CoarsenResets`,
`CoarsenWhens`, `ResortWhen`, `CoarsenOut1`, `CoarsenIn1`, `CoarsenSublings`,
`ResortCoarsened`, `GraphInitPartition`, `Replication`, `PreEmit`.  `LoadSeed2`
and `LoadText` are the end of the first run, what happens to the file, and the
beginning of the second.  `SuperGraph` has the graph of super nodes with its four
relations and the primitive moves on it, `PartitionPasses` the passes, `Seed2`
the writer, the file and the reader.  A file is a sequence of typed fields with a
header; a checksum is the payload itself, a compressed payload ends in a mark.
The fault in between is none, a stop in the middle of the write, a cut, one
changed field, or a transcode; a text seed may lose its last lines.  Addresses are part of a configuration, since
`replicationOpt` walks a set of pointers.

## Runs

| run | instance | shows |
|---|---|---|
| `worker_pool` | 3 background threads, 3 jobs, any worker count, counter join and parity-flag join | payload stability, complete joins, shutdown, refinement of `ForkJoin` |
| `dense_build` | contraction of 4 components in any candidate order; list scheduling of 4 MTasks with costs and pins; the tables of all graphs of 4 MTasks on 3 workers, all builds | lists, caches and memo agree with the groups, after compaction only cycles are refused, the MTasks are topological; feasible schedule, nothing unscheduled; the reduction keeps the order, tokens are exact, lookahead prerequisites suffice |
| `dense_executor` | all plans of 4 MTasks, 3 workers, 2 cycles | dependence order, one body per cycle, every call returns, refinement of `DenseCycle` |
| `dense_variants` | 4 MTasks, 2 workers: lookahead with window 2 over 2 cycles; counters over 3 cycles, in programs generated for 2 and for 3 workers | the counters alternate without reset, every call returns and `DenseCycle` is refined in both builds |
| `dense_schedule` | all dependency graphs of 4 tasks, one activation edge anywhere, one pinned task, 3 switch settings | exact components, order-keeping coarsening, ordered layers, topological run order and pinning, the verdict |
| `host_threads` | texts of up to 6 lines, 2 headers per task, pieces of any relative size; 1 to 3 units of 2 calls, an empty or a full file; 2 threads | the circuit is complete, in order, with true line numbers, and the parser returns; the emitted files are those of a sequential run |
| `sparse_step` | circuits of 4 nodes with harmless resets, words of 3 bits; 24 circuits of 9 super nodes under 2 workers: both batch modes, regions with and without level dispatch, 4 runtimes, inline | the flags, copies and deltas never leave out a super node that would compute something else; two workers never touch a node one of them writes |
| `partition` | all graphs of 4 nodes, 5-node circuits with whens, resets, shells and copies; one seed file under every fault, text seeds cut after every line | order kept by every merge, the cheapest cut, no assertion fires, an accepted replay is the recorded one, what is loaded is what was written |
| `compile` | 5022 circuits: every operation over several widths and signs, two levels, nested whens, registers with both kinds of reset, from an input or a wire, aliases, equal expressions, one-hot tests | the emitted program computes the circuit, folded nodes are constant, no assertion fires, the constant analysis settles |
| `sparse_reset` | all circuits of 3 nodes, the fan-out limit of the code | violation: a register keeps its reset value |
| `seed_input` | a text seed of one graph of 3 nodes given to another | violation: the input hash does not tell them apart |
| `cat_test` | a concatenation compared with a constant | violation: the split test compares the wrong bits |

`MCHostThreads`, `MCDenseBuild` and `MCDenseVariants` each check several models
that share nothing in one state space; a behaviour belongs to one of them.

Bounds.  Three background threads give a worker outside the job, one inside
and one late; three jobs show each parity flag twice at one value.  Four
MTasks are the smallest graph with a diamond, so the reduction has something to
drop, a token has two sources, and a chain can carry a dependence.  Two cycles
are one of each parity; the counters get three so that a leftover of the first
even cycle meets the next.  `CacheLine` is 2 instead of 64 so that banks of one
and of several lines occur.  Assignments are enumerated up to the names of the
workers.  Six lines hold five headers and so three tasks for two threads; the
lengths of pieces matter only by their order, so `MaxChars` of 2 gives smaller,
equal and larger.  Units of two calls and a limit of four bytes put the
rotation before, between and after the units.  Four nodes are a register and
two nodes before, between or behind its halves; words of three bits put the reader
of a node into its own word, a later and an earlier one; `ResetFanout` is 1 in
place of 100 so that both branches of the reset are taken.  Nine super nodes are
three words: a region of three, a region cut by `SpanCap` 2 (192 in the code) and
a word behind it, layers and MTasks to share, and batches that end before their
word does.  The circuits are chosen for their edges, not enumerated.  The limits of the
merges (`MaxNodes` 1, `MaxSublings` 2, `MaxSize` 2, `MergeWhenSize` 1) are scaled
so that four or five nodes reach both sides of each.  `MaxCommonNext` 3 (5
in the code) and `When2muxBound` 1 do the same for `commonExpr` and `when2mux`;
`BasicWidth` is scaled like the integers, 256 to 32, and no node is that wide.  Operations are
checked at the corners of their operands: zero, one, the top bit alone, all
ones, and for signed operands both ends and minus one.  Registers run for three
cycles, so a reset can come before, between and after two updates.

Fairness.  Every thread takes its next step again and again (weak fairness per
thread): threads are never blocked for good by the code outside the modelled
spin loops.  `FairSpec` of the pool does not force another post or a stop.  The
dense executors assume the harness keeps calling `step`.  The threads of the
parser run until their futures are ready.

Memory.  The models interleave atomic accesses.  The code publishes with
release stores and reads with acquire loads, plain fields are written before
the release and read after the acquire; reorderings weaker than that are
outside the models.

## Proofs

`WorkerPoolProofs` (any number of threads and jobs, both joins):
`PoolInvariance` proves the inductive invariant `PInv`.  The properties are not
inductive: that a join is complete needs to know where each worker can be for
each place of the main thread and that the parity flag of a worker equals the
parity of the last generation exactly when it has acknowledged it
(`WorkerInv`), that the counter is the number of acknowledged workers
(`CountInv`), and that the generation counts the posts (`GenerationInv`).
From it follow `PoolTypes`, `PayloadStableHolds`, `JoinCompleteHolds`,
`NoJobAfterStopHolds` and the refinement `PoolImplementsForkJoin`.

`DenseExecutorProofs` (any set of sound plans, any worker count, any number of
cycles) has three parts.  The first is about any executor with this main thread,
whatever order a lane takes its MTasks in.  Its invariant `Core` says that a
token has the value of this cycle exactly when its writer has finished and
stored it (`TokenInv`), that the finished MTasks are closed under dependence
(`OrderInv`), which is what turns a chain of waits into a dependence, and that a
body in a lane has everything it depends on behind it (`LanesCore`).  The main
thread, the end of a body and the store of a token keep it.  The second part is
the strict lane: `LaneInv` says how far a lane is in terms of the epochs of its
MTasks, and `WaitsEnough` is the heart: an MTask whose tokens are all seen has
all predecessors done.  From the two follow `ExecutorTypes`,
`DepsBeforeBodyHolds`, `CycleCompleteHolds`, `TokensForwardHolds` and
`ExecutorImplementsDenseCycle`.

Its third part (the same, and any window) puts the lane of
`stepDenseLookaheadTail` on `Core`.  `LookInv` adds that the done bits of a lane
are its MTasks behind the head that have run out of order, and that they are
clear when a lane is at rest; `PrereqsEnough` is the counterpart of
`WaitsEnough`: a candidate whose local prerequisites are done and whose tokens
are seen has everything it depends on done, though the MTasks before it on its
lane have not run.  This gives `LookaheadDepsBeforeBody`,
`LookaheadCycleComplete` and `LookaheadImplementsDenseCycle`.

`SparseStepProofs` (any circuit, word width, reset fan-out, inputs and number of
steps): `SerialSparseExact` says that the serial sparse step is exact.  The
invariant compares the scan with the dense step it must agree with: below the
scan a value is the one dense computes, above it the one dense began with
(`ValueInv`); and a super node no flag asks for, in `activeFlags` or, ahead in a
word already taken, in its local copy, would compute what it has (`CleanInv`).
The theorem has the hypothesis `ResetReachesDst`, the general form of
`ResetSafe`: without it the code is not exact, which is the finding
`sparse_reset`.

`Foundations` has the facts about intervals these proofs need: induction upward and
downward and the existence of a function defined by recursion, stated with a set
in place of a predicate and a function in place of a step.  The theorems of the
library take operators there, which the provers cannot instantiate.  Its second half
is about graphs: `WaveIsLeast` (as many rounds of a search as there are nodes find
everything), and `MergeKeepsAcyclic`.

`DenseCountersProofs` (any set of sound programs with counters, any worker count,
any number of cycles): the invariant `CInv` says what a counter counts, namely the
predecessors that have finished this cycle and whose signal is no longer owed, up
from 0 in an even cycle and down from the dependency count in an odd one.  So a
counter that has reached its target has heard of every predecessor, and stands at
the end of a cycle where the next one starts from: `CountersAlternateHolds`,
`CountersInRangeHolds` and the refinement `CountersImplementDenseCycle`.

`DensePlanProofs` (any forward graph, any assignment of its MTasks to any number of
lanes, every build) is about the generator.  `OrderKeptHolds`, `TokensExactHolds`
and `LookaheadSoundHolds` are the properties of `DenseTables`; the invariant `TInv`
only says which operator each table is the value of, the work is in the operators.
A path ends in an edge that no other successor of its source reaches (`LastEdge`);
the reduction takes away no such edge unless a worker's own order stands for it
(`IrreducibleKept`), although the detours it relies on are themselves reduced; banks
do not overlap, so no two tokens share a slot (`SlotFacts`, from `SumIsCount`: a sum
over a finite set counts its units); and every edge between workers has a token, stored
by the last of its sources (`TokenFor`, `TokenSources`).  `StrictPlanIsSound`,
`LookaheadPlanIsSound` and `CounterPlanIsSound` conclude that the generated programs
are sound.  With the theorems about the executors: whatever the schedule and the
assignment, the emitted `stepDense` runs every MTask once per cycle, after everything
it depends on.

`DenseContractProofs` (any graph of components in topological order, any cap, any
order of candidates, any compaction interval) is about
`mtBuildDenseMTasksVerilatorContract`.  `ContractInv` compares what the loop keeps
with the graph of groups, as the components' own edges define it: the live entries
of a raw list are the neighbours and its dead ones repeat them (`Lists`), a cached
list of this epoch is the current one (`ExactCache`), a remembered answer is right
(`ExactMemo`), right after a compaction no list has a dead id (`Compacted`) and
an edge was refused only for another path (`OnCycles`), costs are those of the
members (`Members`), and the graph is acyclic.  No part is inductive alone: that the
graph stays acyclic needs exact searches, exact searches need exact lists, caches and
answers, and that a merge leaves exact lists (`ListAfterMerge`) needs the lists of
both directions.  The edge search runs with the edge taken out, but a dead
copy of it may be left, so it visits no less than it should; what it visits separates
the groups it lets merge (`EdgeApart`), and by `MergeKeepsAcyclic` that is enough.  Since the graph is
acyclic a group is ready as long as one is missing (`SomeReady`), so the order is
complete.  The results are `BookkeepingHolds`, `RejectionsHold` and `MTasksHold`.

`DenseListScheduleProofs` (any forward graph, costs, pins, worker count): the
invariant ties `remaining` to the unscheduled predecessors, `ready` to the
MTasks without any, and every begin time to the largest one so far.  `BusyGrows`
and the minimality of a pick give `StartsInOrderHolds`; a least unscheduled id
would be ready, which gives `AllScheduledHolds`; the order in which `Pick`
takes MTasks gives `TopoMonotoneHolds`, the assert of `buildMtDenseSchedule`.

The assumptions are `ListAssumption` (ids ascend along edges), `ContractAssumption`
(components in topological order), `PoolAssumption`, `ExecutorAssumption` (which
includes `SoundPlan`), `CountersAssumption` (which includes `SoundCounts`),
`CacheLineAssumption` and `TablesAssumption` (sizes are positive or natural) and
`SparseAssumption` (which includes `CircuitOK`: nodes in evaluation order, super
nodes as runs of them).  `LookaheadAssumption` (which includes `SoundLookahead`: a
dependence of a candidate ends in something the candidate finds done) is a hypothesis
of the theorems about lookahead.  TLC evaluates each on the instances of its runs,
the last one in `MCDenseVariants`.  `SoundPlan`, `SoundLookahead` and `SoundCounts` are
proved of the programs `DensePlan` makes; that the ids of a schedule ascend along its
edges is `TopoMonotoneHolds` where the list scheduler renumbers them, and
`MTasksHold` where the contraction does.

Only model-checked: liveness, which needs fairness; the components, the parser, the
emission and the multithreaded sparse step, which have no proof yet; `Partition` and
`Compile`, whose operators recurse over trees and lists.

## Findings

`sparse_reset`: a synchronous reset sets a register and its next value and
activates the readers of the register only.  If the next value does not read the
register and its inputs stay as they are (a register that copies an input), it
is not computed again: in the sparse step the register stays at its reset value
when the reset is over, in the dense step it takes the value of its input.  The
repository's README (line 98) calls the two paths bit-exact.  Large designs are
not affected where more than 100 super nodes read reset registers, since the
reset then activates everything.

`seed_input`: `mtSeedVerifyInputHash` compares the hash of the input with the one
in the seed and reports "input FIR or generator pipeline changed".  `topoSort`
takes the hash before it has filled `sortedSuper`, so it is the hash of nothing
and equal for all inputs.  A text seed of another circuit is used.  A seed2
replay is stopped later, by the hashes of its points (`OtherInputStopped`).

`cat_test`: `patternDetect` splits `Cat(l, r) == c` into two comparisons and takes
the constant for `l` from one bit too low, so the node has another value than the
comparison its comment describes.

Without a run of their own:

- The counter fallback that an owner-ready build gets when it is compiled without
  `GSIM_MT_DENSE_OWNER_READY_FLAGS_COMPILE` (`cppEmitterDenseExec.cpp:943`) does
  not compare the configured worker count with the generated one, so the lane of
  a third worker would be left out when two are configured.  The sibling
  fallback, which `dense_variants` checks, does compare them.
- `replicationOpt` numbers its copies in the order of node addresses.  A replay
  whose allocator hands out other addresses is rejected at `pass.replication`;
  `RunCompletes` therefore asks for the same layout.
- A text seed that ends between its `input_hash` and its `node_count` line is
  accepted with no ranks, and the build falls back to the stable order
  (`seedOrder.cpp:66`); `TextOrderKept` therefore asks for the count.
- `detectLoop` marks a node as done when it first leaves it from the stack; the
  graph A to B, A to C, C to B, B to C is reported free of loops.

Outside the circuits of `compile`, because the emitted program then differs from
the circuit (each was seen in the model with the circuit added): a quotient or
remainder cut to fewer bits is not masked; a remainder by zero divides by zero,
also in the arm of a mux that is not taken; signed arithmetic nested in signed
arithmetic without a node between; a signed pad that is cut afterwards; a
constant signed `shl` stops the constant analysis; a signed `shr` by the width or
more gives 0; bitwise operations, `cat`, `head`, `bits` and reductions directly on
signed operands; a `dshr` by the width of `int` or more; a register of inferred
width whose reset value is wider than its next value; a constant tree followed by
an empty one loses its default; a reset value that reads a register reset in the
same pass; `set_<input>` with bits `usedBits` has cut; a one-hot test whose operand
is not the shifted node itself; a reset that is computed by another operation
than `or`, `bits` or a cast stops the generator (`inferReset`), and a synchronous one
that is computed is seen one step later than an input would be; a register that is never connected and whose
reset value is not constant stops the generator.

## Not modelled

Arrays, memories, bundles and instances are left out of `Compile` and of the
sparse step, so `splitArray`, the memory parts of the constant analysis and clock
gating (`clockOptimize`) have no model; `mergeRegister` is commented out in `main()`.  Asynchronous
resets are in `Compile` and not in `SparseStep`.  Constants of several words, printf
and assert are left out of the instructions.  Of the multithreaded sparse step the
antichain runtime, which no option selects, the path reserved for one region of one
design, the guards that leave out a whole `subStep` and the worker counts the cost
policies arrive at are left out.  The search for
contraction parameters repeats the contraction and compares scores.  Profilers,
reports and dumps only read state.  The grammar is generated by bison and flex,
the emulator is a driver around `step()`, and the scripts compare texts.
