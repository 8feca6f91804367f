--------------------------- MODULE DenseCounters ----------------------------
(***************************************************************************)
(* stepDense with dependency counters: the build without owner-ready flags *)
(* and the fallback a build with them gets when it is compiled without     *)
(* GSIM_MT_DENSE_OWNER_READY_FLAGS_COMPILE.  In an even cycle every MTask  *)
(* adds one to the counter of each runtime successor and an MTask waits    *)
(* for its dependency count; in an odd cycle it subtracts and waits for 0. *)
(***************************************************************************)
EXTENDS DensePlan

CONSTANTS Configured,     \* mtConfiguredWorkerCount, from GSIM_THREADS at run time
          OwnerReady,     \* generated with owner-ready flags, compiled without them
          Plans,          \* emitted programs: deps, the worker count they were
                          \* generated for, owner, runtime successors, order
          MaxCycles       \* bound: calls of stepDense

\* Owner-ready code compiled without its flags does not compare the worker
\* counts; it is sound only where there are lanes enough.
ASSUME CountersAssumption ==
  /\ Configured \in Nat \ {0}
  /\ OwnerReady \in BOOLEAN
  /\ MaxCycles \in Nat
  /\ \A p \in Plans : SoundCounts(p) /\ (OwnerReady /\ Configured > 1 => p.generated <= Configured)

Lanes == 0..(Configured - 1)
Background == 1..(Configured - 1)

VARIABLES
  plan,         \* the emitted program (never changes)
  poolEnabled,  \* the pool was started with Configured - 1 threads (never changes)
  main,         \* main thread: "idle", "lanes" or "serial"
  phase, busy,  \* the worker pool, see ForkJoin
  cycles,       \* the emitted member of that name
  depsDone,     \* mtDenseMTaskVertices[m].depsDone
  lane,         \* control point of every lane in stepDenseThreadWorker
  even,         \* its evenCycle
  todo,         \* its MTasks still ahead
  cur,          \* the MTask it is at
  signals,      \* successors of cur not signalled yet
  serialTodo,   \* serial path: MTasks still ahead
  epoch         \* history: completed bodies of every MTask

poolVars == <<phase, busy>>
laneVars == <<lane, even, todo, cur, signals>>
vars == <<plan, poolEnabled, main, poolVars, cycles, depsDone, laneVars, serialTodo, epoch>>

FJ == INSTANCE ForkJoin WITH Workers <- Background

MTasks == MTasksOf(plan)
Even(n) == n % 2 = 0
Least(S, x) == x \in S /\ \A y \in S : x <= y

\* kDenseMTaskDepCount: one for every runtime edge into m.
DepCount(m) == Cardinality({p \in MTasks : m \in plan.runtime[p]})

Init ==
  /\ plan \in Plans
  /\ poolEnabled \in BOOLEAN
  /\ main = "idle"
  /\ FJ!FJInit
  /\ cycles = 0
  /\ depsDone = [m \in MTasks |-> 0]
  /\ lane = [w \in Lanes |-> "off"]
  /\ even = [w \in Lanes |-> TRUE]
  /\ todo = [w \in Lanes |-> {}]
  /\ cur = [w \in Lanes |-> 0]
  /\ signals = [w \in Lanes |-> {}]
  /\ serialTodo = {}
  /\ epoch = [m \in MTasks |-> 0]

-----------------------------------------------------------------------------
(* stepDense *)

\* The generated count is required only where the code was generated without
\* owner-ready flags.
Parallel ==
  /\ poolEnabled
  /\ IF OwnerReady THEN Configured > 1 ELSE Configured = plan.generated

StepParallel ==
  /\ main = "idle"
  /\ cycles < MaxCycles
  /\ Parallel
  /\ FJ!Fork
  /\ main' = "lanes"
  /\ lane' = [w \in Lanes |-> "posted"]
  /\ UNCHANGED <<plan, poolEnabled, cycles, depsDone, even, todo, cur, signals, serialTodo, epoch>>

StepSerial ==
  /\ main = "idle"
  /\ cycles < MaxCycles
  /\ ~Parallel
  /\ main' = "serial"
  /\ serialTodo' = MTasks
  /\ UNCHANGED <<plan, poolEnabled, poolVars, cycles, depsDone, laneVars, epoch>>

SerialBody(m) ==
  /\ main = "serial"
  /\ Least(serialTodo, m)
  /\ serialTodo' = serialTodo \ {m}
  /\ epoch' = [epoch EXCEPT ![m] = @ + 1]
  /\ UNCHANGED <<plan, poolEnabled, main, poolVars, cycles, depsDone, laneVars>>

SerialEnd ==
  /\ main = "serial"
  /\ serialTodo = {}
  /\ cycles' = cycles + 1
  /\ main' = "idle"
  /\ UNCHANGED <<plan, poolEnabled, poolVars, depsDone, laneVars, serialTodo, epoch>>

\* Mutant: the main thread does not wait for the pool.
StepJoinEarly ==
  /\ main = "lanes"
  /\ lane[0] = "done"
  /\ phase' = "idle"
  /\ busy' = {}
  /\ main' = "idle"
  /\ cycles' = cycles + 1
  /\ lane' = [w \in Lanes |-> "off"]
  /\ UNCHANGED <<plan, poolEnabled, depsDone, even, todo, cur, signals, serialTodo, epoch>>

StepJoin ==
  /\ main = "lanes"
  /\ lane[0] = "done"
  /\ FJ!Join
  /\ main' = "idle"
  /\ cycles' = cycles + 1
  /\ lane' = [w \in Lanes |-> "off"]
  /\ UNCHANGED <<plan, poolEnabled, depsDone, even, todo, cur, signals, serialTodo, epoch>>

-----------------------------------------------------------------------------
(* stepDenseThreadWorker(w); a lane beyond the generated ones has no MTasks *)

LaneBegin(w) ==
  /\ lane[w] = "posted"
  /\ even' = [even EXCEPT ![w] = Even(cycles)]
  /\ todo' = [todo EXCEPT ![w] = {m \in MTasks : plan.owner[m] = w}]
  /\ lane' = [lane EXCEPT ![w] = "signal"]
  /\ UNCHANGED <<plan, poolEnabled, main, poolVars, cycles, depsDone, cur, signals, serialTodo, epoch>>

LaneNext(w, m) ==
  /\ lane[w] = "signal"
  /\ signals[w] = {}
  /\ Least(todo[w], m)
  /\ cur' = [cur EXCEPT ![w] = m]
  /\ todo' = [todo EXCEPT ![w] = @ \ {m}]
  /\ lane' = [lane EXCEPT ![w] = "wait"]
  /\ UNCHANGED <<plan, poolEnabled, main, poolVars, cycles, depsDone, even, signals, serialTodo, epoch>>

\* The value the wait is for.  staticEmptyElide leaves out the wait of an MTask
\* with a count of 0, whose counter is always 0.
CounterTarget(w) == IF even[w] THEN DepCount(cur[w]) ELSE 0

BodyStart(w) ==
  /\ lane[w] = "wait"
  /\ depsDone[cur[w]] = CounterTarget(w)
  /\ lane' = [lane EXCEPT ![w] = "body"]
  /\ UNCHANGED <<plan, poolEnabled, main, poolVars, cycles, depsDone, even, todo, cur, signals, serialTodo, epoch>>

Spin(w) ==
  /\ lane[w] = "wait"
  /\ depsDone[cur[w]] # CounterTarget(w)
  /\ UNCHANGED vars

\* Mutant: an MTask that waits for nothing does not signal either.
BodyEndElideSource(w) ==
  /\ lane[w] = "body"
  /\ epoch' = [epoch EXCEPT ![cur[w]] = @ + 1]
  /\ signals' = [signals EXCEPT ![w] = IF DepCount(cur[w]) = 0 THEN {} ELSE plan.runtime[cur[w]]]
  /\ lane' = [lane EXCEPT ![w] = "signal"]
  /\ UNCHANGED <<plan, poolEnabled, main, poolVars, cycles, depsDone, even, todo, cur, serialTodo>>

BodyEnd(w) ==
  /\ lane[w] = "body"
  /\ epoch' = [epoch EXCEPT ![cur[w]] = @ + 1]
  /\ signals' = [signals EXCEPT ![w] = plan.runtime[cur[w]]]
  /\ lane' = [lane EXCEPT ![w] = "signal"]
  /\ UNCHANGED <<plan, poolEnabled, main, poolVars, cycles, depsDone, even, todo, cur, serialTodo>>

\* signalUpstreamDone for one successor: fetch_add or fetch_sub.
Signal(w, s) ==
  /\ lane[w] = "signal"
  /\ Least(signals[w], s)
  /\ depsDone' = [depsDone EXCEPT ![s] = IF even[w] THEN @ + 1 ELSE @ - 1]
  /\ signals' = [signals EXCEPT ![w] = @ \ {s}]
  /\ UNCHANGED <<plan, poolEnabled, main, poolVars, cycles, lane, even, todo, cur, serialTodo, epoch>>

LaneEnd(w) ==
  /\ lane[w] = "signal"
  /\ signals[w] = {}
  /\ todo[w] = {}
  /\ IF w = 0 THEN UNCHANGED poolVars ELSE FJ!Ack(w)
  /\ lane' = [lane EXCEPT ![w] = "done"]
  /\ UNCHANGED <<plan, poolEnabled, main, cycles, depsDone, even, todo, cur, signals, serialTodo, epoch>>

-----------------------------------------------------------------------------
LaneStep(w) ==
  \/ LaneBegin(w) \/ BodyStart(w) \/ BodyEnd(w) \/ LaneEnd(w)
  \/ \E m \in todo[w] : LaneNext(w, m)
  \/ \E s \in signals[w] : Signal(w, s)

MainStep ==
  \/ StepParallel \/ StepSerial \/ SerialEnd \/ StepJoin
  \/ \E m \in serialTodo : SerialBody(m)

\* The harness stops calling step.
Halt == main = "idle" /\ cycles = MaxCycles /\ UNCHANGED vars

Next == MainStep \/ (\E w \in Lanes : LaneStep(w) \/ Spin(w)) \/ Halt

Spec == Init /\ [][Next]_vars

\* Every thread is scheduled again and again, and the harness keeps stepping.
FairSpec == Spec /\ WF_vars(MainStep) /\ \A w \in Lanes : WF_vars(LaneStep(w))

-----------------------------------------------------------------------------
(* Properties *)

\* "No counter reset needed - Verilator even/odd alternation handles it"
\* (stepDense): after a cycle every counter is where the next cycle, of the other
\* parity, starts from.
CountersAlternate ==
  main = "idle" /\ Parallel =>
    \A m \in MTasks : depsDone[m] = IF Even(cycles) THEN 0 ELSE DepCount(m)

\* Every call of stepDense returns: no lane waits for a count that its cycle never
\* reaches, and no two lanes wait for each other.
StepReturns == main # "idle" ~> main = "idle"

DC == INSTANCE DenseCycle WITH
        Graphs <- {p.deps : p \in Plans}, graph <- plan.deps, cycle <- cycles

\* A counter is unsigned: no signal takes it below 0, none past the count.
CountersInRange == Parallel => \A m \in MTasks : depsDone[m] \in 0..DepCount(m)

\* The executor implements one-body-per-cycle in dependence order.  "A runtime
\* worker-count mismatch would silently omit whole worker lanes. Require the
\* generated count; otherwise the caller falls through to the serial path"
\* (stepDense): with a lane missing the cycle would end before every MTask has run.
ImplementsDenseCycle == DC!DCSpec
=============================================================================
