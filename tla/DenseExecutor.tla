--------------------------- MODULE DenseExecutor ----------------------------
(***************************************************************************)
(* stepDense with strict owner-ready tokens: the workers of the pool run   *)
(* the MTasks they own in ascending id order; before a body a worker spins *)
(* on the tokens of the MTask, after it it stores the tokens the MTask     *)
(* publishes.  Tokens are never cleared: an even cycle sets them to 1 and  *)
(* waits for 1, an odd cycle sets them to 0 and waits for 0.  The pool is  *)
(* taken at its contract, ForkJoin.                                        *)
(***************************************************************************)
EXTENDS DensePlan

CONSTANTS Generated,    \* kDenseOwnerReadyWorkerCount: workers the tables were made for
          Plans,        \* emitted programs: owner, deps and token tables of their MTasks
          Environments, \* GSIM_THREADS, GSIM_MT_WORKER_POOL, GSIM_MT_LAZY_WORKER_POOL
          MaxCycles     \* bound: calls of stepDense

Owners == 0..(Generated - 1)
Background == 1..(Generated - 1)

ASSUME ExecutorAssumption ==
  /\ Generated \in Nat \ {0}
  /\ MaxCycles \in Nat
  /\ \A p \in Plans : SoundPlan(p, Owners)
  /\ \A e \in Environments : e.configured \in Nat /\ e.poolEnabled \in BOOLEAN /\ e.lazy \in BOOLEAN

VARIABLES
  plan,        \* the emitted program (never changes)
  env,         \* the process environment (never changes)
  main,        \* main thread: "idle", "lanes" (parallel cycle) or "serial"
  phase, busy, \* the worker pool, see ForkJoin
  cycles,      \* the emitted member of that name
  primed,      \* mtDenseOwnerReadyTokensPrimed
  ready,       \* mtDenseOwnerReadyTokens[slot].ready
  lane,        \* control point of every worker in stepDenseThreadWorker
  target,      \* the value this lane's cycle stores and waits for
  todo,        \* MTasks of the lane still ahead
  cur,         \* the MTask the lane is at
  waiting,     \* its tokens not yet seen ready
  storing,     \* its tokens not yet stored
  serialTodo,  \* serial path: MTasks still ahead
  epoch        \* history: completed bodies of every MTask

laneVars == <<lane, target, todo, cur, waiting, storing>>
poolVars == <<phase, busy>>
vars == <<plan, env, main, poolVars, cycles, primed, ready, laneVars, serialTodo, epoch>>

FJ == INSTANCE ForkJoin WITH Workers <- Background

MTasks == MTasksOf(plan)
Even(n) == n % 2 = 0
Target(n) == IF Even(n) THEN 1 ELSE 0
OwnMTasks(w) == {m \in MTasks : plan.owner[m] = w}
Least(S, x) == x \in S /\ \A y \in S : x <= y
LaneStates == {"off", "posted", "wait", "body", "store", "done"}

TypeOK ==
  /\ main \in {"idle", "lanes", "serial"}
  /\ phase \in {"idle", "open"}
  /\ busy \in SUBSET Background
  /\ cycles \in Nat
  /\ primed \in BOOLEAN
  /\ ready \in [plan.slots -> {0, 1}]
  /\ lane \in [Owners -> LaneStates]
  /\ target \in [Owners -> {0, 1}]
  /\ todo \in [Owners -> SUBSET MTasks]
  /\ cur \in [Owners -> Nat]
  /\ waiting \in [Owners -> SUBSET plan.slots]
  /\ storing \in [Owners -> SUBSET plan.slots]
  /\ serialTodo \in SUBSET MTasks
  /\ epoch \in [MTasks -> Nat]

Init ==
  /\ plan \in Plans
  /\ env \in Environments
  /\ main = "idle"
  /\ FJ!FJInit
  /\ cycles = 0
  /\ primed = FALSE
  /\ ready = [s \in plan.slots |-> 0]
  /\ lane = [w \in Owners |-> "off"]
  /\ target = [w \in Owners |-> 0]
  /\ todo = [w \in Owners |-> {}]
  /\ cur = [w \in Owners |-> 0]
  /\ waiting = [w \in Owners |-> {}]
  /\ storing = [w \in Owners |-> {}]
  /\ serialTodo = {}
  /\ epoch = [m \in MTasks |-> 0]

-----------------------------------------------------------------------------
(* stepDense *)

\* The constructor starts the pool once, unless it is disabled, lazy or useless.
PoolThreads ==
  IF env.poolEnabled /\ ~env.lazy /\ env.configured > 1 THEN env.configured - 1 ELSE 0

Parallel ==
  /\ env.configured = Generated
  /\ env.configured > 1
  /\ env.poolEnabled
  /\ PoolThreads + 1 >= env.configured

\* Parallel branch up to mtWorkerPoolPost: tokens that are not in phase are
\* given the value the previous cycle would have left.
StepParallel ==
  /\ main = "idle"
  /\ cycles < MaxCycles
  /\ Parallel
  /\ ready' = IF primed THEN ready
              ELSE [s \in plan.slots |-> IF Even(cycles) THEN 0 ELSE 1]
  /\ primed' = TRUE
  /\ FJ!Fork
  /\ main' = "lanes"
  /\ lane' = [w \in Owners |-> "posted"]
  /\ UNCHANGED <<plan, env, cycles, target, todo, cur, waiting, storing, serialTodo, epoch>>

\* Serial branch: every MTask in id order on the main thread.
StepSerial ==
  /\ main = "idle"
  /\ cycles < MaxCycles
  /\ ~Parallel
  /\ primed' = FALSE
  /\ main' = "serial"
  /\ serialTodo' = MTasks
  /\ UNCHANGED <<plan, env, poolVars, cycles, ready, laneVars, epoch>>

SerialBody(m) ==
  /\ main = "serial"
  /\ Least(serialTodo, m)
  /\ serialTodo' = serialTodo \ {m}
  /\ epoch' = [epoch EXCEPT ![m] = @ + 1]
  /\ UNCHANGED <<plan, env, main, poolVars, cycles, primed, ready, laneVars>>

SerialEnd ==
  /\ main = "serial"
  /\ serialTodo = {}
  /\ cycles' = cycles + 1
  /\ main' = "idle"
  /\ UNCHANGED <<plan, env, poolVars, primed, ready, laneVars, serialTodo, epoch>>

\* Mutant: the main thread does not wait for the pool.
StepJoinEarly ==
  /\ main = "lanes"
  /\ lane[0] = "done"
  /\ phase' = "idle"
  /\ busy' = {}
  /\ main' = "idle"
  /\ cycles' = cycles + 1
  /\ lane' = [w \in Owners |-> "off"]
  /\ UNCHANGED <<plan, env, primed, ready, target, todo, cur, waiting, storing, serialTodo, epoch>>

\* mtWorkerPoolWaitForDone after the main thread's own lane, then cycles++.
StepJoin ==
  /\ main = "lanes"
  /\ lane[0] = "done"
  /\ FJ!Join
  /\ main' = "idle"
  /\ cycles' = cycles + 1
  /\ lane' = [w \in Owners |-> "off"]
  /\ UNCHANGED <<plan, env, primed, ready, target, todo, cur, waiting, storing, serialTodo, epoch>>

-----------------------------------------------------------------------------
(* stepDenseThreadWorker(w) *)

\* Entry: evenCycle is read from cycles.
LaneBegin(w) ==
  /\ lane[w] = "posted"
  /\ target' = [target EXCEPT ![w] = Target(cycles)]
  /\ todo' = [todo EXCEPT ![w] = OwnMTasks(w)]
  /\ lane' = [lane EXCEPT ![w] = "store"]
  /\ UNCHANGED <<plan, env, main, poolVars, cycles, primed, ready, cur, waiting, storing, serialTodo, epoch>>

LaneNext(w, m) ==
  /\ lane[w] = "store"
  /\ storing[w] = {}
  /\ Least(todo[w], m)
  /\ cur' = [cur EXCEPT ![w] = m]
  /\ todo' = [todo EXCEPT ![w] = @ \ {m}]
  /\ waiting' = [waiting EXCEPT ![w] = plan.waits[m]]
  /\ lane' = [lane EXCEPT ![w] = "wait"]
  /\ UNCHANGED <<plan, env, main, poolVars, cycles, primed, ready, target, storing, serialTodo, epoch>>

\* The spin on one token, in slot order, ends.
PassWait(w, s) ==
  /\ lane[w] = "wait"
  /\ Least(waiting[w], s)
  /\ ready[s] = target[w]
  /\ waiting' = [waiting EXCEPT ![w] = @ \ {s}]
  /\ UNCHANGED <<plan, env, main, poolVars, cycles, primed, ready, lane, target, todo, cur, storing, serialTodo, epoch>>

\* ... or goes round once more (mtWorkerPoolPause, sometimes a yield).
Spin(w) ==
  /\ lane[w] = "wait"
  /\ \E s \in waiting[w] : Least(waiting[w], s) /\ ready[s] # target[w]
  /\ UNCHANGED vars

\* Mutant: the spin gives up.
BodyStartNoWait(w) ==
  /\ lane[w] = "wait"
  /\ lane' = [lane EXCEPT ![w] = "body"]
  /\ UNCHANGED <<plan, env, main, poolVars, cycles, primed, ready, target, todo, cur, waiting, storing, serialTodo, epoch>>

BodyStart(w) ==
  /\ lane[w] = "wait"
  /\ waiting[w] = {}
  /\ lane' = [lane EXCEPT ![w] = "body"]
  /\ UNCHANGED <<plan, env, main, poolVars, cycles, primed, ready, target, todo, cur, waiting, storing, serialTodo, epoch>>

BodyEnd(w) ==
  /\ lane[w] = "body"
  /\ epoch' = [epoch EXCEPT ![cur[w]] = @ + 1]
  /\ storing' = [storing EXCEPT ![w] = plan.stores[cur[w]]]
  /\ lane' = [lane EXCEPT ![w] = "store"]
  /\ UNCHANGED <<plan, env, main, poolVars, cycles, primed, ready, target, todo, cur, waiting, serialTodo>>

\* Mutant: the parity of the cycle is forgotten.
StoreTokenOne(w, s) ==
  /\ lane[w] = "store"
  /\ Least(storing[w], s)
  /\ ready' = [ready EXCEPT ![s] = 1]
  /\ storing' = [storing EXCEPT ![w] = @ \ {s}]
  /\ UNCHANGED <<plan, env, main, poolVars, cycles, primed, lane, target, todo, cur, waiting, serialTodo, epoch>>

\* One release store, in slot order.
StoreToken(w, s) ==
  /\ lane[w] = "store"
  /\ Least(storing[w], s)
  /\ ready' = [ready EXCEPT ![s] = target[w]]
  /\ storing' = [storing EXCEPT ![w] = @ \ {s}]
  /\ UNCHANGED <<plan, env, main, poolVars, cycles, primed, lane, target, todo, cur, waiting, serialTodo, epoch>>

\* A background worker returns to mtWorkerPoolLoop and acknowledges.
LaneEnd(w) ==
  /\ lane[w] = "store"
  /\ storing[w] = {}
  /\ todo[w] = {}
  /\ IF w = 0 THEN UNCHANGED poolVars ELSE FJ!Ack(w)
  /\ lane' = [lane EXCEPT ![w] = "done"]
  /\ UNCHANGED <<plan, env, main, cycles, primed, ready, target, todo, cur, waiting, storing, serialTodo, epoch>>

-----------------------------------------------------------------------------
LaneStep(w) ==
  \/ LaneBegin(w)
  \/ \E m \in todo[w] : LaneNext(w, m)
  \/ \E s \in waiting[w] : PassWait(w, s)
  \/ BodyStart(w)
  \/ BodyEnd(w)
  \/ \E s \in storing[w] : StoreToken(w, s)
  \/ LaneEnd(w)

MainStep ==
  \/ StepParallel \/ StepSerial \/ SerialEnd \/ StepJoin
  \/ \E m \in serialTodo : SerialBody(m)

\* The harness stops calling step.
Halt == main = "idle" /\ cycles = MaxCycles /\ UNCHANGED vars

Next == MainStep \/ (\E w \in Owners : LaneStep(w) \/ Spin(w)) \/ Halt

Spec == Init /\ [][Next]_vars

\* Every thread is scheduled again and again, and the harness keeps stepping.
FairSpec == Spec /\ WF_vars(MainStep) /\ \A w \in Owners : WF_vars(LaneStep(w))

-----------------------------------------------------------------------------
(* Properties *)

Preds(m) == {p \in MTasks : m \in plan.deps[p]}

\* stepDenseThreadWorker: while the body of an MTask runs, every MTask it
\* depends on has finished this cycle's body and no MTask that depends on it has
\* begun: no worker reads a value of the wrong cycle.
DepsBeforeBody ==
  \A w \in Owners : lane[w] = "body" =>
    /\ epoch[cur[w]] = cycles
    /\ \A p \in Preds(cur[w]) : epoch[p] = cycles + 1
    /\ \A m \in plan.deps[cur[w]] :
         epoch[m] = cycles /\ \A v \in Owners : lane[v] = "body" => cur[v] # m

\* stepDense: after each call every MTask has run exactly once per cycle, and
\* with the tokens in use all of them hold the value the next cycle waits away
\* from, so the alternation needs no reset.
CycleComplete ==
  main = "idle" =>
    /\ \A m \in MTasks : epoch[m] = cycles
    /\ primed => \A s \in plan.slots : ready[s] # Target(cycles)

\* mtDenseOwnerReadyTokens: a token is stored once per cycle and only towards
\* the value of that cycle; no store ever takes a token back.
TokensForward ==
  [][\A s \in plan.slots : ready'[s] # ready[s] => ready'[s] = Target(cycles)]_vars

\* Every call of stepDense returns: no lane waits for a token that its cycle
\* never stores, and no two lanes wait for each other.
StepReturns == main # "idle" ~> main = "idle"

DC == INSTANCE DenseCycle WITH
        Graphs <- {p.deps : p \in Plans}, graph <- plan.deps, cycle <- cycles

\* The executor implements one-body-per-cycle in dependence order.
ImplementsDenseCycle == DC!DCSpec
=============================================================================
