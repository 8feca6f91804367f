----------------------------- MODULE WorkerPool -----------------------------
(***************************************************************************)
(* The emitted worker pool: startMtWorkerPool, mtWorkerPoolPost,           *)
(* mtWorkerPoolWaitForDone, mtWorkerPoolLoop and stopMtWorkerPool, with    *)
(* the main thread as logical worker 0.  One action is one access to a     *)
(* shared atomic (or one plain payload access between two of them).        *)
(* FlagJoin selects the build with GSIM_MT_WORKER_POOL_FLAG_JOIN_COMPILE.  *)
(***************************************************************************)
EXTENDS Naturals, FiniteSets

CONSTANTS Threads,    \* mtWorkerPoolThreadCount: background workers 1..Threads
          FlagJoin,   \* parity flags instead of the shared done counter
          MaxPosts    \* bound: jobs the main thread posts

ASSUME PoolAssumption ==
  /\ Threads \in Nat \ {0}
  /\ FlagJoin \in BOOLEAN
  /\ MaxPosts \in Nat

VARIABLES
  main,        \* control point of the main thread
  spawned,     \* background threads created so far
  generation,  \* mtWorkerPoolGeneration
  stop,        \* mtWorkerPoolStop
  readyCount,  \* mtWorkerPoolReadyCount
  doneCount,   \* mtWorkerPoolDoneCount
  doneFlags,   \* mtWorkerPoolDoneFlags[w].parity
  payload,     \* the plain job fields: job number and mtWorkerPoolCurrentWorkerCount
  pc,          \* control point of every background worker
  seen,        \* its seenGeneration
  job,         \* the payload it read
  ran          \* history: the job it ran last

mainVars == <<main, spawned, generation, stop, payload>>
joinVars == <<readyCount, doneCount, doneFlags>>
workerVars == <<pc, seen, job, ran>>
vars == <<mainVars, joinVars, workerVars>>

Workers == 1..Threads
Payload == [number : Nat, workerCount : 0..(Threads + 1)]
MainStates == {"spawning", "starting", "idle", "publish", "work", "join",
               "stopping", "closing", "stopped"}
WorkerStates == {"none", "entry", "baseline", "spin", "load", "check", "run",
                 "signal", "exited"}

TypeOK ==
  /\ main \in MainStates
  /\ spawned \in 0..Threads
  /\ generation \in Nat
  /\ stop \in BOOLEAN
  /\ readyCount \in Nat
  /\ doneCount \in Nat
  /\ doneFlags \in [Workers -> {0, 1}]
  /\ payload \in Payload
  /\ pc \in [Workers -> WorkerStates]
  /\ seen \in [Workers -> Nat]
  /\ job \in [Workers -> Payload]
  /\ ran \in [Workers -> Nat]

\* initMtProfile clears the pool and startMtWorkerPool, past its early returns,
\* clears the ready count and the parity flags before it spawns.
Init ==
  /\ main = "spawning"
  /\ spawned = 0
  /\ generation = 0
  /\ stop = FALSE
  /\ readyCount = 0
  /\ doneCount = 0
  /\ doneFlags = [w \in Workers |-> 0]
  /\ payload = [number |-> 0, workerCount |-> 0]
  /\ pc = [w \in Workers |-> "none"]
  /\ seen = [w \in Workers |-> 0]
  /\ job = [w \in Workers |-> [number |-> 0, workerCount |-> 0]]
  /\ ran = [w \in Workers |-> 0]

-----------------------------------------------------------------------------
(* Main thread *)

\* startMtWorkerPool: one emplace_back per background worker.
SpawnNext ==
  /\ main = "spawning"
  /\ spawned < Threads
  /\ spawned' = spawned + 1
  /\ pc' = [pc EXCEPT ![spawned + 1] = "entry"]
  /\ main' = IF spawned + 1 = Threads THEN "starting" ELSE "spawning"
  /\ UNCHANGED <<generation, stop, payload, joinVars, seen, job, ran>>

\* Mutant: returns before the workers have their baseline.
StartReturnNoWait ==
  /\ main = "starting"
  /\ main' = "idle"
  /\ UNCHANGED <<spawned, generation, stop, payload, joinVars, workerVars>>

\* startMtWorkerPool spins until every worker has published its baseline.
StartReturn ==
  /\ main = "starting"
  /\ readyCount >= Threads
  /\ main' = "idle"
  /\ UNCHANGED <<spawned, generation, stop, payload, joinVars, workerVars>>

\* A caller fills the payload for wc logical workers, then mtWorkerPoolPost
\* resets the done counter (only the counter build has it).
Publish(wc) ==
  /\ main = "idle"
  /\ payload.number < MaxPosts
  /\ payload' = [number |-> payload.number + 1, workerCount |-> wc]
  /\ doneCount' = IF FlagJoin THEN doneCount ELSE 0
  /\ main' = "publish"
  /\ UNCHANGED <<spawned, generation, stop, readyCount, doneFlags, workerVars>>

\* mtWorkerPoolPost: the release increment of the generation.
Post ==
  /\ main = "publish"
  /\ generation' = generation + 1
  /\ main' = "work"
  /\ UNCHANGED <<spawned, stop, payload, joinVars, workerVars>>

\* The main thread runs logical worker 0's share.
MainWork ==
  /\ main = "work"
  /\ main' = "join"
  /\ UNCHANGED <<spawned, generation, stop, payload, joinVars, workerVars>>

\* mtWorkerPoolWaitForDone overrides its argument by mtWorkerPoolThreadCount.  The
\* flag build scans the flags from the first until one pass finds all of them; a
\* flag keeps its parity until the next post, so the last pass is one step.
AllDone ==
  IF FlagJoin
  THEN \A w \in Workers : doneFlags[w] = generation % 2
  ELSE doneCount >= Threads

\* Mutant: waits for the workers of the job only, as its argument says.
AllDoneArgument ==
  IF FlagJoin
  THEN \A w \in 1..(payload.workerCount - 1) : doneFlags[w] = generation % 2
  ELSE doneCount >= payload.workerCount - 1

WaitForDoneArgument ==
  /\ main = "join"
  /\ AllDoneArgument
  /\ main' = "idle"
  /\ UNCHANGED <<spawned, generation, stop, payload, joinVars, workerVars>>

WaitForDone ==
  /\ main = "join"
  /\ AllDone
  /\ main' = "idle"
  /\ UNCHANGED <<spawned, generation, stop, payload, joinVars, workerVars>>

\* Mutant: the stop flag is never stored.
StopStoreMissing ==
  /\ main = "idle"
  /\ main' = "stopping"
  /\ UNCHANGED <<spawned, generation, stop, payload, joinVars, workerVars>>

\* stopMtWorkerPool: store stop, then bump the generation, then join.
StopStore ==
  /\ main = "idle"
  /\ stop' = TRUE
  /\ main' = "stopping"
  /\ UNCHANGED <<spawned, generation, payload, joinVars, workerVars>>

StopBump ==
  /\ main = "stopping"
  /\ generation' = generation + 1
  /\ main' = "closing"
  /\ UNCHANGED <<spawned, stop, payload, joinVars, workerVars>>

JoinThreads ==
  /\ main = "closing"
  /\ \A w \in Workers : pc[w] = "exited"
  /\ main' = "stopped"
  /\ UNCHANGED <<spawned, generation, stop, payload, joinVars, workerVars>>

-----------------------------------------------------------------------------
(* Background worker w: mtWorkerPoolLoop(w) *)

Baseline(w) ==
  /\ pc[w] = "entry"
  /\ seen' = [seen EXCEPT ![w] = generation]
  /\ pc' = [pc EXCEPT ![w] = "baseline"]
  /\ UNCHANGED <<mainVars, joinVars, job, ran>>

Ready(w) ==
  /\ pc[w] = "baseline"
  /\ readyCount' = readyCount + 1
  /\ pc' = [pc EXCEPT ![w] = "spin"]
  /\ UNCHANGED <<mainVars, doneCount, doneFlags, seen, job, ran>>

\* Spin loop, first access: leave when the pool is stopped.
SpinStop(w) ==
  /\ pc[w] = "spin"
  /\ pc' = [pc EXCEPT ![w] = IF stop THEN "exited" ELSE "load"]
  /\ UNCHANGED <<mainVars, joinVars, seen, job, ran>>

\* Spin loop, second access: leave when the generation has moved.
SpinLoad(w) ==
  /\ pc[w] = "load"
  /\ seen' = [seen EXCEPT ![w] = generation]
  /\ pc' = [pc EXCEPT ![w] = IF generation # seen[w] THEN "check" ELSE "spin"]
  /\ UNCHANGED <<mainVars, joinVars, job, ran>>

\* After the spin: the second stop test, then the payload is read; a worker
\* beyond the job's worker count only acknowledges.
Check(w) ==
  /\ pc[w] = "check"
  /\ \/ /\ stop
        /\ pc' = [pc EXCEPT ![w] = "exited"]
        /\ UNCHANGED job
     \/ /\ ~stop
        /\ job' = [job EXCEPT ![w] = payload]
        /\ pc' = [pc EXCEPT ![w] = IF w >= payload.workerCount THEN "signal" ELSE "run"]
  /\ UNCHANGED <<mainVars, joinVars, seen, ran>>

RunJob(w) ==
  /\ pc[w] = "run"
  /\ ran' = [ran EXCEPT ![w] = job[w].number]
  /\ pc' = [pc EXCEPT ![w] = "signal"]
  /\ UNCHANGED <<mainVars, joinVars, seen, job>>

\* The acknowledgement, from active and inactive workers alike.
SignalDone(w) ==
  /\ pc[w] = "signal"
  /\ doneCount' = IF FlagJoin THEN doneCount ELSE doneCount + 1
  /\ doneFlags' = IF FlagJoin THEN [doneFlags EXCEPT ![w] = seen[w] % 2] ELSE doneFlags
  /\ pc' = [pc EXCEPT ![w] = "spin"]
  /\ UNCHANGED <<mainVars, readyCount, seen, job, ran>>

-----------------------------------------------------------------------------
MainNext ==
  \/ SpawnNext \/ StartReturn
  \/ (\E wc \in 2..(Threads + 1) : Publish(wc))
  \/ Post \/ MainWork \/ WaitForDone
  \/ StopStore \/ StopBump \/ JoinThreads

WorkerNext(w) ==
  \/ Baseline(w) \/ Ready(w) \/ SpinStop(w) \/ SpinLoad(w)
  \/ Check(w) \/ RunJob(w) \/ SignalDone(w)

\* The pool is gone once the destructor has joined its threads.
Destroyed == main = "stopped" /\ UNCHANGED vars

Next == MainNext \/ (\E w \in Workers : WorkerNext(w)) \/ Destroyed

Spec == Init /\ [][Next]_vars

\* Every thread keeps being scheduled; nothing forces the main thread to post
\* another job or to destroy the pool.
MainProgress ==
  \/ SpawnNext \/ StartReturn \/ Post \/ MainWork \/ WaitForDone
  \/ StopBump \/ JoinThreads

FairSpec ==
  /\ Spec
  /\ WF_vars(MainProgress)
  /\ \A w \in Workers : WF_vars(WorkerNext(w))

-----------------------------------------------------------------------------
(* Properties *)

\* "Every spawned background worker acknowledges each generation ... before
\* the main thread reuses payload fields" (mtWorkerPoolPost): whatever a
\* worker holds while it runs or acknowledges is the job of the generation it
\* saw, never the fields of an earlier or a half-written later job.
PayloadStable ==
  \A w \in Workers : pc[w] \in {"run", "signal"} =>
    job[w].number = seen[w] /\ job[w] = payload

\* mtWorkerPoolWaitForDone: when the main thread is between two jobs, every
\* worker the last job was for has run it, and none is still inside it.
JoinComplete ==
  main = "idle" =>
    \A w \in Workers :
      /\ pc[w] \in {"spin", "load"}
      /\ w < payload.workerCount => ran[w] = payload.number

\* mtWorkerPoolLoop: the bump that wakes the workers for the shutdown is never
\* taken for a job: after stop is stored no worker enters a job.
NoJobAfterStop ==
  [][\A w \in Workers : stop /\ pc[w] # "run" => pc'[w] # "run"]_vars

\* Each posted job is eventually joined: no lost wake-up, and the first post
\* never races a worker that has not captured its baseline generation.
PostIsJoined == main = "publish" ~> main = "idle"

\* stopMtWorkerPool: once requested, the shutdown joins every thread.
StopJoins == main = "stopping" ~> main = "stopped"

\* The fork-join discipline the callers of the pool rely on: a job is open
\* from its post to its join, and a worker is busy until it acknowledges.
PhaseOf ==
  IF main \in {"work", "join"} THEN "open"
  ELSE IF main \in {"closing", "stopped"} THEN "closed" ELSE "idle"

BusyOf ==
  {w \in Workers : /\ main \in {"work", "join"}
                   /\ seen[w] # generation \/ pc[w] \in {"check", "run", "signal"}}

FJ == INSTANCE ForkJoin WITH phase <- PhaseOf, busy <- BusyOf

\* The pool implements ForkJoin: one acknowledgement per worker and job, and a
\* join only after all of them.
ImplementsForkJoin == FJ!FJSpec
=============================================================================
