---------------------------- MODULE MCWorkerPool ----------------------------
(* The pool of both kinds of build: the one that joins on a counter of the   *)
(* workers that are done, which the cfg selects for the extended module, and *)
(* the one that joins on a flag per worker.                                  *)
EXTENDS WorkerPool

VARIABLE flags  \* GSIM_MT_WORKER_POOL_FLAG_JOIN_COMPILE of this build (never changes)

Flags == INSTANCE WorkerPool WITH FlagJoin <- TRUE

buildVars == <<vars, flags>>

BuildInit == flags \in BOOLEAN /\ Init

Build(counterStep, flagsStep) ==
  /\ IF flags THEN flagsStep ELSE counterStep
  /\ UNCHANGED flags

BuildNext == Build(Next, Flags!Next)

\* The scheduling of WorkerPool, for either build.
BuildFairSpec ==
  /\ BuildInit
  /\ [][BuildNext]_buildVars
  /\ WF_buildVars(Build(MainProgress, Flags!MainProgress))
  /\ \A w \in Workers : WF_buildVars(Build(WorkerNext(w), Flags!WorkerNext(w)))
=============================================================================
