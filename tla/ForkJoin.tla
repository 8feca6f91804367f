------------------------------ MODULE ForkJoin ------------------------------
(***************************************************************************)
(* What the worker pool promises to its callers (stepDense, mtRunPureBatch,*)
(* the coarse region runners): a post hands the job to every spawned       *)
(* background worker, every worker acknowledges exactly once, and the      *)
(* caller leaves the wait only when all of them have.  The pool may be     *)
(* shut down only between two jobs.                                        *)
(***************************************************************************)
CONSTANT Workers      \* the spawned background workers

VARIABLES phase,      \* "idle", "open" (a job is posted) or "closed" (pool stopped)
          busy        \* workers that have not yet acknowledged the open job

fjVars == <<phase, busy>>

FJInit == phase = "idle" /\ busy = {}

Fork ==
  /\ phase = "idle"
  /\ phase' = "open"
  /\ busy' = Workers

Ack(w) ==
  /\ phase = "open"
  /\ w \in busy
  /\ busy' = busy \ {w}
  /\ UNCHANGED phase

Join ==
  /\ phase = "open"
  /\ busy = {}
  /\ phase' = "idle"
  /\ UNCHANGED busy

Close ==
  /\ phase = "idle"
  /\ phase' = "closed"
  /\ UNCHANGED busy

FJNext == Fork \/ (\E w \in Workers : Ack(w)) \/ Join \/ Close

FJSpec == FJInit /\ [][FJNext]_fjVars
=============================================================================
