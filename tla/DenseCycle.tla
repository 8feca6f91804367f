----------------------------- MODULE DenseCycle -----------------------------
(***************************************************************************)
(* What one call of stepDense promises, whatever executor was emitted: the *)
(* body of every MTask runs exactly once, after the bodies of all MTasks   *)
(* it depends on, and the cycle counter moves when all have run.           *)
(***************************************************************************)
EXTENDS Naturals

CONSTANT Graphs       \* the MTask graphs considered: functions to successor sets

VARIABLES graph,      \* the MTask graph of the emitted model
          cycle,      \* completed cycles
          epoch       \* how often each MTask's body has completed

dcVars == <<graph, cycle, epoch>>

MTaskIds == DOMAIN graph

Preds(m) == {p \in MTaskIds : m \in graph[p]}

DCInit ==
  /\ graph \in Graphs
  /\ cycle = 0
  /\ epoch = [m \in MTaskIds |-> 0]

RunMTask(m) ==
  /\ epoch[m] = cycle
  /\ \A p \in Preds(m) : epoch[p] = cycle + 1
  /\ epoch' = [epoch EXCEPT ![m] = @ + 1]
  /\ UNCHANGED <<graph, cycle>>

EndCycle ==
  /\ \A m \in MTaskIds : epoch[m] = cycle + 1
  /\ cycle' = cycle + 1
  /\ UNCHANGED <<graph, epoch>>

DCNext == (\E m \in MTaskIds : RunMTask(m)) \/ EndCycle

DCSpec == DCInit /\ [][DCNext]_dcVars
=============================================================================
