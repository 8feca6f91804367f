-------------------------- MODULE MCDenseSchedule ---------------------------
(***************************************************************************)
(* Every forward dependency graph of N tasks, up to MaxActs activation     *)
(* edges of any direction, at most one task bound to worker 0, and the     *)
(* combinations of switches that behave differently.                       *)
(***************************************************************************)
EXTENDS DenseSchedule

CONSTANTS N, MaxActs, PinnedTasks

MCTasks == 0..(N - 1)

Switches ==
  {[forward |-> TRUE, preserve |-> TRUE, codegen |-> TRUE],
   [forward |-> FALSE, preserve |-> FALSE, codegen |-> TRUE],
   [forward |-> TRUE, preserve |-> FALSE, codegen |-> FALSE]}

MCInputs ==
  {[n |-> N, deps |-> d, acts |-> a, zero |-> z, forward |-> s.forward,
    preserve |-> s.preserve, codegen |-> s.codegen] :
     d \in SUBSET {e \in MCTasks \X MCTasks : e[1] < e[2]},
     a \in {x \in SUBSET {e \in MCTasks \X MCTasks : e[1] # e[2]} : Cardinality(x) <= MaxActs},
     z \in {{}} \cup {{t} : t \in PinnedTasks},
     s \in Switches}
=============================================================================
