-------------------------- MODULE MCDenseExecutor ---------------------------
(* The owner-ready executor over every forward graph of N MTasks and every   *)
(* assignment to the workers, with the tables DensePlan generates for them.  *)
EXTENDS DenseExecutor

CONSTANT N      \* MTasks per graph

Ids == 0..(N - 1)

\* Assignments up to renaming of the workers: a worker is named when first used.
Assignments ==
  {o \in [Ids -> Owners] : \A m \in Ids : o[m] <= Cardinality({o[p] : p \in 0..(m - 1)})}

AllPlans == {StrictPlan(g, o) : g \in ForwardGraphs(Ids), o \in Assignments}

MCPlans == AllPlans

MCEnvironments ==
  {[configured |-> Generated, poolEnabled |-> TRUE, lazy |-> FALSE],
   [configured |-> Generated, poolEnabled |-> TRUE, lazy |-> TRUE],
   [configured |-> Generated + 1, poolEnabled |-> TRUE, lazy |-> FALSE]}
=============================================================================
