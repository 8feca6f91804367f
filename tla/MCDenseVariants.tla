-------------------------- MODULE MCDenseVariants ---------------------------
(***************************************************************************)
(* The other two executors genDenseExecutor can emit, over every forward   *)
(* graph of N MTasks and every assignment: dependency counters, with every *)
(* combination of the two edge-dropping switches and also with programs    *)
(* generated for one worker more than there are, and owner-ready tokens    *)
(* with lookahead, with the tables DensePlan generates for it.             *)
(***************************************************************************)
EXTENDS DenseCounters

CONSTANTS N,         \* MTasks per graph
          Window     \* kDenseLookaheadWindow

VARIABLES counters,  \* the executor: dependency counters, or lookahead; never changes
          env, primed, ready, target, waiting, storing,    \* see DenseExecutor
          done, tail, allReady                             \* see DenseLookahead

counterVars == <<poolEnabled, depsDone, even, signals>>
tokenVars == <<env, primed, ready, target, waiting, storing, done, tail, allReady>>
variantVars == <<counters, vars, tokenVars>>

Ids == 0..(N - 1)

\* Assignments up to renaming of the workers: a worker is named when first used.
Assignments(generated) ==
  {o \in [Ids -> 0..(generated - 1)] :
     \A m \in Ids : o[m] <= Cardinality({o[p] : p \in 0..(m - 1)})}

CounterPlans ==
  {CounterPlan(g, Configured, o, x, r) :
     g \in ForwardGraphs(Ids), o \in Assignments(Configured), x \in BOOLEAN, r \in BOOLEAN}
  \cup
  {CounterPlan(g, Configured + 1, o, TRUE, TRUE) :
     g \in ForwardGraphs(Ids), o \in Assignments(Configured + 1)}

MCPlans == CounterPlans

LookPlans == {LookaheadPlan(g, o) : g \in ForwardGraphs(Ids), o \in Assignments(Configured)}

Environment(enabled) == [configured |-> Configured, poolEnabled |-> enabled, lazy |-> FALSE]

\* Three cycles with counters, which go up, down and up again; two with tokens.
Look == INSTANCE DenseLookahead WITH
          Generated <- Configured, Plans <- LookPlans, MaxCycles <- MaxCycles - 1,
          Environments <- {Environment(enabled) : enabled \in BOOLEAN}

\* DenseLookahead is instantiated: its assumptions are stated here.
ASSUME LookaheadOK == Look!LookaheadAssumption /\ \A p \in LookPlans : SoundPlan(p, Lanes)

NoCounters == poolEnabled = FALSE /\ depsDone = <<>> /\ even = <<>> /\ signals = <<>>

NoTokens ==
  /\ env = Environment(FALSE)
  /\ primed = FALSE /\ ready = <<>> /\ target = <<>> /\ waiting = <<>> /\ storing = <<>>
  /\ done = <<>> /\ tail = <<>> /\ allReady = <<>>

VariantInit ==
  \/ counters = FALSE /\ Look!LookaheadInit /\ NoCounters
  \/ counters = TRUE /\ Init /\ NoTokens

Looking(A) == ~counters /\ A /\ UNCHANGED <<counters, counterVars>>
Counting(A) == counters /\ A /\ UNCHANGED <<counters, tokenVars>>

VariantNext == Looking(Look!LookaheadNext) \/ Counting(Next)

\* The fairness of both: every thread is scheduled again and again, and the
\* harness keeps stepping.
VariantSpec ==
  /\ VariantInit /\ [][VariantNext]_variantVars
  /\ WF_variantVars(Looking(Look!LookMain) \/ Counting(MainStep))
  /\ \A w \in Lanes : WF_variantVars(Looking(Look!LookStep(w)) \/ Counting(LaneStep(w)))

-----------------------------------------------------------------------------
(* StepReturns and ImplementsDenseCycle are over the variables both executors
   have; CountersAlternate is about the counters, and holds without any. *)
=============================================================================
