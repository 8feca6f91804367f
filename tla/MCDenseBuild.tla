---------------------------- MODULE MCDenseBuild ----------------------------
(***************************************************************************)
(* The steps of the generator between the components of the task graph and *)
(* the emitted tables, each on all the inputs the step before it may hand  *)
(* over: the contraction of components into MTasks, the list scheduler     *)
(* that assigns the MTasks to workers, and the tables of the executor for  *)
(* an assignment, whichever of the two schedulers it is from.              *)
(***************************************************************************)
EXTENDS DenseListSchedule, DenseTables, DenseContract

CONSTANTS Costs,            \* MTask costs; 10 makes the 30% hand-over penalty visible
          Zeros, Everies    \* see DenseContract

VARIABLE step       \* "contract", "schedule" or "tables"; never changes

buildVars == <<step, vars, contractVars, tableVars>>

MCInputs ==
  {[count |-> N, succs |-> g, cost |-> c, zero |-> z, reserve |-> r] :
     g \in ForwardGraphs(GraphIds), c \in [GraphIds -> Costs],
     z \in {{}} \cup {{m} : m \in GraphIds}, r \in BOOLEAN}

MCContracts ==
  {[n |-> N, succs |-> g, zero |-> z, every |-> k] :
     g \in ForwardGraphs(GraphIds), z \in Zeros, k \in Everies}

\* The variables of the steps that are not explored.
NoContract ==
  /\ components = [n |-> 0, succs |-> <<>>, zero |-> {}, every |-> 0] /\ contractStage = "none"
  /\ root = <<>> /\ gS = <<>> /\ gP = <<>> /\ gcost = <<>>
  /\ memo = {} /\ gSN = <<>> /\ merges = 0 /\ mtasks = <<>>

NoSchedule ==
  /\ input = [count |-> 0, succs |-> <<>>, cost |-> <<>>, zero |-> {}, reserve |-> TRUE]
  /\ main = "renumbered" /\ assignment = <<>> /\ completion = <<>> /\ busyUntil = <<>>
  /\ remaining = <<>> /\ ready = {} /\ order = <<>> /\ newId = <<>> /\ start = <<>>

NoTables ==
  /\ tableStage = "none" /\ succs = <<>> /\ owner = <<>> /\ build = {}
  /\ runtime = <<>> /\ layout = NoLayout /\ locals = <<>>

BuildInit ==
  \/ step = "contract" /\ ContractInit /\ NoSchedule /\ NoTables
  \/ step = "schedule" /\ Init /\ NoContract /\ NoTables
  \/ step = "tables" /\ TablesInit /\ NoContract /\ NoSchedule

BuildNext ==
  \/ step = "contract" /\ ContractNext /\ UNCHANGED <<step, vars, tableVars>>
  \/ step = "schedule" /\ Next /\ UNCHANGED <<step, contractVars, tableVars>>
  \/ step = "tables" /\ TablesNext /\ UNCHANGED <<step, vars, contractVars>>

BuildSpec == BuildInit /\ [][BuildNext]_buildVars
=============================================================================
