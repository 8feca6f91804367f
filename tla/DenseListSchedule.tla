------------------------- MODULE DenseListSchedule --------------------------
(***************************************************************************)
(* The list scheduler that assigns MTasks to workers, one iteration of its *)
(* outer loop per step, and the renumbering of the MTasks by the order it  *)
(* picks them in.  mtBuildDenseScheduleOrder keeps worker 0 free for the   *)
(* MTasks pinned to it; mtBuildDensePackThreadsAssignment, whose result is *)
(* only reported, does not.                                                *)
(***************************************************************************)
EXTENDS Integers, Sequences, FiniteSets

CONSTANTS Threads,      \* threadCount
          CcdExtra,     \* GSIM_MT_DENSE_PACK_CCD_AFFINITY, a percentage
          CcdSize,      \* workers per cache domain, 8 in the code
          Inputs        \* MTask graphs: successors, cost, workerZeroOnly; and the
                        \* function: reserve is TRUE for mtBuildDenseScheduleOrder

Workers == 0..(Threads - 1)

\* MTask ids enter in topological order, whichever builder made them.
ForwardInput(in) ==
  LET n == in.count IN
  /\ n \in Nat
  /\ in.succs \in [0..(n - 1) -> SUBSET (0..(n - 1))]
  /\ in.cost \in [0..(n - 1) -> Nat]
  /\ in.zero \in SUBSET (0..(n - 1))
  /\ in.reserve \in BOOLEAN
  /\ \A m \in 0..(n - 1) : \A s \in in.succs[m] : m < s

ASSUME ListAssumption ==
  /\ Threads \in Nat \ {0}
  /\ CcdExtra \in Nat
  /\ CcdSize \in Nat \ {0}
  /\ \A in \in Inputs : ForwardInput(in)

VARIABLES
  input,       \* the MTask graph (never changes)
  main,        \* "pick", "done" or "renumbered"
  assignment,  \* worker of every MTask, -1 before it is scheduled
  completion,  \* its end time, 0 before
  busyUntil,   \* end time of the last MTask of every worker
  remaining,   \* remainingPreds
  ready,
  order,       \* MTasks in the order they were picked
  newId,       \* their new ids
  start        \* history: begin time of every scheduled MTask

vars == <<input, main, assignment, completion, busyUntil, remaining, ready, order, newId, start>>

Ids == 0..(input.count - 1)
Preds(m) == {p \in Ids : m \in input.succs[p]}
Scheduled == {m \in Ids : assignment[m] # -1}

\* costOf plus the longest tail; ids descend, so every successor comes first.
Priority ==
  LET tail[m \in Ids] ==
        input.cost[m] + (CHOOSE t \in {0} \cup {tail[s] : s \in input.succs[m]} :
                           \A s \in input.succs[m] : tail[s] <= t)
  IN  tail

TypeOK ==
  /\ main \in {"pick", "done", "renumbered"}
  /\ assignment \in [Ids -> Workers \cup {-1}]
  /\ completion \in [Ids -> Nat]
  /\ busyUntil \in [Workers -> Nat]
  /\ remaining \in [Ids -> Nat]
  /\ ready \in SUBSET Ids
  /\ order \in Seq(Ids)
  /\ newId \in [Ids -> Nat]
  /\ start \in [Ids -> Nat]

Init ==
  /\ input \in Inputs
  /\ main = "pick"
  /\ assignment = [m \in Ids |-> -1]
  /\ completion = [m \in Ids |-> 0]
  /\ busyUntil = [w \in Workers |-> 0]
  /\ remaining = [m \in Ids |-> Cardinality(Preds(m))]
  /\ ready = {m \in Ids : remaining[m] = 0}
  /\ order = <<>>
  /\ newId = [m \in Ids |-> 0]
  /\ start = [m \in Ids |-> 0]

-----------------------------------------------------------------------------
\* Mutant: the pinned MTasks go anywhere.
EligibleAny(m) == Workers

\* The workers the search tries for an MTask.
Eligible(m) ==
  IF m \in input.zero THEN {0}
  ELSE IF input.reserve /\ Threads > 1 THEN Workers \ {0}
  ELSE Workers

\* When the result of a scheduled predecessor can be used on worker w: a
\* hand-over to another worker costs 30% of its cost, one to another cache
\* domain CcdExtra percent more.
Arrival(p, w) ==
  completion[p]
  + (IF assignment[p] = w THEN 0 ELSE (input.cost[p] * 30) \div 100)
  + (IF assignment[p] \div CcdSize = w \div CcdSize THEN 0 ELSE (input.cost[p] * CcdExtra) \div 100)

\* Mutant: the worker may still be busy.
BoundsPredsOnly(m, w) == {0} \cup {Arrival(p, w) : p \in Preds(m)}

\* timeBegin is the largest of these.
Bounds(m, w) == {busyUntil[w]} \cup {Arrival(p, w) : p \in Preds(m)}

\* Ties go to the higher priority, then to the lower id, then to the lower worker.
WinsTie(m, w, n, v) ==
  \/ Priority[m] > Priority[n]
  \/ Priority[m] = Priority[n] /\ m < n
  \/ m = n /\ w <= v

\* No pair begins before time t, and the ones that begin at t lose the tie.
Best(m, w, t) ==
  \A n \in ready : \A v \in Eligible(n) :
    \E b \in Bounds(n, v) : t < b \/ (t = b /\ WinsTie(m, w, n, v))

\* What an iteration does with the pair it found.
Schedule(m, w, t) ==
  LET end == t + (IF input.cost[m] > 1 THEN input.cost[m] ELSE 1) IN
  /\ assignment' = [assignment EXCEPT ![m] = w]
  /\ completion' = [completion EXCEPT ![m] = end]
  /\ busyUntil' = [busyUntil EXCEPT ![w] = end]
  /\ remaining' = [n \in Ids |-> IF n \in input.succs[m] THEN remaining[n] - 1 ELSE remaining[n]]
  /\ ready' = (ready \ {m}) \cup {n \in input.succs[m] : remaining[n] = 1}
  /\ order' = Append(order, m)
  /\ start' = [start EXCEPT ![m] = t]
  /\ UNCHANGED <<input, main, newId>>

\* One iteration: the ready MTask and worker with the earliest begin time.
Pick(m, w, t) ==
  /\ main = "pick"
  /\ m \in ready /\ w \in Eligible(m) /\ t \in Bounds(m, w)
  /\ \A b \in Bounds(m, w) : b <= t
  /\ Best(m, w, t)
  /\ Schedule(m, w, t)

Ascending(S) ==
  CHOOSE f \in [1..Cardinality(S) -> S] : \A i, j \in 1..Cardinality(S) : i < j => f[i] < f[j]

\* No MTask is ready; unscheduled ones, if there were any, go last, on worker 0.
Finish ==
  /\ main = "pick"
  /\ ready = {}
  /\ main' = "done"
  /\ order' = IF Scheduled = Ids THEN order ELSE order \o Ascending(Ids \ Scheduled)
  /\ assignment' = [m \in Ids |-> IF m \in Scheduled THEN assignment[m] ELSE 0]
  /\ UNCHANGED <<input, completion, busyUntil, remaining, ready, newId, start>>

\* buildMtDenseSchedule renumbers the MTasks by their place in the order.
Renumber ==
  /\ main = "done"
  /\ main' = "renumbered"
  /\ newId' = [m \in Ids |-> (CHOOSE i \in 1..Len(order) : order[i] = m) - 1]
  /\ UNCHANGED <<input, assignment, completion, busyUntil, remaining, ready, order, start>>

Halt == main = "renumbered" /\ UNCHANGED vars

Next ==
  \/ \E m \in ready : \E w \in Workers : \E t \in Bounds(m, w) : Pick(m, w, t)
  \/ Finish \/ Renumber \/ Halt

Spec == Init /\ [][Next]_vars

-----------------------------------------------------------------------------
(* Properties *)

\* The model of time is consistent: a worker runs one MTask at a time, and an
\* MTask begins when the results of its predecessors have arrived on its worker.
ScheduleFeasible ==
  \A m \in Scheduled :
    /\ start[m] < completion[m]
    /\ \A p \in Preds(m) : p \in Scheduled /\ Arrival(p, assignment[m]) <= start[m]
    /\ \A n \in Scheduled : n # m /\ assignment[n] = assignment[m] =>
         completion[n] <= start[m] \/ completion[m] <= start[n]

\* "makes the fixed-order runtime (which runs each worker's MTasks in ascending
\* global id) execute them in earliest-start schedule order"
\* (mtBuildDenseScheduleOrder): picks never go back in time.
StartsInOrder ==
  \A i, j \in 1..Len(order) : i < j => start[order[i]] <= start[order[j]]

\* "Any unscheduled (shouldn't happen for a DAG)" (mtBuildDenseScheduleOrder):
\* the scheduler stops only when every MTask has a worker, and pinned MTasks
\* have worker 0 and, when it is reserved, nothing else has.
AllScheduled ==
  main # "pick" =>
    \A m \in Ids :
      /\ m \in Scheduled /\ start[m] < completion[m]
      /\ m \in input.zero => assignment[m] = 0
      /\ input.reserve /\ Threads > 1 /\ m \notin input.zero => assignment[m] # 0

\* "ids stay topo-monotone (succ>from) as the runtime protocol / transitive
\* reduction require" (mtBuildDenseScheduleOrder), asserted again after the
\* renumbering in buildMtDenseSchedule.
TopoMonotone ==
  main = "renumbered" => \A m \in Ids : \A s \in input.succs[m] : newId[m] < newId[s]
=============================================================================
