---------------------- MODULE DenseListScheduleProofs -----------------------
(***************************************************************************)
(* For every forward MTask graph, every cost and every number of threads:  *)
(* the list scheduler's timetable is feasible, it schedules every MTask,   *)
(* it picks them in the order of their begin times, and the renumbering by *)
(* that order keeps ids topological.                                       *)
(***************************************************************************)
EXTENDS DenseListSchedule, FiniteSetTheorems, WellFoundedInduction, TLAPS

\* The ready list and its counters: the MTasks all of whose predecessors are
\* scheduled, and how many of the others are not.
ReadyInv ==
  /\ \A m \in Scheduled : Preds(m) \subseteq Scheduled
  /\ \A m \in Ids : remaining[m] = Cardinality(Preds(m) \ Scheduled)
  /\ ready = {m \in Ids \ Scheduled : Preds(m) \subseteq Scheduled}

\* The order lists the scheduled MTasks, each once, predecessors first.
OrderInv ==
  /\ \A i \in 1..Len(order) : order[i] \in Scheduled
  /\ \A m \in Scheduled : \E i \in 1..Len(order) : order[i] = m
  /\ \A i, j \in 1..Len(order) : order[i] = order[j] => i = j
  /\ \A i, j \in 1..Len(order) : order[j] \in input.succs[order[i]] => i < j

\* A worker is busy until its last MTask ends, and holds only what it may.
WorkerInv ==
  \A m \in Scheduled : completion[m] <= busyUntil[assignment[m]] /\ assignment[m] \in Eligible(m)

\* Nothing that can still be picked begins before anything already picked.
NowInv ==
  \A m \in Scheduled : \A n \in ready : \A v \in Eligible(n) :
    \E b \in Bounds(n, v) : start[m] <= b

\* Where the scheduler is decides what is scheduled and renumbered.
StageInv ==
  /\ main # "pick" => Scheduled = Ids
  /\ main = "renumbered" =>
       \A m \in Ids : \E i \in 1..Len(order) : order[i] = m /\ newId[m] = i - 1

LInv ==
  /\ TypeOK
  /\ input \in Inputs
  /\ ReadyInv
  /\ OrderInv
  /\ WorkerInv
  /\ ScheduleFeasible
  /\ StartsInOrder
  /\ NowInv
  /\ StageInv

-----------------------------------------------------------------------------
LEMMA InputFacts ==
  ASSUME input \in Inputs
  PROVE  /\ input.count \in Nat
         /\ input.succs \in [Ids -> SUBSET Ids]
         /\ input.cost \in [Ids -> Nat]
         /\ input.zero \in SUBSET Ids
         /\ \A m \in Ids : \A s \in input.succs[m] : m < s
BY Zenon, ListAssumption DEF ForwardInput, Ids

LEMMA IdsFinite ==
  ASSUME input \in Inputs
  PROVE  IsFiniteSet(Ids) /\ \A m \in Ids : IsFiniteSet(Preds(m))
<1>1. IsFiniteSet(Ids)
  BY InputFacts, FS_Interval DEF Ids
<1>2. \A m \in Ids : Preds(m) \subseteq Ids
  BY Zenon DEF Preds
<1> QED
  BY Zenon, <1>1, <1>2, FS_Subset

LEMMA PenaltyNat == ASSUME NEW c \in Nat, NEW k \in Nat PROVE (c * k) \div 100 \in Nat
<1>1. c * k \in Nat
  BY SMT
<1> QED
  BY <1>1, SMT

LEMMA ArrivalNat ==
  ASSUME TypeOK, input \in Inputs, NEW p \in Ids, NEW w \in Workers
  PROVE  Arrival(p, w) \in Nat /\ completion[p] <= Arrival(p, w)
<1>1. completion[p] \in Nat /\ input.cost[p] \in Nat
  BY Zenon, InputFacts DEF TypeOK
<1>2. (input.cost[p] * 30) \div 100 \in Nat /\ (input.cost[p] * CcdExtra) \div 100 \in Nat
  BY Zenon, <1>1, PenaltyNat, ListAssumption
<1> DEFINE x == (input.cost[p] * 30) \div 100
           y == (input.cost[p] * CcdExtra) \div 100
<1>3. Arrival(p, w) = completion[p] + (IF assignment[p] = w THEN 0 ELSE x)
                      + (IF assignment[p] \div CcdSize = w \div CcdSize THEN 0 ELSE y)
  BY Zenon DEF Arrival
<1>4. x \in Nat /\ y \in Nat
  BY Zenon, <1>2
<1> HIDE DEF x, y
<1> QED
  BY <1>1, <1>3, <1>4

LEMMA EligibleWorkers == ASSUME NEW m PROVE Eligible(m) \subseteq Workers
BY ListAssumption DEF Eligible, Workers

LEMMA BoundsNat ==
  ASSUME TypeOK, input \in Inputs, NEW m, NEW w \in Workers
  PROVE  Bounds(m, w) \subseteq Nat
BY ArrivalNat DEF Bounds, Preds, TypeOK

\* The scheduler never stops with work left: the smallest unscheduled MTask has
\* only scheduled predecessors.
LEMMA SomethingReady ==
  ASSUME LInv, ready = {}
  PROVE  Scheduled = Ids
<1> DEFINE U == Ids \ Scheduled
<1>1. SUFFICES ASSUME U # {} PROVE FALSE
  BY Zenon DEF Scheduled
<1>2. U \subseteq Nat
  BY InputFacts DEF Ids, LInv
<1>3. PICK x \in U : \A y \in U : ~(<<y, x>> \in OpToRel(<, Nat))
  BY <1>1, <1>2, WFMin, NatLessThanWellFounded, Zenon
<1>4. \A y \in U : ~(y < x)
  BY ZenonT(30), <1>2, <1>3 DEF OpToRel
<1>5. \A p \in Preds(x) : p \in Ids /\ p < x
  BY ZenonT(30), <1>3, InputFacts DEF Preds, LInv
<1>6. Preds(x) \subseteq Scheduled
  BY Zenon, <1>4, <1>5
<1> QED
  BY ZenonT(30), <1>3, <1>6 DEF LInv, ReadyInv

-----------------------------------------------------------------------------
LEMMA InitLInv == Init => LInv
<1> SUFFICES ASSUME Init PROVE LInv
  OBVIOUS
<1> USE DEF Init
<1>1. Scheduled = {} /\ input \in Inputs
  BY Zenon DEF Scheduled
<1>2. TypeOK
  <2>1. \A m \in Ids : Cardinality(Preds(m)) \in Nat
    BY Zenon, <1>1, IdsFinite, FS_CardinalityType
  <2> QED
    BY <2>1, ListAssumption DEF TypeOK
<1>3. ReadyInv
  <2>1. \A m \in Ids : Preds(m) \ Scheduled = Preds(m)
    BY Zenon, <1>1
  <2>2. \A m \in Ids : Cardinality(Preds(m)) = 0 <=> Preds(m) \subseteq Scheduled
    BY Zenon, <1>1, IdsFinite, FS_EmptySet
  <2> QED
    BY Zenon, <1>1, <2>1, <2>2 DEF ReadyInv
<1>4. OrderInv /\ WorkerInv /\ ScheduleFeasible /\ StartsInOrder /\ NowInv
  BY <1>1 DEF OrderInv, WorkerInv, ScheduleFeasible, StartsInOrder, NowInv
<1>5. StageInv
  BY Zenon DEF StageInv
<1> QED
  BY Zenon, <1>1, <1>2, <1>3, <1>4, <1>5 DEF LInv

-----------------------------------------------------------------------------
\* What a pick changes, element by element.
LEMMA PickFacts ==
  ASSUME LInv, NEW m \in ready, NEW w \in Workers, NEW t \in Bounds(m, w), Pick(m, w, t)
  PROVE  /\ input' = input /\ main = "pick" /\ main' = "pick"
         /\ m \in Ids /\ m \notin Scheduled /\ Preds(m) \subseteq Scheduled
         /\ w \in Eligible(m) /\ t \in Nat
         /\ Scheduled' = Scheduled \cup {m}
         /\ assignment'[m] = w /\ start'[m] = t
         /\ completion'[m] \in Nat /\ t < completion'[m]
         /\ busyUntil'[w] = completion'[m] /\ busyUntil[w] <= t
         /\ \A n \in Ids : n # m => /\ assignment'[n] = assignment[n]
                                   /\ completion'[n] = completion[n]
                                   /\ start'[n] = start[n]
         /\ \A v \in Workers : v # w => busyUntil'[v] = busyUntil[v]
<1> USE DEF Pick, Schedule
<1>1. input' = input /\ main = "pick" /\ main' = "pick" /\ w \in Eligible(m)
  OBVIOUS
<1>2. m \in Ids /\ m \notin Scheduled /\ Preds(m) \subseteq Scheduled
  BY Zenon DEF LInv, ReadyInv
<1>3. t \in Nat /\ busyUntil[w] <= t
  BY ZenonT(30), BoundsNat DEF LInv, Bounds
<1> DEFINE cost == IF input.cost[m] > 1 THEN input.cost[m] ELSE 1
<1>4. cost \in Nat /\ cost > 0
  BY <1>2, InputFacts DEF LInv
<1>5. /\ assignment' = [assignment EXCEPT ![m] = w]
      /\ completion' = [completion EXCEPT ![m] = t + cost]
      /\ busyUntil' = [busyUntil EXCEPT ![w] = t + cost]
      /\ start' = [start EXCEPT ![m] = t]
  OBVIOUS
<1> HIDE DEF cost
<1>6. assignment \in [Ids -> Workers \cup {-1}] /\ completion \in [Ids -> Nat]
      /\ busyUntil \in [Workers -> Nat] /\ start \in [Ids -> Nat]
  BY Zenon DEF LInv, TypeOK
<1>7. Ids' = Ids
  BY Zenon, <1>1 DEF Ids
<1>8. w # -1
  BY ListAssumption DEF Workers
<1>9. Scheduled' = Scheduled \cup {m}
  BY <1>2, <1>5, <1>6, <1>7, <1>8 DEF Scheduled
<1> QED
  BY <1>1, <1>2, <1>3, <1>4, <1>5, <1>6, <1>9

LEMMA PickTypes ==
  ASSUME LInv, NEW m \in ready, NEW w \in Workers, NEW t \in Bounds(m, w), Pick(m, w, t)
  PROVE  TypeOK' /\ input' \in Inputs
<1>1. m \in Ids /\ t \in Nat /\ input \in Inputs /\ input' = input /\ Ids' = Ids
  BY Zenon, PickFacts DEF LInv, Ids
<1>2. input.cost[m] \in Nat /\ input.succs[m] \subseteq Ids
  BY Zenon, <1>1, InputFacts
<1>3. \A n \in input.succs[m] : n \in Ids /\ m \in Preds(n) \ Scheduled
  BY Zenon, <1>1, <1>2, PickFacts DEF Preds
<1>4. \A n \in input.succs[m] : remaining[n] \in Nat /\ remaining[n] # 0
  <2> SUFFICES ASSUME NEW n \in input.succs[m] PROVE remaining[n] \in Nat /\ remaining[n] # 0
    OBVIOUS
  <2>1. IsFiniteSet(Preds(n) \ Scheduled)
    BY ZenonT(30), <1>1, <1>3, IdsFinite, FS_Difference
  <2>2. Cardinality(Preds(n) \ Scheduled) # 0
    BY Zenon, <1>3, <2>1, FS_EmptySet
  <2>3. remaining[n] = Cardinality(Preds(n) \ Scheduled)
    BY Zenon, <1>3 DEF LInv, ReadyInv
  <2> QED
    BY Zenon, <1>3, <2>2, <2>3 DEF LInv, TypeOK
<1>5. remaining' \in [Ids -> Nat]
  BY <1>1, <1>4 DEF Pick, Schedule, LInv, TypeOK
<1>6. order' \in Seq(Ids)
  BY <1>1 DEF Pick, Schedule, LInv, TypeOK
<1>7. ready' \in SUBSET Ids
  BY Zenon, <1>2 DEF Pick, Schedule, LInv, TypeOK
<1>8. /\ assignment' \in [Ids -> Workers \cup {-1}]
      /\ completion' \in [Ids -> Nat]
      /\ busyUntil' \in [Workers -> Nat]
      /\ start' \in [Ids -> Nat]
      /\ newId' \in [Ids -> Nat]
      /\ main' = "pick"
  <2> DEFINE cost == IF input.cost[m] > 1 THEN input.cost[m] ELSE 1
  <2>1. /\ assignment' = [assignment EXCEPT ![m] = w]
        /\ completion' = [completion EXCEPT ![m] = t + cost]
        /\ busyUntil' = [busyUntil EXCEPT ![w] = t + cost]
        /\ start' = [start EXCEPT ![m] = t]
        /\ main' = main /\ main = "pick" /\ newId' = newId
    BY Zenon DEF Pick, Schedule
  <2>2. t + cost \in Nat
    BY <1>1, <1>2
  <2>3. /\ assignment \in [Ids -> Workers \cup {-1}] /\ completion \in [Ids -> Nat]
        /\ busyUntil \in [Workers -> Nat] /\ start \in [Ids -> Nat] /\ newId \in [Ids -> Nat]
    BY Zenon DEF LInv, TypeOK
  <2> HIDE DEF cost
  <2>4. assignment' \in [Ids -> Workers \cup {-1}]
    BY ZenonT(30), <2>1, <2>3
  <2>5. completion' \in [Ids -> Nat] /\ busyUntil' \in [Workers -> Nat]
    BY ZenonT(30), <2>1, <2>2, <2>3
  <2> QED
    BY Zenon, <1>1, <2>1, <2>3, <2>4, <2>5
<1> QED
  BY Zenon, <1>1, <1>5, <1>6, <1>7, <1>8 DEF TypeOK

LEMMA PickReady ==
  ASSUME LInv, NEW m \in ready, NEW w \in Workers, NEW t \in Bounds(m, w), Pick(m, w, t)
  PROVE  ReadyInv'
<1>1. /\ m \in Ids /\ input \in Inputs /\ input' = input /\ Ids' = Ids
      /\ m \notin Scheduled /\ Preds(m) \subseteq Scheduled /\ Scheduled' = Scheduled \cup {m}
  BY Zenon, PickFacts DEF LInv, Ids
<1>2. \A n : Preds(n)' = Preds(n)
  BY Zenon, <1>1 DEF Preds
<1>3. \A n \in Ids : remaining[n] = Cardinality(Preds(n) \ Scheduled)
  BY Zenon DEF LInv, ReadyInv
<1>4. ASSUME NEW n \in Ids
      PROVE  remaining'[n] = Cardinality(Preds(n) \ Scheduled')
  <2>1. IsFiniteSet(Preds(n) \ Scheduled)
    BY ZenonT(30), <1>1, IdsFinite, FS_Difference
  <2>2. remaining'[n] = IF n \in input.succs[m] THEN remaining[n] - 1 ELSE remaining[n]
    BY Zenon DEF Pick, Schedule
  <2>3. CASE n \in input.succs[m]
    <3>1. m \in Preds(n) \ Scheduled /\ Preds(n) \ Scheduled' = (Preds(n) \ Scheduled) \ {m}
      BY Zenon, <1>1, <2>3 DEF Preds
    <3>2. Cardinality((Preds(n) \ Scheduled) \ {m}) = Cardinality(Preds(n) \ Scheduled) - 1
      BY ZenonT(30), <2>1, <3>1, FS_RemoveElement
    <3> QED
      BY ZenonT(30), <1>3, <2>2, <2>3, <3>1, <3>2
  <2>4. CASE n \notin input.succs[m]
    <3>1. Preds(n) \ Scheduled' = Preds(n) \ Scheduled
      BY Zenon, <1>1, <2>4 DEF Preds
    <3> QED
      BY Zenon, <1>3, <2>2, <2>4, <3>1
  <2> QED
    BY Zenon, <2>3, <2>4
<1>5. \A n \in Ids : remaining'[n] = 0 <=> Preds(n) \subseteq Scheduled'
  <2> TAKE n \in Ids
  <2>1. IsFiniteSet(Preds(n) \ Scheduled')
    BY ZenonT(30), <1>1, IdsFinite, FS_Difference
  <2> QED
    BY Zenon, <1>4, <2>1, FS_EmptySet
<1>6. \A n \in input.succs[m] : n \in Ids /\ n # m
  BY <1>1, InputFacts DEF Ids
<1>7. \A n \in Ids : n \in input.succs[m] => n \notin Scheduled
  BY Zenon, <1>1 DEF LInv, ReadyInv, Preds
<1>8. \A n \in Ids : n \in ready <=> n \notin Scheduled /\ Preds(n) \subseteq Scheduled
  BY Zenon DEF LInv, ReadyInv
<1>9. \A n \in Ids : remaining[n] = 1 /\ n \in input.succs[m] <=> remaining'[n] = 0 /\ n \in input.succs[m]
  BY <1>1 DEF LInv, TypeOK, Pick, Schedule
<1>10. ready' = (ready \ {m}) \cup {n \in input.succs[m] : remaining[n] = 1}
  BY Zenon DEF Pick, Schedule
<1>11. \A n \in Ids : n \in ready' <=> n \notin Scheduled' /\ Preds(n) \subseteq Scheduled'
  <2> TAKE n \in Ids
  <2>1. CASE n \in input.succs[m]
    <3>1. n \notin ready /\ n \notin Scheduled'
      BY Zenon, <1>1, <1>6, <1>7, <1>8, <2>1 DEF Preds
    <3> QED
      BY Zenon, <1>5, <1>9, <1>10, <2>1, <3>1
  <2>2. CASE n \notin input.succs[m]
    <3>1. Preds(n) \subseteq Scheduled' <=> Preds(n) \subseteq Scheduled
      BY Zenon, <1>1, <2>2 DEF Preds
    <3> QED
      BY Zenon, <1>1, <1>8, <1>10, <2>2, <3>1
  <2> QED
    BY Zenon, <2>1, <2>2
<1>12. ready' \subseteq Ids
  BY Zenon, <1>6, <1>10 DEF LInv, TypeOK
<1> QED
  BY Zenon, <1>1, <1>2, <1>4, <1>11, <1>12 DEF LInv, ReadyInv

LEMMA PickOrder ==
  ASSUME LInv, NEW m \in ready, NEW w \in Workers, NEW t \in Bounds(m, w), Pick(m, w, t)
  PROVE  OrderInv'
<1>1. /\ m \in Ids /\ input \in Inputs /\ input' = input /\ m \notin Scheduled
      /\ Scheduled' = Scheduled \cup {m} /\ order' = Append(order, m) /\ order \in Seq(Ids)
  BY ZenonT(30), PickFacts DEF LInv, TypeOK, Pick, Schedule
<1>2. /\ Len(order) \in Nat /\ Len(order') = Len(order) + 1 /\ order'[Len(order) + 1] = m
      /\ \A i \in 1..Len(order) : order'[i] = order[i] /\ order[i] \in Ids
  BY <1>1
<1>3. \A i \in 1..Len(order) : order[i] \in Scheduled
  BY Zenon DEF LInv, OrderInv
<1>4. m \notin input.succs[m] /\ \A i \in 1..Len(order) : order[i] \notin input.succs[m]
  <2>1. m \notin input.succs[m]
    BY <1>1, InputFacts DEF Ids
  <2>2. \A n \in Scheduled : n \notin input.succs[m]
    BY Zenon, <1>1 DEF LInv, ReadyInv, Preds
  <2> QED
    BY Zenon, <1>3, <2>1, <2>2
<1>5. \A i \in 1..Len(order') : order'[i] \in Scheduled'
  BY <1>1, <1>2, <1>3
<1>6. \A n \in Scheduled' : \E i \in 1..Len(order') : order'[i] = n
  <2> TAKE n \in Scheduled'
  <2>1. CASE n = m
    BY <1>2, <2>1
  <2>2. CASE n \in Scheduled
    <3>1. PICK i \in 1..Len(order) : order[i] = n
      BY Zenon, <2>2 DEF LInv, OrderInv
    <3> QED
      BY <1>2, <3>1
  <2> QED
    BY Zenon, <1>1, <2>1, <2>2
<1>7. \A i, j \in 1..Len(order') : order'[i] = order'[j] => i = j
  BY <1>1, <1>2, <1>3 DEF LInv, OrderInv
<1>8. \A i, j \in 1..Len(order') : order'[j] \in input.succs[order'[i]] => i < j
  BY <1>2, <1>4 DEF LInv, OrderInv
<1> QED
  BY SMTT(30), <1>1, <1>5, <1>6, <1>7, <1>8 DEF OrderInv

\* The arrival of what is already scheduled does not move.
LEMMA ArrivalKept ==
  ASSUME LInv, NEW m \in ready, NEW w \in Workers, NEW t \in Bounds(m, w), Pick(m, w, t),
         NEW p \in Scheduled, NEW v
  PROVE  Arrival(p, v)' = Arrival(p, v)
BY PickFacts DEF Arrival, Scheduled

\* No worker becomes free earlier.
LEMMA BusyGrows ==
  ASSUME LInv, NEW m \in ready, NEW w \in Workers, NEW t \in Bounds(m, w), Pick(m, w, t)
  PROVE  \A v \in Workers : /\ busyUntil[v] \in Nat /\ busyUntil'[v] \in Nat
                            /\ busyUntil[v] <= busyUntil'[v]
<1>1. busyUntil \in [Workers -> Nat]
  BY Zenon DEF LInv, TypeOK
<1>2. \A v \in Workers : v # w => busyUntil'[v] = busyUntil[v]
  BY PickFacts
<1>3. busyUntil[w] <= t /\ t < busyUntil'[w] /\ t \in Nat /\ busyUntil'[w] \in Nat
  BY PickFacts
<1> QED
  BY <1>1, <1>2, <1>3

LEMMA PickFeasible ==
  ASSUME LInv, NEW m \in ready, NEW w \in Workers, NEW t \in Bounds(m, w), Pick(m, w, t)
  PROVE  WorkerInv' /\ ScheduleFeasible'
<1>1. /\ m \in Ids /\ input \in Inputs /\ input' = input /\ m \notin Scheduled
      /\ Scheduled' = Scheduled \cup {m} /\ Scheduled \subseteq Ids
  BY Zenon, PickFacts DEF LInv, Scheduled
<1>2. \A n \in Scheduled : /\ n # m
                          /\ assignment'[n] = assignment[n] /\ assignment[n] \in Workers
                          /\ completion'[n] = completion[n] /\ completion[n] \in Nat
                          /\ start'[n] = start[n] /\ start[n] \in Nat
  BY SMTT(30), <1>1, PickFacts DEF LInv, TypeOK, Scheduled
<1>3. /\ assignment'[m] = w /\ w \in Eligible(m) /\ start'[m] = t /\ t \in Nat
      /\ t < completion'[m] /\ completion'[m] \in Nat
      /\ busyUntil[w] <= t /\ busyUntil'[w] = completion'[m]
  BY PickFacts
<1>4. \A v \in Workers : busyUntil[v] \in Nat /\ busyUntil'[v] \in Nat /\ busyUntil[v] <= busyUntil'[v]
  BY Zenon, BusyGrows
<1>5. \A n : Eligible(n)' = Eligible(n)
  BY Zenon, <1>1 DEF Eligible
<1>6. WorkerInv'
  BY <1>1, <1>2, <1>3, <1>4, <1>5 DEF WorkerInv, LInv
<1>7. \A n \in Scheduled : assignment[n] = w => completion[n] <= t
  BY <1>2, <1>3, <1>4 DEF LInv, WorkerInv
<1>8. \A n : Preds(n)' = Preds(n)
  BY Zenon, <1>1 DEF Preds, Ids
<1>9. \A p \in Preds(m) : p \in Scheduled /\ Arrival(p, w)' <= t
  <2> TAKE p \in Preds(m)
  <2>1. p \in Scheduled
    BY Zenon, PickFacts
  <2>2. Arrival(p, w) \in Bounds(m, w)
    BY Zenon DEF Bounds
  <2>3. Arrival(p, w) <= t
    BY Zenon, <2>2 DEF Pick
  <2> QED
    BY Zenon, <2>1, <2>3, ArrivalKept
<1>10. \A n \in Scheduled : \A p \in Preds(n) :
         p \in Scheduled /\ Arrival(p, assignment[n])' <= start'[n]
  <2> TAKE n \in Scheduled
  <2> TAKE p \in Preds(n)
  <2>1. p \in Scheduled /\ Arrival(p, assignment[n]) <= start[n]
    BY Zenon DEF LInv, ScheduleFeasible
  <2>2. Arrival(p, assignment[n])' = Arrival(p, assignment[n])
    BY <1>2, <2>1, PickFacts DEF Arrival, Scheduled
  <2> QED
    BY Zenon, <1>2, <2>1, <2>2
<1>11. ASSUME NEW n \in Scheduled', NEW k \in Scheduled', k # n, assignment'[k] = assignment'[n]
       PROVE  completion'[k] <= start'[n] \/ completion'[n] <= start'[k]
  <2>1. CASE n \in Scheduled /\ k \in Scheduled
    BY Zenon, <1>2, <1>11, <2>1 DEF LInv, ScheduleFeasible
  <2>2. CASE n = m /\ k \in Scheduled
    BY SMTT(30), <1>2, <1>3, <1>7, <1>11, <2>2
  <2>3. CASE k = m /\ n \in Scheduled
    BY SMTT(30), <1>2, <1>3, <1>7, <1>11, <2>3
  <2> QED
    BY Zenon, <1>1, <1>11, <2>1, <2>2, <2>3
<1>12. \A n \in Scheduled' : start'[n] < completion'[n]
  BY SMTT(30), <1>1, <1>2, <1>3 DEF LInv, ScheduleFeasible
<1>13. \A n \in Scheduled' : \A p \in Preds(n)' :
         p \in Scheduled' /\ Arrival(p, assignment[n])' <= start'[n]
  <2> TAKE n \in Scheduled'
  <2> TAKE p \in Preds(n)'
  <2>1. CASE n = m
    <3>1. p \in Scheduled /\ Arrival(p, w)' <= t
      BY Zenon, <1>8, <1>9, <2>1
    <3>2. Arrival(p, assignment[n])' = Arrival(p, w)'
      BY Zenon, <1>3, <2>1 DEF Arrival
    <3> QED
      BY Zenon, <1>1, <1>3, <2>1, <3>1, <3>2
  <2>2. CASE n \in Scheduled
    <3>1. p \in Scheduled /\ Arrival(p, assignment[n])' <= start'[n]
      BY Zenon, <1>8, <1>10, <2>2
    <3> QED
      BY Zenon, <1>1, <3>1
  <2> QED
    BY Zenon, <1>1, <2>1, <2>2
<1> QED
  BY Zenon, <1>6, <1>11, <1>12, <1>13 DEF ScheduleFeasible

\* A pick leaves nothing that begins earlier: what stays ready could not begin
\* before it, and what becomes ready waits for it.
LEMMA PickNow ==
  ASSUME LInv, NEW m \in ready, NEW w \in Workers, NEW t \in Bounds(m, w), Pick(m, w, t)
  PROVE  NowInv' /\ StartsInOrder'
<1>1. /\ m \in Ids /\ input \in Inputs /\ input' = input /\ m \notin Scheduled
      /\ Scheduled' = Scheduled \cup {m} /\ Scheduled \subseteq Ids
  BY Zenon, PickFacts DEF LInv, Scheduled
<1>2. start'[m] = t /\ t \in Nat /\ \A n \in Scheduled : start'[n] = start[n] /\ start[n] \in Nat
  BY SMTT(30), <1>1, PickFacts DEF LInv, TypeOK
<1>3. \A n \in Scheduled : start[n] <= t
  <2> TAKE n \in Scheduled
  <2>1. PICK b \in Bounds(m, w) : start[n] <= b
    BY SMTT(30), PickFacts DEF LInv, NowInv
  <2>2. b <= t /\ b \in Nat
    BY Zenon, BoundsNat DEF Pick, LInv
  <2> QED
    BY <1>2, <2>1, <2>2
<1>4. \A n : Eligible(n)' = Eligible(n) /\ Preds(n)' = Preds(n)
  BY Zenon, <1>1 DEF Eligible, Preds, Ids
<1>5. ASSUME NEW n \in ready', NEW v \in Eligible(n)
      PROVE  \E b \in Bounds(n, v)' : t <= b /\ b \in Nat
  <2>1. v \in Workers
    BY Zenon, EligibleWorkers
  <2>2. CASE n \in input.succs[m]
    <3>1. m \in Preds(n)'
      BY Zenon, <1>1, <1>4, <2>2 DEF Preds
    <3>2. Arrival(m, v)' \in Bounds(n, v)'
      BY Zenon, <3>1 DEF Bounds
    <3> DEFINE x == (input.cost[m] * 30) \div 100
               y == (input.cost[m] * CcdExtra) \div 100
    <3>3. x \in Nat /\ y \in Nat
      BY <1>1, InputFacts, PenaltyNat, ListAssumption DEF LInv
    <3>4. Arrival(m, v)' = completion'[m] + (IF assignment'[m] = v THEN 0 ELSE x)
                           + (IF assignment'[m] \div CcdSize = v \div CcdSize THEN 0 ELSE y)
      BY Zenon, <1>1 DEF Arrival
    <3> HIDE DEF x, y
    <3>5. Arrival(m, v)' \in Nat /\ completion'[m] <= Arrival(m, v)'
      BY SMTT(30), <3>3, <3>4, PickFacts
    <3> QED
      BY SMTT(30), <1>2, <3>2, <3>5, PickFacts
  <2>3. CASE n \notin input.succs[m]
    <3>1. n \in ready /\ n # m
      BY Zenon, <2>3 DEF Pick, Schedule
    <3>2. n \in Ids /\ Preds(n) \subseteq Scheduled
      BY Zenon, <3>1 DEF LInv, ReadyInv
    <3>3. PICK b \in Bounds(n, v) : t <= b
      <4>1. PICK b \in Bounds(n, v) : t < b \/ t = b
        BY Zenon, <3>1 DEF Pick, Best
      <4>2. b \in Nat
        BY Zenon, <2>1, BoundsNat DEF LInv
      <4> QED
        BY <1>2, <4>1, <4>2
    <3>4. b \in Nat
      BY Zenon, <2>1, BoundsNat DEF LInv
    <3>5. CASE b = busyUntil[v]
      <4>1. busyUntil[v] <= busyUntil'[v] /\ busyUntil'[v] \in Nat
        BY Zenon, <2>1, BusyGrows
      <4>2. busyUntil'[v] \in Bounds(n, v)'
        BY Zenon DEF Bounds
      <4> QED
        BY <1>2, <3>3, <3>4, <3>5, <4>1, <4>2
    <3>6. CASE \E p \in Preds(n) : b = Arrival(p, v)
      <4>1. PICK p \in Preds(n) : b = Arrival(p, v)
        BY Zenon, <3>6
      <4>2. Arrival(p, v)' = b
        BY Zenon, <3>2, <4>1, ArrivalKept
      <4>3. Arrival(p, v)' \in Bounds(n, v)'
        BY Zenon, <1>4 DEF Bounds
      <4> QED
        BY Zenon, <3>3, <3>4, <4>2, <4>3
    <3> QED
      BY SMTT(30), <3>3, <3>5, <3>6 DEF Bounds
  <2> QED
    BY Zenon, <2>2, <2>3
<1>6. NowInv'
  <2> SUFFICES ASSUME NEW k \in Scheduled', NEW n \in ready', NEW v \in Eligible(n)'
               PROVE  \E b \in Bounds(n, v)' : start'[k] <= b
    BY Zenon DEF NowInv
  <2>1. PICK b \in Bounds(n, v)' : t <= b /\ b \in Nat
    BY Zenon, <1>4, <1>5
  <2>2. start'[k] \in Nat /\ start'[k] <= t
    BY <1>1, <1>2, <1>3
  <2> QED
    BY <1>2, <2>1, <2>2
<1>7. StartsInOrder'
  <2>1. order' = Append(order, m) /\ order \in Seq(Ids)
    BY Zenon DEF Pick, Schedule, LInv, TypeOK
  <2>2. /\ Len(order) \in Nat /\ Len(order') = Len(order) + 1 /\ order'[Len(order) + 1] = m
        /\ \A i \in 1..Len(order) : order'[i] = order[i]
    BY <2>1
  <2>3. \A i \in 1..Len(order) : order[i] \in Scheduled
    BY Zenon DEF LInv, OrderInv
  <2>4. \A i, j \in 1..Len(order) : i < j => start[order[i]] <= start[order[j]]
    BY Zenon DEF LInv, StartsInOrder
  <2>5. SUFFICES ASSUME NEW i \in 1..Len(order'), NEW j \in 1..Len(order'), i < j
                 PROVE  start'[order'[i]] <= start'[order'[j]]
    BY Zenon DEF StartsInOrder
  <2>6. i \in 1..Len(order) /\ order'[i] = order[i] /\ order[i] \in Scheduled
    BY SMTT(30), <2>2, <2>3, <2>5
  <2>7. CASE j \in 1..Len(order)
    BY Zenon, <1>2, <2>2, <2>3, <2>4, <2>5, <2>6, <2>7
  <2>8. CASE j = Len(order) + 1
    BY Zenon, <1>2, <1>3, <2>2, <2>6, <2>8
  <2> QED
    BY <2>2, <2>5, <2>7, <2>8
<1> QED
  BY Zenon, <1>6, <1>7

LEMMA PickKeeps ==
  ASSUME LInv, NEW m \in ready, NEW w \in Workers, NEW t \in Bounds(m, w), Pick(m, w, t)
  PROVE  LInv'
<1>1. StageInv'
  BY Zenon, PickFacts DEF StageInv
<1> QED
  BY Zenon, <1>1, PickTypes, PickReady, PickOrder, PickFeasible, PickNow DEF LInv

LEMMA FinishKeeps == ASSUME LInv, Finish PROVE LInv'
<1>1. Scheduled = Ids
  BY Zenon, SomethingReady DEF Finish
<1>2. assignment \in [Ids -> Workers \cup {-1}]
  BY Zenon DEF LInv, TypeOK
<1>3. /\ UNCHANGED <<input, assignment, completion, busyUntil, remaining, ready, order, newId, start>>
      /\ main' = "done"
  BY Zenon, <1>1, <1>2 DEF Finish
<1>4. Ids' = Ids /\ Scheduled' = Scheduled
  BY Zenon, <1>3 DEF Ids, Scheduled
<1>5. \A n : Preds(n)' = Preds(n) /\ Eligible(n)' = Eligible(n)
  BY Zenon, <1>3, <1>4 DEF Preds, Eligible
<1>6. \A n, v : Arrival(n, v)' = Arrival(n, v) /\ Bounds(n, v)' = Bounds(n, v)
  BY <1>3, <1>5 DEF Arrival, Bounds
<1>7. TypeOK' /\ input' \in Inputs
  BY Zenon, <1>3, <1>4 DEF LInv, TypeOK
<1>8. ReadyInv' /\ OrderInv' /\ StartsInOrder'
  BY Zenon, <1>3, <1>4, <1>5 DEF LInv, ReadyInv, OrderInv, StartsInOrder
<1>9. WorkerInv' /\ ScheduleFeasible' /\ NowInv'
  BY Zenon, <1>3, <1>4, <1>5, <1>6 DEF LInv, WorkerInv, ScheduleFeasible, NowInv
<1>10. StageInv'
  BY Zenon, <1>1, <1>3, <1>4 DEF StageInv
<1> QED
  BY Zenon, <1>7, <1>8, <1>9, <1>10 DEF LInv

LEMMA RenumberKeeps == ASSUME LInv, Renumber PROVE LInv'
<1>1. /\ UNCHANGED <<input, assignment, completion, busyUntil, remaining, ready, order, start>>
      /\ main = "done" /\ main' = "renumbered"
  BY Zenon DEF Renumber
<1>2. Ids' = Ids /\ Scheduled' = Scheduled /\ Scheduled = Ids
  BY Zenon, <1>1 DEF Ids, Scheduled, LInv, StageInv
<1>3. \A n : Preds(n)' = Preds(n) /\ Eligible(n)' = Eligible(n)
  BY Zenon, <1>1, <1>2 DEF Preds, Eligible
<1>4. \A n, v : Arrival(n, v)' = Arrival(n, v) /\ Bounds(n, v)' = Bounds(n, v)
  BY <1>1, <1>3 DEF Arrival, Bounds
<1> DEFINE place(m) == CHOOSE i \in 1..Len(order) : order[i] = m
<1>5. \A m \in Ids : place(m) \in 1..Len(order) /\ order[place(m)] = m
  BY Zenon, <1>2 DEF LInv, OrderInv
<1>6. newId' = [m \in Ids |-> place(m) - 1]
  BY Zenon DEF Renumber
<1>7. Len(order) \in Nat
  BY DEF LInv, TypeOK
<1> HIDE DEF place
<1>8. newId' \in [Ids -> Nat]
  BY <1>5, <1>6, <1>7
<1>9. TypeOK' /\ input' \in Inputs
  BY Zenon, <1>1, <1>2, <1>8 DEF LInv, TypeOK
<1>10. ReadyInv' /\ OrderInv' /\ StartsInOrder'
  BY SMTT(30), <1>1, <1>2, <1>3 DEF LInv, ReadyInv, OrderInv, StartsInOrder
<1>11. WorkerInv' /\ ScheduleFeasible' /\ NowInv'
  BY <1>1, <1>2, <1>3, <1>4 DEF LInv, WorkerInv, ScheduleFeasible, NowInv
<1>12. StageInv'
  BY Zenon, <1>1, <1>2, <1>5, <1>6 DEF StageInv
<1> QED
  BY Zenon, <1>9, <1>10, <1>11, <1>12 DEF LInv

LEMMA StutterKeeps == ASSUME LInv, UNCHANGED vars PROVE LInv'
<1>1. Ids' = Ids /\ Scheduled' = Scheduled
  BY Zenon DEF vars, Ids, Scheduled
<1>2. \A n : Preds(n)' = Preds(n) /\ Eligible(n)' = Eligible(n)
  BY Zenon, <1>1 DEF Preds, Eligible, vars
<1>3. \A n, v : Arrival(n, v)' = Arrival(n, v) /\ Bounds(n, v)' = Bounds(n, v)
  BY <1>2 DEF Arrival, Bounds, vars
<1>4. TypeOK' /\ input' \in Inputs /\ StageInv'
  BY Zenon, <1>1 DEF LInv, TypeOK, StageInv, vars
<1>5. ReadyInv' /\ OrderInv' /\ StartsInOrder'
  BY SMTT(30), <1>1, <1>2 DEF LInv, ReadyInv, OrderInv, StartsInOrder, vars
<1>6. WorkerInv' /\ ScheduleFeasible' /\ NowInv'
  BY Zenon, <1>1, <1>2, <1>3 DEF LInv, WorkerInv, ScheduleFeasible, NowInv, vars
<1> QED
  BY Zenon, <1>4, <1>5, <1>6 DEF LInv

LEMMA NextLInv == LInv /\ [Next]_vars => LInv'
BY Zenon, PickKeeps, FinishKeeps, RenumberKeeps, StutterKeeps DEF Next, Halt

LEMMA Invariance == Spec => []LInv
BY InitLInv, NextLInv, PTL DEF Spec

-----------------------------------------------------------------------------
\* Types of the list scheduler's tables.
THEOREM ListTypes == Spec => []TypeOK
<1>1. LInv => TypeOK
  BY Zenon DEF LInv
<1> QED
  BY <1>1, Invariance, PTL

\* mtBuildDenseScheduleOrder: no worker runs two MTasks at once, and no MTask
\* begins before the results it needs have arrived.
THEOREM ScheduleFeasibleHolds == Spec => []ScheduleFeasible
<1>1. LInv => ScheduleFeasible
  BY Zenon DEF LInv
<1> QED
  BY <1>1, Invariance, PTL

\* mtBuildDenseScheduleOrder: the order it returns is the order of begin times.
THEOREM StartsInOrderHolds == Spec => []StartsInOrder
<1>1. LInv => StartsInOrder
  BY SMTT(30) DEF LInv
<1> QED
  BY <1>1, Invariance, PTL

\* mtBuildDenseScheduleOrder: the loop leaves no MTask behind, and pinned
\* MTasks keep worker 0 to themselves when it is reserved.
THEOREM AllScheduledHolds == Spec => []AllScheduled
<1>1. LInv => AllScheduled
  BY Zenon DEF LInv, StageInv, AllScheduled, ScheduleFeasible, WorkerInv, Eligible
<1> QED
  BY <1>1, Invariance, PTL

\* buildMtDenseSchedule: the assertion after the renumbering holds.
THEOREM TopoMonotoneHolds == Spec => []TopoMonotone
<1>1. LInv => TopoMonotone
  <2> SUFFICES ASSUME LInv, main = "renumbered", NEW m \in Ids, NEW s \in input.succs[m]
               PROVE  newId[m] < newId[s]
    BY Zenon DEF TopoMonotone
  <2>1. s \in Ids
    BY Zenon, InputFacts DEF LInv
  <2>2. PICK i \in 1..Len(order) : order[i] = m /\ newId[m] = i - 1
    BY Zenon DEF LInv, StageInv
  <2>3. PICK j \in 1..Len(order) : order[j] = s /\ newId[s] = j - 1
    BY Zenon, <2>1 DEF LInv, StageInv
  <2>4. i < j
    BY Zenon, <2>2, <2>3 DEF LInv, OrderInv
  <2> QED
    BY <2>2, <2>3, <2>4
<1> QED
  BY <1>1, Invariance, PTL
=============================================================================
