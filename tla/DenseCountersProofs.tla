------------------------ MODULE DenseCountersProofs -------------------------
(***************************************************************************)
(* For every set of sound plans, every worker count and any number of      *)
(* cycles, stepDense with dependency counters runs each body once per      *)
(* cycle and in dependence order, and leaves every counter where the next  *)
(* cycle starts from.  The invariant says what a counter counts: the       *)
(* predecessors that have signalled in this cycle, up from 0 in an even    *)
(* cycle and down from the dependency count in an odd one.                 *)
(***************************************************************************)
EXTENDS DenseCounters, FiniteSetTheorems, TLAPS

LaneStates == {"off", "posted", "signal", "wait", "body", "done"}

Done(m) == epoch[m] = cycles + 1
Pending(m) == epoch[m] = cycles
Own(w) == {m \in MTasks : plan.owner[m] = w}

\* The MTasks that count m among their successors, and those of them that have
\* signalled it in this cycle.
Callers(m) == {p \in MTasks : m \in plan.runtime[p]}
Owed(p, m) == \E w \in Lanes : cur[w] = p /\ m \in signals[w]
Signalled(m) == {p \in Callers(m) : Done(p) /\ ~Owed(p, m)}

\* Which program and pool a behaviour is about never changes.
Fixed == plan \in Plans /\ poolEnabled \in BOOLEAN

CType ==
  /\ main \in {"idle", "lanes", "serial"}
  /\ phase \in {"idle", "open"}
  /\ busy \in SUBSET Background
  /\ cycles \in Nat
  /\ depsDone \in [MTasks -> Int]
  /\ lane \in [Lanes -> LaneStates]
  /\ even \in [Lanes -> BOOLEAN]
  /\ todo \in [Lanes -> SUBSET MTasks]
  /\ cur \in [Lanes -> Nat]
  /\ signals \in [Lanes -> SUBSET MTasks]
  /\ serialTodo \in SUBSET MTasks
  /\ epoch \in [MTasks -> Nat]

\* A process runs all its cycles in parallel or none.
ModeInv ==
  /\ main = "lanes" => Parallel
  /\ main = "serial" => ~Parallel
  /\ \A w \in Lanes : lane[w] = "off" <=> main # "lanes"

PoolInv ==
  /\ main # "lanes" => busy = {} /\ phase = "idle"
  /\ main = "lanes" => phase = "open" /\ \A w \in Background : w \in busy <=> lane[w] # "done"

\* Between cycles every body is due; the serial path takes them in turn; in a
\* parallel cycle a body has run or not yet.
EpochInv ==
  /\ main = "idle" => \A m \in MTasks : Pending(m)
  /\ main = "serial" => \A m \in MTasks : IF m \in serialTodo THEN Pending(m) ELSE Done(m)
  /\ main = "lanes" => \A m \in MTasks : Pending(m) \/ Done(m)

\* Signals still to be sent are those of an MTask the lane has run.
SignalInv ==
  \A w \in Lanes : signals[w] # {} =>
    /\ lane[w] = "signal"
    /\ cur[w] \in Own(w)
    /\ Done(cur[w])
    /\ signals[w] \subseteq plan.runtime[cur[w]]

\* How far a lane is: its MTasks in id order, those ahead due, those behind done.
LaneInv(w) ==
  /\ lane[w] = "posted" => \A m \in Own(w) : Pending(m)
  /\ lane[w] \in {"signal", "wait", "body"} =>
       /\ even[w] <=> Even(cycles)
       /\ todo[w] \subseteq Own(w)
       /\ \A m \in todo[w] : Pending(m)
  /\ lane[w] \in {"wait", "body"} =>
       /\ cur[w] \in Own(w)
       /\ Pending(cur[w])
       /\ \A m \in todo[w] : cur[w] < m
       /\ \A m \in Own(w) : m \in todo[w] \/ m = cur[w] \/ Done(m)
  /\ lane[w] = "body" =>
       \A p \in MTasks : <<p, cur[w]>> \in plan.order => Done(p)
  /\ lane[w] = "signal" => \A m \in Own(w) : m \in todo[w] \/ Done(m)
  /\ lane[w] = "done" => \A m \in Own(w) : Done(m)

LanesInv == \A w \in Lanes : LaneInv(w)

\* The finished MTasks are closed under dependence.
OrderInv ==
  main = "lanes" =>
    \A p, m \in MTasks : <<p, m>> \in plan.order /\ Done(m) => Done(p)

\* What a counter counts.
Count(m) ==
  IF Even(cycles) THEN Cardinality(Signalled(m)) ELSE DepCount(m) - Cardinality(Signalled(m))

CountInv == Parallel => \A m \in MTasks : depsDone[m] = Count(m)

CInv ==
  /\ Fixed
  /\ CType
  /\ ModeInv
  /\ PoolInv
  /\ EpochInv
  /\ SignalInv
  /\ LanesInv
  /\ OrderInv
  /\ CountInv

-----------------------------------------------------------------------------
(* Facts the steps share *)

\* What a sound plan gives, with the plan of the behaviour named.
LEMMA PlanFacts ==
  ASSUME Fixed
  PROVE  /\ IsFiniteSet(MTasks) /\ MTasks \subseteq Nat
         /\ plan.runtime \in [MTasks -> SUBSET MTasks]
         /\ plan.deps \in [MTasks -> SUBSET MTasks]
         /\ \A m \in MTasks : Parallel => plan.owner[m] \in Lanes
         /\ \A q \in MTasks : \A m \in plan.deps[q] : q < m /\ <<q, m>> \in plan.order
         /\ \A q, m \in MTasks : <<q, m>> \in plan.order =>
              CountedBefore(plan, q, m) \/ \E r \in MTasks : <<q, r>> \in plan.order /\ CountedBefore(plan, r, m)
<1>1. SoundCounts(plan) /\ (OwnerReady /\ Configured > 1 => plan.generated <= Configured)
  BY Zenon, CountersAssumption DEF Fixed
<1>2. ASSUME NEW m \in MTasks, Parallel PROVE plan.owner[m] \in Lanes
  <2>1. plan.owner[m] \in 0..(plan.generated - 1) /\ plan.generated \in Nat \ {0}
    BY Zenon, <1>1 DEF SoundCounts, MTasks
  <2>2. plan.generated <= Configured /\ Configured \in Nat
    BY <1>1, <1>2, <2>1, CountersAssumption DEF Parallel
  <2> QED BY <2>1, <2>2 DEF Lanes
<1> QED BY Zenon, <1>1, <1>2 DEF SoundCounts, MTasks

\* Lane 0 is the main thread, the others are the pool's.
LEMMA LaneSplit == Lanes = {0} \cup Background /\ 0 \notin Background
BY CountersAssumption DEF Lanes, Background

\* The callers of an MTask are finite in number, and so are those that signalled.
LEMMA CallersFinite ==
  ASSUME Fixed, NEW m \in MTasks
  PROVE  /\ IsFiniteSet(Callers(m)) /\ Cardinality(Callers(m)) \in Nat
         /\ DepCount(m) = Cardinality(Callers(m))
         /\ IsFiniteSet(Signalled(m)) /\ Cardinality(Signalled(m)) \in Nat
         /\ Cardinality(Signalled(m)) <= Cardinality(Callers(m))
         /\ Cardinality(Signalled(m)) = Cardinality(Callers(m)) => Signalled(m) = Callers(m)
<1>1. Callers(m) \subseteq MTasks /\ Signalled(m) \subseteq Callers(m)
  BY Zenon DEF Callers, Signalled
<1>2. IsFiniteSet(Callers(m))
  BY Zenon, <1>1, PlanFacts, FS_Subset
<1>3. IsFiniteSet(Signalled(m)) /\ Cardinality(Signalled(m)) <= Cardinality(Callers(m))
  BY Zenon, <1>1, <1>2, FS_Subset
<1>4. Cardinality(Signalled(m)) = Cardinality(Callers(m)) => Signalled(m) = Callers(m)
  BY Zenon, <1>1, <1>2, FS_Subset
<1>5. DepCount(m) = Cardinality(Callers(m))
  BY Zenon DEF DepCount, Callers
<1> QED BY Zenon, <1>2, <1>3, <1>4, <1>5, FS_CardinalityType

\* A lane that does not move keeps its invariant while others run bodies.
LEMMA LaneFrame ==
  ASSUME NEW u \in Lanes, LaneInv(u), plan' = plan, cycles' = cycles,
         lane'[u] = lane[u], even'[u] = even[u], todo'[u] = todo[u], cur'[u] = cur[u],
         \A m \in MTasks : Done(m) => Done(m)',
         \A m \in Own(u) : Pending(m) => Pending(m)',
         todo[u] \subseteq MTasks
  PROVE  LaneInv(u)'
<1>1. MTasks' = MTasks /\ Own(u)' = Own(u) /\ Own(u) \subseteq MTasks
  BY Zenon DEF MTasks, Own
<1>2. lane[u] \in {"wait", "body"} => (Pending(cur[u]))'
  <2> SUFFICES ASSUME lane[u] \in {"wait", "body"} PROVE epoch'[cur'[u]] = cycles'
    BY Zenon DEF Pending
  <2>1. cur[u] \in Own(u) /\ Pending(cur[u])
    BY Zenon DEF LaneInv
  <2> QED BY Zenon, <2>1 DEF Pending
<1>3. Even(cycles)' <=> Even(cycles)
  BY Zenon DEF Even
<1>4. /\ lane[u] = "posted" => \A m \in Own(u) : Pending(m)'
      /\ lane[u] \in {"signal", "wait", "body"} => \A m \in todo[u] : Pending(m)'
  BY Zenon DEF LaneInv
<1>5. /\ lane[u] \in {"wait", "body"} =>
           \A m \in Own(u) : m \in todo[u] \/ m = cur[u] \/ Done(m)'
      /\ lane[u] = "body" => \A p \in MTasks : <<p, cur[u]>> \in plan.order => Done(p)'
      /\ lane[u] = "signal" => \A m \in Own(u) : m \in todo[u] \/ Done(m)'
      /\ lane[u] = "done" => \A m \in Own(u) : Done(m)'
  BY Zenon, <1>1 DEF LaneInv
<1> QED BY Zenon, <1>1, <1>2, <1>3, <1>4, <1>5 DEF LaneInv

\* A step of a lane that runs no body.
Quiet(w) ==
  /\ main = "lanes"
  /\ UNCHANGED <<plan, poolEnabled, main, cycles, serialTodo, epoch>>
  /\ lane'[w] # "off"
  /\ \A u \in Lanes \ {w} :
       /\ lane'[u] = lane[u] /\ even'[u] = even[u] /\ todo'[u] = todo[u]
       /\ cur'[u] = cur[u] /\ signals'[u] = signals[u]

LEMMA QuietKeeps ==
  ASSUME CInv, NEW w \in Lanes, Quiet(w)
  PROVE  /\ Fixed' /\ ModeInv' /\ EpochInv' /\ OrderInv'
         /\ LaneInv(w)' => LanesInv'
         /\ MTasks' = MTasks /\ \A u : Own(u)' = Own(u)
         /\ \A m : (Done(m)' <=> Done(m)) /\ (Pending(m)' <=> Pending(m))
         /\ (Even(cycles)' <=> Even(cycles)) /\ (Parallel' <=> Parallel)
         /\ \A m : DepCount(m)' = DepCount(m) /\ Callers(m)' = Callers(m)
<1>1. /\ plan' = plan /\ poolEnabled' = poolEnabled /\ main = "lanes" /\ main' = "lanes"
      /\ cycles' = cycles /\ serialTodo' = serialTodo /\ epoch' = epoch
  BY Zenon DEF Quiet
<1>2. /\ MTasks' = MTasks /\ \A u : Own(u)' = Own(u)
      /\ \A m : (Done(m)' <=> Done(m)) /\ (Pending(m)' <=> Pending(m))
      /\ (Even(cycles)' <=> Even(cycles)) /\ (Parallel' <=> Parallel)
  BY Zenon, <1>1 DEF MTasks, Own, Done, Pending, Even, Parallel
<1>3. \A m : DepCount(m)' = DepCount(m) /\ Callers(m)' = Callers(m)
  BY Zenon, <1>1, <1>2 DEF DepCount, Callers
<1>4. Fixed' /\ EpochInv' /\ OrderInv'
  BY Zenon, <1>1, <1>2 DEF CInv, Fixed, EpochInv, OrderInv
<1>5. ModeInv'
  BY Zenon, <1>1, <1>2 DEF CInv, ModeInv, Quiet
<1>6. ASSUME LaneInv(w)' PROVE LanesInv'
  <2> SUFFICES ASSUME NEW u \in Lanes, u # w PROVE LaneInv(u)'
    BY Zenon, <1>6 DEF LanesInv
  <2>1. LaneInv(u) /\ todo[u] \subseteq MTasks
    BY Zenon DEF CInv, LanesInv, CType
  <2>2. lane'[u] = lane[u] /\ even'[u] = even[u] /\ todo'[u] = todo[u] /\ cur'[u] = cur[u]
    BY Zenon DEF Quiet
  <2> QED BY Zenon, <1>1, <1>2, <2>1, <2>2, LaneFrame
<1> QED BY Zenon, <1>2, <1>3, <1>4, <1>5, <1>6

\* Signals are only ever taken away.
LEMMA SignalsKept ==
  ASSUME CInv, NEW w \in Lanes, Quiet(w), signals'[w] \subseteq signals[w],
         signals'[w] # {} => lane'[w] = "signal" /\ cur'[w] = cur[w]
  PROVE  SignalInv'
<1> SUFFICES ASSUME NEW u \in Lanes, signals'[u] # {}
             PROVE  /\ lane'[u] = "signal"
                    /\ cur'[u] \in Own(u)'
                    /\ epoch'[cur'[u]] = cycles' + 1
                    /\ signals'[u] \subseteq plan'.runtime[cur'[u]]
  BY Zenon DEF SignalInv, Done
<1>1. signals[u] # {} /\ signals'[u] \subseteq signals[u] /\ cur'[u] = cur[u] /\ lane'[u] = "signal"
  BY Zenon DEF Quiet, CInv, SignalInv
<1>2. /\ cur[u] \in Own(u)
      /\ epoch[cur[u]] = cycles + 1
      /\ signals[u] \subseteq plan.runtime[cur[u]]
  BY Zenon, <1>1 DEF CInv, SignalInv, Done
<1>3. Own(u)' = Own(u) /\ plan' = plan /\ epoch' = epoch /\ cycles' = cycles
  BY Zenon, QuietKeeps DEF Quiet
<1> QED BY Zenon, <1>1, <1>2, <1>3

\* A step that sends no signal keeps the counts.
LEMMA CountKept ==
  ASSUME CInv, NEW w \in Lanes, Quiet(w), signals[w] = {}, signals'[w] = {}, depsDone' = depsDone
  PROVE  CountInv'
<1>1. ASSUME NEW p, NEW m PROVE Owed(p, m)' <=> Owed(p, m)
  BY Zenon DEF Owed, Quiet
<1>2. ASSUME NEW m PROVE Signalled(m)' = Signalled(m)
  <2>1. Callers(m)' = Callers(m) /\ \A p : Done(p)' <=> Done(p)
    BY Zenon, QuietKeeps
  <2> QED BY Zenon, <1>1, <2>1 DEF Signalled
<1>3. \A m : Count(m)' = Count(m)
  BY Zenon, <1>2, QuietKeeps DEF Count
<1> QED BY Zenon, <1>3, QuietKeeps DEF CInv, CountInv

-----------------------------------------------------------------------------
(* Steps of a lane *)

LEMMA LaneBeginKeeps == ASSUME CInv, NEW w \in Lanes, LaneBegin(w) PROVE CInv'
<1>0. /\ lane[w] = "posted" /\ lane'[w] = "signal" /\ signals' = signals /\ depsDone' = depsDone
      /\ todo'[w] = Own(w) /\ (even'[w] <=> Even(cycles)) /\ busy' = busy /\ phase' = phase
      /\ cur' = cur /\ \A u \in Lanes : u # w => lane'[u] = lane[u]
  BY Zenon DEF LaneBegin, CInv, CType, Own, poolVars
<1>1. main = "lanes" /\ signals[w] = {}
  BY Zenon, <1>0 DEF CInv, ModeInv, SignalInv
<1>2. Quiet(w)
  BY Zenon, <1>1 DEF Quiet, LaneBegin, CInv, CType
<1>3. CType'
  BY Zenon, <1>2, QuietKeeps DEF LaneBegin, CInv, CType, Quiet, MTasks, Even, LaneStates, poolVars
<1>4. PoolInv'
  BY Zenon, <1>0, <1>1, <1>2, LaneSplit DEF CInv, PoolInv, Quiet
<1>5. SignalInv'
  BY Zenon, <1>0, <1>1, <1>2, SignalsKept
<1>6. LaneInv(w)'
  <2>1. \A m \in Own(w) : Pending(m)
    BY Zenon, <1>0 DEF CInv, LanesInv, LaneInv
  <2> QED BY Zenon, <1>0, <1>2, <2>1, QuietKeeps DEF LaneInv
<1>7. CountInv'
  BY Zenon, <1>0, <1>1, <1>2, CountKept
<1> QED BY Zenon, <1>2, <1>3, <1>4, <1>5, <1>6, <1>7, QuietKeeps DEF CInv

LEMMA LaneNextKeeps ==
  ASSUME CInv, NEW w \in Lanes, NEW m \in todo[w], LaneNext(w, m)
  PROVE  CInv'
<1>0. /\ lane[w] = "signal" /\ lane'[w] = "wait" /\ signals[w] = {} /\ signals' = signals
      /\ depsDone' = depsDone /\ todo'[w] = todo[w] \ {m} /\ cur'[w] = m /\ even' = even
      /\ busy' = busy /\ phase' = phase /\ \A y \in todo[w] : m <= y
      /\ \A u \in Lanes : u # w => lane'[u] = lane[u] /\ cur'[u] = cur[u]
  BY Zenon DEF LaneNext, CInv, CType, Least, poolVars
<1>1. main = "lanes"
  BY Zenon, <1>0 DEF CInv, ModeInv
<1>2. Quiet(w)
  BY Zenon, <1>1 DEF Quiet, LaneNext, CInv, CType
<1>3. m \in Nat /\ todo[w] \subseteq Nat /\ m \in MTasks
  BY Zenon, PlanFacts DEF CInv, CType
<1>4. CType'
  BY Zenon, <1>2, <1>3, QuietKeeps DEF LaneNext, CInv, CType, Quiet, LaneStates, poolVars
<1>5. PoolInv'
  BY Zenon, <1>0, <1>1, <1>2, LaneSplit DEF CInv, PoolInv, Quiet
<1>6. SignalInv'
  BY Zenon, <1>0, <1>2, SignalsKept
<1>7. LaneInv(w)'
  <2>1. /\ even[w] <=> Even(cycles)
        /\ todo[w] \subseteq Own(w)
        /\ \A x \in todo[w] : Pending(x)
        /\ \A x \in Own(w) : x \in todo[w] \/ Done(x)
    BY Zenon, <1>0 DEF CInv, LanesInv, LaneInv
  <2>2. \A x \in todo[w] \ {m} : m < x
    BY <1>0, <1>3
  <2>3. Pending(cur[w])'
    BY Zenon, <1>0, <1>2, <2>1 DEF Pending, Quiet
  <2> QED BY Zenon, <1>0, <1>2, <2>1, <2>2, <2>3, QuietKeeps DEF LaneInv
<1>8. CountInv'
  BY Zenon, <1>0, <1>2, CountKept
<1> QED BY Zenon, <1>2, <1>4, <1>5, <1>6, <1>7, <1>8, QuietKeeps DEF CInv

\* An MTask all of whose callers have signalled has what it depends on done: the
\* callers are, and so are the MTasks before it on its lane.
LEMMA CountsEnough ==
  ASSUME CInv, NEW w \in Lanes, lane[w] = "wait",
         depsDone[cur[w]] = CounterTarget(w)
  PROVE  \A p \in MTasks : <<p, cur[w]>> \in plan.order => Done(p)
<1> DEFINE m == cur[w]
<1>1. main = "lanes" /\ Parallel /\ Fixed
  BY Zenon DEF CInv, ModeInv
<1>2. /\ m \in MTasks /\ plan.owner[m] = w
      /\ even[w] <=> Even(cycles)
      /\ \A x \in todo[w] : m < x
      /\ \A x \in Own(w) : x \in todo[w] \/ x = m \/ Done(x)
  BY Zenon DEF CInv, LanesInv, LaneInv, Own
<1>3. depsDone[m] = Count(m)
  BY Zenon, <1>1, <1>2 DEF CInv, CountInv
<1>4. depsDone[m] = IF Even(cycles) THEN DepCount(m) ELSE 0
  BY Zenon, <1>2 DEF CounterTarget
<1> HIDE DEF m
<1>5. Cardinality(Signalled(m)) = Cardinality(Callers(m))
  BY <1>1, <1>2, <1>3, <1>4, CallersFinite DEF Count
<1>6. \A p \in Callers(m) : Done(p)
  BY Zenon, <1>1, <1>2, <1>5, CallersFinite DEF Signalled
<1>7. ASSUME NEW p \in MTasks, CountedBefore(plan, p, m) PROVE Done(p)
  <2>1. CASE m \in plan.runtime[p]
    BY Zenon, <1>6, <2>1 DEF Callers
  <2>2. CASE plan.owner[p] = plan.owner[m] /\ p < m
    <3>1. p \in Own(w) /\ p \in Nat /\ m \in Nat
      BY Zenon, <1>1, <1>2, <2>2, PlanFacts DEF Own
    <3>2. p \notin todo[w] /\ p # m
      BY <1>2, <2>2, <3>1
    <3> QED BY Zenon, <1>2, <3>1, <3>2
  <2> QED BY Zenon, <1>7, <2>1, <2>2 DEF CountedBefore
<1>8. ASSUME NEW p \in MTasks, <<p, m>> \in plan.order PROVE Done(p)
  <2>1. CountedBefore(plan, p, m) \/ \E r \in MTasks : <<p, r>> \in plan.order /\ CountedBefore(plan, r, m)
    BY Zenon, <1>1, <1>2, <1>8, PlanFacts
  <2>2. ASSUME NEW r \in MTasks, <<p, r>> \in plan.order, CountedBefore(plan, r, m) PROVE Done(p)
    BY Zenon, <1>1, <1>7, <2>2 DEF CInv, OrderInv
  <2> QED BY Zenon, <1>7, <2>1, <2>2
<1> QED BY Zenon, <1>8 DEF m

LEMMA BodyStartKeeps == ASSUME CInv, NEW w \in Lanes, BodyStart(w) PROVE CInv'
<1>0. /\ lane[w] = "wait" /\ lane'[w] = "body" /\ signals' = signals /\ depsDone' = depsDone
      /\ todo' = todo /\ cur' = cur /\ even' = even /\ busy' = busy /\ phase' = phase
      /\ depsDone[cur[w]] = CounterTarget(w)
      /\ \A u \in Lanes : u # w => lane'[u] = lane[u]
  BY Zenon DEF BodyStart, CInv, CType, poolVars
<1>1. main = "lanes" /\ signals[w] = {}
  BY Zenon, <1>0 DEF CInv, ModeInv, SignalInv
<1>2. Quiet(w)
  BY Zenon, <1>0, <1>1 DEF Quiet, BodyStart
<1>3. CType'
  BY Zenon, <1>2, QuietKeeps DEF BodyStart, CInv, CType, Quiet, LaneStates, poolVars
<1>4. PoolInv'
  BY Zenon, <1>0, <1>1, <1>2, LaneSplit DEF CInv, PoolInv, Quiet
<1>5. SignalInv'
  BY Zenon, <1>0, <1>1, <1>2, SignalsKept
<1>6. LaneInv(w)'
  <2>1. /\ even[w] <=> Even(cycles)
        /\ todo[w] \subseteq Own(w)
        /\ \A x \in todo[w] : Pending(x)
        /\ cur[w] \in Own(w)
        /\ Pending(cur[w])
        /\ \A m \in todo[w] : cur[w] < m
        /\ \A m \in Own(w) : m \in todo[w] \/ m = cur[w] \/ Done(m)
    BY Zenon, <1>0 DEF CInv, LanesInv, LaneInv
  <2>2. \A p \in MTasks : <<p, cur[w]>> \in plan.order => Done(p)
    BY Zenon, <1>0, CountsEnough
  <2>3. Pending(cur[w])'
    BY Zenon, <1>0, <1>2, <2>1 DEF Pending, Quiet
  <2>4. plan' = plan
    BY Zenon, <1>2 DEF Quiet
  <2> QED BY Zenon, <1>0, <1>2, <2>1, <2>2, <2>3, <2>4, QuietKeeps DEF LaneInv
<1>7. CountInv'
  BY Zenon, <1>0, <1>1, <1>2, CountKept
<1> QED BY Zenon, <1>2, <1>3, <1>4, <1>5, <1>6, <1>7, QuietKeeps DEF CInv

LEMMA LaneEndKeeps == ASSUME CInv, NEW w \in Lanes, LaneEnd(w) PROVE CInv'
<1>0. /\ lane[w] = "signal" /\ lane'[w] = "done" /\ signals' = signals /\ depsDone' = depsDone
      /\ todo' = todo /\ cur' = cur /\ even' = even /\ signals[w] = {} /\ todo[w] = {}
      /\ \A u \in Lanes : u # w => lane'[u] = lane[u]
  BY Zenon DEF LaneEnd, CInv, CType
<1>1. main = "lanes"
  BY Zenon, <1>0 DEF CInv, ModeInv
<1>2. Quiet(w)
  BY Zenon, <1>0, <1>1 DEF Quiet, LaneEnd
<1>3. phase' = phase /\ busy' = busy \ {w}
  <2>1. CASE w = 0
    BY Zenon, <1>1, <2>1, LaneSplit DEF LaneEnd, poolVars, CInv, CType
  <2>2. CASE w # 0
    BY Zenon, <2>2 DEF LaneEnd, FJ!Ack
  <2> QED BY Zenon, <2>1, <2>2
<1>4. CType'
  BY Zenon, <1>2, <1>3, QuietKeeps DEF LaneEnd, CInv, CType, Quiet, LaneStates
<1>5. PoolInv'
  BY Zenon, <1>0, <1>1, <1>2, <1>3, LaneSplit DEF CInv, PoolInv, Quiet
<1>6. SignalInv'
  BY Zenon, <1>0, <1>2, SignalsKept
<1>7. LaneInv(w)'
  <2>1. \A m \in Own(w) : Done(m)
    BY Zenon, <1>0 DEF CInv, LanesInv, LaneInv
  <2> QED BY Zenon, <1>0, <1>2, <2>1, QuietKeeps DEF LaneInv
<1>8. CountInv'
  BY Zenon, <1>0, <1>2, CountKept
<1> QED BY Zenon, <1>2, <1>4, <1>5, <1>6, <1>7, <1>8, QuietKeeps DEF CInv

\* The signal of an MTask to a successor: one more of its callers has signalled.
LEMMA SignalKeeps ==
  ASSUME CInv, NEW w \in Lanes, NEW s \in signals[w], Signal(w, s)
  PROVE  CInv'
<1>0. /\ lane[w] = "signal" /\ lane' = lane /\ todo' = todo /\ cur' = cur /\ even' = even
      /\ busy' = busy /\ phase' = phase /\ signals'[w] = signals[w] \ {s}
      /\ \A u \in Lanes : u # w => signals'[u] = signals[u]
  BY Zenon DEF Signal, CInv, CType, poolVars
<1>1. main = "lanes" /\ Parallel /\ Fixed
  BY Zenon, <1>0 DEF CInv, ModeInv
<1>2. Quiet(w)
  BY Zenon, <1>0, <1>1 DEF Quiet, Signal
<1>3. s \in MTasks
  BY Zenon DEF CInv, CType
<1>4. CType'
  BY <1>2, <1>3, QuietKeeps DEF Signal, CInv, CType, Quiet, poolVars
<1>5. PoolInv'
  BY Zenon, <1>0, <1>1, <1>2 DEF CInv, PoolInv, Quiet
<1>6. SignalInv'
  BY Zenon, <1>0, <1>2, SignalsKept
<1>7. LaneInv(w)'
  <2>1. LaneInv(w) /\ todo[w] \subseteq MTasks /\ plan' = plan /\ cycles' = cycles
    BY Zenon, <1>2 DEF CInv, LanesInv, CType, Quiet
  <2> QED BY Zenon, <1>0, <1>2, <2>1, LaneFrame, QuietKeeps
<1>8. CountInv'
  <2> DEFINE p == cur[w]
  <2>1. p \in Own(w) /\ Done(p) /\ s \in plan.runtime[p] /\ (even[w] <=> Even(cycles))
    BY Zenon, <1>0 DEF CInv, SignalInv, LanesInv, LaneInv
  <2>2. p \in Callers(s) /\ Owed(p, s)
    BY Zenon, <2>1 DEF Callers, Own, Owed
  <2>3. ASSUME NEW q, NEW m PROVE Owed(q, m)' <=> Owed(q, m) /\ ~(q = p /\ m = s)
    <3>1. ASSUME NEW u \in Lanes, cur[u] = p, s \in signals[u] PROVE u = w
      BY Zenon, <2>1, <3>1 DEF CInv, SignalInv, Own
    <3> QED BY Zenon, <1>0, <3>1 DEF Owed
  <2> HIDE DEF p
  <2>4. \A q : Done(q)' <=> Done(q)
    BY Zenon, <1>2, QuietKeeps
  <2>5. \A m : Callers(m)' = Callers(m)
    BY Zenon, <1>2, QuietKeeps
  <2>6. ASSUME NEW m, m # s PROVE Signalled(m)' = Signalled(m)
    BY Zenon, <2>3, <2>4, <2>5, <2>6 DEF Signalled
  <2>7. Signalled(s)' = Signalled(s) \cup {p} /\ p \notin Signalled(s)
    BY Zenon, <2>1, <2>2, <2>3, <2>4, <2>5 DEF Signalled
  <2>8. Cardinality(Signalled(s)') = Cardinality(Signalled(s)) + 1
    BY Zenon, <1>1, <1>3, <2>7, CallersFinite, FS_AddElement
  <2>9. ASSUME NEW m \in MTasks PROVE depsDone'[m] = Count(m)'
    <3>1. depsDone[m] = Count(m)
      BY Zenon, <1>1 DEF CInv, CountInv
    <3>2. /\ Even(cycles)' <=> Even(cycles)
          /\ DepCount(m)' = DepCount(m)
      BY Zenon, <1>2, QuietKeeps
    <3>3. CASE m = s
      <4>1. depsDone'[s] = IF Even(cycles) THEN depsDone[s] + 1 ELSE depsDone[s] - 1
        BY Zenon, <1>3, <2>1 DEF Signal, CInv, CType
      <4>2. Count(s)' = IF Even(cycles) THEN Cardinality(Signalled(s)) + 1
                        ELSE DepCount(s) - (Cardinality(Signalled(s)) + 1)
        BY Zenon, <2>8, <3>2, <3>3 DEF Count
      <4>3. Cardinality(Signalled(s)) \in Nat /\ DepCount(s) \in Nat
        BY Zenon, <1>1, <1>3, CallersFinite
      <4> QED BY <3>1, <3>3, <4>1, <4>2, <4>3 DEF Count
    <3>4. CASE m # s
      <4>1. depsDone'[m] = depsDone[m]
        BY Zenon, <3>4 DEF Signal, CInv, CType
      <4>2. Signalled(m)' = Signalled(m)
        BY Zenon, <2>6, <3>4
      <4> QED BY Zenon, <3>1, <3>2, <4>1, <4>2 DEF Count
    <3> QED BY Zenon, <3>3, <3>4
  <2> QED BY Zenon, <1>2, <2>9, QuietKeeps DEF CountInv
<1> QED BY Zenon, <1>2, <1>4, <1>5, <1>6, <1>7, <1>8, QuietKeeps DEF CInv

\* The end of a body: the MTask is done and owes all its signals.
LEMMA BodyEndKeeps == ASSUME CInv, NEW w \in Lanes, BodyEnd(w) PROVE CInv'
<1> DEFINE p == cur[w]
<1>0. /\ lane[w] = "body" /\ lane'[w] = "signal" /\ depsDone' = depsDone
      /\ todo' = todo /\ cur' = cur /\ even' = even /\ busy' = busy /\ phase' = phase
      /\ plan' = plan /\ poolEnabled' = poolEnabled /\ main' = main /\ cycles' = cycles
      /\ serialTodo' = serialTodo /\ signals'[w] = plan.runtime[p]
      /\ \A u \in Lanes : u # w => lane'[u] = lane[u] /\ signals'[u] = signals[u]
  BY Zenon DEF BodyEnd, CInv, CType, poolVars
<1>1. main = "lanes" /\ Parallel /\ Fixed /\ signals[w] = {}
  BY Zenon, <1>0 DEF CInv, ModeInv, SignalInv
<1>2. /\ p \in Own(w) /\ p \in MTasks /\ plan.owner[p] = w
      /\ Pending(p)
      /\ even[w] <=> Even(cycles)
      /\ todo[w] \subseteq Own(w)
      /\ \A x \in todo[w] : Pending(x)
      /\ \A m \in todo[w] : p < m
      /\ \A m \in Own(w) : m \in todo[w] \/ m = p \/ Done(m)
      /\ \A q \in MTasks : <<q, p>> \in plan.order => Done(q)
  BY Zenon, <1>0 DEF CInv, LanesInv, LaneInv, Own
<1>3. p \in Nat /\ todo[w] \subseteq Nat
  BY Zenon, <1>1, <1>2, PlanFacts DEF Own
<1>4. cycles \in Nat /\ epoch \in [MTasks -> Nat] /\ epoch' = [epoch EXCEPT ![p] = @ + 1]
  BY Zenon DEF CInv, CType, BodyEnd
<1> HIDE DEF p
<1>5. MTasks' = MTasks /\ (\A u : Own(u)' = Own(u)) /\ (Parallel' <=> Parallel)
      /\ (Even(cycles)' <=> Even(cycles))
  BY Zenon, <1>0 DEF MTasks, Own, Parallel, Even
<1>6. epoch'[p] = cycles' + 1 /\ \A m \in MTasks : m # p => epoch'[m] = epoch[m]
  BY Zenon, <1>0, <1>2, <1>4 DEF Pending
<1>7. \A m \in MTasks : Done(m)' <=> Done(m) \/ m = p
  BY Zenon, <1>0, <1>6 DEF Done
<1>8. \A m \in MTasks : m # p => (Pending(m)' <=> Pending(m))
  BY Zenon, <1>0, <1>6 DEF Pending
<1>9. Fixed' /\ ModeInv'
  BY Zenon, <1>0, <1>1, <1>5 DEF CInv, Fixed, ModeInv
<1>10. CType'
  <2>1. plan.runtime[p] \in SUBSET MTasks
    BY Zenon, <1>1, <1>2, PlanFacts
  <2>2. signals' \in [Lanes -> SUBSET MTasks]
    BY Zenon, <2>1 DEF BodyEnd, CInv, CType, p
  <2>3. epoch' \in [MTasks -> Nat]
    BY <1>2, <1>4
  <2>4. lane' \in [Lanes -> LaneStates]
    BY Zenon DEF BodyEnd, CInv, CType, LaneStates
  <2> QED BY Zenon, <1>0, <1>5, <2>2, <2>3, <2>4 DEF CInv, CType
<1>11. PoolInv'
  BY Zenon, <1>0, <1>1, LaneSplit DEF CInv, PoolInv
<1>12. EpochInv'
  BY Zenon, <1>0, <1>1, <1>5, <1>7, <1>8 DEF CInv, EpochInv
<1>13. SignalInv'
  <2> SUFFICES ASSUME NEW u \in Lanes, signals'[u] # {}
               PROVE  /\ lane'[u] = "signal"
                      /\ cur'[u] \in Own(u)'
                      /\ epoch'[cur'[u]] = cycles' + 1
                      /\ signals'[u] \subseteq plan'.runtime[cur'[u]]
    BY Zenon DEF SignalInv, Done
  <2>1. CASE u = w
    BY Zenon, <1>0, <1>2, <1>5, <1>6, <2>1 DEF p
  <2>2. CASE u # w
    <3>1. /\ lane[u] = "signal" /\ cur[u] \in Own(u) /\ epoch[cur[u]] = cycles + 1
          /\ signals[u] \subseteq plan.runtime[cur[u]]
      BY Zenon, <1>0, <2>2 DEF CInv, SignalInv, Done
    <3>2. cur[u] \in MTasks /\ cur[u] # p
      BY Zenon, <1>2, <2>2, <3>1 DEF Own
    <3> QED BY Zenon, <1>0, <1>5, <1>6, <2>2, <3>1, <3>2
  <2> QED BY Zenon, <2>1, <2>2
<1>14. LanesInv'
  <2> SUFFICES ASSUME NEW u \in Lanes PROVE LaneInv(u)'
    BY Zenon DEF LanesInv
  <2>1. CASE u = w
    <3>1. \A x \in todo[w] : Pending(x)'
      <4>1. \A x \in todo[w] : x # p /\ x \in MTasks
        BY <1>2, <1>3 DEF Own
      <4> QED BY Zenon, <1>2, <1>8, <4>1
    <3>2. \A m \in Own(w) : m \in todo[w] \/ Done(m)'
      BY Zenon, <1>2, <1>7 DEF Own
    <3> QED BY Zenon, <1>0, <1>2, <1>5, <2>1, <3>1, <3>2 DEF LaneInv
  <2>2. CASE u # w
    <3>1. LaneInv(u) /\ todo[u] \subseteq MTasks
      BY Zenon DEF CInv, LanesInv, CType
    <3>2. \A m \in Own(u) : Pending(m) => Pending(m)'
      BY Zenon, <1>2, <1>8, <2>2 DEF Own
    <3> QED BY Zenon, <1>0, <1>7, <2>2, <3>1, <3>2, LaneFrame
  <2> QED BY Zenon, <2>1, <2>2
<1>15. OrderInv'
  BY Zenon, <1>0, <1>1, <1>2, <1>5, <1>7 DEF CInv, OrderInv
<1>16. CountInv'
  <2>1. ASSUME NEW q \in MTasks, NEW m, q # p PROVE Owed(q, m)' <=> Owed(q, m)
    BY Zenon, <1>0, <1>1, <2>1 DEF Owed, p
  <2>2. ~Done(p)
    BY <1>2, <1>4 DEF Pending, Done
  <2>3. ASSUME NEW q, q = p, NEW m \in plan.runtime[q] PROVE Owed(q, m)'
    BY Zenon, <1>0, <2>3 DEF Owed, p
  <2>4. \A m : Callers(m)' = Callers(m) /\ DepCount(m)' = DepCount(m)
    BY Zenon, <1>0, <1>5 DEF Callers, DepCount
  <2>5. ASSUME NEW m PROVE Signalled(m)' = Signalled(m)
    <3>1. ASSUME NEW q \in Callers(m)
          PROVE  (Done(q) /\ ~Owed(q, m))' <=> Done(q) /\ ~Owed(q, m)
      <4>1. q \in MTasks /\ m \in plan.runtime[q]
        BY Zenon DEF Callers
      <4>2. CASE q = p
        BY Zenon, <2>2, <2>3, <4>1, <4>2
      <4>3. CASE q # p
        BY Zenon, <1>7, <2>1, <4>1, <4>3
      <4> QED BY Zenon, <4>2, <4>3
    <3> QED BY Zenon, <2>4, <3>1 DEF Signalled
  <2>6. \A m : Count(m)' = Count(m)
    BY Zenon, <1>5, <2>4, <2>5 DEF Count
  <2> QED BY Zenon, <1>0, <1>5, <2>6 DEF CInv, CountInv
<1> QED BY Zenon, <1>9, <1>10, <1>11, <1>12, <1>13, <1>14, <1>15, <1>16 DEF CInv

-----------------------------------------------------------------------------
(* Steps of the main thread *)

LEMMA StepParallelKeeps == ASSUME CInv, StepParallel PROVE CInv'
<1>0. /\ main = "idle" /\ main' = "lanes" /\ Parallel /\ phase' = "open" /\ busy' = Background
      /\ lane' = [w \in Lanes |-> "posted"]
      /\ UNCHANGED <<plan, poolEnabled, cycles, depsDone, even, todo, cur, signals, serialTodo, epoch>>
  BY Zenon DEF StepParallel, FJ!Fork
<1>1. /\ MTasks' = MTasks /\ (\A u : Own(u)' = Own(u)) /\ (Parallel' <=> Parallel)
      /\ (Even(cycles)' <=> Even(cycles))
      /\ \A m : (Done(m)' <=> Done(m)) /\ (Pending(m)' <=> Pending(m))
  BY Zenon, <1>0 DEF MTasks, Own, Parallel, Even, Done, Pending
<1>2. \A m \in MTasks : Pending(m) /\ ~Done(m)
  <2>1. \A m \in MTasks : Pending(m)
    BY Zenon, <1>0 DEF CInv, EpochInv
  <2> QED BY <2>1 DEF CInv, CType, Pending, Done
<1>3. Fixed' /\ ModeInv'
  BY Zenon, <1>0, <1>1 DEF CInv, Fixed, ModeInv
<1>4. CType'
  BY Zenon, <1>0, <1>1 DEF CInv, CType, LaneStates
<1>5. PoolInv'
  BY Zenon, <1>0, LaneSplit DEF PoolInv
<1>6. EpochInv' /\ OrderInv'
  BY Zenon, <1>0, <1>1, <1>2 DEF EpochInv, OrderInv
<1>7. \A w \in Lanes : signals[w] = {}
  BY Zenon, <1>0 DEF CInv, SignalInv, ModeInv
<1>8. SignalInv'
  BY Zenon, <1>0, <1>7 DEF SignalInv
<1>9. LanesInv'
  BY Zenon, <1>0, <1>1, <1>2 DEF LanesInv, LaneInv, Own
<1>10. CountInv'
  <2>1. \A q, m : Owed(q, m)' <=> Owed(q, m)
    BY Zenon, <1>0 DEF Owed
  <2>2. \A m : Callers(m)' = Callers(m) /\ DepCount(m)' = DepCount(m)
    BY Zenon, <1>0, <1>1 DEF Callers, DepCount
  <2>3. ASSUME NEW m PROVE Signalled(m)' = Signalled(m)
    BY Zenon, <1>1, <2>1, <2>2 DEF Signalled
  <2>4. \A m : Count(m)' = Count(m)
    BY Zenon, <1>1, <2>2, <2>3 DEF Count
  <2> QED BY Zenon, <1>0, <1>1, <2>4 DEF CInv, CountInv
<1> QED BY Zenon, <1>3, <1>4, <1>5, <1>6, <1>8, <1>9, <1>10 DEF CInv

\* The serial steps leave the lanes and the counters alone.
LEMMA SerialKeeps ==
  ASSUME CInv, StepSerial \/ SerialEnd \/ \E m \in serialTodo : SerialBody(m)
  PROVE  CInv'
<1>0. /\ main # "lanes" /\ main' # "lanes" /\ ~Parallel
      /\ UNCHANGED <<plan, poolEnabled, phase, busy, depsDone, lane, even, todo, cur, signals>>
  BY Zenon DEF StepSerial, SerialEnd, SerialBody, poolVars, laneVars, CInv, ModeInv
<1>1. MTasks' = MTasks /\ (\A u : Own(u)' = Own(u)) /\ (Parallel' <=> Parallel)
  BY Zenon, <1>0 DEF MTasks, Own, Parallel
<1>2. Fixed' /\ ModeInv' /\ PoolInv' /\ OrderInv' /\ CountInv'
  BY Zenon, <1>0, <1>1 DEF CInv, Fixed, ModeInv, PoolInv, OrderInv, CountInv
<1>3. \A w \in Lanes : lane[w] = "off" /\ signals[w] = {}
  BY Zenon, <1>0 DEF CInv, ModeInv, SignalInv
<1>4. SignalInv' /\ LanesInv'
  BY Zenon, <1>0, <1>3 DEF SignalInv, LanesInv, LaneInv
<1>5. CASE StepSerial
  <2>1. CType'
    BY Zenon, <1>0, <1>1, <1>5 DEF CInv, CType, StepSerial
  <2>2. EpochInv'
    BY Zenon, <1>0, <1>1, <1>5 DEF CInv, EpochInv, StepSerial, Pending
  <2> QED BY Zenon, <1>2, <1>4, <2>1, <2>2 DEF CInv
<1>6. CASE SerialEnd
  <2>1. CType'
    BY <1>0, <1>1, <1>6 DEF CInv, CType, SerialEnd
  <2>2. EpochInv'
    BY Zenon, <1>0, <1>1, <1>6 DEF CInv, EpochInv, SerialEnd, Pending, Done
  <2> QED BY Zenon, <1>2, <1>4, <2>1, <2>2 DEF CInv
<1>7. ASSUME NEW m \in serialTodo, SerialBody(m) PROVE CInv'
  <2>0. m \in MTasks
    BY Zenon DEF CInv, CType
  <2>1. CType'
    BY <1>0, <1>1, <1>7, <2>0 DEF CInv, CType, SerialBody
  <2>2. EpochInv'
    BY Zenon, <1>0, <1>1, <1>7, <2>0 DEF CInv, CType, EpochInv, SerialBody, Pending, Done
  <2> QED BY Zenon, <1>2, <1>4, <2>1, <2>2 DEF CInv
<1> QED BY Zenon, <1>5, <1>6, <1>7

\* At the join every lane has ended, so every body has run and has signalled.
LEMMA AllDoneAtJoin ==
  ASSUME CInv, StepJoin
  PROVE  /\ \A w \in Lanes : lane[w] = "done" /\ signals[w] = {}
         /\ \A m \in MTasks : Done(m)
         /\ \A m \in MTasks : Signalled(m) = Callers(m)
<1>1. main = "lanes" /\ busy = {} /\ lane[0] = "done" /\ Fixed /\ Parallel
  BY Zenon DEF StepJoin, FJ!Join, CInv, ModeInv
<1>2. \A w \in Lanes : lane[w] = "done" /\ signals[w] = {}
  BY Zenon, <1>1, LaneSplit DEF CInv, PoolInv, SignalInv
<1>3. ASSUME NEW m \in MTasks PROVE Done(m)
  <2>1. plan.owner[m] \in Lanes /\ m \in Own(plan.owner[m])
    BY Zenon, <1>1, PlanFacts DEF Own
  <2> QED BY Zenon, <1>2, <2>1 DEF CInv, LanesInv, LaneInv
<1>4. \A q, m : ~Owed(q, m)
  BY Zenon, <1>2 DEF Owed
<1>5. ASSUME NEW m PROVE Signalled(m) = Callers(m)
  BY Zenon, <1>3, <1>4 DEF Signalled, Callers
<1> QED BY Zenon, <1>2, <1>3, <1>5

LEMMA StepJoinKeeps == ASSUME CInv, StepJoin PROVE CInv'
<1>0. /\ main = "lanes" /\ main' = "idle" /\ cycles' = cycles + 1 /\ busy' = {} /\ phase' = "idle"
      /\ lane' = [w \in Lanes |-> "off"]
      /\ UNCHANGED <<plan, poolEnabled, depsDone, even, todo, cur, signals, serialTodo, epoch>>
  BY Zenon DEF StepJoin, FJ!Join
<1>1. MTasks' = MTasks /\ (\A u : Own(u)' = Own(u)) /\ (Parallel' <=> Parallel) /\ Parallel /\ Fixed
  BY Zenon, <1>0 DEF MTasks, Own, Parallel, CInv, ModeInv
<1>2. Fixed' /\ ModeInv' /\ PoolInv' /\ OrderInv'
  BY Zenon, <1>0, <1>1 DEF CInv, Fixed, ModeInv, PoolInv, OrderInv
<1>3. CType'
  BY <1>0, <1>1 DEF CInv, CType, LaneStates
<1>4. \A m \in MTasks : epoch'[m] = cycles' /\ ~Done(m)'
  <2>1. \A m \in MTasks : epoch[m] = cycles + 1 /\ cycles \in Nat
    BY Zenon, AllDoneAtJoin DEF Done, CInv, CType
  <2> QED BY <1>0, <2>1 DEF Done
<1>5. EpochInv'
  BY Zenon, <1>0, <1>1, <1>4 DEF EpochInv, Pending
<1>6. SignalInv' /\ LanesInv'
  BY Zenon, <1>0, AllDoneAtJoin DEF SignalInv, LanesInv, LaneInv
<1>7. CountInv'
  <2> SUFFICES ASSUME NEW m \in MTasks PROVE depsDone'[m] = Count(m)'
    BY Zenon, <1>1 DEF CountInv
  <2>1. depsDone[m] = Count(m) /\ Signalled(m) = Callers(m) /\ depsDone' = depsDone
    BY Zenon, <1>0, <1>1, AllDoneAtJoin DEF CInv, CountInv
  <2>2. Callers(m)' = Callers(m) /\ DepCount(m)' = DepCount(m)
    BY Zenon, <1>0, <1>1 DEF Callers, DepCount
  <2>3. Signalled(m)' = {}
    BY Zenon, <1>1, <1>4, <2>2 DEF Signalled, Callers
  <2>4. Even(cycles)' <=> ~Even(cycles)
    BY <1>0 DEF Even, CInv, CType
  <2>5. Cardinality(Signalled(m)') = 0
    BY Zenon, <2>3, FS_EmptySet
  <2>6. Cardinality(Signalled(m)) = DepCount(m) /\ DepCount(m) \in Nat
    BY Zenon, <1>1, <2>1, CallersFinite
  <2>7. Count(m) = IF Even(cycles) THEN DepCount(m) ELSE 0
    BY <2>6 DEF Count
  <2>8. Count(m)' = IF Even(cycles) THEN DepCount(m) - 0 ELSE 0
    BY Zenon, <2>2, <2>4, <2>5 DEF Count
  <2> QED BY <2>1, <2>6, <2>7, <2>8
<1> QED BY Zenon, <1>2, <1>3, <1>5, <1>6, <1>7 DEF CInv

-----------------------------------------------------------------------------
(* The invariant and what follows from it *)

LEMMA StutterKeeps == ASSUME CInv, UNCHANGED vars PROVE CInv'
<1>0. UNCHANGED <<plan, poolEnabled, main, phase, busy, cycles, depsDone, lane, even, todo, cur,
                  signals, serialTodo, epoch>>
  BY Zenon DEF vars, poolVars, laneVars
<1>1. /\ MTasks' = MTasks /\ (\A u : Own(u)' = Own(u)) /\ (Parallel' <=> Parallel)
      /\ (Even(cycles)' <=> Even(cycles))
      /\ \A m : (Done(m)' <=> Done(m)) /\ (Pending(m)' <=> Pending(m))
  BY Zenon, <1>0 DEF MTasks, Own, Parallel, Even, Done, Pending
<1>2. Fixed' /\ CType' /\ ModeInv' /\ PoolInv' /\ EpochInv' /\ OrderInv'
  BY Zenon, <1>0, <1>1 DEF CInv, Fixed, CType, ModeInv, PoolInv, EpochInv, OrderInv
<1>3. SignalInv'
  BY Zenon, <1>0, <1>1 DEF CInv, SignalInv, Done
<1>4. LanesInv'
  <2> SUFFICES ASSUME NEW u \in Lanes PROVE LaneInv(u)'
    BY Zenon DEF LanesInv
  <2>1. LaneInv(u) /\ todo[u] \subseteq MTasks
    BY Zenon DEF CInv, LanesInv, CType
  <2> QED BY Zenon, <1>0, <1>1, <2>1, LaneFrame
<1>5. CountInv'
  <2>1. \A m : Callers(m)' = Callers(m) /\ DepCount(m)' = DepCount(m)
    BY Zenon, <1>0, <1>1 DEF Callers, DepCount
  <2>2. \A q, m : Owed(q, m)' <=> Owed(q, m)
    BY Zenon, <1>0 DEF Owed
  <2>3. ASSUME NEW m PROVE Signalled(m)' = Signalled(m)
    BY Zenon, <1>1, <2>1, <2>2 DEF Signalled
  <2>4. \A m : Count(m)' = Count(m)
    BY Zenon, <1>1, <2>1, <2>3 DEF Count
  <2> QED BY Zenon, <1>0, <1>1, <2>4 DEF CInv, CountInv
<1> QED BY Zenon, <1>2, <1>3, <1>4, <1>5 DEF CInv

LEMMA InitCInv == ASSUME Init PROVE CInv
<1>0. /\ plan \in Plans /\ poolEnabled \in BOOLEAN /\ main = "idle" /\ phase = "idle" /\ busy = {}
      /\ cycles = 0 /\ depsDone = [m \in MTasks |-> 0] /\ lane = [w \in Lanes |-> "off"]
      /\ even = [w \in Lanes |-> TRUE] /\ todo = [w \in Lanes |-> {}] /\ cur = [w \in Lanes |-> 0]
      /\ signals = [w \in Lanes |-> {}] /\ serialTodo = {} /\ epoch = [m \in MTasks |-> 0]
  BY Zenon DEF Init, FJ!FJInit
<1>1. Fixed
  BY Zenon, <1>0 DEF Fixed
<1>2. CType
  BY <1>0 DEF CType, LaneStates
<1>3. \A m \in MTasks : Pending(m) /\ ~Done(m)
  BY <1>0 DEF Pending, Done
<1>4. ModeInv /\ PoolInv /\ EpochInv /\ OrderInv
  BY Zenon, <1>0, <1>3 DEF ModeInv, PoolInv, EpochInv, OrderInv
<1>5. SignalInv /\ LanesInv
  BY Zenon, <1>0 DEF SignalInv, LanesInv, LaneInv
<1>6. CountInv
  <2> SUFFICES ASSUME NEW m \in MTasks PROVE depsDone[m] = Count(m)
    BY Zenon DEF CountInv
  <2>1. Signalled(m) = {}
    BY Zenon, <1>3 DEF Signalled, Callers
  <2>2. Cardinality(Signalled(m)) = 0
    BY Zenon, <2>1, FS_EmptySet
  <2>3. Even(cycles) /\ depsDone[m] = 0
    BY <1>0 DEF Even
  <2> QED BY Zenon, <2>2, <2>3 DEF Count
<1> QED BY Zenon, <1>1, <1>2, <1>4, <1>5, <1>6 DEF CInv

LEMMA NextCInv == ASSUME CInv, [Next]_vars PROVE CInv'
<1>1. CASE MainStep
  BY Zenon, <1>1, StepParallelKeeps, SerialKeeps, StepJoinKeeps DEF MainStep
<1>2. ASSUME NEW w \in Lanes, LaneStep(w) PROVE CInv'
  BY Zenon, <1>2, LaneBeginKeeps, LaneNextKeeps, BodyStartKeeps, BodyEndKeeps, SignalKeeps, LaneEndKeeps
     DEF LaneStep
<1>3. CASE Halt \/ (\E w \in Lanes : Spin(w)) \/ UNCHANGED vars
  BY Zenon, <1>3, StutterKeeps DEF Halt, Spin
<1> QED BY Zenon, <1>1, <1>2, <1>3 DEF Next

LEMMA CountersInvariance == Spec => []CInv
<1>1. Init => CInv
  BY Zenon, InitCInv
<1>2. CInv /\ [Next]_vars => CInv'
  BY Zenon, NextCInv
<1> QED BY <1>1, <1>2, PTL DEF Spec

\* Between cycles every counter is where the next cycle starts from, so stepDense
\* never resets them, for every sound plan and number of workers and cycles.
THEOREM CountersAlternateHolds == Spec => []CountersAlternate
<1>1. CInv => CountersAlternate
  <2> SUFFICES ASSUME CInv, main = "idle", Parallel, NEW m \in MTasks
               PROVE  depsDone[m] = IF Even(cycles) THEN 0 ELSE DepCount(m)
    BY Zenon DEF CountersAlternate
  <2>1. \A q \in MTasks : ~Done(q)
    <3>1. \A q \in MTasks : Pending(q)
      BY Zenon DEF CInv, EpochInv
    <3> QED BY <3>1 DEF CInv, CType, Pending, Done
  <2>2. Signalled(m) = {}
    BY Zenon, <2>1 DEF Signalled, Callers
  <2>3. Cardinality(Signalled(m)) = 0 /\ DepCount(m) \in Nat
    BY Zenon, <2>2, FS_EmptySet, CallersFinite DEF CInv
  <2>4. depsDone[m] = Count(m)
    BY Zenon DEF CInv, CountInv
  <2> QED BY <2>3, <2>4 DEF Count
<1> QED BY <1>1, CountersInvariance, PTL

\* No fetch_sub takes a counter below 0 and no fetch_add past its dependency count.
THEOREM CountersInRangeHolds == Spec => []CountersInRange
<1>1. CInv => CountersInRange
  <2> SUFFICES ASSUME CInv, Parallel, NEW m \in MTasks PROVE depsDone[m] \in 0..DepCount(m)
    BY Zenon DEF CountersInRange
  <2>1. depsDone[m] = Count(m) /\ Fixed
    BY Zenon DEF CInv, CountInv
  <2> QED BY <2>1, CallersFinite DEF Count
<1> QED BY <1>1, CountersInvariance, PTL

LEMMA DCIds == DC!MTaskIds = MTasks
BY Zenon DEF DC!MTaskIds, MTasks, MTasksOf

LEMMA BodyEndRefines == ASSUME CInv, NEW w \in Lanes, BodyEnd(w) PROVE DC!DCNext
<1>1. LaneInv(w) /\ lane[w] = "body" /\ Fixed
  BY Zenon DEF BodyEnd, CInv, LanesInv
<1>2. cur[w] \in MTasks /\ epoch[cur[w]] = cycles
  BY Zenon, <1>1 DEF LaneInv, Own, Pending
<1>3. ASSUME NEW p \in MTasks, cur[w] \in plan.deps[p] PROVE epoch[p] = cycles + 1
  <2>1. <<p, cur[w]>> \in plan.order
    BY Zenon, <1>1, <1>3, PlanFacts
  <2> QED BY Zenon, <1>1, <2>1 DEF LaneInv, Done
<1>4. DC!RunMTask(cur[w])
  BY Zenon, <1>2, <1>3, DCIds DEF DC!RunMTask, DC!Preds, BodyEnd
<1> QED BY Zenon, <1>2, <1>4, DCIds DEF DC!DCNext

LEMMA SerialBodyRefines ==
  ASSUME CInv, NEW m \in serialTodo, SerialBody(m)
  PROVE  DC!DCNext
<1>1. m \in MTasks /\ epoch[m] = cycles /\ main = "serial" /\ Fixed
  BY Zenon DEF CInv, CType, EpochInv, SerialBody, Pending
<1>2. ASSUME NEW p \in MTasks, m \in plan.deps[p] PROVE epoch[p] = cycles + 1
  <2>1. p < m /\ p \in Nat /\ m \in Nat
    BY Zenon, <1>1, <1>2, PlanFacts
  <2>2. p \notin serialTodo
    BY <2>1 DEF SerialBody, Least
  <2> QED BY Zenon, <1>1, <2>2 DEF CInv, EpochInv, Done
<1>3. DC!RunMTask(m)
  BY Zenon, <1>1, <1>2, DCIds DEF DC!RunMTask, DC!Preds, SerialBody
<1> QED BY Zenon, <1>1, <1>3, DCIds DEF DC!DCNext

\* Every step runs one body in dependence order, ends a complete cycle, or is
\* invisible.
LEMMA CountersNextRefines ==
  ASSUME CInv, [Next]_vars
  PROVE  [DC!DCNext]_(DC!dcVars)
<1>1. CASE StepJoin
  BY Zenon, <1>1, DCIds, AllDoneAtJoin DEF DC!DCNext, DC!EndCycle, StepJoin, Done
<1>2. CASE SerialEnd
  BY Zenon, <1>2, DCIds DEF DC!DCNext, DC!EndCycle, SerialEnd, CInv, EpochInv, Done
<1>3. CASE StepParallel \/ StepSerial
  BY Zenon, <1>3 DEF StepParallel, StepSerial, DC!dcVars
<1>4. CASE MainStep
  BY Zenon, <1>1, <1>2, <1>3, <1>4, SerialBodyRefines DEF MainStep
<1>5. ASSUME NEW w \in Lanes, LaneStep(w) PROVE [DC!DCNext]_(DC!dcVars)
  <2>1. CASE BodyEnd(w)
    BY Zenon, <2>1, BodyEndRefines
  <2>2. CASE ~BodyEnd(w)
    BY Zenon, <1>5, <2>2 DEF LaneStep, LaneBegin, LaneNext, BodyStart, Signal, LaneEnd, DC!dcVars
  <2> QED BY Zenon, <2>1, <2>2
<1>6. CASE Halt \/ (\E w \in Lanes : Spin(w)) \/ UNCHANGED vars
  BY Zenon, <1>6 DEF Halt, Spin, vars, DC!dcVars
<1> QED BY Zenon, <1>4, <1>5, <1>6 DEF Next

\* stepDense with counters implements DenseCycle: each body once per cycle and in
\* dependence order, in parallel or, where the worker counts differ, serially.
THEOREM CountersImplementDenseCycle == Spec => ImplementsDenseCycle
<1>1. Init => DC!DCInit
  BY Zenon DEF Init, DC!DCInit, DC!MTaskIds, MTasks, MTasksOf
<1>2. CInv /\ [Next]_vars => [DC!DCNext]_(DC!dcVars)
  BY Zenon, CountersNextRefines
<1> QED BY <1>1, <1>2, CountersInvariance, PTL DEF Spec, ImplementsDenseCycle, DC!DCSpec
=============================================================================
