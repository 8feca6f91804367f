------------------------ MODULE DenseExecutorProofs ------------------------
(***************************************************************************)
(* For every set of sound plans, every worker count and any number of      *)
(* cycles, stepDense runs each body once per cycle and in dependence       *)
(* order.  The first part is about any executor with this main thread,     *)
(* whatever order a lane takes its MTasks in (Core): if no body starts     *)
(* before everything it depends on is done, and no lane ends before its    *)
(* MTasks are, then the main thread, the end of a body and the stores of   *)
(* its tokens keep the tokens in phase and the bodies in order.  The       *)
(* second part shows that stepDenseThreadWorker, which takes its MTasks in *)
(* id order and waits for the tokens of each, is such an executor (IInv).  *)
(* The third part shows it of stepDenseLookaheadTail, which runs MTasks    *)
(* out of its program order inside any window (LookInv).                   *)
(***************************************************************************)
EXTENDS DenseLookahead, TLAPS

Done(m) == epoch[m] = cycles + 1
Pending(m) == epoch[m] = cycles

\* Which program and environment a behaviour is about never changes.
Fixed == plan \in Plans /\ env \in Environments

\* Control points of a lane, with those of the lookahead executor.
LaneKinds == LaneStates \cup {"next", "head", "scan", "candidate"}

CoreType ==
  /\ main \in {"idle", "lanes", "serial"}
  /\ phase \in {"idle", "open"}
  /\ busy \in SUBSET Background
  /\ cycles \in Nat
  /\ primed \in BOOLEAN
  /\ ready \in [plan.slots -> {0, 1}]
  /\ lane \in [Owners -> LaneKinds]
  /\ target \in [Owners -> {0, 1}]
  /\ todo \in [Owners -> SUBSET MTasks]
  /\ cur \in [Owners -> Nat]
  /\ waiting \in [Owners -> SUBSET plan.slots]
  /\ storing \in [Owners -> SUBSET plan.slots]
  /\ serialTodo \in SUBSET MTasks
  /\ epoch \in [MTasks -> Nat]

\* Between two calls everything has run equally often and the tokens are out of
\* phase with the cycle to come.
IdleInv ==
  main = "idle" =>
    /\ phase = "idle"
    /\ \A m \in MTasks : Pending(m)
    /\ primed => \A s \in plan.slots : ready[s] # Target(cycles)

SerialInv ==
  main = "serial" =>
    /\ phase = "idle"
    /\ ~primed
    /\ \A m \in MTasks : IF m \in serialTodo THEN Pending(m) ELSE Done(m)

\* Lanes exist exactly during a parallel cycle, which has phased tokens.
ModeInv ==
  /\ main # "lanes" => \A w \in Owners : lane[w] = "off"
  /\ main = "lanes" => primed /\ \A w \in Owners : lane[w] # "off"

\* The pool knows who is still out.
PoolInv ==
  /\ main # "lanes" => busy = {}
  /\ main = "lanes" => phase = "open" /\ \A w \in Background : w \in busy <=> lane[w] # "done"

StoringInv == \A w \in Owners : lane[w] # "store" => storing[w] = {}

\* What every lane owes the others: a body that runs is due and has everything
\* before it done, a token that is about to be stored is due, and a lane that
\* has ended has run its MTasks.
LaneCore(w) ==
  /\ lane[w] = "posted" => \A m \in OwnMTasks(w) : Pending(m)
  /\ lane[w] \notin {"off", "posted"} => target[w] = Target(cycles)
  /\ lane[w] = "body" =>
       /\ cur[w] \in OwnMTasks(w)
       /\ Pending(cur[w])
       /\ \A p \in MTasks : <<p, cur[w]>> \in plan.order => Done(p)
  /\ lane[w] = "store" =>
       \A s \in storing[w] : plan.owner[plan.writer[s]] = w /\ Done(plan.writer[s])
  /\ lane[w] = "done" => \A m \in OwnMTasks(w) : Done(m)

LanesCore == main = "lanes" => \A w \in Owners : LaneCore(w)

\* A token has this cycle's value exactly when its writer is past it.
TokenInv ==
  main = "lanes" =>
    \A s \in plan.slots :
      ready[s] = Target(cycles) <=>
        Done(plan.writer[s]) /\ s \notin storing[plan.owner[plan.writer[s]]]

\* The finished MTasks are closed under dependence.
OrderInv ==
  main = "lanes" =>
    \A p, m \in MTasks : <<p, m>> \in plan.order /\ Done(m) => Done(p)

\* In a parallel cycle a body has run in this cycle or not yet.
EpochInv == main = "lanes" => \A m \in MTasks : Pending(m) \/ Done(m)

\* The branch of stepDense is fixed for the process, so a process that runs
\* cycles in parallel primes its tokens once, in the first.
PhaseInv ==
  Parallel => /\ main # "serial"
              /\ ~primed => cycles = 0 /\ \A s \in plan.slots : ready[s] = 0

Core ==
  /\ Fixed
  /\ CoreType
  /\ IdleInv
  /\ SerialInv
  /\ ModeInv
  /\ PoolInv
  /\ StoringInv
  /\ LanesCore
  /\ TokenInv
  /\ OrderInv
  /\ EpochInv
  /\ PhaseInv

-----------------------------------------------------------------------------
(* Facts the steps share *)

\* The two token values alternate.
LEMMA TargetFlip ==
  ASSUME NEW n \in Nat
  PROVE  Target(n) \in {0, 1} /\ Target(n + 1) \in {0, 1} /\ Target(n + 1) # Target(n)
BY DEF Target, Even

\* Worker 0 is the main thread, the others are the pool's.
LEMMA OwnerSplit == Owners = {0} \cup Background /\ 0 \notin Background
BY ExecutorAssumption DEF Owners, Background

\* What a sound plan gives, with the plan of the behaviour named.
LEMMA PlanFacts ==
  ASSUME Fixed
  PROVE  /\ plan.deps \in [MTasks -> SUBSET MTasks]
         /\ MTasks \in SUBSET Nat
         /\ plan.owner \in [MTasks -> Owners]
         /\ plan.waits \in [MTasks -> SUBSET plan.slots]
         /\ plan.stores \in [MTasks -> SUBSET plan.slots]
         /\ plan.writer \in [plan.slots -> MTasks]
         /\ plan.slots \in SUBSET Nat
         /\ \A m \in MTasks : \A s \in plan.slots : s \in plan.stores[m] <=> plan.writer[s] = m
         /\ \A q \in MTasks : \A m \in plan.deps[q] : q < m /\ <<q, m>> \in plan.order
         /\ \A q, m \in MTasks : <<q, m>> \in plan.order =>
              Before(plan, q, m)
              \/ \E r \in MTasks : <<q, r>> \in plan.order /\ Before(plan, r, m)
BY ZenonT(30), ExecutorAssumption DEF Fixed, SoundPlan, MTasks

\* A slot belongs to its writer's worker.
LEMMA SlotFacts ==
  ASSUME Fixed, NEW s \in plan.slots
  PROVE  /\ plan.writer[s] \in MTasks /\ plan.owner[plan.writer[s]] \in Owners
         /\ \A m \in MTasks : s \in plan.stores[m] <=> plan.writer[s] = m
BY Zenon, PlanFacts

LEMMA LaneActive ==
  ASSUME Core, NEW w \in Owners, lane[w] # "off"
  PROVE  main = "lanes" /\ LaneCore(w) /\ Fixed /\ CoreType
BY Zenon DEF Core, ModeInv, LanesCore

\* A lane that does not move owes the others no more when bodies of other lanes
\* only end.
LEMMA CoreFrame ==
  ASSUME NEW v \in Owners, Fixed, LaneCore(v), UNCHANGED <<plan, cycles>>,
         lane'[v] = lane[v], target'[v] = target[v], cur'[v] = cur[v],
         storing'[v] \subseteq storing[v], storing[v] \subseteq plan.slots,
         \A m \in OwnMTasks(v) : epoch'[m] = epoch[m],
         \A m \in MTasks : Done(m) => Done(m)'
  PROVE  LaneCore(v)'
<1>1. OwnMTasks(v)' = OwnMTasks(v) /\ Target(cycles)' = Target(cycles) /\ MTasks' = MTasks
  BY Zenon DEF OwnMTasks, MTasks, Target, Even
<1>2. \A m \in OwnMTasks(v) : (Done(m)' <=> Done(m)) /\ (Pending(m)' <=> Pending(m))
  BY Zenon DEF Done, Pending
<1>3. /\ lane[v] = "posted" => \A m \in OwnMTasks(v) : Pending(m)'
      /\ lane[v] = "done" => \A m \in OwnMTasks(v) : Done(m)'
  BY Zenon, <1>2 DEF LaneCore
<1>4. lane[v] = "body" =>
        /\ cur[v] \in OwnMTasks(v)
        /\ Pending(cur[v])'
        /\ \A p \in MTasks : <<p, cur[v]>> \in plan.order => Done(p)'
  BY Zenon, <1>2 DEF LaneCore
<1>5. lane[v] = "store" =>
        \A s \in storing'[v] : plan.owner[plan.writer[s]] = v /\ Done(plan.writer[s])'
  BY Zenon, SlotFacts DEF LaneCore
<1>6. lane[v] \notin {"off", "posted"} => target[v] = Target(cycles)
  BY Zenon DEF LaneCore
<1>7. Pending(cur[v])' <=> (epoch')[(cur')[v]] = cycles'
  BY Zenon DEF Pending
<1> QED BY Zenon, <1>1, <1>3, <1>4, <1>5, <1>6, <1>7 DEF LaneCore

-----------------------------------------------------------------------------
(* Steps of a lane *)

\* A step of lane w that runs no body, stores no token and does not end the lane.
Quiet(w) ==
  /\ UNCHANGED <<plan, env, main, phase, busy, cycles, primed, ready, storing, serialTodo, epoch>>
  /\ lane[w] # "off" /\ lane[w] # "done" /\ storing[w] = {}
  /\ lane'[w] \in LaneKinds \ {"off", "posted", "done"}
  /\ \A v \in Owners \ {w} :
       /\ lane'[v] = lane[v] /\ target'[v] = target[v] /\ todo'[v] = todo[v] /\ cur'[v] = cur[v]
       /\ waiting'[v] = waiting[v]

\* Such a step is right when what the lane owes the others is.
LEMMA QuietKeeps ==
  ASSUME Core, NEW w \in Owners, Quiet(w), CoreType',
         target'[w] = Target(cycles),
         lane'[w] = "body" =>
           /\ cur'[w] \in OwnMTasks(w)
           /\ Pending(cur'[w])
           /\ \A p \in MTasks : <<p, cur'[w]>> \in plan.order => Done(p)
  PROVE  Core'
<1>0. /\ main = "lanes" /\ Fixed
      /\ UNCHANGED <<plan, env, main, phase, busy, cycles, primed, ready, storing, serialTodo, epoch>>
  BY Zenon, LaneActive DEF Quiet
<1>1. Fixed' /\ IdleInv' /\ SerialInv'
  BY Zenon, <1>0 DEF Core, Fixed, IdleInv, SerialInv
<1>2. ModeInv'
  BY <1>0 DEF Core, ModeInv, Quiet
<1>3. PoolInv'
  BY Zenon, <1>0, OwnerSplit DEF Core, PoolInv, Quiet
<1>4. StoringInv'
  BY Zenon, <1>0 DEF Core, StoringInv, Quiet
<1>5. LanesCore'
  <2>1. ASSUME NEW v \in Owners, v # w PROVE LaneCore(v)'
    <3>1. LaneCore(v) /\ storing[v] \subseteq plan.slots
      BY Zenon, <1>0 DEF Core, LanesCore, CoreType
    <3>2. \A m \in MTasks : Done(m) => Done(m)'
      BY Zenon, <1>0 DEF Done
    <3> QED BY Zenon, <1>0, <2>1, <3>1, <3>2, CoreFrame DEF Quiet
  <2>2. LaneCore(w)'
    <3>1. Target(cycles)' = Target(cycles) /\ OwnMTasks(w)' = OwnMTasks(w) /\ MTasks' = MTasks
      BY Zenon, <1>0 DEF Target, Even, OwnMTasks, MTasks
    <3>2. /\ Pending(cur[w])' <=> Pending(cur'[w])
          /\ \A x : Done(x)' <=> Done(x)
      BY Zenon, <1>0 DEF Done, Pending
    <3> QED BY Zenon, <1>0, <3>1, <3>2 DEF LaneCore, Quiet
  <2> QED BY Zenon, <2>1, <2>2 DEF LanesCore
<1>6. TokenInv' /\ OrderInv' /\ EpochInv'
  BY Zenon, <1>0 DEF Core, TokenInv, OrderInv, EpochInv, MTasks, Done, Pending, Target, Even
<1>7. PhaseInv'
  BY Zenon, <1>0 DEF Core, PhaseInv, Parallel, PoolThreads
<1> QED BY Zenon, <1>1, <1>2, <1>3, <1>4, <1>5, <1>6, <1>7 DEF Core

\* The lane returns: it must have run everything it owns.
LEMMA EndKeeps ==
  ASSUME Core, NEW w \in Owners, lane[w] \notin {"off", "posted", "done"}, storing[w] = {},
         \A m \in OwnMTasks(w) : Done(m),
         IF w = 0 THEN UNCHANGED poolVars ELSE FJ!Ack(w),
         lane' = [lane EXCEPT ![w] = "done"],
         UNCHANGED <<plan, env, main, cycles, primed, ready, target, todo, cur, waiting, storing,
                     serialTodo, epoch>>
  PROVE  Core'
<1>0. main = "lanes" /\ LaneCore(w) /\ Fixed
  BY Zenon, LaneActive
<1>a. \A v \in Owners : lane'[v] = IF v = w THEN "done" ELSE lane[v]
  BY Zenon DEF Core, CoreType
<1>b. phase' = phase /\ busy' \in SUBSET Background
      /\ \A v \in Background : v \in busy' <=> v \in busy /\ v # w
  BY Zenon, OwnerSplit DEF Core, CoreType, FJ!Ack, poolVars
<1>1. Fixed' /\ IdleInv' /\ SerialInv'
  BY Zenon, <1>0 DEF Core, Fixed, IdleInv, SerialInv
<1>2. CoreType'
  BY Zenon, <1>b DEF Core, CoreType, MTasks, LaneKinds, LaneStates
<1>3. ModeInv' /\ StoringInv'
  BY <1>0, <1>a DEF Core, ModeInv, StoringInv
<1>4. PoolInv'
  BY Zenon, <1>0, <1>a, <1>b, OwnerSplit DEF Core, PoolInv
<1>5. \A x : (Done(x)' <=> Done(x)) /\ (Pending(x)' <=> Pending(x))
  BY Zenon DEF Done, Pending
<1>6. LanesCore'
  <2>1. ASSUME NEW v \in Owners, v # w PROVE LaneCore(v)'
    <3>1. LaneCore(v) /\ storing[v] \subseteq plan.slots
      BY Zenon, <1>0 DEF Core, LanesCore, CoreType
    <3> QED BY Zenon, <1>0, <1>a, <1>5, <2>1, <3>1, CoreFrame
  <2>2. LaneCore(w)'
    <3>1. Target(cycles)' = Target(cycles) /\ OwnMTasks(w)' = OwnMTasks(w)
      BY Zenon DEF Target, Even, OwnMTasks, MTasks
    <3>2. target[w] = Target(cycles)
      BY Zenon, <1>0 DEF LaneCore
    <3> QED BY <1>a, <1>5, <3>1, <3>2 DEF LaneCore
  <2> QED BY Zenon, <2>1, <2>2 DEF LanesCore
<1>7. TokenInv' /\ OrderInv' /\ EpochInv'
  BY Zenon, <1>5 DEF Core, TokenInv, OrderInv, EpochInv, MTasks, Target, Even
<1>8. PhaseInv'
  BY Zenon DEF Core, PhaseInv, Parallel, PoolThreads
<1> QED BY Zenon, <1>1, <1>2, <1>3, <1>4, <1>6, <1>7, <1>8 DEF Core

\* What the end of a body changes.
LEMMA BodyEndEffect ==
  ASSUME Core, NEW w \in Owners, BodyEnd(w)
  PROVE  /\ main = "lanes" /\ LaneCore(w) /\ lane[w] = "body" /\ Fixed
         /\ cur[w] \in MTasks /\ plan.owner[cur[w]] = w /\ Pending(cur[w]) /\ storing[w] = {}
         /\ \A m \in MTasks : epoch'[m] = IF m = cur[w] THEN cycles + 1 ELSE epoch[m]
         /\ \A v \in Owners : /\ lane'[v] = IF v = w THEN "store" ELSE lane[v]
                              /\ storing'[v] = IF v = w THEN plan.stores[cur[w]] ELSE storing[v]
         /\ UNCHANGED <<plan, env, main, phase, busy, cycles, primed, ready, target, todo, cur,
                        waiting, serialTodo>>
<1>0. /\ main = "lanes" /\ LaneCore(w) /\ lane[w] = "body" /\ Fixed
      /\ cur[w] \in MTasks /\ plan.owner[cur[w]] = w /\ Pending(cur[w])
  BY Zenon, LaneActive DEF BodyEnd, LaneCore, OwnMTasks
<1>1. storing[w] = {}
  BY Zenon, <1>0 DEF Core, StoringInv
<1>2. \A m \in MTasks : epoch'[m] = IF m = cur[w] THEN cycles + 1 ELSE epoch[m]
  <2>1. epoch \in [MTasks -> Nat] /\ epoch' = [epoch EXCEPT ![cur[w]] = @ + 1] /\ epoch[cur[w]] = cycles
    BY Zenon, <1>0 DEF Core, CoreType, BodyEnd, Pending
  <2> QED BY Zenon, <1>0, <2>1
<1>3. \A v \in Owners : lane'[v] = IF v = w THEN "store" ELSE lane[v]
  BY Zenon DEF Core, CoreType, BodyEnd
<1>4. \A v \in Owners : storing'[v] = IF v = w THEN plan.stores[cur[w]] ELSE storing[v]
  BY Zenon DEF Core, CoreType, BodyEnd
<1>5. UNCHANGED <<plan, env, main, phase, busy, cycles, primed, ready, target, todo, cur, waiting,
                  serialTodo>>
  BY Zenon DEF BodyEnd, poolVars
<1> QED BY Zenon, <1>0, <1>1, <1>2, <1>3, <1>4, <1>5

\* The body ends: the MTask becomes done while its tokens are still to store.
LEMMA BodyEndKeepsCore == ASSUME Core, NEW w \in Owners, BodyEnd(w) PROVE Core'
<1>0. /\ main = "lanes" /\ LaneCore(w) /\ lane[w] = "body" /\ Fixed
      /\ cur[w] \in MTasks /\ plan.owner[cur[w]] = w /\ Pending(cur[w]) /\ storing[w] = {}
  BY Zenon, BodyEndEffect
<1>a. \A m \in MTasks : epoch'[m] = IF m = cur[w] THEN cycles + 1 ELSE epoch[m]
  BY Zenon, BodyEndEffect
<1>b. \A v \in Owners : /\ lane'[v] = IF v = w THEN "store" ELSE lane[v]
                        /\ storing'[v] = IF v = w THEN plan.stores[cur[w]] ELSE storing[v]
  BY Zenon, BodyEndEffect
<1>c. UNCHANGED <<plan, env, main, phase, busy, cycles, primed, ready, target, todo, cur, waiting,
                  serialTodo>>
  BY Zenon, BodyEndEffect
<1>d. /\ \A m \in MTasks : Done(m)' <=> Done(m) \/ m = cur[w]
      /\ ~Done(cur[w])
  <2>1. cycles \in Nat
    BY Zenon DEF Core, CoreType
  <2> QED BY <1>0, <1>a, <1>c, <2>1 DEF Done, Pending
<1>1. Fixed' /\ IdleInv' /\ SerialInv'
  BY Zenon, <1>0, <1>c DEF Core, Fixed, IdleInv, SerialInv
<1>2. CoreType'
  <2>1. epoch' \in [MTasks -> Nat]
    BY <1>0 DEF BodyEnd, Core, CoreType
  <2>2. plan.stores[cur[w]] \in SUBSET plan.slots
    BY <1>0, PlanFacts
  <2>3. storing' \in [Owners -> SUBSET plan.slots]
    BY Zenon, <2>2 DEF BodyEnd, Core, CoreType
  <2>4. lane' \in [Owners -> LaneKinds]
    BY Zenon DEF BodyEnd, Core, CoreType, LaneKinds, LaneStates
  <2> QED BY Zenon, <1>c, <2>1, <2>3, <2>4 DEF Core, CoreType, MTasks
<1>3. ModeInv' /\ StoringInv'
  BY Zenon, <1>0, <1>b, <1>c DEF Core, ModeInv, StoringInv
<1>4. PoolInv'
  BY Zenon, <1>0, <1>b, <1>c, OwnerSplit DEF Core, PoolInv
<1>5. LanesCore'
  <2>1. ASSUME NEW v \in Owners, v # w PROVE LaneCore(v)'
    <3>1. LaneCore(v) /\ storing[v] \subseteq plan.slots
      BY Zenon, <1>0 DEF Core, LanesCore, CoreType
    <3>2. \A m \in OwnMTasks(v) : epoch'[m] = epoch[m]
      BY Zenon, <1>0, <1>a, <2>1 DEF OwnMTasks
    <3> QED BY Zenon, <1>0, <1>b, <1>c, <1>d, <2>1, <3>1, <3>2, CoreFrame
  <2>2. LaneCore(w)'
    <3>1. target[w] = Target(cycles) /\ Target(cycles)' = Target(cycles)
      BY Zenon, <1>0, <1>c DEF LaneCore, Target, Even
    <3>2. \A s \in storing'[w] : plan.writer[s] = cur[w]
      BY <1>0, <1>b, PlanFacts
    <3>3. \A s \in storing'[w] : plan.owner[plan.writer[s]] = w /\ Done(plan.writer[s])'
      BY Zenon, <1>0, <1>c, <1>d, <3>2
    <3> QED BY Zenon, <1>b, <1>c, <3>1, <3>3 DEF LaneCore
  <2> QED BY Zenon, <2>1, <2>2 DEF LanesCore
<1>6. TokenInv'
  <2> SUFFICES ASSUME NEW s \in plan.slots
               PROVE  ready[s] = Target(cycles) <=>
                        Done(plan.writer[s])' /\ s \notin storing'[plan.owner[plan.writer[s]]]
    BY Zenon, <1>c DEF TokenInv, Target, Even
  <2>1. /\ plan.writer[s] \in MTasks /\ plan.owner[plan.writer[s]] \in Owners
        /\ s \in plan.stores[cur[w]] <=> plan.writer[s] = cur[w]
    BY Zenon, <1>0, SlotFacts
  <2>2. ready[s] = Target(cycles) <=>
          Done(plan.writer[s]) /\ s \notin storing[plan.owner[plan.writer[s]]]
    BY Zenon, <1>0 DEF Core, TokenInv
  <2>3. CASE plan.writer[s] = cur[w]
    BY Zenon, <1>0, <1>b, <1>d, <2>1, <2>2, <2>3
  <2>4. CASE plan.writer[s] # cur[w]
    <3>1. Done(plan.writer[s])' <=> Done(plan.writer[s])
      BY Zenon, <1>c, <1>d, <2>1, <2>4
    <3> QED BY Zenon, <1>0, <1>b, <2>1, <2>2, <2>4, <3>1
  <2> QED BY Zenon, <2>3, <2>4
<1>7. OrderInv'
  <2> SUFFICES ASSUME NEW p \in MTasks, NEW m \in MTasks, <<p, m>> \in plan.order, Done(m)'
               PROVE  Done(p)'
    BY Zenon, <1>c DEF OrderInv, MTasks
  <2>1. CASE m = cur[w]
    <3>1. Done(p)
      BY Zenon, <1>0, <2>1 DEF LaneCore
    <3> QED BY Zenon, <1>d, <3>1
  <2>2. CASE m # cur[w]
    <3>1. Done(m)
      BY Zenon, <1>d, <2>2
    <3>2. Done(p)
      BY Zenon, <1>0, <3>1 DEF Core, OrderInv
    <3> QED BY Zenon, <1>d, <3>2
  <2> QED BY Zenon, <2>1, <2>2
<1>8. EpochInv'
  BY Zenon, <1>0, <1>a, <1>c DEF Core, EpochInv, MTasks, Done, Pending
<1>9. PhaseInv'
  BY Zenon, <1>c DEF Core, PhaseInv, Parallel, PoolThreads
<1> QED BY Zenon, <1>1, <1>2, <1>3, <1>4, <1>5, <1>6, <1>7, <1>8, <1>9 DEF Core

\* What the store of one token changes.
LEMMA StoreEffect ==
  ASSUME Core, NEW w \in Owners, NEW s \in storing[w], StoreToken(w, s)
  PROVE  /\ main = "lanes" /\ LaneCore(w) /\ lane[w] = "store" /\ s \in plan.slots /\ Fixed
         /\ plan.owner[plan.writer[s]] = w /\ Done(plan.writer[s])
         /\ \A t \in plan.slots : ready'[t] = IF t = s THEN Target(cycles) ELSE ready[t]
         /\ \A v \in Owners : storing'[v] = IF v = w THEN storing[w] \ {s} ELSE storing[v]
         /\ UNCHANGED <<plan, env, main, phase, busy, cycles, primed, lane, target, todo, cur,
                        waiting, serialTodo, epoch>>
<1>0. /\ main = "lanes" /\ LaneCore(w) /\ lane[w] = "store" /\ s \in plan.slots /\ Fixed
      /\ target[w] = Target(cycles) /\ plan.owner[plan.writer[s]] = w /\ Done(plan.writer[s])
  BY Zenon, LaneActive DEF StoreToken, LaneCore, CoreType
<1>1. \A t \in plan.slots : ready'[t] = IF t = s THEN Target(cycles) ELSE ready[t]
  BY Zenon, <1>0 DEF StoreToken, Core, CoreType
<1>2. storing \in [Owners -> SUBSET plan.slots] /\ storing' = [storing EXCEPT ![w] = @ \ {s}]
  BY Zenon DEF Core, CoreType, StoreToken
<1>3. \A v \in Owners : storing'[v] = IF v = w THEN storing[w] \ {s} ELSE storing[v]
  BY Zenon, <1>2
<1>4. UNCHANGED <<plan, env, main, phase, busy, cycles, primed, lane, target, todo, cur, waiting,
                  serialTodo, epoch>>
  BY Zenon DEF StoreToken, poolVars
<1> QED BY Zenon, <1>0, <1>1, <1>3, <1>4

LEMMA StoreKeepsCore ==
  ASSUME Core, NEW w \in Owners, NEW s \in storing[w], StoreToken(w, s) PROVE Core'
<1>0. /\ main = "lanes" /\ LaneCore(w) /\ lane[w] = "store" /\ s \in plan.slots /\ Fixed
      /\ plan.owner[plan.writer[s]] = w /\ Done(plan.writer[s])
  BY Zenon, StoreEffect
<1>a. \A t \in plan.slots : ready'[t] = IF t = s THEN Target(cycles) ELSE ready[t]
  BY Zenon, <1>0 DEF StoreToken, LaneCore, Core, CoreType
<1>b. \A v \in Owners : storing'[v] = IF v = w THEN storing[w] \ {s} ELSE storing[v]
  BY StoreEffect
<1>c. UNCHANGED <<plan, env, main, phase, busy, cycles, primed, lane, target, todo, cur, waiting,
                  serialTodo, epoch>>
  BY Zenon, StoreEffect
<1>d. \A x : (Done(x)' <=> Done(x)) /\ (Pending(x)' <=> Pending(x))
  BY Zenon, <1>c DEF Done, Pending
<1>1. Fixed' /\ IdleInv' /\ SerialInv'
  BY Zenon, <1>0, <1>c DEF Core, Fixed, IdleInv, SerialInv
<1>2. CoreType'
  <2>1. target[w] \in {0, 1}
    BY Zenon DEF Core, CoreType
  <2>2. ready' \in [plan.slots -> {0, 1}]
    BY Zenon, <2>1 DEF Core, CoreType, StoreToken
  <2>3. storing' \in [Owners -> SUBSET plan.slots]
    BY Zenon DEF Core, CoreType, StoreToken
  <2> QED BY Zenon, <1>c, <2>2, <2>3 DEF Core, CoreType, MTasks
<1>3. ModeInv' /\ PoolInv' /\ StoringInv'
  BY Zenon, <1>0, <1>b, <1>c DEF Core, ModeInv, PoolInv, StoringInv
<1>4. LanesCore'
  <2> SUFFICES ASSUME NEW v \in Owners PROVE LaneCore(v)'
    BY Zenon DEF LanesCore
  <2>1. LaneCore(v) /\ storing[v] \subseteq plan.slots /\ storing'[v] \subseteq storing[v]
    BY Zenon, <1>0, <1>b DEF Core, LanesCore, CoreType
  <2> QED BY Zenon, <1>0, <1>c, <1>d, <2>1, CoreFrame
<1>5. TokenInv'
  <2> SUFFICES ASSUME NEW t \in plan.slots
               PROVE  ready'[t] = Target(cycles) <=>
                        Done(plan.writer[t]) /\ t \notin storing'[plan.owner[plan.writer[t]]]
    BY Zenon, <1>c, <1>d DEF TokenInv, Target, Even
  <2>1. plan.writer[t] \in MTasks /\ plan.owner[plan.writer[t]] \in Owners
    BY Zenon, <1>0, SlotFacts
  <2>2. ready[t] = Target(cycles) <=>
          Done(plan.writer[t]) /\ t \notin storing[plan.owner[plan.writer[t]]]
    BY Zenon, <1>0 DEF Core, TokenInv
  <2> QED BY Zenon, <1>0, <1>a, <1>b, <2>1, <2>2
<1>6. OrderInv' /\ EpochInv'
  BY Zenon, <1>c, <1>d DEF Core, OrderInv, EpochInv, MTasks
<1>7. PhaseInv'
  BY Zenon, <1>0, <1>c DEF Core, PhaseInv, ModeInv, Parallel, PoolThreads
<1> QED BY Zenon, <1>1, <1>2, <1>3, <1>4, <1>5, <1>6, <1>7 DEF Core

-----------------------------------------------------------------------------
(* Steps of the main thread *)

LEMMA StepParallelKeepsCore == ASSUME Core, StepParallel PROVE Core'
<1> USE ExecutorAssumption
<1>0. /\ main = "idle" /\ main' = "lanes" /\ primed' = TRUE
      /\ UNCHANGED <<plan, env, cycles, target, todo, cur, waiting, storing, serialTodo, epoch>>
      /\ \A w \in Owners : lane[w] = "off" /\ lane'[w] = "posted"
  BY Zenon DEF Core, ModeInv, StepParallel
<1>a. \A m \in MTasks : epoch[m] = cycles /\ cycles \in Nat
  BY Zenon, <1>0 DEF Core, IdleInv, CoreType, Pending
<1>1. Fixed' /\ SerialInv' /\ IdleInv'
  BY Zenon, <1>0 DEF Core, Fixed, SerialInv, IdleInv
<1>2. CoreType'
  BY Zenon DEF Core, Fixed, CoreType, StepParallel, FJ!Fork, MTasks, LaneKinds, LaneStates
<1>3. ModeInv' /\ StoringInv'
  BY Zenon, <1>0 DEF Core, ModeInv, StoringInv
<1>4. PoolInv'
  BY Zenon, <1>0, OwnerSplit DEF Core, PoolInv, StepParallel, FJ!Fork
<1>5. LanesCore'
  BY Zenon, <1>0, <1>a DEF LanesCore, LaneCore, OwnMTasks, MTasks, Pending
<1>6. TokenInv'
  <2> SUFFICES ASSUME NEW s \in plan.slots PROVE ready'[s] # Target(cycles) /\ ~Done(plan.writer[s])'
    BY Zenon, <1>0 DEF TokenInv, Target, Even
  <2>1. ready'[s] # Target(cycles)
    BY DEF Core, IdleInv, CoreType, StepParallel, Target, Even
  <2>2. plan.writer[s] \in MTasks
    BY Zenon, SlotFacts DEF Core
  <2> QED BY <1>0, <1>a, <2>1, <2>2 DEF Done
<1>7. OrderInv' /\ EpochInv'
  BY Zenon, <1>0, <1>a DEF OrderInv, EpochInv, MTasks, Done, Pending
<1>8. PhaseInv'
  BY Zenon, <1>0 DEF PhaseInv
<1> QED BY Zenon, <1>1, <1>2, <1>3, <1>4, <1>5, <1>6, <1>7, <1>8 DEF Core

\* The serial steps leave the lanes alone.
LEMMA SerialKeepsCore ==
  ASSUME Core, StepSerial \/ SerialEnd \/ \E m \in serialTodo : SerialBody(m)
  PROVE  Core'
<1>0. /\ main # "lanes" /\ main' # "lanes"
      /\ UNCHANGED <<plan, env, phase, busy, ready, lane, target, todo, cur, waiting, storing>>
  BY Zenon DEF StepSerial, SerialEnd, SerialBody, poolVars, laneVars
<1>1. Fixed' /\ ModeInv' /\ PoolInv' /\ StoringInv'
  BY Zenon, <1>0 DEF Core, Fixed, ModeInv, PoolInv, StoringInv
<1>2. LanesCore' /\ TokenInv' /\ OrderInv' /\ EpochInv'
  BY Zenon, <1>0 DEF LanesCore, TokenInv, OrderInv, EpochInv
<1>3. PhaseInv'
  BY Zenon, <1>0 DEF Core, PhaseInv, Parallel, PoolThreads, StepSerial, SerialEnd, SerialBody
<1>4. CASE StepSerial
  <2>1. CoreType'
    BY Zenon, <1>0, <1>4 DEF Core, CoreType, StepSerial, MTasks
  <2>2. IdleInv' /\ SerialInv'
    BY Zenon, <1>0, <1>4 DEF Core, IdleInv, SerialInv, StepSerial, MTasks, Pending
  <2> QED BY Zenon, <1>1, <1>2, <1>3, <2>1, <2>2 DEF Core
<1>5. CASE SerialEnd
  <2>1. CoreType'
    BY <1>0, <1>5 DEF Core, CoreType, SerialEnd, MTasks
  <2>2. IdleInv' /\ SerialInv'
    BY Zenon, <1>0, <1>5 DEF Core, IdleInv, SerialInv, SerialEnd, MTasks, Pending, Done
  <2> QED BY Zenon, <1>1, <1>2, <1>3, <2>1, <2>2 DEF Core
<1>6. ASSUME NEW m \in serialTodo, SerialBody(m) PROVE Core'
  <2>0. m \in MTasks
    BY Zenon DEF Core, CoreType
  <2>1. CoreType'
    BY <1>0, <1>6, <2>0 DEF Core, CoreType, SerialBody, MTasks
  <2>2. IdleInv' /\ SerialInv'
    BY Zenon, <1>0, <1>6, <2>0 DEF Core, CoreType, IdleInv, SerialInv, SerialBody, MTasks, Pending, Done
  <2> QED BY Zenon, <1>1, <1>2, <1>3, <2>1, <2>2 DEF Core
<1> QED BY Zenon, <1>4, <1>5, <1>6

\* At the join every lane is done, so every MTask is and every token is set.
LEMMA AllDoneAtJoin ==
  ASSUME Core, StepJoin
  PROVE  /\ \A w \in Owners : lane[w] = "done"
         /\ \A m \in MTasks : Done(m)
         /\ \A s \in plan.slots : ready[s] = Target(cycles)
<1>1. main = "lanes" /\ busy = {} /\ lane[0] = "done" /\ Fixed
  BY Zenon DEF StepJoin, FJ!Join, Core
<1>2. \A w \in Owners : lane[w] = "done"
  <2>1. \A w \in Background : lane[w] = "done"
    BY Zenon, <1>1 DEF Core, PoolInv
  <2> QED BY Zenon, <1>1, <2>1, OwnerSplit
<1>3. ASSUME NEW m \in MTasks PROVE Done(m)
  <2>1. plan.owner[m] \in Owners /\ m \in OwnMTasks(plan.owner[m])
    BY Zenon, <1>1, PlanFacts DEF OwnMTasks
  <2>2. LaneCore(plan.owner[m])
    BY Zenon, <1>1, <2>1 DEF Core, LanesCore
  <2> QED BY Zenon, <1>2, <2>1, <2>2 DEF LaneCore
<1>4. ASSUME NEW s \in plan.slots PROVE ready[s] = Target(cycles)
  <2>1. plan.writer[s] \in MTasks /\ plan.owner[plan.writer[s]] \in Owners
    BY Zenon, <1>1, SlotFacts
  <2>2. storing[plan.owner[plan.writer[s]]] = {}
    BY Zenon, <1>2, <2>1 DEF Core, StoringInv
  <2>3. Done(plan.writer[s])
    BY Zenon, <1>3, <2>1
  <2> QED BY Zenon, <1>1, <2>2, <2>3 DEF Core, TokenInv
<1> QED BY Zenon, <1>2, <1>3, <1>4

LEMMA StepJoinKeepsCore == ASSUME Core, StepJoin PROVE Core'
<1>0. /\ main' = "idle" /\ cycles' = cycles + 1 /\ busy' = {} /\ phase' = "idle"
      /\ \A w \in Owners : lane'[w] = "off"
      /\ UNCHANGED <<plan, env, primed, ready, target, todo, cur, waiting, storing, serialTodo, epoch>>
  BY Zenon DEF StepJoin, FJ!Join, Core, PoolInv
<1>1. Fixed' /\ SerialInv'
  BY Zenon, <1>0 DEF Core, Fixed, SerialInv
<1>2. CoreType'
  BY DEF Core, CoreType, StepJoin, FJ!Join, MTasks, LaneKinds, LaneStates
<1>3. IdleInv'
  <2>1. \A m \in MTasks : Pending(m)'
    BY Zenon, <1>0, AllDoneAtJoin DEF Done, Pending
  <2>2. \A s \in plan.slots : ready[s] # Target(cycles + 1)
    BY Zenon, AllDoneAtJoin, TargetFlip DEF Core, CoreType
  <2>3. Target(cycles)' = Target(cycles + 1)
    BY Zenon, <1>0 DEF Target, Even
  <2> QED BY Zenon, <1>0, <2>1, <2>2, <2>3 DEF IdleInv, MTasks
<1>4. ModeInv' /\ PoolInv'
  BY Zenon, <1>0 DEF ModeInv, PoolInv
<1>5. StoringInv'
  BY Zenon, <1>0, AllDoneAtJoin DEF Core, StoringInv
<1>6. LanesCore' /\ TokenInv' /\ OrderInv' /\ EpochInv'
  BY Zenon, <1>0 DEF LanesCore, TokenInv, OrderInv, EpochInv
<1>7. PhaseInv'
  <2>1. primed
    BY Zenon DEF Core, ModeInv, StepJoin
  <2> QED BY Zenon, <1>0, <2>1 DEF PhaseInv
<1> QED BY Zenon, <1>1, <1>2, <1>3, <1>4, <1>5, <1>6, <1>7 DEF Core

LEMMA MainKeepsCore == ASSUME Core, MainStep PROVE Core'
BY Zenon, StepParallelKeepsCore, SerialKeepsCore, StepJoinKeepsCore DEF MainStep

LEMMA InitCore == Init => Core
<1> SUFFICES ASSUME Init PROVE Core
  OBVIOUS
<1> USE ExecutorAssumption DEF Init, FJ!FJInit
<1>1. Fixed
  BY Zenon DEF Fixed
<1>2. CoreType
  BY ZenonT(30) DEF CoreType, LaneKinds, LaneStates
<1>3. IdleInv /\ SerialInv
  BY Zenon DEF IdleInv, SerialInv, Pending
<1>4. ModeInv /\ PoolInv /\ StoringInv /\ PhaseInv
  BY Zenon DEF ModeInv, PoolInv, StoringInv, PhaseInv
<1>5. LanesCore /\ TokenInv /\ OrderInv /\ EpochInv
  BY Zenon DEF LanesCore, TokenInv, OrderInv, EpochInv
<1> QED BY Zenon, <1>1, <1>2, <1>3, <1>4, <1>5 DEF Core

LEMMA StutterKeepsCore == ASSUME Core, UNCHANGED vars PROVE Core'
<1>0. UNCHANGED <<plan, env, main, phase, busy, cycles, primed, ready, lane, target, todo, cur,
                  waiting, storing, serialTodo, epoch>>
  BY Zenon DEF vars, poolVars, laneVars
<1>1. Fixed' /\ CoreType'
  BY Zenon, <1>0 DEF Core, Fixed, CoreType, MTasks
<1>2. IdleInv' /\ SerialInv' /\ ModeInv' /\ PoolInv' /\ StoringInv'
  BY Zenon, <1>0 DEF Core, IdleInv, SerialInv, ModeInv, PoolInv, StoringInv, MTasks, Pending, Done, Target, Even
<1>3. LanesCore'
  <2> SUFFICES ASSUME main = "lanes", NEW v \in Owners PROVE LaneCore(v)'
    BY Zenon, <1>0 DEF LanesCore
  <2>1. LaneCore(v) /\ Fixed /\ storing[v] \subseteq plan.slots
    BY Zenon DEF Core, LanesCore, CoreType
  <2>2. \A m \in MTasks : Done(m) => Done(m)'
    BY Zenon, <1>0 DEF Done
  <2> QED BY Zenon, <1>0, <2>1, <2>2, CoreFrame
<1>4. TokenInv' /\ OrderInv' /\ EpochInv'
  BY Zenon, <1>0 DEF Core, TokenInv, OrderInv, EpochInv, MTasks, Pending, Done, Target, Even
<1>5. PhaseInv'
  BY Zenon, <1>0 DEF Core, PhaseInv, Parallel, PoolThreads
<1> QED BY Zenon, <1>1, <1>2, <1>3, <1>4, <1>5 DEF Core

-----------------------------------------------------------------------------
(* What follows *)

LEMMA CoreDeps == Core => DepsBeforeBody
<1> SUFFICES ASSUME Core, NEW w \in Owners, lane[w] = "body"
             PROVE  /\ epoch[cur[w]] = cycles
                    /\ \A p \in Preds(cur[w]) : epoch[p] = cycles + 1
                    /\ \A m \in plan.deps[cur[w]] :
                         epoch[m] = cycles /\ \A v \in Owners : lane[v] = "body" => cur[v] # m
  BY Zenon DEF DepsBeforeBody
<1>1. /\ main = "lanes" /\ LaneCore(w) /\ cur[w] \in MTasks /\ Pending(cur[w]) /\ Fixed
      /\ \A p \in MTasks : <<p, cur[w]>> \in plan.order => Done(p)
  BY Zenon, LaneActive DEF LaneCore, OwnMTasks
<1>2. ~Done(cur[w])
  BY <1>1 DEF Pending, Done, Core, CoreType
<1>3. \A p \in Preds(cur[w]) : epoch[p] = cycles + 1
  <2> SUFFICES ASSUME NEW p \in MTasks, cur[w] \in plan.deps[p] PROVE Done(p)
    BY Zenon DEF Preds, Done
  <2>1. <<p, cur[w]>> \in plan.order
    BY Zenon, <1>1, PlanFacts
  <2> QED BY Zenon, <1>1, <2>1
<1>4. ASSUME NEW m \in plan.deps[cur[w]]
      PROVE  epoch[m] = cycles /\ \A v \in Owners : lane[v] = "body" => cur[v] # m
  <2>1. m \in MTasks /\ <<cur[w], m>> \in plan.order
    BY Zenon, <1>1, <1>4, PlanFacts
  <2>2. ~Done(m)
    BY Zenon, <1>1, <1>2, <2>1 DEF Core, OrderInv
  <2>3. epoch[m] = cycles
    BY Zenon, <1>1, <2>1, <2>2 DEF Core, EpochInv, Pending
  <2>4. ASSUME NEW v \in Owners, lane[v] = "body", cur[v] = m PROVE FALSE
    <3>1. LaneCore(v)
      BY Zenon, <2>4, LaneActive
    <3>2. \A p \in MTasks : <<p, m>> \in plan.order => Done(p)
      BY Zenon, <2>4, <3>1 DEF LaneCore
    <3> QED BY Zenon, <1>1, <1>2, <2>1, <3>2
  <2> QED BY Zenon, <2>3, <2>4
<1>5. epoch[cur[w]] = cycles
  BY Zenon, <1>1 DEF Pending
<1> QED BY Zenon, <1>3, <1>4, <1>5

LEMMA CoreComplete == Core => CycleComplete
BY Zenon DEF Core, IdleInv, CycleComplete, Pending

LEMMA InitRefines == Init => DC!DCInit
BY Zenon DEF Init, DC!DCInit, DC!MTaskIds, MTasks, MTasksOf

LEMMA DCIds == DC!MTaskIds = MTasks
BY Zenon DEF DC!MTaskIds, MTasks, MTasksOf

LEMMA BodyEndRefines == ASSUME Core, NEW w \in Owners, BodyEnd(w) PROVE DC!DCNext
<1>1. LaneCore(w) /\ lane[w] = "body" /\ Fixed
  BY Zenon, LaneActive DEF BodyEnd
<1>2. cur[w] \in MTasks /\ epoch[cur[w]] = cycles
  BY Zenon, <1>1 DEF LaneCore, OwnMTasks, Pending
<1>3. ASSUME NEW p \in MTasks, cur[w] \in plan.deps[p] PROVE epoch[p] = cycles + 1
  <2>1. <<p, cur[w]>> \in plan.order
    BY Zenon, <1>1, <1>3, PlanFacts
  <2> QED BY Zenon, <1>1, <2>1 DEF LaneCore, Done
<1>4. DC!RunMTask(cur[w])
  BY Zenon, <1>2, <1>3, DCIds DEF DC!RunMTask, DC!Preds, BodyEnd
<1> QED BY Zenon, <1>2, <1>4, DCIds DEF DC!DCNext

LEMMA SerialBodyRefines == ASSUME Core, NEW m \in serialTodo, SerialBody(m) PROVE DC!DCNext
<1>1. m \in MTasks /\ epoch[m] = cycles /\ main = "serial" /\ Fixed
  BY Zenon DEF Core, CoreType, SerialInv, SerialBody, Pending
<1>2. ASSUME NEW p \in MTasks, m \in plan.deps[p] PROVE epoch[p] = cycles + 1
  <2>1. p < m /\ p \in Nat /\ m \in Nat
    BY Zenon, <1>1, <1>2, PlanFacts
  <2>2. p \notin serialTodo
    BY <2>1 DEF SerialBody, Least
  <2> QED BY Zenon, <1>1, <2>2 DEF Core, SerialInv, Done
<1>3. DC!RunMTask(m)
  BY Zenon, <1>1, <1>2, DCIds DEF DC!RunMTask, DC!Preds, SerialBody
<1> QED BY Zenon, <1>1, <1>3, DCIds DEF DC!DCNext

\* A step of the main thread runs one body in dependence order, ends a complete
\* cycle, or is invisible.
LEMMA MainRefines == ASSUME Core, MainStep PROVE [DC!DCNext]_(DC!dcVars)
<1>1. CASE StepJoin
  BY Zenon, <1>1, DCIds, AllDoneAtJoin DEF DC!DCNext, DC!EndCycle, StepJoin, Done
<1>2. CASE SerialEnd
  BY Zenon, <1>2, DCIds DEF DC!DCNext, DC!EndCycle, SerialEnd, Core, SerialInv, Done
<1>3. CASE StepParallel \/ StepSerial
  BY Zenon, <1>3 DEF StepParallel, StepSerial, DC!dcVars
<1> QED BY Zenon, <1>1, <1>2, <1>3, SerialBodyRefines DEF MainStep

\* A token changes only to the value of the running cycle.
ForwardStep == \A s \in plan.slots : ready'[s] # ready[s] => ready'[s] = Target(cycles)

LEMMA MainForward == ASSUME Core, MainStep PROVE ForwardStep
<1> SUFFICES ASSUME NEW s \in plan.slots, ready'[s] # ready[s] PROVE ready'[s] = Target(cycles)
  BY Zenon DEF ForwardStep
<1>1. StepParallel
  BY Zenon DEF MainStep, StepSerial, SerialEnd, StepJoin, SerialBody
<1>2. ~primed /\ cycles = 0 /\ ready[s] = 0
  BY Zenon, <1>1 DEF StepParallel, Core, PhaseInv
<1> QED BY <1>1, <1>2 DEF StepParallel, Even

LEMMA StoreForward ==
  ASSUME Core, NEW w \in Owners, NEW t \in storing[w], StoreToken(w, t) PROVE ForwardStep
<1>1. LaneCore(w) /\ lane[w] = "store" /\ ready \in [plan.slots -> {0, 1}] /\ t \in plan.slots
  BY Zenon, LaneActive DEF StoreToken, CoreType
<1> QED BY Zenon, <1>1 DEF StoreToken, LaneCore, ForwardStep

-----------------------------------------------------------------------------
(* stepDenseThreadWorker *)

\* How far lane w is in its program order, and what it has seen.
LaneInv(w) ==
  /\ lane[w] \in {"wait", "body", "store", "done"} =>
       /\ todo[w] \subseteq OwnMTasks(w)
       /\ \A m \in todo[w] : Pending(m)
       /\ \A m \in OwnMTasks(w) \ todo[w] : Done(m) \/ (lane[w] \in {"wait", "body"} /\ m = cur[w])
       /\ \A m \in OwnMTasks(w) \ todo[w] : \A x \in todo[w] : m < x
  /\ lane[w] \in {"wait", "body"} =>
       /\ cur[w] \in OwnMTasks(w) \ todo[w]
       /\ Pending(cur[w])
       /\ \A m \in OwnMTasks(w) \ todo[w] : m <= cur[w]
  /\ lane[w] = "wait" => \A s \in plan.waits[cur[w]] \ waiting[w] : ready[s] = Target(cycles)

LanesInv == main = "lanes" => \A w \in Owners : LaneInv(w)

StatesOK == lane \in [Owners -> LaneStates]

IInv == Core /\ StatesOK /\ LanesInv

-----------------------------------------------------------------------------
(* Facts the steps share *)

LEMMA Active ==
  ASSUME IInv, NEW w \in Owners, lane[w] # "off"
  PROVE  main = "lanes" /\ LaneInv(w) /\ LaneCore(w) /\ Core /\ Fixed /\ CoreType
BY Zenon, LaneActive DEF IInv, LanesInv

LEMMA OwnFacts ==
  ASSUME Fixed, NEW w
  PROVE  OwnMTasks(w) \subseteq MTasks /\ \A m \in OwnMTasks(w) : m \in Nat /\ plan.owner[m] = w
BY Zenon, PlanFacts DEF OwnMTasks

\* A lane that does not move keeps what it knows while tokens are only set and
\* bodies of other lanes only end.
LEMMA LaneFrame ==
  ASSUME NEW v \in Owners, Fixed, LaneInv(v), UNCHANGED <<plan, cycles>>,
         lane'[v] = lane[v], todo'[v] = todo[v], cur'[v] = cur[v], waiting'[v] = waiting[v],
         \A m \in OwnMTasks(v) : epoch'[m] = epoch[m],
         \A s \in plan.slots : ready[s] = Target(cycles) => ready'[s] = Target(cycles)
  PROVE  LaneInv(v)'
<1>1. OwnMTasks(v)' = OwnMTasks(v) /\ Target(cycles)' = Target(cycles)
  BY Zenon DEF OwnMTasks, MTasks, Target, Even
<1>2. \A m \in OwnMTasks(v) : (Done(m)' <=> Done(m)) /\ (Pending(m)' <=> Pending(m))
  BY Zenon DEF Done, Pending
<1>3. lane[v] \in {"wait", "body", "store", "done"} =>
        /\ todo[v] \subseteq OwnMTasks(v)
        /\ \A m \in todo[v] : Pending(m)'
        /\ \A m \in OwnMTasks(v) \ todo[v] : Done(m)' \/ (lane[v] \in {"wait", "body"} /\ m = cur[v])
        /\ \A m \in OwnMTasks(v) \ todo[v] : \A x \in todo[v] : m < x
  BY Zenon, <1>2 DEF LaneInv
<1>4. lane[v] \in {"wait", "body"} =>
        /\ cur[v] \in OwnMTasks(v) \ todo[v]
        /\ (epoch')[cur[v]] = cycles
        /\ \A m \in OwnMTasks(v) \ todo[v] : m <= cur[v]
  BY Zenon DEF LaneInv, Pending
<1>5. lane[v] = "wait" => \A s \in plan.waits[cur[v]] \ waiting[v] : ready'[s] = Target(cycles)
  <2> SUFFICES ASSUME lane[v] = "wait", NEW s \in plan.waits[cur[v]] \ waiting[v]
               PROVE  ready'[s] = Target(cycles)
    OBVIOUS
  <2>1. cur[v] \in MTasks
    BY Zenon, <1>4, OwnFacts
  <2>2. s \in plan.slots
    BY Zenon, <2>1, PlanFacts
  <2> QED BY Zenon, <2>2 DEF LaneInv
<1>6. Pending(cur[v])' <=> (epoch')[(cur')[v]] = cycles'
  BY Zenon DEF Pending
<1> QED BY Zenon, <1>1, <1>3, <1>4, <1>5, <1>6 DEF LaneInv

\* A quiet step of lane w is right when it leaves the lane's own invariant true.
LEMMA LaneQuiet ==
  ASSUME IInv, NEW w \in Owners, Quiet(w), Core', StatesOK', LaneInv(w)'
  PROVE  IInv'
<1>0. main = "lanes" /\ Fixed /\ UNCHANGED <<plan, cycles, epoch, ready, main>>
  BY Zenon, Active DEF Quiet
<1>1. ASSUME NEW v \in Owners, v # w PROVE LaneInv(v)'
  <2>1. LaneInv(v)
    BY Zenon, <1>0 DEF IInv, LanesInv
  <2> QED BY Zenon, <1>0, <1>1, <2>1, LaneFrame DEF Quiet
<1> QED BY Zenon, <1>1 DEF IInv, LanesInv

\* A lane has run a prefix of its program order.
LEMMA LanePrefix ==
  ASSUME IInv, main = "lanes", NEW r \in MTasks, Done(r),
         NEW q \in MTasks, plan.owner[r] = plan.owner[q], q <= r
  PROVE  Done(q)
<1> DEFINE u == plan.owner[r]
<1>0. Fixed /\ Core /\ CoreType
  BY Zenon DEF IInv, Core
<1>1. u \in Owners /\ q \in OwnMTasks(u) /\ r \in OwnMTasks(u) /\ q \in Nat /\ r \in Nat
  BY Zenon, <1>0, PlanFacts DEF OwnMTasks
<1>2. LaneInv(u) /\ LaneCore(u) /\ lane[u] # "off" /\ lane[u] \in LaneStates
  BY Zenon, <1>1 DEF IInv, LanesInv, StatesOK, Core, LanesCore, ModeInv
<1>3. ~Pending(r)
  BY <1>0 DEF Pending, Done, CoreType
<1> HIDE DEF u
<1>4. lane[u] \in {"wait", "body", "store", "done"}
  BY Zenon, <1>1, <1>2, <1>3 DEF LaneCore, LaneStates
<1>5. r \notin todo[u]
  BY Zenon, <1>1, <1>2, <1>3, <1>4 DEF LaneInv
<1>6. q \notin todo[u]
  BY <1>1, <1>2, <1>4, <1>5 DEF LaneInv
<1>7. Done(q) \/ (lane[u] \in {"wait", "body"} /\ q = cur[u])
  BY Zenon, <1>1, <1>2, <1>4, <1>6 DEF LaneInv
<1>8. CASE lane[u] \in {"wait", "body"} /\ q = cur[u]
  <2>1. r <= cur[u] /\ Pending(cur[u])
    BY Zenon, <1>1, <1>2, <1>5, <1>8 DEF LaneInv
  <2>2. r = q
    BY <1>1, <1>8, <2>1
  <2> QED BY Zenon, <1>3, <1>8, <2>1, <2>2
<1> QED BY Zenon, <1>7, <1>8

\* Everything program order and tokens put before an MTask is done when its
\* waits have passed.
LEMMA WaitsEnough ==
  ASSUME IInv, main = "lanes", NEW w \in Owners, lane[w] = "wait", waiting[w] = {},
         NEW q \in MTasks, Before(plan, q, cur[w])
  PROVE  Done(q)
<1>1. /\ LaneInv(w) /\ Fixed /\ cur[w] \in OwnMTasks(w) \ todo[w] /\ cur[w] \in MTasks
      /\ cur[w] \in Nat /\ plan.owner[cur[w]] = w
  BY Zenon, Active, OwnFacts DEF LaneInv
<1>2. CASE plan.owner[q] = plan.owner[cur[w]] /\ q < cur[w]
  <2>1. q \in OwnMTasks(w) /\ q \in Nat
    BY Zenon, <1>1, <1>2, PlanFacts DEF OwnMTasks
  <2>2. q # cur[w]
    BY <1>1, <1>2, <2>1
  <2>3. q \notin todo[w]
    BY <1>1, <1>2, <2>1 DEF LaneInv
  <2> QED BY Zenon, <1>1, <2>1, <2>2, <2>3 DEF LaneInv
<1>3. ASSUME NEW s \in plan.waits[cur[w]],
             plan.owner[plan.writer[s]] = plan.owner[q], q <= plan.writer[s]
      PROVE  Done(q)
  <2>1. s \in plan.slots /\ plan.writer[s] \in MTasks
    BY <1>1, <1>3, PlanFacts
  <2>2. ready[s] = Target(cycles)
    BY Zenon, <1>1, <1>3 DEF LaneInv
  <2>3. Done(plan.writer[s])
    BY Zenon, <2>1, <2>2 DEF IInv, Core, TokenInv
  <2> QED BY Zenon, <1>3, <2>1, <2>3, LanePrefix
<1> QED BY Zenon, <1>2, <1>3 DEF Before

-----------------------------------------------------------------------------
(* One lemma per action *)

LEMMA LaneBeginKeeps == ASSUME IInv, NEW w \in Owners, LaneBegin(w) PROVE IInv'
<1>0. /\ main = "lanes" /\ LaneCore(w) /\ lane[w] = "posted" /\ Core /\ Fixed /\ CoreType
      /\ storing[w] = {}
  BY Zenon, Active DEF LaneBegin, Core, StoringInv
<1>1. /\ lane'[w] = "store" /\ todo'[w] = OwnMTasks(w) /\ target'[w] = Target(cycles)
      /\ UNCHANGED <<plan, cycles, epoch>>
  BY Zenon, <1>0 DEF LaneBegin, CoreType
<1>2. Quiet(w)
  BY Zenon, <1>0 DEF LaneBegin, Quiet, CoreType, LaneKinds, LaneStates, poolVars
<1>3. CoreType' /\ StatesOK'
  BY Zenon, <1>0, TargetFlip DEF CoreType, LaneBegin, poolVars, MTasks, OwnMTasks, LaneKinds, LaneStates, IInv, StatesOK
<1>4. Core'
  BY Zenon, <1>0, <1>1, <1>2, <1>3, QuietKeeps
<1>5. OwnMTasks(w)' = OwnMTasks(w) /\ \A x : Pending(x)' <=> Pending(x)
  BY Zenon, <1>1 DEF OwnMTasks, MTasks, Pending
<1>6. LaneInv(w)'
  BY Zenon, <1>0, <1>1, <1>5 DEF LaneInv, LaneCore
<1> QED BY Zenon, <1>2, <1>3, <1>4, <1>6, LaneQuiet

LEMMA LaneNextKeeps ==
  ASSUME IInv, NEW w \in Owners, NEW m \in todo[w], LaneNext(w, m) PROVE IInv'
<1>0. /\ main = "lanes" /\ LaneInv(w) /\ lane[w] = "store" /\ storing[w] = {}
      /\ Core /\ Fixed /\ CoreType /\ target[w] = Target(cycles)
  BY Zenon, Active DEF LaneNext, LaneCore
<1>a. /\ todo[w] \subseteq OwnMTasks(w) /\ m \in MTasks /\ m \in Nat
      /\ \A x \in OwnMTasks(w) : x \in Nat
      /\ \A x \in todo[w] : m <= x
  BY Zenon, <1>0, OwnFacts DEF LaneInv, LaneNext, Least
<1>1. /\ lane'[w] = "wait" /\ todo'[w] = todo[w] \ {m} /\ cur'[w] = m /\ waiting'[w] = plan.waits[m]
      /\ UNCHANGED <<plan, cycles, epoch, target>>
  BY Zenon, <1>0 DEF LaneNext, CoreType
<1>2. Quiet(w)
  BY Zenon, <1>0 DEF LaneNext, Quiet, CoreType, LaneKinds, LaneStates, poolVars
<1>3. CoreType' /\ StatesOK'
  <2>1. plan.waits[m] \in SUBSET plan.slots
    BY <1>0, <1>a, PlanFacts
  <2> QED BY Zenon, <1>0, <1>a, <2>1 DEF CoreType, LaneNext, poolVars, MTasks, LaneKinds, LaneStates, IInv, StatesOK
<1>4. Core'
  BY Zenon, <1>0, <1>1, <1>2, <1>3, QuietKeeps
<1>5. OwnMTasks(w)' = OwnMTasks(w) /\ \A x : (Pending(x)' <=> Pending(x)) /\ (Done(x)' <=> Done(x))
  BY Zenon, <1>1 DEF OwnMTasks, MTasks, Pending, Done
<1>6. /\ \A x \in todo[w] : Pending(x)
      /\ \A x \in OwnMTasks(w) \ todo[w] : Done(x) /\ \A y \in todo[w] : x < y
  BY Zenon, <1>0 DEF LaneInv
<1>7. \A x \in OwnMTasks(w) \ todo'[w] :
        /\ Done(x) \/ x = m
        /\ x <= m
        /\ \A y \in todo'[w] : x < y
  BY <1>a, <1>1, <1>6
<1>8. Pending(m)' /\ m \in OwnMTasks(w) \ todo'[w]
  BY Zenon, <1>a, <1>1, <1>5, <1>6
<1>9. Pending(cur[w])' <=> Pending(m)'
  BY Zenon, <1>1 DEF Pending
<1>10. LaneInv(w)'
  BY Zenon, <1>a, <1>1, <1>5, <1>6, <1>7, <1>8, <1>9 DEF LaneInv
<1> QED BY Zenon, <1>2, <1>3, <1>4, <1>10, LaneQuiet

LEMMA PassWaitKeeps ==
  ASSUME IInv, NEW w \in Owners, NEW s \in waiting[w], PassWait(w, s) PROVE IInv'
<1>0. /\ main = "lanes" /\ LaneInv(w) /\ lane[w] = "wait" /\ storing[w] = {}
      /\ Core /\ Fixed /\ CoreType /\ target[w] = Target(cycles)
  BY Zenon, Active DEF PassWait, LaneCore, Core, StoringInv
<1>1. /\ waiting'[w] = waiting[w] \ {s} /\ ready[s] = Target(cycles)
      /\ UNCHANGED <<plan, cycles, epoch, lane, todo, cur, target, ready>>
  BY Zenon, <1>0 DEF PassWait, CoreType
<1>2. Quiet(w)
  BY Zenon, <1>0 DEF PassWait, Quiet, CoreType, LaneKinds, LaneStates, poolVars
<1>3. CoreType' /\ StatesOK'
  BY Zenon, <1>0 DEF CoreType, PassWait, poolVars, MTasks, IInv, StatesOK
<1>4. Core'
  BY Zenon, <1>0, <1>1, <1>2, <1>3, QuietKeeps
<1>5. /\ OwnMTasks(w)' = OwnMTasks(w) /\ Target(cycles)' = Target(cycles)
      /\ \A x : (Pending(x)' <=> Pending(x)) /\ (Done(x)' <=> Done(x))
      /\ Pending(cur[w])' <=> Pending(cur[w])
  BY Zenon, <1>1 DEF OwnMTasks, MTasks, Pending, Done, Target, Even
<1>6. \A t \in plan.waits[cur[w]] \ waiting'[w] : ready[t] = Target(cycles)
  BY Zenon, <1>0, <1>1 DEF LaneInv
<1>7. LaneInv(w)'
  BY Zenon, <1>0, <1>1, <1>5, <1>6 DEF LaneInv
<1> QED BY Zenon, <1>2, <1>3, <1>4, <1>7, LaneQuiet

\* The body starts: everything it depends on has run.
LEMMA BodyStartKeeps == ASSUME IInv, NEW w \in Owners, BodyStart(w) PROVE IInv'
<1>0. /\ main = "lanes" /\ LaneInv(w) /\ lane[w] = "wait" /\ waiting[w] = {} /\ storing[w] = {}
      /\ Core /\ Fixed /\ CoreType /\ target[w] = Target(cycles)
  BY Zenon, Active DEF BodyStart, LaneCore, Core, StoringInv
<1>a. cur[w] \in OwnMTasks(w) /\ cur[w] \in MTasks /\ Pending(cur[w])
  BY Zenon, <1>0, OwnFacts DEF LaneInv
<1>1. lane'[w] = "body" /\ UNCHANGED <<plan, cycles, epoch, todo, cur, target>>
  BY Zenon, <1>0 DEF BodyStart, CoreType
<1>2. Quiet(w)
  BY Zenon, <1>0 DEF BodyStart, Quiet, CoreType, LaneKinds, LaneStates, poolVars
<1>3. CoreType' /\ StatesOK'
  BY Zenon, <1>0 DEF CoreType, BodyStart, poolVars, MTasks, LaneKinds, LaneStates, IInv, StatesOK
<1>4. ASSUME NEW p \in MTasks, <<p, cur[w]>> \in plan.order PROVE Done(p)
  <2>1. CASE Before(plan, p, cur[w])
    BY Zenon, <1>0, <2>1, WaitsEnough
  <2>2. ASSUME NEW r \in MTasks, <<p, r>> \in plan.order, Before(plan, r, cur[w]) PROVE Done(p)
    <3>1. Done(r)
      BY Zenon, <1>0, <2>2, WaitsEnough
    <3> QED BY Zenon, <1>0, <2>2, <3>1 DEF Core, OrderInv
  <2> QED BY Zenon, <1>0, <1>a, <1>4, <2>1, <2>2, PlanFacts
<1>5. Core'
  BY Zenon, <1>0, <1>a, <1>1, <1>2, <1>3, <1>4, QuietKeeps
<1>6. /\ OwnMTasks(w)' = OwnMTasks(w)
      /\ \A x : (Pending(x)' <=> Pending(x)) /\ (Done(x)' <=> Done(x))
      /\ Pending(cur[w])' <=> Pending(cur[w])
  BY Zenon, <1>1 DEF OwnMTasks, MTasks, Pending, Done
<1>7. LaneInv(w)'
  BY Zenon, <1>0, <1>1, <1>6 DEF LaneInv
<1> QED BY Zenon, <1>2, <1>3, <1>5, <1>7, LaneQuiet

LEMMA BodyEndKeeps == ASSUME IInv, NEW w \in Owners, BodyEnd(w) PROVE IInv'
<1>0. Core /\ Core' /\ main = "lanes" /\ LaneInv(w) /\ lane[w] = "body" /\ Fixed
  BY Zenon, Active, BodyEndKeepsCore DEF BodyEnd
<1>a. /\ cur[w] \in MTasks /\ plan.owner[cur[w]] = w
      /\ \A m \in MTasks : epoch'[m] = IF m = cur[w] THEN cycles + 1 ELSE epoch[m]
      /\ \A v \in Owners : lane'[v] = IF v = w THEN "store" ELSE lane[v]
      /\ UNCHANGED <<plan, cycles, main, ready, todo, cur, waiting>>
  BY <1>0, BodyEndEffect
<1>1. StatesOK'
  BY Zenon DEF BodyEnd, IInv, StatesOK, LaneStates
<1>2. ASSUME NEW v \in Owners, v # w PROVE LaneInv(v)'
  <2>1. \A m \in OwnMTasks(v) : epoch'[m] = epoch[m]
    BY <1>0, <1>a, <1>2, OwnFacts
  <2>2. LaneInv(v)
    BY Zenon, <1>0 DEF IInv, LanesInv
  <2> QED BY Zenon, <1>0, <1>a, <1>2, <2>1, <2>2, LaneFrame
<1>3. LaneInv(w)'
  <2>1. /\ OwnMTasks(w)' = OwnMTasks(w)
        /\ \A m \in MTasks : m # cur[w] => (Pending(m)' <=> Pending(m)) /\ (Done(m)' <=> Done(m))
    BY Zenon, <1>a DEF OwnMTasks, MTasks, Pending, Done
  <2>2. Done(cur[w])'
    BY Zenon, <1>a DEF Done
  <2>3. /\ todo[w] \subseteq OwnMTasks(w) /\ cur[w] \notin todo[w]
        /\ \A m \in todo[w] : Pending(m)
        /\ \A m \in OwnMTasks(w) \ todo[w] : Done(m) \/ m = cur[w]
        /\ \A m \in OwnMTasks(w) \ todo[w] : \A x \in todo[w] : m < x
    BY Zenon, <1>0 DEF LaneInv
  <2>4. \A m \in todo[w] : Pending(m)'
    BY Zenon, <1>0, <2>1, <2>3, OwnFacts
  <2>5. Done(cur[w])' <=> (epoch')[cur[w]] = cycles' + 1
    BY Zenon, <1>a DEF Done
  <2>6. ASSUME NEW m \in OwnMTasks(w) \ todo[w] PROVE Done(m)'
    <3>1. CASE m = cur[w]
      BY Zenon, <2>2, <2>5, <3>1 DEF Done
    <3>2. CASE m # cur[w]
      BY Zenon, <1>0, <2>1, <2>3, <3>2, OwnFacts
    <3> QED BY Zenon, <3>1, <3>2
  <2> QED BY Zenon, <1>a, <2>1, <2>3, <2>4, <2>6 DEF LaneInv
<1> QED BY Zenon, <1>0, <1>1, <1>2, <1>3 DEF IInv, LanesInv

LEMMA StoreTokenKeeps ==
  ASSUME IInv, NEW w \in Owners, NEW s \in storing[w], StoreToken(w, s) PROVE IInv'
<1>0. /\ Core /\ Core' /\ main = "lanes" /\ lane[w] = "store" /\ Fixed /\ CoreType
      /\ target[w] = Target(cycles)
  BY Zenon, Active, StoreKeepsCore DEF StoreToken, LaneCore
<1>a. /\ \A t \in plan.slots : ready[t] = Target(cycles) => ready'[t] = Target(cycles)
      /\ UNCHANGED <<plan, cycles, main, lane, todo, cur, waiting, epoch>>
  BY Zenon, <1>0 DEF StoreToken, CoreType
<1>1. StatesOK'
  BY Zenon, <1>a DEF IInv, StatesOK
<1>2. ASSUME NEW v \in Owners PROVE LaneInv(v)'
  <2>1. LaneInv(v)
    BY Zenon, <1>0 DEF IInv, LanesInv
  <2> QED BY Zenon, <1>0, <1>a, <2>1, LaneFrame
<1> QED BY Zenon, <1>0, <1>1, <1>2 DEF IInv, LanesInv

LEMMA LaneEndKeeps == ASSUME IInv, NEW w \in Owners, LaneEnd(w) PROVE IInv'
<1>0. /\ main = "lanes" /\ LaneInv(w) /\ lane[w] = "store" /\ storing[w] = {} /\ todo[w] = {}
      /\ Core /\ Fixed /\ CoreType
  BY Zenon, Active DEF LaneEnd
<1>a. /\ \A v \in Owners : lane'[v] = IF v = w THEN "done" ELSE lane[v]
      /\ UNCHANGED <<plan, cycles, main, ready, todo, cur, waiting, epoch>>
  BY Zenon, <1>0 DEF CoreType, LaneEnd
<1>1. \A m \in OwnMTasks(w) : Done(m)
  BY Zenon, <1>0 DEF LaneInv
<1>2. Core'
  BY Zenon, <1>0, <1>1, EndKeeps DEF LaneEnd
<1>3. StatesOK'
  BY Zenon DEF LaneEnd, IInv, StatesOK, LaneStates
<1>4. ASSUME NEW v \in Owners, v # w PROVE LaneInv(v)'
  <2>1. LaneInv(v)
    BY Zenon, <1>0 DEF IInv, LanesInv
  <2> QED BY Zenon, <1>0, <1>a, <1>4, <2>1, LaneFrame
<1>5. LaneInv(w)'
  <2>1. OwnMTasks(w)' = OwnMTasks(w) /\ \A x : Done(x)' <=> Done(x)
    BY Zenon, <1>a DEF OwnMTasks, MTasks, Done
  <2> QED BY Zenon, <1>0, <1>a, <1>1, <2>1 DEF LaneInv
<1> QED BY Zenon, <1>2, <1>3, <1>4, <1>5 DEF IInv, LanesInv

\* The main thread starts the lanes or leaves them off.
LEMMA MainKeeps == ASSUME IInv, MainStep PROVE IInv'
<1>1. Core'
  BY Zenon, MainKeepsCore DEF IInv
<1>2. StatesOK'
  BY Zenon DEF IInv, StatesOK, LaneStates, MainStep, StepParallel, StepSerial, SerialEnd, StepJoin, SerialBody, laneVars
<1>3. main' = "lanes" => \A w \in Owners : lane'[w] = "posted"
  BY Zenon DEF MainStep, StepParallel, StepSerial, SerialEnd, StepJoin, SerialBody
<1>4. LanesInv'
  BY Zenon, <1>3 DEF LanesInv, LaneInv
<1> QED BY Zenon, <1>1, <1>2, <1>4 DEF IInv

LEMMA StutterKeeps == ASSUME IInv, UNCHANGED vars PROVE IInv'
<1>0. UNCHANGED <<plan, main, cycles, ready, lane, todo, cur, waiting, epoch>>
  BY Zenon DEF vars, laneVars
<1>1. Core'
  BY Zenon, StutterKeepsCore DEF IInv
<1>2. LanesInv'
  <2> SUFFICES ASSUME main = "lanes", NEW v \in Owners PROVE LaneInv(v)'
    BY Zenon, <1>0 DEF LanesInv
  <2>1. LaneInv(v) /\ Fixed
    BY Zenon DEF IInv, LanesInv, Core
  <2> QED BY Zenon, <1>0, <2>1, LaneFrame
<1> QED BY Zenon, <1>0, <1>1, <1>2 DEF IInv, StatesOK

-----------------------------------------------------------------------------
(* The theorems *)

LEMMA InitIInv == Init => IInv
<1> SUFFICES ASSUME Init PROVE StatesOK /\ LanesInv
  BY Zenon, InitCore DEF IInv
<1> QED BY Zenon DEF Init, StatesOK, LaneStates, LanesInv

LEMMA NextIInv == IInv /\ [Next]_vars => IInv'
<1> SUFFICES ASSUME IInv, [Next]_vars PROVE IInv'
  OBVIOUS
<1>1. ASSUME NEW w \in Owners, LaneStep(w) PROVE IInv'
  BY Zenon, <1>1, LaneBeginKeeps, LaneNextKeeps, PassWaitKeeps, BodyStartKeeps, BodyEndKeeps,
     StoreTokenKeeps, LaneEndKeeps DEF LaneStep
<1>2. CASE Halt \/ (\E w \in Owners : Spin(w)) \/ UNCHANGED vars
  BY Zenon, <1>2, StutterKeeps DEF Halt, Spin
<1> QED BY Zenon, <1>1, <1>2, MainKeeps DEF Next

LEMMA Invariance == Spec => []IInv
BY InitIInv, NextIInv, PTL DEF Spec

\* The state of stepDense and of its lanes keeps its types for every sound plan.
THEOREM ExecutorTypes == Spec => []TypeOK
<1>1. IInv => TypeOK
  BY Zenon DEF IInv, Core, CoreType, StatesOK, TypeOK
<1> QED BY <1>1, Invariance, PTL

\* stepDenseThreadWorker never runs a body before the bodies it depends on, nor
\* at the same time as one that depends on it.
THEOREM DepsBeforeBodyHolds == Spec => []DepsBeforeBody
<1>1. IInv => DepsBeforeBody
  BY Zenon, CoreDeps DEF IInv
<1> QED BY <1>1, Invariance, PTL

\* Each call of stepDense runs every MTask once and leaves every token away from
\* the value the next call waits for: the alternation needs no reset.
THEOREM CycleCompleteHolds == Spec => []CycleComplete
<1>1. IInv => CycleComplete
  BY Zenon, CoreComplete DEF IInv
<1> QED BY <1>1, Invariance, PTL

\* No step of stepDense takes a token back: a token changes only to the value of
\* the running cycle, so no reader can miss it.
THEOREM TokensForwardHolds == Spec => TokensForward
<1>1. ASSUME IInv, [Next]_vars
      PROVE  [\A s \in plan.slots : ready'[s] # ready[s] => ready'[s] = Target(cycles)]_vars
  <2> SUFFICES ASSUME Next PROVE ForwardStep
    BY Zenon, <1>1 DEF ForwardStep
  <2>1. CASE MainStep
    BY Zenon, <1>1, <2>1, MainForward DEF IInv
  <2>2. ASSUME NEW w \in Owners, LaneStep(w) PROVE ForwardStep
    <3>1. ready' = ready \/ \E t \in storing[w] : StoreToken(w, t)
      BY Zenon, <2>2 DEF LaneStep, LaneBegin, LaneNext, PassWait, BodyStart, BodyEnd, LaneEnd
    <3> QED BY Zenon, <1>1, <3>1, StoreForward DEF ForwardStep, IInv
  <2>3. CASE Halt \/ (\E w \in Owners : Spin(w))
    BY Zenon, <2>3 DEF Halt, Spin, vars, ForwardStep
  <2> QED BY Zenon, <2>1, <2>2, <2>3 DEF Next
<1> QED BY <1>1, Invariance, PTL DEF Spec, TokensForward

\* Every step runs one body in dependence order, ends a complete cycle, or is
\* invisible.
LEMMA NextRefines == IInv /\ [Next]_vars => [DC!DCNext]_(DC!dcVars)
<1> SUFFICES ASSUME IInv, [Next]_vars PROVE [DC!DCNext]_(DC!dcVars)
  OBVIOUS
<1>1. CASE MainStep
  BY Zenon, <1>1, MainRefines DEF IInv
<1>2. ASSUME NEW w \in Owners, LaneStep(w) PROVE [DC!DCNext]_(DC!dcVars)
  <2>1. CASE BodyEnd(w)
    BY Zenon, <2>1, BodyEndRefines DEF IInv
  <2>2. CASE ~BodyEnd(w)
    BY Zenon, <1>2, <2>2 DEF LaneStep, LaneBegin, LaneNext, PassWait, BodyStart, StoreToken, LaneEnd, DC!dcVars
  <2> QED BY Zenon, <2>1, <2>2
<1>3. CASE Halt \/ (\E w \in Owners : Spin(w)) \/ UNCHANGED vars
  BY Zenon, <1>3 DEF Halt, Spin, vars, DC!dcVars
<1> QED BY Zenon, <1>1, <1>2, <1>3 DEF Next

\* stepDense implements DenseCycle: each body once per cycle and in dependence
\* order, whichever branch runs, for every sound plan and number of workers.
THEOREM ExecutorImplementsDenseCycle == Spec => ImplementsDenseCycle
BY InitRefines, NextRefines, Invariance, PTL DEF Spec, ImplementsDenseCycle, DC!DCSpec

-----------------------------------------------------------------------------
(* Bounded lookahead: stepDenseLookaheadTail, which runs MTasks out of its program  *)
(* order, keeps Core, for any window.                                               *)

RunStates == {"next", "head", "scan", "candidate", "wait", "body", "store"}

LookType ==
  /\ done \in [Owners -> SUBSET MTasks]
  /\ tail \in [Owners -> BOOLEAN]
  /\ allReady \in [Owners -> BOOLEAN]

\* The done bits of a lane at rest are clear.
BitsInv == \A w \in Owners : lane[w] \notin RunStates => done[w] = {}

\* What lane w still has ahead, which of it has run out of order, and what it
\* knows about the MTask it is at.
LookLane(w) ==
  /\ lane[w] \in RunStates =>
       /\ todo[w] \subseteq OwnMTasks(w)
       /\ done[w] \subseteq todo[w]
       /\ \A m \in OwnMTasks(w) \ todo[w] : Done(m) /\ \A x \in todo[w] : m < x
       /\ \A m \in todo[w] : Done(m) <=> m \in done[w] \/ (lane[w] = "store" /\ m = cur[w])
       /\ \A m \in done[w] : ~Head(w, m)
  /\ lane[w] \in {"head", "candidate", "wait", "body", "store"} => cur[w] \in todo[w] \ done[w]
  /\ lane[w] \in {"head", "wait"} => Head(w, cur[w])
  /\ lane[w] \in {"candidate", "wait"} \/ (lane[w] = "head" /\ allReady[w]) =>
       \A s \in plan.waits[cur[w]] \ waiting[w] : ready[s] = Target(cycles)
  /\ lane[w] = "candidate" => plan.locals[cur[w]] \cap (todo[w] \ done[w]) = {}

LookLanes == main = "lanes" => \A w \in Owners : LookLane(w)

LookInv == Core /\ LookType /\ BitsInv /\ LookLanes

-----------------------------------------------------------------------------
(* Facts the steps share *)

LEMMA LookPlanFacts ==
  ASSUME LookaheadAssumption, Fixed
  PROVE  /\ plan.locals \in [MTasks -> SUBSET MTasks]
         /\ \A m \in MTasks : \A q \in plan.locals[m] : plan.owner[q] = plan.owner[m] /\ q < m
         /\ \A q, m \in MTasks : <<q, m>> \in plan.order =>
              \E r \in Prereqs(plan, m) : q = r \/ <<q, r>> \in plan.order
BY ZenonT(30) DEF LookaheadAssumption, Fixed, SoundLookahead, MTasks

LEMMA LookActive ==
  ASSUME LookInv, NEW w \in Owners, lane[w] # "off"
  PROVE  /\ main = "lanes" /\ LookLane(w) /\ LaneCore(w)
         /\ Core /\ Fixed /\ CoreType /\ LookType
BY Zenon, LaneActive DEF LookInv, LookLanes

\* Between the bodies a lane has no token to store.
LEMMA LookRuns ==
  ASSUME LookInv, NEW w \in Owners, lane[w] \in RunStates \ {"store"}
  PROVE  storing[w] = {} /\ target[w] = Target(cycles)
BY Zenon, LookActive DEF Core, StoringInv, LaneCore, RunStates

\* A lane that does not move keeps what it knows while tokens are only set and
\* bodies of other lanes only end.
LEMMA LookFrame ==
  ASSUME NEW v \in Owners, Fixed, LookLane(v), UNCHANGED <<plan, cycles>>,
         lane'[v] = lane[v], todo'[v] = todo[v], cur'[v] = cur[v], waiting'[v] = waiting[v],
         done'[v] = done[v], allReady'[v] = allReady[v],
         \A m \in OwnMTasks(v) : epoch'[m] = epoch[m],
         \A s \in plan.slots : ready[s] = Target(cycles) => ready'[s] = Target(cycles)
  PROVE  LookLane(v)'
<1>1. /\ OwnMTasks(v)' = OwnMTasks(v) /\ Target(cycles)' = Target(cycles)
      /\ \A m : Head(v, m)' <=> Head(v, m)
  BY Zenon DEF OwnMTasks, MTasks, Target, Even, Head, Least
<1>2. \A m \in OwnMTasks(v) : Done(m)' <=> Done(m)
  BY Zenon DEF Done
<1>3. lane[v] \in RunStates =>
        /\ todo[v] \subseteq OwnMTasks(v)
        /\ done[v] \subseteq todo[v]
        /\ \A m \in OwnMTasks(v) \ todo[v] : Done(m)' /\ \A x \in todo[v] : m < x
        /\ \A m \in todo[v] : Done(m)' <=> m \in done[v] \/ (lane[v] = "store" /\ m = cur[v])
        /\ \A m \in done[v] : ~Head(v, m)
  BY Zenon, <1>2 DEF LookLane
<1>4. lane[v] \in {"head", "candidate", "wait", "body", "store"} =>
        cur[v] \in todo[v] \ done[v] /\ cur[v] \in MTasks
  BY Zenon DEF LookLane, OwnMTasks, RunStates
<1>5. lane[v] \in {"candidate", "wait"} \/ (lane[v] = "head" /\ allReady[v]) =>
        \A s \in plan.waits[cur[v]] \ waiting[v] : ready'[s] = Target(cycles)
  <2> SUFFICES ASSUME lane[v] \in {"candidate", "wait"} \/ (lane[v] = "head" /\ allReady[v]),
                      NEW s \in plan.waits[cur[v]] \ waiting[v]
               PROVE  ready'[s] = Target(cycles)
    OBVIOUS
  <2>1. s \in plan.slots
    BY <1>4, PlanFacts
  <2> QED BY Zenon, <2>1 DEF LookLane
<1>6. /\ lane[v] \in {"head", "wait"} => Head(v, cur[v])
      /\ lane[v] = "candidate" => plan.locals[cur[v]] \cap (todo[v] \ done[v]) = {}
  BY Zenon DEF LookLane
<1>7. Head(v, cur[v])' <=> Head(v, cur[v])
  BY Zenon DEF Head, Least
<1> QED BY <1>1, <1>3, <1>4, <1>5, <1>6, <1>7 DEF LookLane

\* A quiet step of lane w is right when it leaves the lane's own invariant true.
LEMMA LookQuiet ==
  ASSUME LookInv, NEW w \in Owners, Quiet(w), lane'[w] \in RunStates,
         Core', LookType', LookLane(w)',
         \A v \in Owners \ {w} : done'[v] = done[v] /\ allReady'[v] = allReady[v]
  PROVE  LookInv'
<1>0. main = "lanes" /\ Fixed /\ UNCHANGED <<plan, cycles, epoch, ready, main>>
  BY Zenon, LookActive DEF Quiet
<1>1. ASSUME NEW v \in Owners, v # w PROVE LookLane(v)'
  <2>1. LookLane(v)
    BY Zenon, <1>0 DEF LookInv, LookLanes
  <2> QED BY Zenon, <1>0, <1>1, <2>1, LookFrame DEF Quiet
<1>2. BitsInv'
  BY Zenon DEF LookInv, BitsInv, Quiet
<1> QED BY Zenon, <1>1, <1>2 DEF LookInv, LookLanes

\* The head of a lane comes before what else is ahead.
LEMMA HeadLeast ==
  ASSUME LookInv, NEW w \in Owners, NEW m, Head(w, m)
  PROVE  /\ m \in todo[w] /\ m \in MTasks /\ m \in Nat
         /\ \A x \in todo[w] : m <= x /\ x \in Nat
BY Zenon, PlanFacts DEF LookInv, Core, CoreType, Head, Least

-----------------------------------------------------------------------------
(* One lemma per action of a lane *)

LEMMA LookBeginKeeps == ASSUME LookInv, NEW w \in Owners, LookBegin(w) PROVE LookInv'
<1>0. /\ main = "lanes" /\ LaneCore(w) /\ lane[w] = "posted" /\ Core /\ Fixed /\ CoreType /\ LookType
      /\ storing[w] = {} /\ done[w] = {}
  BY Zenon, LookActive DEF LookBegin, Core, StoringInv, LookInv, BitsInv, RunStates
<1>1. /\ lane'[w] = "next" /\ todo'[w] = OwnMTasks(w) /\ target'[w] = Target(cycles) /\ done'[w] = {}
      /\ UNCHANGED <<plan, cycles, epoch, done, allReady>>
  BY Zenon, <1>0 DEF LookBegin, CoreType, mainVars
<1>2. Quiet(w)
  BY Zenon, <1>0 DEF LookBegin, Quiet, CoreType, LaneKinds, mainVars, poolVars
<1>3. CoreType' /\ LookType'
  BY Zenon, <1>0, TargetFlip DEF CoreType, LookType, LookBegin, mainVars, poolVars, MTasks, OwnMTasks, LaneKinds
<1>4. Core'
  BY Zenon, <1>0, <1>1, <1>2, <1>3, QuietKeeps
<1>5. OwnMTasks(w)' = OwnMTasks(w) /\ \A m \in OwnMTasks(w) : ~Done(m)'
  BY <1>0, <1>1 DEF OwnMTasks, MTasks, LaneCore, Pending, Done, CoreType
<1>6. LookLane(w)'
  BY Zenon, <1>1, <1>5 DEF LookLane
<1> QED BY Zenon, <1>1, <1>2, <1>3, <1>4, <1>6, LookQuiet DEF RunStates

LEMMA HeadProbeKeeps ==
  ASSUME LookInv, NEW w \in Owners, NEW m \in todo[w], HeadProbe(w, m) PROVE LookInv'
<1>0. /\ main = "lanes" /\ LookLane(w) /\ lane[w] = "next" /\ Core /\ Fixed /\ CoreType /\ LookType
      /\ storing[w] = {} /\ target[w] = Target(cycles) /\ Head(w, m)
  BY Zenon, LookActive, LookRuns DEF HeadProbe, RunStates
<1>a. m \in MTasks /\ m \in Nat /\ plan.waits[m] \in SUBSET plan.slots
  BY Zenon, <1>0, HeadLeast, PlanFacts
<1>1. /\ lane'[w] = "head" /\ cur'[w] = m /\ waiting'[w] = plan.waits[m]
      /\ UNCHANGED <<plan, cycles, epoch, todo, done, target, ready>>
      /\ \A v \in Owners \ {w} : allReady'[v] = allReady[v]
  BY Zenon, <1>0 DEF HeadProbe, CoreType, LookType, mainVars
<1>2. Quiet(w)
  BY Zenon, <1>0 DEF HeadProbe, Quiet, CoreType, LaneKinds, mainVars, poolVars
<1>3. CoreType' /\ LookType'
  BY Zenon, <1>0, <1>a DEF CoreType, LookType, HeadProbe, mainVars, poolVars, MTasks, LaneKinds
<1>4. Core'
  BY Zenon, <1>0, <1>1, <1>2, <1>3, QuietKeeps
<1>5. /\ OwnMTasks(w)' = OwnMTasks(w) /\ Head(w, cur[w])' /\ m \in todo[w] \ done[w]
      /\ \A x : (Head(w, x)' <=> Head(w, x)) /\ (Done(x)' <=> Done(x))
  BY Zenon, <1>0, <1>1 DEF OwnMTasks, MTasks, Head, Least, Done, LookLane, RunStates
<1>6. LookLane(w)'
  BY <1>0, <1>1, <1>5 DEF LookLane, RunStates
<1> QED BY Zenon, <1>1, <1>2, <1>3, <1>4, <1>6, LookQuiet DEF RunStates

LEMMA HeadLoadKeeps ==
  ASSUME LookInv, NEW w \in Owners, NEW s \in waiting[w], HeadLoad(w, s) PROVE LookInv'
<1>0. /\ main = "lanes" /\ LookLane(w) /\ lane[w] = "head" /\ Core /\ Fixed /\ CoreType /\ LookType
      /\ storing[w] = {} /\ target[w] = Target(cycles)
  BY Zenon, LookActive, LookRuns DEF HeadLoad, RunStates
<1>a. UNCHANGED <<plan, cycles, epoch, lane, todo, cur, done, target, ready>>
  BY Zenon DEF HeadLoad, mainVars
<1>b. waiting'[w] = waiting[w] \ {s}
  BY Zenon, <1>0 DEF HeadLoad, CoreType
<1>c. /\ allReady'[w] => allReady[w] /\ ready[s] = Target(cycles)
      /\ \A v \in Owners \ {w} : allReady'[v] = allReady[v]
  BY Zenon, <1>0 DEF HeadLoad, LookType
<1>1. /\ waiting'[w] = waiting[w] \ {s}
      /\ allReady'[w] => allReady[w] /\ ready[s] = Target(cycles)
      /\ UNCHANGED <<plan, cycles, epoch, lane, todo, cur, done, target, ready>>
      /\ \A v \in Owners \ {w} : allReady'[v] = allReady[v]
  BY Zenon, <1>a, <1>b, <1>c
<1>2. Quiet(w)
  BY Zenon, <1>0 DEF HeadLoad, Quiet, CoreType, LaneKinds, mainVars, poolVars
<1>3. CoreType' /\ LookType'
  BY Zenon, <1>0 DEF CoreType, LookType, HeadLoad, mainVars, poolVars, MTasks
<1>4. Core'
  BY Zenon, <1>0, <1>1, <1>2, <1>3, QuietKeeps
<1>5. /\ OwnMTasks(w)' = OwnMTasks(w) /\ Target(cycles)' = Target(cycles)
      /\ Head(w, cur[w])' <=> Head(w, cur[w])
      /\ \A x : (Head(w, x)' <=> Head(w, x)) /\ (Done(x)' <=> Done(x))
  BY Zenon, <1>1 DEF OwnMTasks, MTasks, Head, Least, Done, Target, Even
<1>6. allReady'[w] => \A t \in plan.waits[cur[w]] \ waiting'[w] : ready[t] = Target(cycles)
  BY Zenon, <1>0, <1>1 DEF LookLane
<1>7. LookLane(w)'
  BY <1>0, <1>1, <1>5, <1>6 DEF LookLane, RunStates
<1> QED BY Zenon, <1>0, <1>1, <1>2, <1>3, <1>4, <1>7, LookQuiet DEF RunStates

LEMMA HeadMissKeeps == ASSUME LookInv, NEW w \in Owners, HeadMiss(w) PROVE LookInv'
<1>0. /\ main = "lanes" /\ LookLane(w) /\ lane[w] = "head" /\ Core /\ Fixed /\ CoreType /\ LookType
      /\ storing[w] = {} /\ target[w] = Target(cycles)
  BY Zenon, LookActive, LookRuns DEF HeadMiss, RunStates
<1>1. /\ lane'[w] \in {"scan", "next"}
      /\ UNCHANGED <<plan, cycles, epoch, todo, cur, done, target, allReady>>
  BY Zenon, <1>0 DEF HeadMiss, CoreType, mainVars
<1>2. Quiet(w)
  BY Zenon, <1>0 DEF HeadMiss, Quiet, CoreType, LaneKinds, mainVars, poolVars
<1>3. CoreType' /\ LookType'
  BY Zenon, <1>0 DEF CoreType, LookType, HeadMiss, mainVars, poolVars, MTasks, LaneKinds
<1>4. Core'
  BY Zenon, <1>0, <1>1, <1>2, <1>3, QuietKeeps
<1>5. /\ OwnMTasks(w)' = OwnMTasks(w)
      /\ \A x : (Head(w, x)' <=> Head(w, x)) /\ (Done(x)' <=> Done(x))
  BY Zenon, <1>1 DEF OwnMTasks, MTasks, Head, Least, Done
<1>6. LookLane(w)'
  BY Zenon, <1>0, <1>1, <1>5 DEF LookLane, RunStates
<1> QED BY Zenon, <1>1, <1>2, <1>3, <1>4, <1>6, LookQuiet DEF RunStates

LEMMA ScanNextKeeps ==
  ASSUME LookInv, NEW w \in Owners, NEW j \in todo[w], ScanNext(w, j) PROVE LookInv'
<1>0. /\ main = "lanes" /\ LookLane(w) /\ lane[w] = "scan" /\ Core /\ Fixed /\ CoreType /\ LookType
      /\ storing[w] = {} /\ target[w] = Target(cycles)
      /\ j \notin done[w] /\ plan.locals[j] \cap (todo[w] \ done[w]) = {}
  BY Zenon, LookActive, LookRuns DEF ScanNext, Candidate, RunStates
<1>a. j \in MTasks /\ j \in Nat /\ plan.waits[j] \in SUBSET plan.slots
  BY <1>0, PlanFacts DEF CoreType
<1>1. /\ lane'[w] = "candidate" /\ cur'[w] = j /\ waiting'[w] = plan.waits[j]
      /\ UNCHANGED <<plan, cycles, epoch, todo, done, target, ready, allReady>>
  BY Zenon, <1>0 DEF ScanNext, CoreType, mainVars, lookVars
<1>2. Quiet(w)
  BY Zenon, <1>0 DEF ScanNext, Quiet, CoreType, LaneKinds, mainVars, poolVars
<1>3. CoreType' /\ LookType'
  BY Zenon, <1>0, <1>a DEF CoreType, LookType, ScanNext, mainVars, poolVars, lookVars, MTasks, LaneKinds
<1>4. Core'
  BY Zenon, <1>0, <1>1, <1>2, <1>3, QuietKeeps
<1>5. /\ OwnMTasks(w)' = OwnMTasks(w)
      /\ \A x : (Head(w, x)' <=> Head(w, x)) /\ (Done(x)' <=> Done(x))
  BY Zenon, <1>1 DEF OwnMTasks, MTasks, Head, Least, Done
<1>6. /\ plan'.locals[cur'[w]] \cap (todo'[w] \ done'[w]) = {}
      /\ cur'[w] \in todo'[w] \ done'[w]
      /\ plan'.waits[cur'[w]] \ waiting'[w] = {}
  BY Zenon, <1>0, <1>1
<1>7. LookLane(w)'
  BY <1>0, <1>1, <1>5, <1>6 DEF LookLane, RunStates
<1> QED BY Zenon, <1>1, <1>2, <1>3, <1>4, <1>7, LookQuiet DEF RunStates

LEMMA ScanMissKeeps ==
  ASSUME LookInv, NEW w \in Owners, NEW m \in todo[w], ScanMiss(w, m) PROVE LookInv'
<1>0. /\ main = "lanes" /\ LookLane(w) /\ lane[w] = "scan" /\ Core /\ Fixed /\ CoreType /\ LookType
      /\ storing[w] = {} /\ target[w] = Target(cycles) /\ Head(w, m)
  BY Zenon, LookActive, LookRuns DEF ScanMiss, RunStates
<1>a. m \in MTasks /\ m \in Nat /\ plan.waits[m] \in SUBSET plan.slots
  BY Zenon, <1>0, HeadLeast, PlanFacts
<1>1. /\ lane'[w] = "wait" /\ cur'[w] = m /\ waiting'[w] = plan.waits[m]
      /\ UNCHANGED <<plan, cycles, epoch, todo, done, target, ready, allReady>>
  BY Zenon, <1>0 DEF ScanMiss, CoreType, mainVars, lookVars
<1>2. Quiet(w)
  BY Zenon, <1>0 DEF ScanMiss, Quiet, CoreType, LaneKinds, LaneStates, mainVars, poolVars
<1>3. CoreType' /\ LookType'
  BY Zenon, <1>0, <1>a DEF CoreType, LookType, ScanMiss, mainVars, poolVars, lookVars, MTasks, LaneKinds, LaneStates
<1>4. Core'
  BY Zenon, <1>0, <1>1, <1>2, <1>3, QuietKeeps
<1>5. /\ OwnMTasks(w)' = OwnMTasks(w) /\ Head(w, cur[w])' /\ m \in todo[w] \ done[w]
      /\ \A x : (Head(w, x)' <=> Head(w, x)) /\ (Done(x)' <=> Done(x))
  BY Zenon, <1>0, <1>1 DEF OwnMTasks, MTasks, Head, Least, Done, LookLane, RunStates
<1>6. LookLane(w)'
  BY <1>0, <1>1, <1>5 DEF LookLane, RunStates
<1> QED BY Zenon, <1>1, <1>2, <1>3, <1>4, <1>6, LookQuiet DEF RunStates

LEMMA CandidateLoadKeeps ==
  ASSUME LookInv, NEW w \in Owners, NEW s \in waiting[w], CandidateLoad(w, s) PROVE LookInv'
<1>0. /\ main = "lanes" /\ LookLane(w) /\ lane[w] = "candidate" /\ Core /\ Fixed /\ CoreType
      /\ LookType /\ storing[w] = {} /\ target[w] = Target(cycles)
  BY Zenon, LookActive, LookRuns DEF CandidateLoad, RunStates
<1>1. /\ \/ lane'[w] = "scan"
         \/ lane'[w] = "candidate" /\ waiting'[w] = waiting[w] \ {s} /\ ready[s] = Target(cycles)
      /\ UNCHANGED <<plan, cycles, epoch, todo, cur, done, target, ready, allReady>>
  BY Zenon, <1>0 DEF CandidateLoad, CoreType, mainVars, lookVars
<1>2. Quiet(w)
  BY Zenon, <1>0 DEF CandidateLoad, Quiet, CoreType, LaneKinds, mainVars, poolVars
<1>3. CoreType' /\ LookType'
  BY <1>0 DEF CoreType, LookType, CandidateLoad, mainVars, poolVars, lookVars, MTasks, LaneKinds
<1>4. Core'
  BY Zenon, <1>0, <1>1, <1>2, <1>3, QuietKeeps
<1>5. /\ OwnMTasks(w)' = OwnMTasks(w) /\ Target(cycles)' = Target(cycles)
      /\ \A x : (Head(w, x)' <=> Head(w, x)) /\ (Done(x)' <=> Done(x))
  BY Zenon, <1>1 DEF OwnMTasks, MTasks, Head, Least, Done, Target, Even
<1>6. lane'[w] = "candidate" =>
        /\ plan.locals[cur[w]] \cap (todo[w] \ done[w]) = {}
        /\ \A t \in plan.waits[cur[w]] \ waiting'[w] : ready[t] = Target(cycles)
  BY Zenon, <1>0, <1>1 DEF LookLane
<1>7. LookLane(w)'
  BY <1>0, <1>1, <1>5, <1>6 DEF LookLane, RunStates
<1> QED BY Zenon, <1>1, <1>2, <1>3, <1>4, <1>7, LookQuiet DEF RunStates

LEMMA LookPassWaitKeeps ==
  ASSUME LookInv, NEW w \in Owners, NEW s \in waiting[w], PassWait(w, s), UNCHANGED lookVars
  PROVE  LookInv'
<1>0. /\ main = "lanes" /\ LookLane(w) /\ lane[w] = "wait" /\ Core /\ Fixed /\ CoreType /\ LookType
      /\ storing[w] = {} /\ target[w] = Target(cycles)
  BY Zenon, LookActive, LookRuns DEF PassWait, RunStates
<1>1. /\ waiting'[w] = waiting[w] \ {s} /\ ready[s] = Target(cycles)
      /\ UNCHANGED <<plan, cycles, epoch, lane, todo, cur, done, target, ready, allReady>>
  BY Zenon, <1>0 DEF PassWait, CoreType, lookVars
<1>2. Quiet(w)
  BY Zenon, <1>0 DEF PassWait, Quiet, CoreType, LaneKinds, LaneStates, poolVars
<1>3. CoreType' /\ LookType'
  BY Zenon, <1>0 DEF CoreType, LookType, PassWait, poolVars, lookVars, MTasks
<1>4. Core'
  BY Zenon, <1>0, <1>1, <1>2, <1>3, QuietKeeps
<1>5. /\ OwnMTasks(w)' = OwnMTasks(w) /\ Target(cycles)' = Target(cycles)
      /\ Head(w, cur[w])' <=> Head(w, cur[w])
      /\ \A x : (Head(w, x)' <=> Head(w, x)) /\ (Done(x)' <=> Done(x))
  BY Zenon, <1>1 DEF OwnMTasks, MTasks, Head, Least, Done, Target, Even
<1>6. \A t \in plan.waits[cur[w]] \ waiting'[w] : ready[t] = Target(cycles)
  BY Zenon, <1>0, <1>1 DEF LookLane
<1>7. LookLane(w)'
  BY <1>0, <1>1, <1>5, <1>6 DEF LookLane, RunStates
<1> QED BY Zenon, <1>0, <1>1, <1>2, <1>3, <1>4, <1>7, LookQuiet DEF RunStates

-----------------------------------------------------------------------------
(* Starting and ending a body *)

\* An MTask whose local prerequisites have run and whose tokens are there has
\* everything done that the order puts before it.
LEMMA PrereqsEnough ==
  ASSUME LookaheadAssumption, Core, main = "lanes", NEW m \in MTasks,
         \A q \in plan.locals[m] : Done(q),
         \A s \in plan.waits[m] : ready[s] = Target(cycles),
         NEW p \in MTasks, <<p, m>> \in plan.order
  PROVE  Done(p)
<1>1. Fixed /\ TokenInv /\ OrderInv
  BY Zenon DEF Core
<1>2. PICK r \in Prereqs(plan, m) : p = r \/ <<p, r>> \in plan.order
  BY Zenon, <1>1, LookPlanFacts
<1>3. CASE r \in plan.locals[m]
  <2>1. r \in MTasks /\ Done(r)
    BY Zenon, <1>1, <1>3, LookPlanFacts
  <2> QED BY Zenon, <1>1, <1>2, <2>1 DEF OrderInv
<1>4. ASSUME NEW s \in plan.waits[m], r = plan.writer[s] PROVE Done(p)
  <2>1. s \in plan.slots /\ r \in MTasks
    BY Zenon, <1>1, <1>4, PlanFacts
  <2>2. Done(r)
    BY Zenon, <1>1, <1>4, <2>1 DEF TokenInv
  <2> QED BY Zenon, <1>1, <1>2, <2>1, <2>2 DEF OrderInv
<1> QED BY Zenon, <1>3, <1>4 DEF Prereqs

\* What the head still needs of its own worker lies behind it.
LEMMA HeadLocals ==
  ASSUME LookaheadAssumption, LookInv, NEW w \in Owners, LookLane(w),
         lane[w] \in RunStates, Head(w, cur[w])
  PROVE  \A q \in plan.locals[cur[w]] : Done(q)
<1> SUFFICES ASSUME NEW q \in plan.locals[cur[w]] PROVE Done(q)
  OBVIOUS
<1>1. /\ Fixed /\ cur[w] \in MTasks /\ cur[w] \in OwnMTasks(w) /\ cur[w] \in Nat
      /\ \A x \in todo[w] : cur[w] <= x /\ x \in Nat
  BY Zenon, HeadLeast DEF LookInv, Core, LookLane
<1>2. q \in OwnMTasks(w) /\ q < cur[w] /\ q \in Nat
  BY <1>1, LookPlanFacts, PlanFacts DEF OwnMTasks
<1>3. q \notin todo[w]
  BY <1>1, <1>2
<1> QED BY Zenon, <1>2, <1>3 DEF LookLane

\* The body starts, in order, out of order or after blocking: everything it
\* depends on has run.
LEMMA StartsBody ==
  ASSUME LookaheadAssumption, LookInv, NEW w \in Owners,
         lane[w] \in {"head", "candidate", "wait"}, waiting[w] = {},
         lane[w] = "head" => allReady[w],
         lane' = [lane EXCEPT ![w] = "body"],
         UNCHANGED <<mainVars, ready, target, todo, cur, waiting, storing, epoch, lookVars>>
  PROVE  LookInv'
<1>0. /\ main = "lanes" /\ LookLane(w) /\ Core /\ Fixed /\ CoreType /\ LookType
      /\ storing[w] = {} /\ target[w] = Target(cycles)
  BY Zenon, LookActive, LookRuns DEF RunStates
<1>a. /\ cur[w] \in todo[w] \ done[w] /\ cur[w] \in MTasks /\ cur[w] \in OwnMTasks(w)
      /\ Pending(cur[w])
  <2>1. cur[w] \in todo[w] \ done[w] /\ cur[w] \in MTasks /\ cur[w] \in OwnMTasks(w) /\ ~Done(cur[w])
    BY Zenon, <1>0 DEF LookLane, RunStates, OwnMTasks
  <2> QED BY Zenon, <1>0, <2>1 DEF Core, EpochInv
<1>1. lane'[w] = "body" /\ UNCHANGED <<plan, cycles, epoch, todo, cur, done, target, allReady>>
  BY Zenon, <1>0 DEF CoreType, mainVars, lookVars
<1>2. Quiet(w)
  BY Zenon, <1>0 DEF Quiet, CoreType, LaneKinds, LaneStates, mainVars, poolVars
<1>3. CoreType' /\ LookType'
  BY Zenon, <1>0 DEF CoreType, LookType, mainVars, poolVars, lookVars, MTasks, LaneKinds, LaneStates
<1>4. \A q \in plan.locals[cur[w]] : Done(q)
  <2>1. CASE lane[w] = "candidate"
    <3> SUFFICES ASSUME NEW q \in plan.locals[cur[w]] PROVE Done(q)
      OBVIOUS
    <3>1. q \in OwnMTasks(w)
      BY <1>0, <1>a, LookPlanFacts DEF OwnMTasks
    <3>2. q \notin todo[w] \/ q \in done[w]
      BY Zenon, <1>0, <2>1 DEF LookLane
    <3> QED BY Zenon, <1>0, <2>1, <3>1, <3>2 DEF LookLane, RunStates
  <2>2. CASE lane[w] # "candidate"
    BY Zenon, <1>0, <2>2, HeadLocals DEF LookLane, RunStates
  <2> QED BY Zenon, <2>1, <2>2
<1>5. \A s \in plan.waits[cur[w]] : ready[s] = Target(cycles)
  BY Zenon, <1>0 DEF LookLane
<1>6. \A p \in MTasks : <<p, cur[w]>> \in plan.order => Done(p)
  BY Zenon, <1>0, <1>a, <1>4, <1>5, PrereqsEnough
<1>7. Core'
  BY Zenon, <1>0, <1>a, <1>1, <1>2, <1>3, <1>6, QuietKeeps
<1>8. /\ OwnMTasks(w)' = OwnMTasks(w)
      /\ \A x : (Head(w, x)' <=> Head(w, x)) /\ (Done(x)' <=> Done(x))
  BY Zenon, <1>1 DEF OwnMTasks, MTasks, Head, Least, Done
<1>9. LookLane(w)'
  BY <1>0, <1>a, <1>1, <1>8 DEF LookLane, RunStates
<1> QED BY Zenon, <1>1, <1>2, <1>3, <1>7, <1>9, LookQuiet DEF RunStates

LEMMA HeadReadyKeeps == ASSUME LookaheadAssumption, LookInv, NEW w \in Owners, HeadReady(w) PROVE LookInv'
BY Zenon, StartsBody DEF HeadReady

LEMMA CandidateReadyKeeps ==
  ASSUME LookaheadAssumption, LookInv, NEW w \in Owners, CandidateReady(w) PROVE LookInv'
BY Zenon, StartsBody DEF CandidateReady

LEMMA LookBodyStartKeeps ==
  ASSUME LookaheadAssumption, LookInv, NEW w \in Owners, BodyStart(w), UNCHANGED lookVars PROVE LookInv'
BY Zenon, StartsBody DEF BodyStart, mainVars

\* The head moves past itself and past what ran out of order behind it.
LEMMA AdvanceKeeps == ASSUME LookInv, NEW w \in Owners, Advance(w) PROVE LookInv'
<1>0. /\ main = "lanes" /\ LookLane(w) /\ lane[w] = "store" /\ storing[w] = {}
      /\ Core /\ Fixed /\ CoreType /\ LookType /\ target[w] = Target(cycles)
      /\ cur[w] \in todo[w] \ done[w] /\ todo[w] \subseteq OwnMTasks(w) /\ done[w] \subseteq todo[w]
      /\ \A m \in OwnMTasks(w) : m \in MTasks /\ m \in Nat
      /\ \A m \in todo[w] : m \in Nat
  BY Zenon, LookActive, PlanFacts DEF Advance, LookLane, LaneCore, RunStates, OwnMTasks
<1>1. lane'[w] = "next" /\ UNCHANGED <<plan, cycles, epoch, cur, target, allReady>>
  BY Zenon, <1>0 DEF Advance, CoreType, mainVars
<1>2. Quiet(w) /\ \A v \in Owners \ {w} : done'[v] = done[v]
  BY <1>0 DEF Advance, Quiet, CoreType, LookType, LaneKinds, mainVars, poolVars
<1>3. CoreType' /\ LookType'
  <2>1. todo' \in [Owners -> SUBSET MTasks]
    BY <1>0 DEF Advance, CoreType
  <2>2. done' \in [Owners -> SUBSET MTasks]
    BY <1>0 DEF Advance, LookType
  <2>3. lane' \in [Owners -> LaneKinds]
    BY Zenon, <1>0 DEF Advance, CoreType, LaneKinds
  <2>4. UNCHANGED <<plan, env, main, phase, busy, cycles, primed, ready, target, cur, waiting, storing,
                    serialTodo, epoch, tail, allReady>>
    BY Zenon DEF Advance, mainVars, poolVars
  <2> QED BY Zenon, <1>0, <2>1, <2>2, <2>3, <2>4 DEF CoreType, LookType, MTasks
<1>4. Core'
  BY Zenon, <1>0, <1>1, <1>2, <1>3, QuietKeeps
<1>5. /\ \A m \in todo[w] : Done(m) <=> m \in done[w] \/ m = cur[w]
      /\ \A m \in OwnMTasks(w) \ todo[w] : Done(m) /\ \A x \in todo[w] : m < x
      /\ \A m \in done[w] : ~Head(w, m)
  BY Zenon, <1>0 DEF LookLane, RunStates
<1>6. SUFFICES /\ todo'[w] \subseteq OwnMTasks(w)
               /\ done'[w] \subseteq todo'[w]
               /\ \A m \in OwnMTasks(w) \ todo'[w] : Done(m) /\ \A x \in todo'[w] : m < x
               /\ \A m \in todo'[w] : Done(m) <=> m \in done'[w]
               /\ \A m \in done'[w] : ~Head(w, m)'
  <2>1. OwnMTasks(w)' = OwnMTasks(w) /\ \A x : Done(x)' <=> Done(x)
    BY Zenon, <1>1 DEF OwnMTasks, MTasks, Done
  <2>2. LookLane(w)'
    BY Zenon, <1>1, <1>6, <2>1 DEF LookLane
  <2> QED BY Zenon, <1>1, <1>2, <1>3, <1>4, <2>2, LookQuiet DEF RunStates
<1>7. CASE Head(w, cur[w])
  <2> DEFINE left == todo[w] \ {cur[w]}
             rest == {x \in left : \E y \in left : y <= x /\ y \notin done[w]}
  <2>1. todo'[w] = rest /\ done'[w] = done[w] \cap rest
    BY <1>0, <1>7 DEF Advance, CoreType, LookType
  <2>2. \A m \in left \ rest : m \in done[w] /\ \A x \in rest : m < x
    <3> SUFFICES ASSUME NEW m \in left \ rest PROVE m \in done[w] /\ \A x \in rest : m < x
      OBVIOUS
    <3>1. m \in Nat /\ \A y \in left : y \in Nat
      BY Zenon, <1>0
    <3>2. \A y \in left : y <= m => y \in done[w]
      OBVIOUS
    <3>3. m \in done[w]
      BY <3>1, <3>2
    <3>4. ASSUME NEW x \in rest PROVE m < x
      <4>1. PICK y \in left : y <= x /\ y \notin done[w]
        OBVIOUS
      <4>2. m < y
        BY <3>1, <3>2, <4>1
      <4> QED BY <3>1, <4>1, <4>2
    <3> QED BY Zenon, <3>3, <3>4
  <2>3. \A m \in left : cur[w] < m
    BY <1>0, <1>7, HeadLeast
  <2>4. \A m \in OwnMTasks(w) \ rest : Done(m) /\ \A x \in rest : m < x
    <3> SUFFICES ASSUME NEW m \in OwnMTasks(w) \ rest PROVE Done(m) /\ \A x \in rest : m < x
      OBVIOUS
    <3>1. CASE m \notin todo[w]
      BY Zenon, <1>5, <3>1
    <3>2. CASE m = cur[w]
      BY Zenon, <1>0, <1>5, <2>3, <3>2
    <3>3. CASE m \in left
      BY Zenon, <1>5, <2>2, <3>3
    <3> QED BY Zenon, <3>1, <3>2, <3>3
  <2>5. \A m \in rest : Done(m) <=> m \in done[w] \cap rest
    BY Zenon, <1>5
  <2>6. ASSUME NEW m \in done[w] \cap rest PROVE ~Head(w, m)'
    <3>1. PICK y \in left : y <= m /\ y \notin done[w]
      BY Zenon, <2>6
    <3>2. y \in rest /\ y # m /\ y \in Nat /\ m \in Nat
      BY <1>0, <2>6, <3>1
    <3> QED BY <2>1, <3>1, <3>2 DEF Head, Least
  <2> HIDE DEF rest
  <2>7. rest \subseteq OwnMTasks(w)
    BY Zenon, <1>0 DEF rest
  <2> QED BY Zenon, <2>1, <2>4, <2>5, <2>6, <2>7
<1>8. CASE ~Head(w, cur[w])
  <2>1. todo'[w] = todo[w] /\ done'[w] = done[w] \cup {cur[w]}
    BY <1>0, <1>8 DEF Advance, CoreType, LookType
  <2>2. \A m : Head(w, m)' <=> Head(w, m)
    BY Zenon, <2>1 DEF Head, Least
  <2> QED BY Zenon, <1>0, <1>5, <1>8, <2>1, <2>2
<1> QED BY Zenon, <1>7, <1>8

LEMMA LookEndKeeps == ASSUME LookInv, NEW w \in Owners, LookEnd(w) PROVE LookInv'
<1>0. /\ main = "lanes" /\ LookLane(w) /\ lane[w] = "next" /\ todo[w] = {} /\ done[w] = {}
      /\ Core /\ Fixed /\ CoreType /\ LookType /\ storing[w] = {}
  BY LookActive, LookRuns DEF LookEnd, LookLane, RunStates
<1>a. /\ \A v \in Owners : lane'[v] = IF v = w THEN "done" ELSE lane[v]
      /\ UNCHANGED <<plan, cycles, main, ready, todo, cur, waiting, epoch, done, tail, allReady>>
  BY Zenon, <1>0 DEF CoreType, LookEnd, lookVars
<1>1. \A m \in OwnMTasks(w) : Done(m)
  BY Zenon, <1>0 DEF LookLane, RunStates
<1>2. Core'
  BY Zenon, <1>0, <1>1, EndKeeps DEF LookEnd
<1>3. LookType' /\ BitsInv'
  BY Zenon, <1>0, <1>a DEF LookType, MTasks, LookInv, BitsInv
<1>4. ASSUME NEW v \in Owners, v # w PROVE LookLane(v)'
  <2>1. LookLane(v)
    BY Zenon, <1>0 DEF LookInv, LookLanes
  <2> QED BY Zenon, <1>0, <1>a, <1>4, <2>1, LookFrame
<1>5. LookLane(w)'
  BY Zenon, <1>a DEF LookLane, RunStates
<1> QED BY Zenon, <1>2, <1>3, <1>4, <1>5 DEF LookInv, LookLanes

\* The body ends: the MTask becomes done while it still counts as ahead.
LEMMA LookBodyEndKeeps ==
  ASSUME LookInv, NEW w \in Owners, BodyEnd(w), UNCHANGED lookVars PROVE LookInv'
<1>0. Core /\ main = "lanes" /\ LookLane(w) /\ lane[w] = "body" /\ Fixed /\ LookType
  BY Zenon, LookActive DEF BodyEnd
<1>c. Core'
  BY Zenon, <1>0, BodyEndKeepsCore
<1>a. /\ cur[w] \in MTasks /\ plan.owner[cur[w]] = w
      /\ \A m \in MTasks : epoch'[m] = IF m = cur[w] THEN cycles + 1 ELSE epoch[m]
      /\ \A v \in Owners : lane'[v] = IF v = w THEN "store" ELSE lane[v]
      /\ UNCHANGED <<plan, cycles, main, ready, todo, cur, waiting>>
  BY <1>0, BodyEndEffect
<1>b. UNCHANGED <<done, tail, allReady>>
  BY Zenon DEF lookVars
<1>1. LookType'
  BY Zenon, <1>0, <1>a, <1>b DEF LookType, MTasks
<1>2. BitsInv'
  BY Zenon, <1>a, <1>b DEF LookInv, BitsInv, RunStates
<1>3. ASSUME NEW v \in Owners, v # w PROVE LookLane(v)'
  <2>1. \A m \in OwnMTasks(v) : epoch'[m] = epoch[m]
    BY Zenon, <1>a, <1>3 DEF OwnMTasks
  <2>2. LookLane(v)
    BY Zenon, <1>0 DEF LookInv, LookLanes
  <2> QED BY Zenon, <1>0, <1>a, <1>b, <1>3, <2>1, <2>2, LookFrame
<1>4. LookLane(w)'
  <2>1. /\ OwnMTasks(w)' = OwnMTasks(w)
        /\ \A x : Head(w, x)' <=> Head(w, x)
        /\ \A m \in MTasks : Done(m)' <=> Done(m) \/ m = cur[w]
    BY Zenon, <1>a DEF OwnMTasks, MTasks, Head, Least, Done
  <2>2. /\ todo[w] \subseteq OwnMTasks(w) /\ done[w] \subseteq todo[w]
        /\ \A m \in OwnMTasks(w) \ todo[w] : Done(m) /\ \A x \in todo[w] : m < x
        /\ \A m \in todo[w] : Done(m) <=> m \in done[w]
        /\ \A m \in done[w] : ~Head(w, m)
        /\ cur[w] \in todo[w] \ done[w]
    BY Zenon, <1>0 DEF LookLane, RunStates
  <2>3. OwnMTasks(w) \subseteq MTasks
    BY Zenon DEF OwnMTasks
  <2>4. /\ \A m \in todo[w] : Done(m)' <=> m \in done[w] \/ m = cur[w]
        /\ \A m \in OwnMTasks(w) \ todo[w] : Done(m)' /\ \A x \in todo[w] : m < x
    BY Zenon, <2>1, <2>2, <2>3
  <2> QED BY <1>a, <1>b, <2>1, <2>2, <2>4 DEF LookLane
<1> QED BY Zenon, <1>c, <1>1, <1>2, <1>3, <1>4 DEF LookInv, LookLanes

LEMMA LookStoreTokenKeeps ==
  ASSUME LookInv, NEW w \in Owners, NEW s \in storing[w], StoreToken(w, s), UNCHANGED lookVars
  PROVE  LookInv'
<1>0. /\ Core /\ main = "lanes" /\ lane[w] = "store" /\ Fixed /\ CoreType
      /\ target[w] = Target(cycles)
  BY Zenon, LookActive DEF StoreToken, LaneCore
<1>c. Core'
  BY Zenon, <1>0, StoreKeepsCore
<1>a. /\ \A t \in plan.slots : ready[t] = Target(cycles) => ready'[t] = Target(cycles)
      /\ UNCHANGED <<plan, cycles, main, lane, todo, cur, waiting, epoch, done, tail, allReady>>
  BY Zenon, <1>0 DEF StoreToken, CoreType, lookVars
<1>1. LookType' /\ BitsInv'
  BY Zenon, <1>a DEF LookInv, LookType, MTasks, BitsInv
<1>2. ASSUME NEW v \in Owners PROVE LookLane(v)'
  <2>1. LookLane(v)
    BY Zenon, <1>0 DEF LookInv, LookLanes
  <2> QED BY Zenon, <1>0, <1>a, <2>1, LookFrame
<1> QED BY Zenon, <1>c, <1>1, <1>2 DEF LookInv, LookLanes

\* The main thread starts the lanes or leaves them off.
LEMMA LookMainKeeps == ASSUME LookInv, LookMain PROVE LookInv'
<1>0. Core /\ MainStep /\ plan' = plan /\ UNCHANGED <<done, tail, allReady>>
  BY Zenon DEF LookInv, LookMain, lookVars, MainStep, StepParallel, StepSerial, SerialEnd, StepJoin, SerialBody
<1>1. Core'
  BY Zenon, <1>0, MainKeepsCore
<1>2. LookType'
  BY Zenon, <1>0 DEF LookInv, LookType, MTasks
<1>3. main' = "lanes" => \A w \in Owners : lane'[w] = "posted"
  BY Zenon, <1>0 DEF MainStep, StepParallel, StepSerial, SerialEnd, StepJoin, SerialBody
<1>4. LookLanes'
  BY Zenon, <1>3 DEF LookLanes, LookLane, RunStates
<1>5. \A w \in Owners : lane[w] \notin RunStates
  <2>1. CASE StepJoin
    BY Zenon, <1>0, <2>1, AllDoneAtJoin DEF RunStates
  <2>2. CASE ~StepJoin
    <3>1. main # "lanes"
      BY Zenon, <1>0, <2>2 DEF MainStep, StepParallel, StepSerial, SerialEnd, SerialBody
    <3> QED BY Zenon, <1>0, <3>1 DEF Core, ModeInv, RunStates
  <2> QED BY Zenon, <2>1, <2>2
<1>6. BitsInv'
  BY Zenon, <1>0, <1>5 DEF LookInv, BitsInv
<1> QED BY Zenon, <1>1, <1>2, <1>4, <1>6 DEF LookInv

LEMMA LookStutter == ASSUME LookInv, UNCHANGED <<vars, lookVars>> PROVE LookInv'
<1>0. UNCHANGED <<plan, main, cycles, ready, lane, todo, cur, waiting, epoch, done, tail, allReady>>
  BY Zenon DEF vars, laneVars, lookVars
<1>1. Core'
  BY Zenon, StutterKeepsCore DEF LookInv
<1>2. LookType' /\ BitsInv'
  BY Zenon, <1>0 DEF LookInv, LookType, MTasks, BitsInv
<1>3. LookLanes'
  <2> SUFFICES ASSUME main = "lanes", NEW v \in Owners PROVE LookLane(v)'
    BY Zenon, <1>0 DEF LookLanes
  <2>1. LookLane(v) /\ Fixed
    BY Zenon DEF LookInv, LookLanes, Core
  <2> QED BY Zenon, <1>0, <2>1, LookFrame
<1> QED BY Zenon, <1>1, <1>2, <1>3 DEF LookInv

-----------------------------------------------------------------------------
(* The theorems *)

LEMMA InitLookInv == LookaheadInit => LookInv
<1> SUFFICES ASSUME LookaheadInit PROVE LookType /\ BitsInv /\ LookLanes
  BY Zenon, InitCore DEF LookInv, LookaheadInit
<1> QED BY Zenon DEF LookaheadInit, Init, LookType, BitsInv, LookLanes

LEMMA NextLookInv == ASSUME LookaheadAssumption PROVE LookInv /\ [LookaheadNext]_lookaheadVars => LookInv'
<1> SUFFICES ASSUME LookInv, [LookaheadNext]_lookaheadVars PROVE LookInv'
  OBVIOUS
<1>1. ASSUME NEW w \in Owners, LookStep(w) PROVE LookInv'
  <2>1. ASSUME NEW m \in todo[w], HeadProbe(w, m) \/ ScanNext(w, m) \/ ScanMiss(w, m) PROVE LookInv'
    BY Zenon, <2>1, HeadProbeKeeps, ScanNextKeeps, ScanMissKeeps
  <2>2. ASSUME NEW s \in waiting[w], HeadLoad(w, s) \/ CandidateLoad(w, s) PROVE LookInv'
    BY Zenon, <2>2, HeadLoadKeeps, CandidateLoadKeeps
  <2>3. CASE LookBegin(w) \/ HeadReady(w) \/ HeadMiss(w) \/ CandidateReady(w) \/ Advance(w) \/ LookEnd(w)
    BY Zenon, <2>3, LookBeginKeeps, HeadReadyKeeps, HeadMissKeeps, CandidateReadyKeeps, AdvanceKeeps, LookEndKeeps
  <2>4. CASE /\ \/ \E s \in waiting[w] : PassWait(w, s)
                \/ BodyStart(w)
                \/ BodyEnd(w)
                \/ \E s \in storing[w] : StoreToken(w, s)
             /\ UNCHANGED lookVars
    BY Zenon, <2>4, LookPassWaitKeeps, LookBodyStartKeeps, LookBodyEndKeeps, LookStoreTokenKeeps
  <2> QED BY Zenon, <1>1, <2>1, <2>2, <2>3, <2>4 DEF LookStep
<1>2. CASE LookIdle \/ UNCHANGED lookaheadVars
  BY Zenon, <1>2, LookStutter DEF LookIdle, Halt, Spin, lookaheadVars
<1> QED BY Zenon, <1>1, <1>2, LookMainKeeps DEF LookaheadNext

LEMMA LookInvariance == ASSUME LookaheadAssumption PROVE LookaheadSpec => []LookInv
BY InitLookInv, NextLookInv, PTL DEF LookaheadSpec

\* stepDenseLookaheadTail never runs a body before the bodies it depends on, nor
\* at the same time as one that depends on it, however far it looks ahead.
THEOREM LookaheadDepsBeforeBody == ASSUME LookaheadAssumption PROVE LookaheadSpec => []DepsBeforeBody
<1>1. LookInv => DepsBeforeBody
  BY Zenon, CoreDeps DEF LookInv
<1> QED BY <1>1, LookInvariance, PTL

\* Each call of stepDense with lookahead runs every MTask once and leaves the
\* tokens in phase for the next call.
THEOREM LookaheadCycleComplete == ASSUME LookaheadAssumption PROVE LookaheadSpec => []CycleComplete
<1>1. LookInv => CycleComplete
  BY Zenon, CoreComplete DEF LookInv
<1> QED BY <1>1, LookInvariance, PTL

\* Every step runs one body in dependence order, ends a complete cycle, or is
\* invisible.
LEMMA LookNextRefines == LookInv /\ [LookaheadNext]_lookaheadVars => [DC!DCNext]_(DC!dcVars)
<1> SUFFICES ASSUME LookInv, [LookaheadNext]_lookaheadVars PROVE [DC!DCNext]_(DC!dcVars)
  OBVIOUS
<1>1. CASE LookMain
  BY Zenon, <1>1, MainRefines DEF LookInv, LookMain
<1>2. ASSUME NEW w \in Owners, LookStep(w) PROVE [DC!DCNext]_(DC!dcVars)
  <2>1. CASE BodyEnd(w)
    BY Zenon, <2>1, BodyEndRefines DEF LookInv
  <2>2. CASE ~BodyEnd(w)
    BY ZenonT(20), <1>2, <2>2 DEF LookStep, LookBegin, HeadProbe, HeadLoad, HeadReady, HeadMiss, ScanNext, ScanMiss,
              CandidateLoad, CandidateReady, Advance, LookEnd, PassWait, BodyStart, StoreToken,
              mainVars, DC!dcVars
  <2> QED BY Zenon, <2>1, <2>2
<1>3. CASE LookIdle \/ UNCHANGED lookaheadVars
  <2>1. UNCHANGED vars
    BY Zenon, <1>3 DEF LookIdle, Halt, Spin, lookaheadVars
  <2> QED BY Zenon, <2>1 DEF vars, DC!dcVars
<1> QED BY Zenon, <1>1, <1>2, <1>3 DEF LookaheadNext

\* stepDense with lookahead implements DenseCycle: each body once per cycle and
\* in dependence order, for every sound plan, worker count and window.
THEOREM LookaheadImplementsDenseCycle ==
  ASSUME LookaheadAssumption PROVE LookaheadSpec => ImplementsDenseCycle
<1>1. LookaheadInit => DC!DCInit
  BY Zenon, InitRefines DEF LookaheadInit
<1> QED BY <1>1, LookNextRefines, LookInvariance, PTL DEF LookaheadSpec, ImplementsDenseCycle, DC!DCSpec
=============================================================================
