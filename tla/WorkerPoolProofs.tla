-------------------------- MODULE WorkerPoolProofs --------------------------
(***************************************************************************)
(* For every number of threads, either join and any number of jobs: the    *)
(* payload is stable while a worker uses it, the join is complete, no job  *)
(* starts after the stop, and the pool implements ForkJoin.                *)
(***************************************************************************)
EXTENDS WorkerPool, FiniteSetTheorems, TLAPS

Startup == {"spawning", "starting"}
Open == {"work", "join"}
Stopping == {"stopping", "closing", "stopped"}

\* Workers that have acknowledged the open job, and workers past the start.
Acked == {w \in Workers : main \in Open /\ seen[w] = generation /\ pc[w] \in {"spin", "load"}}
Started == {w \in Workers : pc[w] \in {"spin", "load"}}

\* The generation counts the posted jobs, and the stop is one more.
GenerationInv ==
  /\ main \in Startup => generation = 0
  /\ main \in Startup \cup {"idle", "stopping"} \cup Open => generation = payload.number
  /\ main = "publish" => payload.number = generation + 1
  /\ main \in Open => generation # 0
  /\ stop <=> main \in Stopping

\* Where worker w can be, given where the main thread is.
WorkerInv(w) ==
  /\ main \in Startup =>
       /\ pc[w] \in {"none", "entry", "baseline", "spin", "load"}
       /\ seen[w] = 0
       /\ FlagJoin => doneFlags[w] = 0
  /\ main \in {"idle", "publish"} =>
       /\ pc[w] \in {"spin", "load"}
       /\ seen[w] = generation
       /\ FlagJoin => doneFlags[w] = generation % 2
  /\ main \in Open =>
       \/ /\ seen[w] # generation /\ pc[w] \in {"spin", "load"}
          /\ FlagJoin => doneFlags[w] # generation % 2
       \/ /\ seen[w] = generation /\ pc[w] \in {"check", "run", "signal"}
          /\ FlagJoin => doneFlags[w] # generation % 2
       \/ /\ seen[w] = generation /\ pc[w] \in {"spin", "load"}
          /\ FlagJoin => doneFlags[w] = generation % 2
          /\ w < payload.workerCount => ran[w] = payload.number
  /\ main = "idle" /\ w < payload.workerCount => ran[w] = payload.number
  /\ main = "stopping" => pc[w] \in {"spin", "load", "exited"}
  /\ main \in {"closing", "stopped"} => pc[w] \in {"spin", "load", "check", "exited"}
  /\ pc[w] \in {"run", "signal"} => job[w] = payload
  /\ pc[w] = "signal" /\ w < payload.workerCount => ran[w] = payload.number

\* The counters count.
CountInv ==
  /\ main \in Startup => readyCount = Cardinality(Started)
  /\ ~FlagJoin /\ main \in {"publish"} \cup Open => doneCount = Cardinality(Acked)

\* Threads are spawned in order, before the first payload.
SpawnInv ==
  /\ main \in Startup => payload.workerCount = 0
  /\ main = "spawning" => \A w \in Workers : w > spawned => pc[w] = "none"

\* A worker knows the current generation when the stop is requested.
SeenInv == main = "stopping" => \A w \in Workers : seen[w] = generation

PInv ==
  /\ TypeOK
  /\ GenerationInv
  /\ \A w \in Workers : WorkerInv(w)
  /\ CountInv
  /\ SpawnInv
  /\ SeenInv

-----------------------------------------------------------------------------
LEMMA Parity == ASSUME NEW n \in Nat PROVE n % 2 \in {0, 1} /\ (n + 1) % 2 # n % 2
OBVIOUS

LEMMA WorkersFinite == IsFiniteSet(Workers) /\ Cardinality(Workers) = Threads
BY PoolAssumption, FS_Interval DEF Workers

LEMMA SubsetFinite ==
  ASSUME NEW S \in SUBSET Workers
  PROVE  /\ IsFiniteSet(S) /\ Cardinality(S) \in Nat
         /\ Cardinality(S) >= Threads => S = Workers
         /\ \A w \in Workers \ S : Cardinality(S \cup {w}) = Cardinality(S) + 1
<1>1. IsFiniteSet(S) /\ Cardinality(S) <= Threads /\ (Threads = Cardinality(S) => S = Workers)
  BY Zenon, WorkersFinite, FS_Subset
<1>2. Cardinality(S) \in Nat
  BY Zenon, <1>1, FS_CardinalityType
<1>3. \A w \in Workers \ S : Cardinality(S \cup {w}) = Cardinality(S) + 1
  BY Zenon, <1>1, FS_AddElement
<1> QED BY <1>1, <1>2, <1>3, PoolAssumption

LEMMA SpawnNextKeeps == ASSUME PInv, SpawnNext PROVE PInv'
<1> USE PoolAssumption
<1>1. TypeOK'
  <2>1. spawned' \in 0..Threads /\ spawned + 1 \in Workers /\ main' \in MainStates
    BY DEF PInv, TypeOK, SpawnNext, Workers, MainStates
  <2>2. pc' \in [Workers -> WorkerStates]
    BY Zenon, <2>1 DEF PInv, TypeOK, SpawnNext, WorkerStates
  <2> QED BY Zenon, <2>1, <2>2 DEF PInv, TypeOK, SpawnNext, joinVars
<1>2. GenerationInv'
  BY Zenon DEF PInv, TypeOK, GenerationInv, SpawnNext, mainVars, joinVars, workerVars, Startup, Open, Stopping, Payload
<1>3. ASSUME NEW v \in Workers PROVE WorkerInv(v)'
  BY Zenon, Parity DEF PInv, TypeOK, GenerationInv, WorkerInv, SpawnNext, mainVars, joinVars, workerVars, Startup, Open, Stopping, Payload
<1>4. CountInv'
  <2>1. spawned + 1 \in Workers
    BY DEF PInv, TypeOK, SpawnNext, Workers
  <2>2. pc[spawned + 1] = "none"
    <3>1. spawned + 1 > spawned
      BY DEF PInv, TypeOK
    <3> QED BY Zenon, <2>1, <3>1 DEF PInv, SpawnNext, SpawnInv
  <2>3. Started' = Started
    BY Zenon, <2>1, <2>2 DEF PInv, TypeOK, SpawnNext, Started
  <2> QED BY Zenon, <2>3 DEF PInv, CountInv, SpawnNext, joinVars, Startup, Open
<1>5. SpawnInv' /\ SeenInv'
  BY DEF PInv, TypeOK, SpawnInv, SeenInv, WorkerInv, GenerationInv, SpawnNext, mainVars, joinVars, workerVars, Startup, Open, Stopping, Workers
<1> QED BY Zenon, <1>1, <1>2, <1>3, <1>4, <1>5 DEF PInv, Workers

LEMMA StartReturnKeeps == ASSUME PInv, StartReturn PROVE PInv'
<1> USE PoolAssumption
<1>1. TypeOK'
  BY ZenonT(30) DEF PInv, TypeOK, StartReturn, mainVars, joinVars, workerVars, Workers, Payload, MainStates, WorkerStates
<1>2. GenerationInv'
  BY Zenon DEF PInv, TypeOK, GenerationInv, StartReturn, mainVars, joinVars, workerVars, Startup, Open, Stopping, Payload
<1>3. ASSUME NEW v \in Workers PROVE WorkerInv(v)'
  <2>1. Started = Workers
    BY Zenon, SubsetFinite DEF PInv, CountInv, StartReturn, Startup, Started
  <2>2. generation = 0 /\ payload.number = 0 /\ seen[v] = 0 /\ (FlagJoin => doneFlags[v] = 0)
    BY Zenon DEF PInv, GenerationInv, WorkerInv, StartReturn, Startup
  <2>3. pc[v] \in {"spin", "load"} /\ 0 % 2 = 0
    BY <2>1 DEF Started
  <2>4. payload.workerCount = 0 /\ v >= 1
    BY DEF PInv, SpawnInv, StartReturn, Startup, Workers
  <2> QED BY <2>2, <2>3, <2>4 DEF PInv, WorkerInv, StartReturn, joinVars, workerVars, Startup, Open, TypeOK, Workers
<1>4. CountInv'
  BY Zenon DEF PInv, TypeOK, GenerationInv, WorkerInv, CountInv, Acked, Started, StartReturn, mainVars, joinVars, workerVars, Startup, Open, Stopping
<1>5. SpawnInv' /\ SeenInv'
  BY Zenon DEF PInv, TypeOK, SpawnInv, SeenInv, WorkerInv, GenerationInv, StartReturn, mainVars, joinVars, workerVars, Startup, Open, Stopping, Workers
<1> QED BY Zenon, <1>1, <1>2, <1>3, <1>4, <1>5 DEF PInv, Workers

LEMMA PublishKeeps == ASSUME PInv, NEW wc \in 2..(Threads + 1), Publish(wc) PROVE PInv'
<1> USE PoolAssumption
<1>1. TypeOK'
  <2>1. payload' \in Payload
    BY DEF PInv, TypeOK, Publish, Payload
  <2>2. doneCount' \in Nat
    BY Zenon DEF PInv, TypeOK, Publish
  <2> QED BY Zenon, <2>1, <2>2 DEF PInv, TypeOK, Publish, workerVars, MainStates
<1>2. GenerationInv'
  BY Zenon DEF PInv, TypeOK, GenerationInv, Publish, mainVars, joinVars, workerVars, Startup, Open, Stopping, Payload
<1>3. ASSUME NEW v \in Workers PROVE WorkerInv(v)'
  BY Zenon, Parity DEF PInv, TypeOK, GenerationInv, WorkerInv, Publish, mainVars, joinVars, workerVars, Startup, Open, Stopping, Payload
<1>4. CountInv'
  <2>1. Acked' = {} /\ main' = "publish"
    BY Zenon DEF Publish, Acked, Open
  <2> QED BY Zenon, <2>1, FS_EmptySet DEF CountInv, Publish, Startup
<1>5. SpawnInv' /\ SeenInv'
  BY Zenon DEF PInv, TypeOK, SpawnInv, SeenInv, WorkerInv, GenerationInv, Publish, mainVars, joinVars, workerVars, Startup, Open, Stopping, Workers
<1> QED BY Zenon, <1>1, <1>2, <1>3, <1>4, <1>5 DEF PInv, Workers

LEMMA PostKeeps == ASSUME PInv, Post PROVE PInv'
<1> USE PoolAssumption
<1>1. TypeOK'
  BY DEF PInv, TypeOK, Post, joinVars, workerVars, MainStates
<1>2. GenerationInv'
  BY DEF PInv, TypeOK, GenerationInv, Post, mainVars, joinVars, workerVars, Startup, Open, Stopping, Payload
<1>3. ASSUME NEW v \in Workers PROVE WorkerInv(v)'
  BY Zenon, Parity DEF PInv, TypeOK, GenerationInv, WorkerInv, Post, mainVars, joinVars, workerVars, Startup, Open, Stopping, Payload
<1>4. CountInv'
  <2>1. \A v \in Workers : seen[v] = generation
    BY Zenon DEF PInv, WorkerInv, Post
  <2>2. generation + 1 # generation
    BY DEF PInv, TypeOK
  <2>3. Acked = {} /\ Acked' = {}
    BY Zenon, <2>1, <2>2 DEF Post, Acked, Open, workerVars
  <2> QED BY Zenon, <2>3 DEF PInv, CountInv, Post, joinVars, Startup, Open
<1>5. SpawnInv' /\ SeenInv'
  BY Zenon DEF PInv, TypeOK, SpawnInv, SeenInv, WorkerInv, GenerationInv, Post, mainVars, joinVars, workerVars, Startup, Open, Stopping, Workers
<1> QED BY Zenon, <1>1, <1>2, <1>3, <1>4, <1>5 DEF PInv, Workers

LEMMA MainWorkKeeps == ASSUME PInv, MainWork PROVE PInv'
<1> USE PoolAssumption
<1>1. TypeOK'
  BY ZenonT(30) DEF PInv, TypeOK, MainWork, mainVars, joinVars, workerVars, Workers, Payload, MainStates, WorkerStates
<1>2. GenerationInv'
  BY Zenon DEF PInv, TypeOK, GenerationInv, MainWork, mainVars, joinVars, workerVars, Startup, Open, Stopping, Payload
<1>3. ASSUME NEW v \in Workers PROVE WorkerInv(v)'
  BY Zenon, Parity DEF PInv, TypeOK, GenerationInv, WorkerInv, MainWork, mainVars, joinVars, workerVars, Startup, Open, Stopping, Payload
<1>4. CountInv'
  BY Zenon DEF PInv, TypeOK, GenerationInv, WorkerInv, CountInv, Acked, Started, MainWork, mainVars, joinVars, workerVars, Startup, Open, Stopping
<1>5. SpawnInv' /\ SeenInv'
  BY Zenon DEF PInv, TypeOK, SpawnInv, SeenInv, WorkerInv, GenerationInv, MainWork, mainVars, joinVars, workerVars, Startup, Open, Stopping, Workers
<1> QED BY Zenon, <1>1, <1>2, <1>3, <1>4, <1>5 DEF PInv, Workers

LEMMA WaitForDoneKeeps == ASSUME PInv, WaitForDone PROVE PInv'
<1> USE PoolAssumption
<1>1. TypeOK'
  BY ZenonT(30) DEF PInv, TypeOK, WaitForDone, mainVars, joinVars, workerVars, Workers, Payload, MainStates, WorkerStates
<1>2. GenerationInv'
  BY Zenon DEF PInv, TypeOK, GenerationInv, WaitForDone, mainVars, joinVars, workerVars, Startup, Open, Stopping, Payload
<1>3. ASSUME NEW v \in Workers PROVE WorkerInv(v)'
  <2>1. WorkerInv(v) /\ main = "join"
    BY Zenon DEF PInv, WaitForDone
  <2>2. seen[v] = generation /\ pc[v] \in {"spin", "load"}
        /\ (FlagJoin => doneFlags[v] = generation % 2)
        /\ (v < payload.workerCount => ran[v] = payload.number)
    <3>1. CASE FlagJoin
      BY Zenon, <2>1, <3>1 DEF WorkerInv, WaitForDone, AllDone, Open
    <3>2. CASE ~FlagJoin
      <4>1. Acked = Workers
        BY Zenon, <3>2, SubsetFinite DEF PInv, CountInv, WaitForDone, AllDone, Acked, Open
      <4> QED BY Zenon, <2>1, <3>2, <4>1 DEF WorkerInv, Acked, Open
    <3> QED BY Zenon, <3>1, <3>2
  <2> QED BY Zenon, <2>1, <2>2 DEF WorkerInv, WaitForDone, joinVars, workerVars, Startup, Open
<1>4. CountInv'
  BY Zenon DEF PInv, TypeOK, GenerationInv, WorkerInv, CountInv, Acked, Started, WaitForDone, mainVars, joinVars, workerVars, Startup, Open, Stopping
<1>5. SpawnInv' /\ SeenInv'
  BY Zenon DEF PInv, TypeOK, SpawnInv, SeenInv, WorkerInv, GenerationInv, WaitForDone, mainVars, joinVars, workerVars, Startup, Open, Stopping, Workers
<1> QED BY Zenon, <1>1, <1>2, <1>3, <1>4, <1>5 DEF PInv, Workers

LEMMA StopStoreKeeps == ASSUME PInv, StopStore PROVE PInv'
<1> USE PoolAssumption
<1>1. TypeOK'
  BY ZenonT(30) DEF PInv, TypeOK, StopStore, mainVars, joinVars, workerVars, Workers, Payload, MainStates, WorkerStates
<1>2. GenerationInv'
  BY Zenon DEF PInv, TypeOK, GenerationInv, StopStore, mainVars, joinVars, workerVars, Startup, Open, Stopping, Payload
<1>3. ASSUME NEW v \in Workers PROVE WorkerInv(v)'
  BY Zenon, Parity DEF PInv, TypeOK, GenerationInv, WorkerInv, StopStore, mainVars, joinVars, workerVars, Startup, Open, Stopping, Payload
<1>4. CountInv'
  BY Zenon DEF PInv, TypeOK, GenerationInv, WorkerInv, CountInv, Acked, Started, StopStore, mainVars, joinVars, workerVars, Startup, Open, Stopping
<1>5. SpawnInv' /\ SeenInv'
  BY Zenon DEF PInv, TypeOK, SpawnInv, SeenInv, WorkerInv, GenerationInv, StopStore, mainVars, joinVars, workerVars, Startup, Open, Stopping, Workers
<1> QED BY Zenon, <1>1, <1>2, <1>3, <1>4, <1>5 DEF PInv, Workers

LEMMA StopBumpKeeps == ASSUME PInv, StopBump PROVE PInv'
<1> USE PoolAssumption
<1>1. TypeOK'
  BY DEF PInv, TypeOK, StopBump, joinVars, workerVars, MainStates
<1>2. GenerationInv'
  BY Zenon DEF PInv, TypeOK, GenerationInv, StopBump, mainVars, joinVars, workerVars, Startup, Open, Stopping, Payload
<1>3. ASSUME NEW v \in Workers PROVE WorkerInv(v)'
  BY Zenon, Parity DEF PInv, TypeOK, GenerationInv, WorkerInv, StopBump, mainVars, joinVars, workerVars, Startup, Open, Stopping, Payload
<1>4. CountInv'
  BY Zenon DEF PInv, TypeOK, GenerationInv, WorkerInv, CountInv, Acked, Started, StopBump, mainVars, joinVars, workerVars, Startup, Open, Stopping
<1>5. SpawnInv' /\ SeenInv'
  BY Zenon DEF PInv, TypeOK, SpawnInv, SeenInv, WorkerInv, GenerationInv, StopBump, mainVars, joinVars, workerVars, Startup, Open, Stopping, Workers
<1> QED BY Zenon, <1>1, <1>2, <1>3, <1>4, <1>5 DEF PInv, Workers

LEMMA JoinThreadsKeeps == ASSUME PInv, JoinThreads PROVE PInv'
<1> USE PoolAssumption
<1>1. TypeOK'
  BY ZenonT(30) DEF PInv, TypeOK, JoinThreads, mainVars, joinVars, workerVars, Workers, Payload, MainStates, WorkerStates
<1>2. GenerationInv'
  BY Zenon DEF PInv, TypeOK, GenerationInv, JoinThreads, mainVars, joinVars, workerVars, Startup, Open, Stopping, Payload
<1>3. ASSUME NEW v \in Workers PROVE WorkerInv(v)'
  BY Zenon, Parity DEF PInv, TypeOK, GenerationInv, WorkerInv, JoinThreads, mainVars, joinVars, workerVars, Startup, Open, Stopping, Payload
<1>4. CountInv'
  BY Zenon DEF PInv, TypeOK, GenerationInv, WorkerInv, CountInv, Acked, Started, JoinThreads, mainVars, joinVars, workerVars, Startup, Open, Stopping
<1>5. SpawnInv' /\ SeenInv'
  BY Zenon DEF PInv, TypeOK, SpawnInv, SeenInv, WorkerInv, GenerationInv, JoinThreads, mainVars, joinVars, workerVars, Startup, Open, Stopping, Workers
<1> QED BY Zenon, <1>1, <1>2, <1>3, <1>4, <1>5 DEF PInv, Workers

LEMMA BaselineKeeps == ASSUME PInv, NEW w \in Workers, Baseline(w) PROVE PInv'
<1> USE PoolAssumption
<1>1. TypeOK'
  BY SMTT(30) DEF PInv, TypeOK, Baseline, mainVars, joinVars, workerVars, Workers, Payload, MainStates, WorkerStates
<1>2. GenerationInv'
  BY Zenon DEF PInv, TypeOK, GenerationInv, Baseline, mainVars, joinVars, workerVars, Startup, Open, Stopping, Payload
<1>3. ASSUME NEW v \in Workers PROVE WorkerInv(v)'
  BY Zenon, Parity DEF PInv, TypeOK, GenerationInv, WorkerInv, Baseline, mainVars, joinVars, workerVars, Startup, Open, Stopping, Payload
<1>4. CountInv'
  BY ZenonT(30) DEF PInv, TypeOK, GenerationInv, WorkerInv, CountInv, Acked, Started, Baseline, mainVars, joinVars, workerVars, Startup, Open, Stopping
<1>5. SpawnInv' /\ SeenInv'
  BY Zenon DEF PInv, TypeOK, SpawnInv, SeenInv, WorkerInv, GenerationInv, Baseline, mainVars, joinVars, workerVars, Startup, Open, Stopping, Workers
<1> QED BY Zenon, <1>1, <1>2, <1>3, <1>4, <1>5 DEF PInv, Workers

LEMMA ReadyKeeps == ASSUME PInv, NEW w \in Workers, Ready(w) PROVE PInv'
<1> USE PoolAssumption
<1>1. TypeOK'
  BY SMTT(30) DEF PInv, TypeOK, Ready, mainVars, joinVars, workerVars, Workers, Payload, MainStates, WorkerStates
<1>2. GenerationInv'
  BY Zenon DEF PInv, TypeOK, GenerationInv, Ready, mainVars, joinVars, workerVars, Startup, Open, Stopping, Payload
<1>3. ASSUME NEW v \in Workers PROVE WorkerInv(v)'
  BY Zenon, Parity DEF PInv, TypeOK, GenerationInv, WorkerInv, Ready, mainVars, joinVars, workerVars, Startup, Open, Stopping, Payload
<1>4. CountInv'
  <2>1. main \in Startup
    BY Zenon DEF PInv, WorkerInv, Ready, TypeOK, MainStates, Startup, Open
  <2>2. w \notin Started /\ Started \in SUBSET Workers /\ Started' = Started \cup {w}
    BY Zenon DEF PInv, TypeOK, Ready, Started
  <2>3. readyCount' = Cardinality(Started')
    BY Zenon, <2>1, <2>2, SubsetFinite DEF PInv, CountInv, Ready
  <2> QED BY Zenon, <2>1, <2>3 DEF CountInv, Ready, mainVars, Startup, Open
<1>5. SpawnInv' /\ SeenInv'
  BY Zenon DEF PInv, TypeOK, SpawnInv, SeenInv, WorkerInv, GenerationInv, Ready, mainVars, joinVars, workerVars, Startup, Open, Stopping, Workers
<1> QED BY Zenon, <1>1, <1>2, <1>3, <1>4, <1>5 DEF PInv, Workers

LEMMA SpinStopKeeps == ASSUME PInv, NEW w \in Workers, SpinStop(w) PROVE PInv'
<1> USE PoolAssumption
<1>1. TypeOK'
  BY SMTT(30) DEF PInv, TypeOK, SpinStop, mainVars, joinVars, workerVars, Workers, Payload, MainStates, WorkerStates
<1>2. GenerationInv'
  BY Zenon DEF PInv, TypeOK, GenerationInv, SpinStop, mainVars, joinVars, workerVars, Startup, Open, Stopping, Payload
<1>3. ASSUME NEW v \in Workers PROVE WorkerInv(v)'
  BY Zenon, Parity DEF PInv, TypeOK, GenerationInv, WorkerInv, SpinStop, mainVars, joinVars, workerVars, Startup, Open, Stopping, Payload
<1>4. CountInv'
  BY ZenonT(30) DEF PInv, TypeOK, GenerationInv, WorkerInv, CountInv, Acked, Started, SpinStop, mainVars, joinVars, workerVars, Startup, Open, Stopping
<1>5. SpawnInv' /\ SeenInv'
  BY Zenon DEF PInv, TypeOK, SpawnInv, SeenInv, WorkerInv, GenerationInv, SpinStop, mainVars, joinVars, workerVars, Startup, Open, Stopping, Workers
<1> QED BY Zenon, <1>1, <1>2, <1>3, <1>4, <1>5 DEF PInv, Workers

LEMMA SpinLoadKeeps == ASSUME PInv, NEW w \in Workers, SpinLoad(w) PROVE PInv'
<1> USE PoolAssumption
<1>1. TypeOK'
  BY ZenonT(30) DEF PInv, TypeOK, SpinLoad, mainVars, joinVars, workerVars, Workers, Payload, MainStates, WorkerStates
<1>2. GenerationInv'
  BY Zenon DEF PInv, TypeOK, GenerationInv, SpinLoad, mainVars, joinVars, workerVars, Startup, Open, Stopping, Payload
<1>3. ASSUME NEW v \in Workers PROVE WorkerInv(v)'
  <2>1. /\ seen'[v] = IF v = w THEN generation ELSE seen[v]
        /\ pc'[v] = IF v = w THEN (IF generation # seen[w] THEN "check" ELSE "spin") ELSE pc[v]
    BY Zenon DEF PInv, TypeOK, SpinLoad
  <2>2. WorkerInv(v) /\ WorkerInv(w) /\ pc[w] = "load"
    BY Zenon DEF PInv, SpinLoad
  <2>3. main = "stopping" => seen[w] = generation
    BY Zenon, <2>2 DEF PInv, SeenInv
  <2> QED BY SMTT(30), <2>1, <2>2, <2>3 DEF PInv, WorkerInv, GenerationInv, SpinLoad, mainVars, joinVars, Startup, Open
<1>4. CountInv'
  <2>1. pc[w] = "load" /\ UNCHANGED <<main, generation, readyCount, doneCount>>
    BY Zenon DEF SpinLoad, mainVars, joinVars
  <2>2. \A v \in Workers :
          /\ seen'[v] = IF v = w THEN generation ELSE seen[v]
          /\ pc'[v] = IF v = w THEN (IF generation # seen[w] THEN "check" ELSE "spin") ELSE pc[v]
    BY Zenon DEF PInv, TypeOK, SpinLoad
  <2>3. Acked' = Acked
    BY Zenon, <2>1, <2>2 DEF Acked, Open
  <2>4. main \in Startup => seen[w] = generation
    BY Zenon DEF PInv, WorkerInv, GenerationInv
  <2>5. main \in Startup => Started' = Started
    BY Zenon, <2>1, <2>2, <2>4 DEF Started
  <2> QED BY Zenon, <2>1, <2>3, <2>5 DEF PInv, CountInv
<1>5. SpawnInv' /\ SeenInv'
  BY Zenon DEF PInv, TypeOK, SpawnInv, SeenInv, WorkerInv, GenerationInv, SpinLoad, mainVars, joinVars, workerVars, Startup, Open, Stopping, Workers
<1> QED BY Zenon, <1>1, <1>2, <1>3, <1>4, <1>5 DEF PInv, Workers

LEMMA CheckKeeps == ASSUME PInv, NEW w \in Workers, Check(w) PROVE PInv'
<1> USE PoolAssumption
<1>1. TypeOK'
  <2>1. pc' \in [Workers -> WorkerStates] /\ job' \in [Workers -> Payload]
    BY DEF PInv, TypeOK, Check, WorkerStates
  <2> QED BY Zenon, <2>1 DEF PInv, TypeOK, Check, mainVars, joinVars
<1>2. GenerationInv'
  BY Zenon DEF PInv, TypeOK, GenerationInv, Check, mainVars, joinVars, workerVars, Startup, Open, Stopping, Payload
<1>3. ASSUME NEW v \in Workers PROVE WorkerInv(v)'
  <2>1. WorkerInv(v) /\ WorkerInv(w) /\ pc[w] = "check" /\ main \in MainStates
    BY Zenon DEF PInv, Check, TypeOK
  <2>2. main \in Open \cup {"closing", "stopped"}
    BY SMTT(30), <2>1 DEF WorkerInv, MainStates, Startup, Open
  <2>3. CASE v # w
    BY <2>1, <2>3 DEF PInv, TypeOK, WorkerInv, Check, mainVars, joinVars
  <2>4. CASE v = w /\ stop
    <3>1. pc'[v] = "exited" /\ main \in {"closing", "stopped"}
      BY SMTT(30), <2>2, <2>4 DEF PInv, TypeOK, GenerationInv, Check, Stopping, Open
    <3> QED BY Zenon, <3>1 DEF WorkerInv, Check, mainVars, Startup, Open
  <2>5. CASE v = w /\ ~stop
    <3>1. /\ pc'[v] \in {"run", "signal"} /\ job'[v] = payload /\ main \in Open
          /\ pc'[v] = "signal" => v >= payload.workerCount
      BY Zenon, <2>2, <2>5 DEF PInv, TypeOK, GenerationInv, Check, Stopping, Open
    <3>2. ~(pc'[v] = "signal" /\ v < payload.workerCount)
      BY <3>1 DEF PInv, TypeOK, Payload, Workers
    <3> QED BY Zenon, <2>1, <2>5, <3>1, <3>2 DEF WorkerInv, Check, mainVars, joinVars, Startup, Open
  <2> QED BY Zenon, <2>3, <2>4, <2>5
<1>4. CountInv'
  BY ZenonT(30) DEF PInv, TypeOK, GenerationInv, WorkerInv, CountInv, Acked, Started, Check, mainVars, joinVars, workerVars, Startup, Open, Stopping
<1>5. SpawnInv' /\ SeenInv'
  BY Zenon DEF PInv, TypeOK, SpawnInv, SeenInv, WorkerInv, GenerationInv, Check, mainVars, joinVars, workerVars, Startup, Open, Stopping, Workers
<1> QED BY Zenon, <1>1, <1>2, <1>3, <1>4, <1>5 DEF PInv, Workers

LEMMA RunJobKeeps == ASSUME PInv, NEW w \in Workers, RunJob(w) PROVE PInv'
<1> USE PoolAssumption
<1>1. TypeOK'
  BY SMTT(30) DEF PInv, TypeOK, RunJob, mainVars, joinVars, workerVars, Workers, Payload, MainStates, WorkerStates
<1>2. GenerationInv'
  BY Zenon DEF PInv, TypeOK, GenerationInv, RunJob, mainVars, joinVars, workerVars, Startup, Open, Stopping, Payload
<1>3. ASSUME NEW v \in Workers PROVE WorkerInv(v)'
  BY Parity DEF PInv, TypeOK, GenerationInv, WorkerInv, RunJob, mainVars, joinVars, workerVars, Startup, Open, Stopping, Payload
<1>4. CountInv'
  BY ZenonT(30) DEF PInv, TypeOK, GenerationInv, WorkerInv, CountInv, Acked, Started, RunJob, mainVars, joinVars, workerVars, Startup, Open, Stopping
<1>5. SpawnInv' /\ SeenInv'
  BY Zenon DEF PInv, TypeOK, SpawnInv, SeenInv, WorkerInv, GenerationInv, RunJob, mainVars, joinVars, workerVars, Startup, Open, Stopping, Workers
<1> QED BY Zenon, <1>1, <1>2, <1>3, <1>4, <1>5 DEF PInv, Workers

LEMMA SignalDoneKeeps == ASSUME PInv, NEW w \in Workers, SignalDone(w) PROVE PInv'
<1> USE PoolAssumption
<1>1. TypeOK'
  <2>1. doneFlags' \in [Workers -> {0, 1}]
    BY Zenon, Parity DEF PInv, TypeOK, SignalDone
  <2>2. doneCount' \in Nat /\ pc' \in [Workers -> WorkerStates]
    BY DEF PInv, TypeOK, SignalDone, WorkerStates
  <2> QED BY Zenon, <2>1, <2>2 DEF PInv, TypeOK, SignalDone, mainVars
<1>2. GenerationInv'
  BY Zenon DEF PInv, TypeOK, GenerationInv, SignalDone, mainVars, joinVars, workerVars, Startup, Open, Stopping, Payload
<1>3. ASSUME NEW v \in Workers PROVE WorkerInv(v)'
  BY Zenon, Parity DEF PInv, TypeOK, GenerationInv, WorkerInv, SignalDone, mainVars, joinVars, workerVars, Startup, Open, Stopping, Payload
<1>4. CountInv'
  <2>1. main \in Open /\ seen[w] = generation
    BY Zenon DEF PInv, TypeOK, WorkerInv, SignalDone, MainStates, Startup, Open
  <2>2. w \notin Acked /\ Acked \in SUBSET Workers /\ Acked' = Acked \cup {w}
    BY Zenon, <2>1 DEF PInv, TypeOK, SignalDone, mainVars, Acked, Open
  <2>3. ~FlagJoin => doneCount' = Cardinality(Acked')
    BY Zenon, <2>1, <2>2, SubsetFinite DEF PInv, CountInv, SignalDone
  <2> QED BY Zenon, <2>1, <2>3 DEF CountInv, SignalDone, mainVars, Startup, Open
<1>5. SpawnInv' /\ SeenInv'
  BY Zenon DEF PInv, TypeOK, SpawnInv, SeenInv, WorkerInv, GenerationInv, SignalDone, mainVars, joinVars, workerVars, Startup, Open, Stopping, Workers
<1> QED BY Zenon, <1>1, <1>2, <1>3, <1>4, <1>5 DEF PInv, Workers

-----------------------------------------------------------------------------
LEMMA InitPInv == Init => PInv
<1> USE PoolAssumption
<1> SUFFICES ASSUME Init PROVE PInv
  OBVIOUS
<1>1. TypeOK
  <2>1. [number |-> 0, workerCount |-> 0] \in Payload
    BY DEF Payload
  <2>2. 0 \in 0..Threads /\ 0 \in Nat /\ FALSE \in BOOLEAN
    OBVIOUS
  <2> HIDE PoolAssumption
  <2> QED BY ZenonT(30), <2>1, <2>2 DEF Init, TypeOK, MainStates, WorkerStates
<1>2. GenerationInv /\ SpawnInv /\ SeenInv
  BY Zenon DEF Init, GenerationInv, SpawnInv, SeenInv, Startup, Open, Stopping
<1>3. \A w \in Workers : WorkerInv(w)
  BY Zenon DEF Init, WorkerInv, Startup, Open
<1>4. CountInv
  <2>1. Started = {} /\ main \in Startup /\ readyCount = 0
    BY Zenon DEF Init, Started, Startup
  <2> QED BY Zenon, <2>1, FS_EmptySet DEF CountInv, Startup, Open
<1> QED BY Zenon, <1>1, <1>2, <1>3, <1>4 DEF PInv

LEMMA NextPInv == PInv /\ [Next]_vars => PInv'
<1> SUFFICES ASSUME PInv, [Next]_vars PROVE PInv'
  OBVIOUS
<1>1. CASE MainNext
  BY Zenon, <1>1, SpawnNextKeeps, StartReturnKeeps, PublishKeeps, PostKeeps, MainWorkKeeps,
     WaitForDoneKeeps, StopStoreKeeps, StopBumpKeeps, JoinThreadsKeeps DEF MainNext
<1>2. ASSUME NEW w \in Workers, WorkerNext(w) PROVE PInv'
  BY Zenon, <1>2, BaselineKeeps, ReadyKeeps, SpinStopKeeps, SpinLoadKeeps, CheckKeeps,
     RunJobKeeps, SignalDoneKeeps DEF WorkerNext
<1>3. CASE UNCHANGED vars
  BY SMTT(30), <1>3 DEF PInv, TypeOK, GenerationInv, WorkerInv, CountInv, SpawnInv, SeenInv,
     Acked, Started, AllDone, vars, mainVars, joinVars, workerVars
<1> QED BY Zenon, <1>1, <1>2, <1>3 DEF Next, Destroyed

\* Every reachable state of the pool satisfies the inductive invariant.
THEOREM PoolInvariance == Spec => []PInv
BY InitPInv, NextPInv, PTL DEF Spec

\* Type correctness of the pool, for every number of threads and both joins.
THEOREM PoolTypes == Spec => []TypeOK
<1>1. PInv => TypeOK
  BY Zenon DEF PInv
<1> QED BY <1>1, PoolInvariance, PTL

\* mtWorkerPoolLoop: what a worker holds inside a job is the job of the
\* generation it saw, whatever the number of workers and jobs.
THEOREM PayloadStableHolds == Spec => []PayloadStable
<1>1. PInv => PayloadStable
  <2> SUFFICES ASSUME PInv, NEW w \in Workers, pc[w] \in {"run", "signal"}
               PROVE job[w].number = seen[w] /\ job[w] = payload
    BY Zenon DEF PayloadStable
  <2>1. WorkerInv(w) /\ main \in MainStates
    BY Zenon DEF PInv, TypeOK
  <2>2. main \in Open /\ job[w] = payload /\ seen[w] = generation
    BY Zenon, <2>1 DEF WorkerInv, MainStates, Startup, Open
  <2> QED BY Zenon, <2>2 DEF PInv, GenerationInv
<1> QED BY <1>1, PoolInvariance, PTL

\* mtWorkerPoolWaitForDone returns only when every background worker, active
\* or not, is back in its spin loop, and the active ones have run the job.
THEOREM JoinCompleteHolds == Spec => []JoinComplete
<1>1. PInv => JoinComplete
  BY Zenon DEF PInv, WorkerInv, JoinComplete
<1> QED BY <1>1, PoolInvariance, PTL

\* stopMtWorkerPool's generation bump is never taken for a job.
THEOREM NoJobAfterStopHolds == Spec => NoJobAfterStop
<1>1. ASSUME PInv, [Next]_vars
      PROVE [\A w \in Workers : stop /\ pc[w] # "run" => pc'[w] # "run"]_vars
  <2> SUFFICES ASSUME Next, NEW w \in Workers, stop, pc[w] # "run" PROVE pc'[w] # "run"
    BY Zenon, <1>1
  <2>1. pc \in [Workers -> WorkerStates]
    BY Zenon, <1>1 DEF PInv, TypeOK
  <2>2. CASE MainNext
    BY ZenonT(30), <1>1, <2>1, <2>2 DEF MainNext, SpawnNext, StartReturn, Publish, Post, MainWork,
       WaitForDone, StopStore, StopBump, JoinThreads, workerVars
  <2>3. ASSUME NEW v \in Workers, WorkerNext(v) PROVE pc'[w] # "run"
    BY Zenon, <2>1, <2>3 DEF WorkerNext, Baseline, Ready, SpinStop, SpinLoad, Check, RunJob,
       SignalDone
  <2>4. CASE Destroyed
    BY Zenon, <2>4 DEF Destroyed, vars, workerVars
  <2> QED BY Zenon, <2>2, <2>3, <2>4 DEF Next
<1> QED BY <1>1, PoolInvariance, PTL DEF Spec, NoJobAfterStop

-----------------------------------------------------------------------------
(* Refinement: Post forks, SignalDone acknowledges, WaitForDone joins and    *)
(* StopBump closes; every other step stutters.                               *)

LEMMA InitForks == Init => FJ!FJInit
BY Zenon DEF Init, FJ!FJInit, PhaseOf, BusyOf

LEMMA NextForks == PInv /\ [Next]_vars => [FJ!FJNext]_(FJ!fjVars)
<1> SUFFICES ASSUME PInv, [Next]_vars PROVE [FJ!FJNext]_(FJ!fjVars)
  OBVIOUS
<1>1. ASSUME Post PROVE FJ!Fork
  <2>1. \A w \in Workers : seen[w] # generation'
    BY <1>1 DEF PInv, TypeOK, WorkerInv, Post
  <2> QED BY Zenon, <1>1, <2>1 DEF FJ!Fork, PhaseOf, BusyOf, Post, workerVars
<1>2. ASSUME NEW w \in Workers, SignalDone(w) PROVE FJ!Ack(w)
  <2>1. main \in Open /\ seen[w] = generation
    BY Zenon, <1>2 DEF PInv, TypeOK, WorkerInv, SignalDone, MainStates, Startup, Open
  <2>2. w \in BusyOf /\ BusyOf' = BusyOf \ {w}
    BY SMTT(30), <1>2, <2>1 DEF PInv, TypeOK, BusyOf, SignalDone, mainVars, Open
  <2>3. PhaseOf = "open" /\ PhaseOf' = PhaseOf
    BY Zenon, <1>2, <2>1 DEF PhaseOf, SignalDone, mainVars, Open
  <2> QED BY Zenon, <2>2, <2>3 DEF FJ!Ack
<1>3. ASSUME WaitForDone PROVE FJ!Join
  <2>2. BusyOf = {}
    <3>1. CASE FlagJoin
      BY Zenon, <1>3, <3>1 DEF PInv, WorkerInv, BusyOf, WaitForDone, AllDone, Open
    <3>2. CASE ~FlagJoin
      <4>1. Acked = Workers
        BY Zenon, <1>3, <3>2, SubsetFinite DEF PInv, CountInv, WaitForDone, AllDone, Acked, Open
      <4> QED BY Zenon, <4>1 DEF Acked, BusyOf
    <3> QED BY Zenon, <3>1, <3>2
  <2> QED BY Zenon, <1>3, <2>2 DEF FJ!Join, PhaseOf, BusyOf, WaitForDone
<1>4. ASSUME StopBump PROVE FJ!Close
  BY Zenon, <1>4 DEF FJ!Close, PhaseOf, BusyOf, StopBump
<1>5. ASSUME \/ SpawnNext \/ StartReturn \/ (\E wc \in 2..(Threads + 1) : Publish(wc))
             \/ MainWork \/ StopStore \/ JoinThreads \/ UNCHANGED vars
      PROVE UNCHANGED FJ!fjVars
  BY Zenon, <1>5 DEF SpawnNext, StartReturn, Publish, MainWork, StopStore, JoinThreads, vars,
     mainVars, workerVars, PhaseOf, BusyOf, FJ!fjVars
<1>6. ASSUME NEW w \in Workers,
             Baseline(w) \/ Ready(w) \/ SpinStop(w) \/ SpinLoad(w) \/ Check(w) \/ RunJob(w)
      PROVE UNCHANGED FJ!fjVars
  <2>1. PhaseOf' = PhaseOf
    BY Zenon, <1>6 DEF Baseline, Ready, SpinStop, SpinLoad, Check, RunJob, mainVars, PhaseOf
  <2>2. CASE main \notin Open
    BY SMTT(30), <1>6, <2>1, <2>2 DEF Baseline, Ready, SpinStop, SpinLoad, Check, RunJob, mainVars,
       BusyOf, Open, FJ!fjVars
  <2>3. CASE main \in Open
    <3>1. pc[w] \notin {"entry", "baseline"} /\ ~stop
      BY Zenon, <2>3 DEF PInv, WorkerInv, GenerationInv, Open, Stopping
    <3> QED BY SMTT(30), <1>6, <2>1, <2>3, <3>1 DEF PInv, TypeOK, Baseline, Ready, SpinStop, SpinLoad,
         Check, RunJob, mainVars, BusyOf, Open, FJ!fjVars
  <2> QED BY Zenon, <2>1, <2>2, <2>3 DEF FJ!fjVars
<1> QED BY Zenon, <1>1, <1>2, <1>3, <1>4, <1>5, <1>6
       DEF Next, MainNext, WorkerNext, Destroyed, FJ!FJNext

\* The pool implements its fork-join contract for every number of threads and
\* of jobs, with either join.
THEOREM PoolImplementsForkJoin == Spec => ImplementsForkJoin
BY InitForks, NextForks, PoolInvariance, PTL DEF Spec, ImplementsForkJoin, FJ!FJSpec
=============================================================================
