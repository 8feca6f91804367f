--------------------------- MODULE DenseLookahead ---------------------------
(***************************************************************************)
(* stepDense with bounded lookahead (GSIM_MT_DENSE_LOOKAHEAD): a lane runs *)
(* its MTasks in order as long as the tokens of the next one are there.    *)
(* When they are not it enters stepDenseLookaheadTail, which looks up to   *)
(* Window positions past the head for an MTask it may run out of order,    *)
(* and blocks on the head only when there is none.  The main thread, the   *)
(* tokens and the pool are those of DenseExecutor; plan.locals holds the   *)
(* same-worker prerequisites of an out-of-order candidate.                 *)
(***************************************************************************)
EXTENDS DenseExecutor

CONSTANT Window     \* kDenseLookaheadWindow

LookaheadAssumption ==
  /\ Window \in Nat \ {0}
  /\ \A p \in Plans : SoundLookahead(p)

VARIABLES done,     \* mtDenseDoneBits: MTasks past the head run out of order
          tail,     \* the lane is in stepDenseLookaheadTail
          allReady  \* mtDenseInlineReady / mtDenseEntryReady

lookVars == <<done, tail, allReady>>
mainVars == <<plan, env, main, poolVars, cycles, primed, serialTodo>>
lookaheadVars == <<vars, lookVars>>

\* todo holds the positions from the head on.
Head(w, m) == Least(todo[w], m)

\* Positions head + 1 .. head + Window of the lane.
InWindow(w, m) ==
  /\ m \in todo[w]
  /\ Cardinality({x \in todo[w] : x < m}) \in 1..Window

LookaheadInit ==
  /\ Init
  /\ done = [w \in Owners |-> {}]
  /\ tail = [w \in Owners |-> FALSE]
  /\ allReady = [w \in Owners |-> FALSE]

-----------------------------------------------------------------------------
\* Entry of the lane, in the inline code.
LookBegin(w) ==
  /\ lane[w] = "posted"
  /\ target' = [target EXCEPT ![w] = Target(cycles)]
  /\ todo' = [todo EXCEPT ![w] = OwnMTasks(w)]
  /\ tail' = [tail EXCEPT ![w] = FALSE]
  /\ lane' = [lane EXCEPT ![w] = "next"]
  /\ UNCHANGED <<mainVars, ready, cur, waiting, storing, epoch, done, allReady>>

\* Look at the head: all of its tokens are loaded, none is waited for.
HeadProbe(w, m) ==
  /\ lane[w] = "next"
  /\ Head(w, m)
  /\ cur' = [cur EXCEPT ![w] = m]
  /\ waiting' = [waiting EXCEPT ![w] = plan.waits[m]]
  /\ allReady' = [allReady EXCEPT ![w] = TRUE]
  /\ lane' = [lane EXCEPT ![w] = "head"]
  /\ UNCHANGED <<mainVars, ready, target, todo, storing, epoch, done, tail>>

HeadLoad(w, s) ==
  /\ lane[w] = "head"
  /\ Least(waiting[w], s)
  /\ allReady' = [allReady EXCEPT ![w] = @ /\ ready[s] = target[w]]
  /\ waiting' = [waiting EXCEPT ![w] = @ \ {s}]
  /\ UNCHANGED <<mainVars, ready, lane, target, todo, cur, storing, epoch, done, tail>>

HeadReady(w) ==
  /\ lane[w] = "head"
  /\ waiting[w] = {}
  /\ allReady[w]
  /\ lane' = [lane EXCEPT ![w] = "body"]
  /\ UNCHANGED <<mainVars, ready, target, todo, cur, waiting, storing, epoch, lookVars>>

\* The inline code hands the rest of the lane to the tail function, which looks
\* at the same head again; the tail function starts its scan.
HeadMiss(w) ==
  /\ lane[w] = "head"
  /\ waiting[w] = {}
  /\ ~allReady[w]
  /\ tail' = [tail EXCEPT ![w] = TRUE]
  /\ lane' = [lane EXCEPT ![w] = IF tail[w] THEN "scan" ELSE "next"]
  /\ UNCHANGED <<mainVars, ready, target, todo, cur, waiting, storing, epoch, done, allReady>>

\* The positions the scan has not refused yet: not run already, and with every
\* local prerequisite before the head or run out of order.
Candidate(w, j) ==
  /\ InWindow(w, j)
  /\ j > cur[w]
  /\ j \notin done[w]
  /\ plan.locals[j] \cap (todo[w] \ done[w]) = {}

ScanNext(w, j) ==
  /\ lane[w] = "scan"
  /\ Candidate(w, j)
  /\ \A x \in todo[w] : Candidate(w, x) => j <= x
  /\ cur' = [cur EXCEPT ![w] = j]
  /\ waiting' = [waiting EXCEPT ![w] = plan.waits[j]]
  /\ lane' = [lane EXCEPT ![w] = "candidate"]
  /\ UNCHANGED <<mainVars, ready, target, todo, storing, epoch, lookVars>>

\* The first missing token sends the scan on to the next position.
CandidateLoad(w, s) ==
  /\ lane[w] = "candidate"
  /\ Least(waiting[w], s)
  /\ \/ /\ ready[s] = target[w]
        /\ waiting' = [waiting EXCEPT ![w] = @ \ {s}]
        /\ UNCHANGED lane
     \/ /\ ready[s] # target[w]
        /\ lane' = [lane EXCEPT ![w] = "scan"]
        /\ UNCHANGED waiting
  /\ UNCHANGED <<mainVars, ready, target, todo, cur, storing, epoch, lookVars>>

CandidateReady(w) ==
  /\ lane[w] = "candidate"
  /\ waiting[w] = {}
  /\ lane' = [lane EXCEPT ![w] = "body"]
  /\ UNCHANGED <<mainVars, ready, target, todo, cur, waiting, storing, epoch, lookVars>>

\* Nothing in the window: block on the head, with the waits of DenseExecutor.
ScanMiss(w, m) ==
  /\ lane[w] = "scan"
  /\ \A x \in todo[w] : ~Candidate(w, x)
  /\ Head(w, m)
  /\ cur' = [cur EXCEPT ![w] = m]
  /\ waiting' = [waiting EXCEPT ![w] = plan.waits[m]]
  /\ lane' = [lane EXCEPT ![w] = "wait"]
  /\ UNCHANGED <<mainVars, ready, target, todo, storing, epoch, lookVars>>

\* Mutant: the done bits are not skipped.
AdvanceNoSkip(w) ==
  /\ lane[w] = "store"
  /\ storing[w] = {}
  /\ lane' = [lane EXCEPT ![w] = "next"]
  /\ IF Head(w, cur[w])
     THEN /\ todo' = [todo EXCEPT ![w] = @ \ {cur[w]}]
          /\ UNCHANGED done
     ELSE /\ done' = [done EXCEPT ![w] = @ \cup {cur[w]}]
          /\ UNCHANGED todo
  /\ UNCHANGED <<mainVars, ready, target, cur, waiting, storing, epoch, tail, allReady>>

\* After the stores: the head moves past itself and the run of done positions
\* behind it, whose bits are cleared; an out-of-order MTask sets its bit.
Advance(w) ==
  /\ lane[w] = "store"
  /\ storing[w] = {}
  /\ lane' = [lane EXCEPT ![w] = "next"]
  /\ IF Head(w, cur[w])
     THEN LET rest == {x \in todo[w] \ {cur[w]} :
                         \E y \in todo[w] \ {cur[w]} : y <= x /\ y \notin done[w]}
          IN  todo' = [todo EXCEPT ![w] = rest] /\ done' = [done EXCEPT ![w] = @ \cap rest]
     ELSE done' = [done EXCEPT ![w] = @ \cup {cur[w]}] /\ UNCHANGED todo
  /\ UNCHANGED <<mainVars, ready, target, cur, waiting, storing, epoch, tail, allReady>>

LookEnd(w) ==
  /\ lane[w] = "next"
  /\ todo[w] = {}
  /\ IF w = 0 THEN UNCHANGED poolVars ELSE FJ!Ack(w)
  /\ lane' = [lane EXCEPT ![w] = "done"]
  /\ UNCHANGED <<plan, env, main, cycles, primed, ready, target, todo, cur, waiting, storing,
                 serialTodo, epoch, lookVars>>

-----------------------------------------------------------------------------
LookStep(w) ==
  \/ LookBegin(w) \/ HeadReady(w) \/ HeadMiss(w) \/ CandidateReady(w) \/ Advance(w) \/ LookEnd(w)
  \/ \E m \in todo[w] : HeadProbe(w, m) \/ ScanNext(w, m) \/ ScanMiss(w, m)
  \/ \E s \in waiting[w] : HeadLoad(w, s) \/ CandidateLoad(w, s)
  \/ /\ \/ \E s \in waiting[w] : PassWait(w, s)
        \/ BodyStart(w)
        \/ BodyEnd(w)
        \/ \E s \in storing[w] : StoreToken(w, s)
     /\ UNCHANGED lookVars

LookMain == MainStep /\ UNCHANGED lookVars

LookIdle == (Halt \/ \E w \in Owners : Spin(w)) /\ UNCHANGED lookVars

LookaheadNext == LookMain \/ (\E w \in Owners : LookStep(w)) \/ LookIdle

LookaheadSpec == LookaheadInit /\ [][LookaheadNext]_lookaheadVars

\* Every thread is scheduled again and again, and the harness keeps stepping.
LookaheadFairSpec ==
  /\ LookaheadSpec
  /\ WF_lookaheadVars(LookMain)
  /\ \A w \in Owners : WF_lookaheadVars(LookStep(w))

-----------------------------------------------------------------------------
(* The properties are StepReturns and ImplementsDenseCycle of DenseExecutor.  *)
=============================================================================
