------------------------------ MODULE EmitUnits -----------------------------
(***************************************************************************)
(* Parallel emission: emitUnitsParallel renders units into buffers on a    *)
(* few threads and flushEmitBufs writes the buffers, beginning a new file  *)
(* when the current one is full.  A unit is the __emitSrc calls of one     *)
(* mtTask helper or one stepDenseMTask body.  Of a call matter the indent, *)
(* the bytes of its formatted text and whether it is an emitFuncDecl,      *)
(* where a new file may begin, or an emitBodyLock; and the trace context   *)
(* of the thread, which genSuperEval prints.                               *)
(***************************************************************************)
EXTENDS Integers, SequencesExt

CONSTANTS Programs,  \* [units : sequences of sequences of calls, dense : BOOLEAN, written : Nat]
          Threads,   \* emitParallelThreadCount()
          Limit,     \* cppMaxSizeKB * 1024
          Header     \* bytes of the #include line of a file

VARIABLES
  program,   \* what is emitted; dense: MTask bodies, otherwise mtTask helpers
  main,      \* "render", "flush" or "done"
  nextUnit,  \* the atomic counter
  unit,      \* of a worker: the unit it renders; Start, Idle or Exited
  pos,       \* of a worker: calls of that unit it has rendered
  ctx,       \* of a thread: the thread_local suppressed flag and trace source
  saved,     \* of a worker: savedTraceSourceCppId
  bufs,      \* of a unit: its chunks
  out        \* the files, and srcFileBytes of the last one

vars == <<program, main, nextUnit, unit, pos, ctx, saved, bufs, out>>

Start == -1
Idle == -2
Exited == -3

Units == DOMAIN program.units
Workers == 1..Min({Threads, Len(program.units)})

\* The context of the main thread: genDenseExecutor suppresses tracing.
MainContext == [suppressed |-> program.dense, source |-> -1]

\* A file is open and holds what was emitted before.
Before == [files |-> <<<<>>>>, bytes |-> program.written]

Init ==
  /\ program \in Programs
  /\ main = "render"
  /\ nextUnit = 1
  /\ unit = [w \in Workers |-> Start]
  /\ pos = [w \in Workers |-> 0]
  /\ ctx = [w \in Workers |-> [suppressed |-> FALSE, source |-> -1]]
  /\ saved = [w \in Workers |-> -1]
  /\ bufs = [u \in Units |-> <<>>]
  /\ out = Before

-----------------------------------------------------------------------------
(* Rendering.  With one worker the loop is on the main thread and the context
   is already there. *)

\* Mutant: the worker keeps the initial values of its thread_locals.
BeginWorkerFresh(w) ==
  /\ unit[w] = Start
  /\ unit' = [unit EXCEPT ![w] = Idle]
  /\ UNCHANGED <<program, main, nextUnit, pos, ctx, saved, bufs, out>>

BeginWorker(w) ==
  /\ unit[w] = Start
  /\ unit' = [unit EXCEPT ![w] = Idle]
  /\ ctx' = [ctx EXCEPT ![w] = MainContext]
  /\ UNCHANGED <<program, main, nextUnit, pos, saved, bufs, out>>

\* genMtTaskHelper makes the unit the trace source; a dense body leaves it.
SourceOf(u, old) == IF program.dense THEN old ELSE u

\* fetch_add, and the end of the worker when the units are used up.
Claim(w) ==
  /\ unit[w] = Idle
  /\ nextUnit' = nextUnit + 1
  /\ pos' = [pos EXCEPT ![w] = 0]
  /\ IF nextUnit \in Units
     THEN /\ unit' = [unit EXCEPT ![w] = nextUnit]
          /\ saved' = [saved EXCEPT ![w] = ctx[w].source]
          /\ ctx' = [ctx EXCEPT ![w].source = SourceOf(nextUnit, @)]
     ELSE unit' = [unit EXCEPT ![w] = Exited] /\ UNCHANGED <<saved, ctx>>
  /\ UNCHANGED <<program, main, bufs, out>>

\* The text of call k of unit u: which call, its indentation and its context.
Text(u, k, c) == [call |-> <<u, k>>, indent |-> 2 * program.units[u][k].indent, ctx |-> c]

\* __emitSrc in capture mode: the text has the indentation, countedBytes has not.
Chunk(u, k, c) ==
  LET call == program.units[u][k]
      size == 2 * call.indent + call.bytes
  IN  [text |-> Text(u, k, c), canNewFile |-> call.decl, countedBytes |-> size - 2 * call.indent]

Capture(w) ==
  /\ unit[w] \in Units /\ pos[w] < Len(program.units[unit[w]])
  /\ bufs' = [bufs EXCEPT ![unit[w]] = Append(@, Chunk(unit[w], pos[w] + 1, ctx[w]))]
  /\ pos' = [pos EXCEPT ![w] = @ + 1]
  /\ UNCHANGED <<program, main, nextUnit, unit, ctx, saved, out>>

EndUnit(w) ==
  /\ unit[w] \in Units /\ pos[w] = Len(program.units[unit[w]])
  /\ unit' = [unit EXCEPT ![w] = Idle]
  /\ ctx' = [ctx EXCEPT ![w].source = saved[w]]
  /\ UNCHANGED <<program, main, nextUnit, pos, saved, bufs, out>>

Join ==
  /\ main = "render"
  /\ \A w \in Workers : unit[w] = Exited
  /\ main' = "flush"
  /\ UNCHANGED <<program, nextUnit, unit, pos, ctx, saved, bufs, out>>

-----------------------------------------------------------------------------
(* Writing *)

\* rotateSrcFile before an emitFuncDecl: the function before it is complete.
Rotated(o, canNewFile) ==
  IF o.bytes > Limit /\ canNewFile
  THEN [files |-> Append(o.files, <<>>), bytes |-> Header]
  ELSE o

Written(o, text, bytes) ==
  [files |-> [o.files EXCEPT ![Len(o.files)] = Append(@, text)], bytes |-> o.bytes + bytes]

\* One chunk in flushEmitBufs.
Replay(o, chunk) ==
  Written(Rotated(o, chunk.canNewFile), chunk.text, chunk.countedBytes)

\* flushEmitBufs replays the buffers in the order of the units and empties them.
Flush ==
  /\ main = "flush"
  /\ main' = "done"
  /\ out' = FoldLeft(Replay, out, FlattenSeq(bufs))
  /\ bufs' = [u \in Units |-> <<>>]
  /\ UNCHANGED <<program, nextUnit, unit, pos, ctx, saved>>

Done == main = "done" /\ UNCHANGED vars

Next ==
  \/ Join \/ Flush \/ Done
  \/ \E w \in Workers : BeginWorker(w) \/ Claim(w) \/ Capture(w) \/ EndUnit(w)

Spec == Init /\ [][Next]_vars

-----------------------------------------------------------------------------
(* Properties *)

\* __emitSrc that writes at once: it counts what vfprintf returns.
EmitDirect(o, call) ==
  LET c == program.units[call[1]][call[2]]
      context == [MainContext EXCEPT !.source = SourceOf(call[1], @)]
  IN  Written(Rotated(o, c.decl), Text(call[1], call[2], context), c.bytes)

\* "so the assembled files are byte-identical to a sequential run" (comment on
\* the capture machinery): whichever worker renders which unit, and whenever,
\* the same texts are in the same files as if every call had written at once,
\* and the next rotation happens at the same place.
FilesAsSequential ==
  main = "done" =>
    out = FoldLeft(EmitDirect, Before,
                   FlattenSeq([u \in Units |-> [k \in DOMAIN program.units[u] |-> <<u, k>>]]))
=============================================================================
