------------------------------ MODULE FirParser -----------------------------
(***************************************************************************)
(* parseFIR: cuts the text before every ModulesPerTask-th module header,   *)
(* lets a few threads parse the pieces and joins their lists.  The text is *)
(* a sequence of lines, TRUE for a module header; the generated parser is  *)
(* what the code makes of it: the list of a piece names its headers by     *)
(* line number, counted from the line number the piece was given.          *)
(***************************************************************************)
EXTENDS Integers, FiniteSets, SequencesExt

CONSTANTS Texts,           \* sequences of BOOLEAN; the first line is the circuit
          ModulesPerTask,  \* MODULES_PER_TASK, 5 in the code
          Threads,         \* globalConfig.NumThreads
          MaxChars         \* bound of this model: characters of a piece

ASSUME ParserAssumption ==
  /\ ModulesPerTask \in Nat \ {0} /\ Threads \in Nat \ {0} /\ MaxChars \in Nat \ {0}
  /\ \A x \in Texts : x \in Seq(BOOLEAN) /\ Len(x) > 0 /\ ~x[1]

VARIABLES
  text,
  main,     \* "split", "run", "returned" or "aborted"
  queue,    \* taskQueue, taken from its end
  thread,   \* "wait", "parse", "store" or "exit"
  task,     \* the record a thread took
  lists,    \* the list of every task; Unset before it is stored
  root      \* globalRoot: its children, Unset before task 0 is stored

vars == <<text, main, queue, thread, task, lists, root>>

Unset == <<-1>>
Tids == 1..Threads
Markers == {l \in DOMAIN text : text[l]}

\* The exit flag of a thread; its length sorts before every task.
ExitFlag == [first |-> 0, lines |-> 0, len |-> 0, lineno |-> -1, id |-> -1]
NoTask == ExitFlag

Init ==
  /\ text \in Texts
  /\ main = "split"
  /\ queue = <<>>
  /\ thread = [t \in Tids |-> "wait"]
  /\ task = [t \in Tids |-> NoTask]
  /\ lists = <<>>
  /\ root = Unset

-----------------------------------------------------------------------------
(* The main thread *)

\* First lines of the pieces: line 1, and every ModulesPerTask-th header.
Cuts == {1} \cup {l \in Markers : Cardinality({m \in Markers : m < l}) \in
                    {k * ModulesPerTask : k \in 1..Len(text)}}

\* Mutant: the newline that becomes the end of a piece is not counted.
LinenoAfterUncounted(prevLineno, lines) == prevLineno + lines - 1

\* The newlines inside a piece, and the one overwritten by its end.
LinenoAfter(prevLineno, lines) == prevLineno + (lines - 1) + 1

\* The task records in the order they are created, with the number of characters
\* of every piece, which can be any: lines may be long or short.
TaskRecords(chars) ==
  LET cut == SetToSortSeq(Cuts, <)
      lines(k) == (IF k = Len(cut) THEN Len(text) + 1 ELSE cut[k + 1]) - cut[k]
      lineno[k \in DOMAIN cut] == IF k = 1 THEN 1 ELSE LinenoAfter(lineno[k - 1], lines(k - 1))
  IN  [k \in DOMAIN cut |-> [first |-> cut[k], lines |-> lines(k), len |-> chars[k],
                             lineno |-> lineno[k], id |-> k - 1]]

\* Mutant: the largest first.
SortedDescending(q) == \A i, j \in DOMAIN q : i < j => q[i].len >= q[j].len

\* std::sort orders by length and nothing else.
Sorted(q) == \A i, j \in DOMAIN q : i < j => q[i].len <= q[j].len

Split ==
  /\ main = "split"
  /\ main' = "run"
  /\ lists' = [k \in 1..Cardinality(Cuts) |-> Unset]
  /\ \E chars \in [1..Cardinality(Cuts) -> 1..MaxChars] :
       LET records == TaskRecords(chars) \o [t \in Tids |-> ExitFlag]
       IN  \E p \in {f \in [DOMAIN records -> DOMAIN records] : IsInjective(f)} :
             /\ queue' = [i \in DOMAIN records |-> records[p[i]]]
             /\ Sorted(queue')
  /\ UNCHANGED <<text, thread, task, root>>

\* All threads are joined; the queue must be empty and there must be a root.
Merge ==
  /\ main = "run"
  /\ \A t \in Tids : thread[t] = "exit"
  /\ IF queue = <<>> /\ root # Unset
     THEN /\ main' = "returned"
          /\ root' = FlattenSeq(lists)
     ELSE main' = "aborted" /\ UNCHANGED root
  /\ UNCHANGED <<text, queue, thread, task, lists>>

-----------------------------------------------------------------------------
(* parseFunc *)

\* Under the lock: wait for a non-empty queue, take the last record.
TakeTask(t) ==
  /\ main = "run" /\ thread[t] = "wait"
  /\ queue # <<>>
  /\ task' = [task EXCEPT ![t] = Last(queue)]
  /\ queue' = Front(queue)
  /\ thread' = [thread EXCEPT ![t] = IF Last(queue).id = -1 THEN "exit" ELSE "parse"]
  /\ UNCHANGED <<text, main, lists, root>>

\* The list of a piece: its headers, by the line numbers the lexer counts.
Parsed(e) ==
  LET piece == {l \in Markers : l \in e.first..(e.first + e.lines - 1)}
  IN  SetToSortSeq({e.lineno + (l - e.first) : l \in piece}, <)

StoreList(t) ==
  /\ thread[t] = "parse"
  /\ lists' = [lists EXCEPT ![task[t].id + 1] = Parsed(task[t])]
  /\ thread' = [thread EXCEPT ![t] = "store"]
  /\ UNCHANGED <<text, main, queue, task, root>>

\* Task 0 has the circuit and with it the root.
StoreRoot(t) ==
  /\ thread[t] = "store"
  /\ root' = IF task[t].id = 0 THEN lists[1] ELSE root
  /\ thread' = [thread EXCEPT ![t] = "wait"]
  /\ UNCHANGED <<text, main, queue, task, lists>>

Returned == main \in {"returned", "aborted"} /\ UNCHANGED vars

Next ==
  \/ Split \/ Merge \/ Returned
  \/ \E t \in Tids : TakeTask(t) \/ StoreList(t) \/ StoreRoot(t)

\* Every thread runs until its future is ready; get() waits for all of them.
FairSpec ==
  /\ Init /\ [][Next]_vars
  /\ WF_vars(Split \/ Merge)
  /\ \A t \in Tids : WF_vars(TakeTask(t) \/ StoreList(t) \/ StoreRoot(t))

-----------------------------------------------------------------------------
(* Properties *)

\* Whoever parses what in whatever order, the circuit has every module of the
\* text once, in the order of the text and with its real line number.
CircuitComplete ==
  main = "returned" => root = SetToSortSeq(Markers, <)

\* The exit flags are taken last, one by each thread, so no task stays in the
\* queue ("assert(taskQueue->empty())" in parseFIR) and no thread waits for ever.
ParserReturns == <>(main = "returned")
=============================================================================
