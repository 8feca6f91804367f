---------------------------- MODULE MCHostThreads ---------------------------
(***************************************************************************)
(* The two places where the compiler itself runs threads, which never      *)
(* overlap: the parser at the beginning, on every text of up to MaxLines   *)
(* lines, and the emission at the end, of up to three functions of up to   *)
(* MaxCalls calls, the first of a unit its emitFuncDecl, when the file     *)
(* they begin in is empty or nearly full.  The emission starts in a        *)
(* process whose parser has returned.                                      *)
(***************************************************************************)
EXTENDS FirParser

CONSTANTS MaxLines, MaxCalls, Limit, Header

VARIABLES phase,    \* "parse" or "emit"; never changes
          program, emitter, nextUnit, unit, pos, ctx, saved, bufs, out

emitVars == <<program, emitter, nextUnit, unit, pos, ctx, saved, bufs, out>>
hostVars == <<phase, vars, emitVars>>

MCTexts == {<<FALSE>> \o t : t \in UNION {[1..k -> BOOLEAN] : k \in 0..(MaxLines - 1)}}

Decl == [bytes |-> 2, indent |-> 0, decl |-> TRUE]
Bodies == {[bytes |-> b, indent |-> i, decl |-> FALSE] : b \in 1..2, i \in 0..1}
MCUnits == UNION {{<<Decl>> \o s : s \in [1..n -> Bodies]} : n \in 1..(MaxCalls - 1)}
MCPrograms ==
  [units : UNION {[1..n -> MCUnits] : n \in 1..3}, dense : BOOLEAN, written : {Header, Limit}]

Emit == INSTANCE EmitUnits WITH Programs <- MCPrograms, main <- emitter

ParserIsDone ==
  /\ text = <<FALSE>> /\ main = "returned" /\ queue = <<>> /\ lists = <<<<>>>> /\ root = <<>>
  /\ thread = [t \in Tids |-> "exit"] /\ task = [t \in Tids |-> ExitFlag]

NothingEmitted ==
  /\ program = [units |-> <<>>, dense |-> FALSE, written |-> Header] /\ emitter = "none"
  /\ nextUnit = 1 /\ unit = <<>> /\ pos = <<>> /\ ctx = <<>> /\ saved = <<>>
  /\ bufs = <<>> /\ out = Emit!Before

HostInit ==
  \/ phase = "parse" /\ Init /\ NothingEmitted
  \/ phase = "emit" /\ ParserIsDone /\ Emit!Init

HostNext ==
  \/ phase = "parse" /\ Next /\ UNCHANGED <<phase, emitVars>>
  \/ phase = "emit" /\ Emit!Next /\ UNCHANGED <<phase, vars>>

ParserStep(A) == phase = "parse" /\ A /\ UNCHANGED <<phase, emitVars>>

\* The fairness of FirParser: its threads run until their futures are ready.
HostSpec ==
  /\ HostInit /\ [][HostNext]_hostVars
  /\ WF_hostVars(ParserStep(Split \/ Merge))
  /\ \A t \in Tids : WF_hostVars(ParserStep(TakeTask(t) \/ StoreList(t) \/ StoreRoot(t)))

\* "so the assembled files are byte-identical to a sequential run": see EmitUnits.
FilesAsSequential == Emit!FilesAsSequential
=============================================================================
