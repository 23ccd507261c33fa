----------------------------- MODULE CompileUnit -----------------------------
(****************************************************************************)
(* Compiling a model from Python, compiler.py and compiler_wrappers.py of    *)
(* pymodelica: either in a process of its own, whose log comes through a     *)
(* pipe that a thread reads while the caller waits for the process, or       *)
(* inside, by a compiler object that is used again and again.                *)
(*                                                                           *)
(* The compiler may be killed at any point, the caller may be interrupted    *)
(* while it waits, and the pipe holds only so much: a compiler whose log     *)
(* nobody reads stops.                                                       *)
(****************************************************************************)
EXTENDS CompilerLog

CONSTANTS Outcomes,   \* outcomes of a compilation, see CompilerLog
          PipeSize,   \* what the pipe holds, in tokens
          ChunkSize,  \* what the parser asks for at a time, in tokens
          MaxCalls    \* bound: compilations by one compiler object

ASSUME SizesAssumption == PipeSize \in Nat \ {0} /\ ChunkSize \in Nat \ {0}

VARIABLES process,  \* the compiler: what it has written, the pipe
          caller,   \* the Python program
          comp      \* the compiler object that is used inside

vars == <<text, reader, process, caller, comp>>

\* What may be wrong before a process is started: the target, the path to Java,
\* a log level with the stream that the log is taken from.
Faults == {"target", "java", "level"}

Init ==
    /\ \E outcome \in Outcomes, place \in 0..60, fault \in Faults \union {"no"}, mode \in {"separate", "inside"},
          what \in Disturbances :
          /\ place <= Len(LogOf(outcome)) + 1
          /\ mode = "inside" \/ fault # "no" => place = 0
          /\ mode = "inside" => fault \in {"target", "no"}
          /\ text = Disturbed(LogOf(outcome), place, what)
          /\ caller = [phase |-> "call", mode |-> mode, fault |-> fault, outcome |-> outcome,
                       calls |-> 0, answer |-> None]
    /\ reader = [phase |-> "none", buf |-> <<>>, parser |-> NewParser, keep |-> NewKeep,
                 rest |-> <<>>, message |-> NoMessage]
    /\ process = [phase |-> "none", written |-> 0, pipe |-> <<>>]
    /\ comp = [warnings |-> <<>>]

Answered(a) == caller' = [caller EXCEPT !.phase = "done", !.answer = a]

\* The exception for a log level is not imported where it is raised.
RefusedAs(fault) == CASE fault = "target" -> "IllegalCompilerArgumentError"
                      [] fault = "java" -> "Exception"
                      [] fault = "level" -> "NameError"
Refuse ==
    /\ caller.phase = "call" /\ caller.fault # "no"
    /\ Answered(Raises(RefusedAs(caller.fault)))
    /\ UNCHANGED <<text, reader, process, comp>>

(**************************** a process of its own ***************************)

\* The process is started, then the thread; the caller waits for the process.
CompileSeparateProcess ==
    /\ caller.phase = "call" /\ caller.fault = "no" /\ caller.mode = "separate"
    /\ process' = [process EXCEPT !.phase = "running"]
    /\ reader' = [reader EXCEPT !.phase = "reading"]
    /\ caller' = [caller EXCEPT !.phase = "waiting"]
    /\ UNCHANGED <<text, comp>>

Write ==
    /\ process.phase = "running" /\ process.written < Len(text) /\ Len(process.pipe) < PipeSize
    /\ process' = [process EXCEPT !.written = @ + 1, !.pipe = Append(@, process.written + 1)]
    /\ UNCHANGED <<text, reader, caller, comp>>
Exit ==
    /\ process.phase = "running" /\ process.written = Len(text)
    /\ process' = [process EXCEPT !.phase = "gone"]
    /\ UNCHANGED <<text, reader, caller, comp>>
Killed ==
    /\ process.phase = "running"
    /\ process' = [process EXCEPT !.phase = "gone"]
    /\ UNCHANGED <<text, reader, caller, comp>>

EndOfFile == process.phase = "gone" /\ process.pipe = <<>>

\* A read returns when it has what it asked for, or at the end.
Fill ==
    LET n == IF Len(process.pipe) < ChunkSize - Len(reader.buf) THEN Len(process.pipe)
             ELSE ChunkSize - Len(reader.buf)
    IN /\ reader.phase = "reading" /\ n > 0
       /\ reader' = [reader EXCEPT !.buf = @ \o SubSeq(process.pipe, 1, n)]
       /\ process' = [process EXCEPT !.pipe = SubSeq(@, n + 1, Len(@))]
       /\ UNCHANGED <<text, caller, comp>>

\* Nothing is read at the end only: then everything must be closed, and an error
\* is at the position after the last that was written, or at a "<" that was the last.
EndError ==
    CASE process.written > 0 /\ text[process.written] = OpenTag -> process.written
      [] reader.parser.open # <<>> \/ ~reader.parser.root -> process.written + 1
      [] OTHER -> 0
Read ==
    /\ reader.phase = "reading"
    /\ Len(reader.buf) = ChunkSize \/ EndOfFile
    /\ reader' = [reader EXCEPT !.keep = KeepRead(@, reader.buf),
                                !.parser.bad = IF reader.buf = <<>> THEN EndError ELSE 0,
                                !.phase = CASE reader.buf # <<>> -> "parsing"
                                            [] reader.buf = <<>> /\ EndError = 0 -> "done"
                                            [] reader.buf = <<>> /\ EndError # 0 -> "draining"]
    /\ UNCHANGED <<text, process, caller, comp>>

\* The handler is called for one token after the other.
ParseNext ==
    /\ reader.phase = "parsing"
    /\ LET p == ParseToken(reader.parser, reader.buf[1])
       IN reader' = [reader EXCEPT !.parser = p,
                                   !.buf = IF p.bad = 0 THEN Tail(@) ELSE <<>>,
                                   !.phase = CASE p.bad # 0 -> "draining"
                                               [] p.bad = 0 /\ Len(reader.buf) = 1 -> "reading"
                                               [] p.bad = 0 /\ Len(reader.buf) > 1 -> "parsing"]
    /\ UNCHANGED <<text, process, caller, comp>>

\* The message needs a character that is not there: the thread dies of an IndexError,
\* before it discards the rest unless the message needs lines from there.
Dying ==
    /\ NeedsMore(reader.keep, reader.parser.bad) => EndOfFile
    /\ NoSuchColumn(reader.keep, reader.parser.bad, reader.rest)
ReaderDies ==
    /\ reader.phase = "draining" /\ Dying
    /\ reader' = [reader EXCEPT !.phase = "dead"]
    /\ UNCHANGED <<text, process, caller, comp>>

\* After an error the rest is read, for the message and the dump, so that the
\* compiler can go on.
DrainStops == FALSE   \* mutant: the thread ends at the error and reads no more
DrainGoes == process.pipe # <<>>
Drain ==
    /\ reader.phase = "draining" /\ ~Dying /\ DrainGoes
    /\ reader' = [reader EXCEPT !.rest = @ \o process.pipe]
    /\ process' = [process EXCEPT !.pipe = <<>>]
    /\ UNCHANGED <<text, caller, comp>>
BrokenLog == [type |-> "Exception", of |-> <<"SAXParseException">>, text |-> <<>>]
Drained ==
    /\ reader.phase = "draining" /\ ~Dying /\ EndOfFile
    /\ reader' = [reader EXCEPT !.phase = "done",
                      !.message = GenErrorMsg(reader.keep, reader.parser.bad, reader.rest),
                      !.parser.problems = Append(@, BrokenLog)]
    /\ UNCHANGED <<text, process, caller, comp>>

\* The wait ends with the process, or by an interrupt, which is forgotten: the
\* answer is returned from the finally clause.
Waited ==
    /\ caller.phase = "waiting" /\ process.phase = "gone"
    /\ caller' = [caller EXCEPT !.phase = "joining"]
    /\ UNCHANGED <<text, reader, process, comp>>
Interrupted ==
    /\ caller.phase = "waiting"
    /\ caller' = [caller EXCEPT !.phase = "joining"]
    /\ UNCHANGED <<text, reader, process, comp>>

\* A thread that died is joined like one that is done: what it had told counts.
Joined == reader.phase \in {"done", "dead"}
EndLog ==
    /\ caller.phase = "joining" /\ Joined
    /\ Answered(End(reader.parser.problems, reader.parser.name))
    /\ UNCHANGED <<text, reader, process, comp>>

(********************************** inside ***********************************)

RaisedInside(kind) ==
    CASE kind = "ModelicaClassNotFoundException" -> "ModelicaClassNotFoundError"
      [] kind \in {"FileNotFoundException", "IOException"} -> "IOError"
      [] kind = "UnknownOptionException" -> "UnknownOptionError"
      [] kind \notin {"ModelicaClassNotFoundException", "FileNotFoundException", "IOException",
                      "UnknownOptionException"} -> "JError"
Of(problems, severity) ==
    LET some == SelectSeq(problems, LAMBDA p : p.severity = severity)
    IN [q \in 1..Len(some) |-> some[q].message]

\* The warnings of an earlier compilation are forgotten first; those of one that
\* raises stay.
RetrieveAndClear(warnings) == <<>>
HandleException(o) ==
    IF o.ends = "problems"
    THEN CompilerError(Of(o.problems, "Error"), Of(o.problems, "Warning"))
    ELSE Raises(RaisedInside(o.kind))
CompileInside ==
    /\ caller.phase = "call" /\ caller.fault = "no" /\ caller.mode = "inside"
    /\ LET o == caller.outcome
           known == RetrieveAndClear(comp.warnings) \o o.warnings
       IN IF o.ends \in {"problems", "thrown"}
          THEN comp' = [warnings |-> known] /\ Answered(HandleException(o))
          ELSE /\ comp' = [warnings |-> <<>>]
               /\ Answered(CompilerResult(IF o.ends = "unit" THEN <<o.unit>> ELSE None,
                                          Of(known, "Warning")))
    /\ UNCHANGED <<text, reader, process>>

Again ==
    /\ caller.phase = "done" /\ caller.mode = "inside" /\ caller.calls + 1 < MaxCalls
    /\ \E outcome \in Outcomes :
          caller' = [caller EXCEPT !.phase = "call", !.calls = @ + 1, !.answer = None, !.outcome = outcome]
    /\ UNCHANGED <<text, reader, process, comp>>

Next ==
    \/ Refuse \/ CompileSeparateProcess \/ Write \/ Exit \/ Killed
    \/ Fill \/ Read \/ ParseNext \/ Drain \/ Drained \/ ReaderDies
    \/ Waited \/ Interrupted \/ EndLog \/ CompileInside \/ Again

\* The compiler goes on while it can write, and its thread and the caller run.
Fairness == /\ WF_vars(Write \/ Exit)
            /\ WF_vars(Fill \/ Read \/ ParseNext \/ Drain \/ Drained \/ ReaderDies)
            /\ WF_vars(CompileSeparateProcess \/ Waited \/ EndLog)
            /\ WF_vars(Refuse \/ CompileInside)
Spec == Init /\ [][Next]_vars /\ Fairness

(******************************** properties ********************************)

(* What the caller is told is what the compiler did. If the whole log came and *)
(* nothing else was in it, the unit, all errors and all warnings, or the       *)
(* exception; inside, those of this compilation only. If the compiler was      *)
(* killed or the log disturbed, never a result, and an IOError unless an       *)
(* exception was told before; only a reader that died may have hidden what was *)
(* wrong. Hazards: pieces of text at the borders of chunks, a thread that is not *)
(* done when the process is, an interrupt that is swallowed, warnings left     *)
(* from before.                                                                *)
Told(o, raised) ==
    LET all == IF caller.mode = "inside" /\ o.ends = "problems" THEN o.problems
               ELSE o.warnings \o (IF o.ends = "problems" THEN o.problems ELSE <<>>)
    IN CASE o.ends = "problems" -> CompilerError(Of(all, "Error"), Of(all, "Warning"))
         [] o.ends = "thrown" -> Raises(raised)
         [] o.ends = "unit" -> CompilerResult(<<o.unit>>, Of(all, "Warning"))
         [] o.ends = "nothing" -> CompilerResult(None, Of(all, "Warning"))
Whole == SubSeq(text, 1, process.written) = LogOf(caller.outcome)
AnswerRight ==
    caller.phase = "done" /\ caller.fault = "no" /\ reader.phase # "dead" =>
        LET o == caller.outcome
        IN IF caller.mode = "inside" THEN caller.answer = Told(o, RaisedInside(o.kind))
           ELSE IF Whole THEN caller.answer = Told(o, Raised(o.kind))
           ELSE caller.answer.what = "IOError" \/ (o.ends = "thrown" /\ caller.answer.what = Raised(o.kind))

(* The message about a broken log shows the line of the error and the lines    *)
(* around it as they were written, wherever the borders of chunks fall, and    *)
(* says that the log ended exactly when it did. Hazard: lines are put together *)
(* from the last chunks, with line numbers counted by two parties.             *)
ErrorLines ==
    reader.message # NoMessage =>
        LET at == reader.parser.bad
            lines == SplitLines([n \in 1..process.written |-> n])
            n == LineNumber(at)
        IN /\ reader.message.this = lines[n]
           /\ n > 1 => reader.message.before = lines[n - 1]
           /\ reader.message.after = IF n < Len(lines) THEN lines[n + 1] ELSE <<>>
           /\ reader.message.end = (at > process.written)

(* What the caller is told, as an answer or about a broken log, is what came.  *)
ToldRight == AnswerRight /\ ErrorLines

(* A compilation that is asked for is answered, although the log is broken and *)
(* longer than the pipe, unless the reader has died of its own message.        *)
(* Hazard: the caller waits for a process that waits for a reader that has     *)
(* given up.                                                                   *)
CompileReturns == []<>(caller.phase = "done" \/ reader.phase = "dead")

(* "This method will wait for the log parser thread to finish. It only does so *)
(* when the log stream is closed." (compiler_logging.py:275) A thread that     *)
(* ends before leaves a compiler that waits for room in the pipe, and a caller *)
(* that waits for the compiler.                                                *)
EndsWithStream == reader.phase \in {"done", "dead"} => EndOfFile
=============================================================================
