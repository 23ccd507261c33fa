----------------------------- MODULE CompilerLog -----------------------------
(****************************************************************************)
(* The log by which the compiler tells pymodelica how a compilation in a     *)
(* process of its own went, compiler_logging.py: the XML text that the       *)
(* compiler writes (XMLLogger.java, ModelicaCompiler.jrag), the handler that *)
(* collects problems from it, the stream that remembers the last lines for   *)
(* an error message, and the answer that is made of the problems.            *)
(*                                                                           *)
(* A text is a sequence of tokens: tags, pieces of characters, line ends,    *)
(* and junk, which is no XML; a line of it may end with a "<", which is      *)
(* refused at the line end. What is read are positions in the text.          *)
(****************************************************************************)
EXTENDS Integers, Sequences, SequencesExt

VARIABLES text,    \* what the compiler writes if nothing stops it
          reader   \* the thread that reads it

None == <<"none">>
NoLine == <<0>>   \* of positions
Concat(n, Part(_)) == FlattenSeq([q \in 1..n |-> Part(q)])

(******************************** the text **********************************)

Tag(k, name) == [k |-> k, x |-> name]
Chars(x) == [k |-> "chars", x |-> x]
Newline == [k |-> "nl", x |-> "nl"]
Junk == [k |-> "junk", x |-> "junk"]
OpenTag == [k |-> "lt", x |-> "<"]   \* a "<" that no tag follows

Value(name, content) ==
    <<[k |-> "value", x |-> name]>> \o content \o <<Tag("end", "value"), Newline>>
WriteNode(name, values) ==
    <<Tag("start", name), Newline>> \o values \o <<Tag("end", name), Newline>>
\* A message is a sequence of pieces; one may be a line end.
Content(pieces) == [q \in 1..Len(pieces) |-> IF pieces[q] = "nl" THEN Newline ELSE Chars(pieces[q])]
WriteProblem(p) == WriteNode(p.severity, Value("message", Content(p.message)))
WriteProblems(ps) == Concat(Len(ps), LAMBDA q : WriteProblem(ps[q]))
\* A stack trace has several lines.
WriteException(kind) ==
    WriteNode("Exception", Value("kind", Content(<<kind>>)) \o Value("stacktrace", Content(<<"at", "nl", "at">>)))
WriteUnit(file) == WriteNode("CompilationUnit", Value("file", Content(<<file>>)))

\* An outcome of a compilation: warnings logged on the way, then the problems of
\* a CompilerException, another exception, a unit, or nothing more (a target for
\* which no code is made).
LogOf(o) ==
    <<Tag("start", "compilation"), Newline>> \o WriteProblems(o.warnings)
      \o (CASE o.ends = "problems" -> WriteProblems(o.problems)
            [] o.ends = "thrown" -> WriteException(o.kind)
            [] o.ends = "unit" -> WriteUnit(o.unit)
            [] o.ends = "nothing" -> <<>>)
      \o <<Tag("end", "compilation")>>

\* Something else may write to the same stream, at any place.
Disturbances == {<<Junk>>, <<OpenTag, Newline>>}
Disturbed(t, place, what) == IF place = 0 THEN t ELSE SubSeq(t, 1, place - 1) \o what \o SubSeq(t, place, Len(t))

(**************************** the log error parser ***************************)

NewParser == [open |-> <<>>, root |-> FALSE, bad |-> 0, state |-> "none", node |-> <<>>,
              attribute |-> "none", problems |-> <<>>, name |-> None]

\* The node as a record, its attributes in the order of their first start.
WithAttribute(p, a) == [p EXCEPT !.attribute = a, !.node = Append(@, <<a, <<>>>>)]
Attribute(node, a) ==
    LET n == CHOOSE q \in 1..Len(node) : node[q][1] = a /\ \A r \in (q + 1)..Len(node) : node[r][1] # a
    IN node[n][2]

Kinds == {"Error", "Warning", "Exception"}
ConstructProblemNode(state, node) ==
    IF state = "Exception" THEN [type |-> state, of |-> Attribute(node, "kind"), text |-> Attribute(node, "stacktrace")]
    ELSE [type |-> state, of |-> Attribute(node, "message"), text |-> <<>>]

StartElement(p, tok) ==
    IF p.state # "none" THEN (IF tok.k = "value" THEN WithAttribute(p, tok.x) ELSE p)
    ELSE IF tok.k = "start" /\ tok.x \in Kinds \union {"CompilationUnit"} THEN [p EXCEPT !.state = tok.x, !.node = <<>>]
    ELSE p

Left(p) == [p EXCEPT !.state = "none", !.node = <<>>]
EndElement(p, name) ==
    CASE p.state \in Kinds /\ name = p.state ->
            Left([p EXCEPT !.problems = Append(@, ConstructProblemNode(p.state, p.node))])
      [] p.state = "CompilationUnit" /\ name = p.state -> Left([p EXCEPT !.name = Attribute(p.node, "file")])
      [] name = "value" -> [p EXCEPT !.attribute = "none"]
      [] name # "value" /\ name # p.state -> p

\* Characters come in pieces, and between elements too.
Characters(p, x) ==
    IF p.state = "none" \/ p.attribute = "none" THEN p
    ELSE [p EXCEPT !.node[Len(p.node)][2] = Append(@, x)]

\* The parser underneath: one root, ended elements are those that are open, and the
\* first character after "<" decides whether a tag begins there.
WellFormed(p, at) ==
    LET tok == text[at] IN
    CASE tok.k \in {"start", "value"} -> p.open # <<>> \/ ~p.root
      [] tok.k = "end" -> p.open # <<>> /\ Last(p.open) = tok.x
      [] tok.k = "chars" -> p.open # <<>>
      [] tok.k = "nl" -> at = 1 \/ text[at - 1] # OpenTag
      [] tok.k = "lt" -> TRUE
      [] tok.k = "junk" -> FALSE
ParseToken(p, at) ==
    LET tok == text[at]
    IN IF ~WellFormed(p, at) THEN [p EXCEPT !.bad = at]
       ELSE CASE tok.k = "start" -> StartElement([p EXCEPT !.open = Append(@, tok.x), !.root = TRUE], tok)
              [] tok.k = "value" -> StartElement([p EXCEPT !.open = Append(@, "value")], tok)
              [] tok.k = "end" -> EndElement([p EXCEPT !.open = Front(@)], tok.x)
              [] tok.k \in {"chars", "nl"} -> Characters(p, tok.x)
              [] tok.k = "lt" -> p

(****************************** keeping last lines ***************************)

\* The lines of a sequence of positions, at least one.
SplitLines(s) ==
    LET ends == <<0>> \o SelectSeq([n \in 1..Len(s) |-> n], LAMBDA n : text[s[n]].k = "nl") \o <<Len(s) + 1>>
    IN [q \in 1..(Len(ends) - 1) |-> SubSeq(s, ends[q] + 1, ends[q + 1] - 1)]

NewKeep == [last |-> NoLine, second |-> NoLine, lastLine |-> <<>>, line |-> 1]
LastPieceOnly(keep, lines) == Last(lines)   \* mutant: a line is what the last chunk has of it
LastLine(keep, lines) == IF Len(lines) = 1 THEN keep.lastLine \o lines[1] ELSE Last(lines)
SecondLastLine(keep, lines) ==
    CASE Len(lines) = 1 -> keep.second
      [] Len(lines) = 2 -> keep.lastLine \o lines[1]
      [] Len(lines) > 2 -> lines[Len(lines) - 1]

\* The chunk before is taken into account when the next one is read.
KeepRead(keep, chunk) ==
    IF keep.last = NoLine THEN [keep EXCEPT !.last = chunk]
    ELSE LET lines == SplitLines(keep.last)
         IN [last |-> chunk, second |-> SecondLastLine(keep, lines),
             lastLine |-> LastLine(keep, lines), line |-> keep.line + Len(lines) - 1]

\* The message: the line of the error and its neighbours; more is read for the
\* line after it when the chunk ends before.
LineNumber(at) == 1 + Len(SelectSeq(SubSeq(text, 1, at - 1), LAMBDA tok : tok.k = "nl"))
Column(at) == at - 1 - (IF \E n \in 1..(at - 1) : text[n].k = "nl"
                        THEN CHOOSE n \in 1..(at - 1) : text[n].k = "nl" /\ \A r \in (n + 1)..(at - 1) : text[r].k # "nl"
                        ELSE 0)
NoMessage == [before |-> NoLine, this |-> NoLine, after |-> NoLine, end |-> FALSE]
Shown(keep) ==
    LET chunk == SplitLines(keep.lastLine \o keep.last)
    IN IF keep.second = NoLine THEN chunk ELSE <<keep.second>> \o chunk
LocalLine(keep, at) == LineNumber(at) - keep.line + (IF keep.second = NoLine THEN 0 ELSE 1) + 1
NeedsMore(keep, at) == LocalLine(keep, at) + 1 >= Len(Shown(keep))
MessageLines(keep, at, rest) ==
    LET shown == Shown(keep)
    IN IF NeedsMore(keep, at) THEN Front(shown) \o SplitLines(Last(shown) \o rest) ELSE shown

\* The message names the character at the error: there is none at a line end that
\* is not the end of all.
NoSuchColumn(keep, at, rest) ==
    LET n == LocalLine(keep, at)
        lines == MessageLines(keep, at, rest)
    IN n < Len(lines) /\ Column(at) >= Len(lines[n])
GenErrorMsg(keep, at, rest) ==
    LET n == LocalLine(keep, at)
        lines == MessageLines(keep, at, rest)
    IN [before |-> IF n > 1 THEN lines[n - 1] ELSE <<>>, this |-> lines[n],
        after |-> IF n < Len(lines) THEN lines[n + 1] ELSE <<>>,
        end |-> n >= Len(lines) /\ Column(at) >= Len(lines[n])]

(********************************* the answer ********************************)

\* The exception that is raised for one that the compiler has thrown.
Translations ==
    [ModelicaClassNotFoundException   |-> "ModelicaClassNotFoundError",
     FileNotFoundException            |-> "IOError",
     IllegalLogStringException        |-> "IllegalLogStringError",
     UnknownOptionException           |-> "UnknownOptionError",
     InvalidOptionValueException      |-> "InvalidOptionValueError",
     CcodeCompilationException        |-> "CcodeCompilationError",
     PackingFailedException           |-> "PackingFailedError",
     SAXParseException                |-> "IOError",
     IllegalCompilerArgumentException |-> "IllegalCompilerArgumentError"]
Raised(kind) == IF kind \in DOMAIN Translations THEN Translations[kind] ELSE "JError"

OfType(problems, type) == SelectSeq(problems, LAMBDA p : p.type = type)
Messages(problems) == [q \in 1..Len(problems) |-> problems[q].of]

Answer(what, name, errors, warnings) ==
    [what |-> what, name |-> name, errors |-> errors, warnings |-> warnings]
Raises(what) == Answer(what, None, <<>>, <<>>)
CompilerResult(name, warnings) == Answer("result", name, <<>>, warnings)
CompilerError(errors, warnings) == Answer("CompilerError", None, errors, warnings)

UnitCountsMore(problems, name) ==   \* mutant: a unit counts for more than a broken log
    LET exceptions == OfType(problems, "Exception")
        warnings == Messages(OfType(problems, "Warning"))
    IN IF name # None THEN CompilerResult(name, warnings)
       ELSE IF exceptions # <<>> THEN Raises(Raised(exceptions[1].of[1]))
       ELSE CompilerError(Messages(OfType(problems, "Error")), warnings)
End(problems, name) ==
    LET exceptions == OfType(problems, "Exception")
        errors == Messages(OfType(problems, "Error"))
        warnings == Messages(OfType(problems, "Warning"))
    IN IF exceptions # <<>> THEN Raises(Raised(exceptions[1].of[1]))
       ELSE IF errors # <<>> THEN CompilerError(errors, warnings)
       ELSE CompilerResult(name, warnings)
=============================================================================
