---------------------------- MODULE MCCompileUnit ----------------------------
(****************************************************************************)
(* Small instance of CompileUnit: a success with a warning, a model with     *)
(* errors after a warning, two exceptions, a target without code.            *)
(****************************************************************************)
EXTENDS CompileUnit

Problem(severity, message) == [severity |-> severity, message |-> message]
Ends(how, warnings) ==
    [ends |-> how, warnings |-> warnings, problems |-> <<>>, kind |-> "none", unit |-> "none"]
Warned == <<Problem("Warning", <<"w1">>)>>

MCOutcomes ==
    {[Ends("unit", Warned) EXCEPT !.unit = "m.fmu"],
     [Ends("problems", Warned) EXCEPT !.problems = <<Problem("Warning", <<"w2">>), Problem("Error", <<"e1", "nl", "e2">>)>>],
     [Ends("thrown", <<>>) EXCEPT !.kind = "UnknownOptionException"],
     [Ends("thrown", Warned) EXCEPT !.kind = "IOException"],
     Ends("nothing", <<>>)}
=============================================================================
