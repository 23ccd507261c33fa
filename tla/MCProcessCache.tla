---------------------------- MODULE MCProcessCache -----------------------------
(***************************************************************************)
(* Instances of ProcessCache for TLC: calls with at most one external      *)
(* object each, and calls of a function with two of them.                  *)
(***************************************************************************)
EXTENDS ProcessCache

OneObjectCalls == {c \in Call : Cardinality(c.objs) <= 1}

(* The same, but only the first object is used with several arguments.      *)
MixedCalls ==
  LET o == CHOOSE o \in Objects : TRUE
      x == CHOOSE x \in Args : TRUE
  IN {c \in OneObjectCalls : c.arg = x \/ c.objs = {o}}

TwoObjectCalls == {c \in Call : Cardinality(c.objs) = 2}
================================================================================
