------------------------------ MODULE DelayLine ------------------------------
(***************************************************************************)
(* What a delay block promises of the history of its input: the recorded   *)
(* samples in the order of time, as far back as the longest delay needs.   *)
(* Two samples at the same time are the values before and after an event.  *)
(***************************************************************************)
EXTENDS Integers, Sequences, FiniteSetsExt

CONSTANTS Delay, Values, Instants

VARIABLE line       \* sequence of [t, y]

LastOf(s) == s[Len(s)]

\* The last sample at or before the limit and all that follow.
Needed(s, limit) ==
  SubSeq(s, Min({i \in 1 .. Len(s) : i = Len(s) \/ s[i + 1].t >= limit}), Len(s))

HasEventAtEnd(s) == Len(s) > 1 /\ s[Len(s) - 1].t = LastOf(s).t

WithEvent(s, y) ==
  LET sample == [t |-> LastOf(s).t, y |-> y]
  IN IF LastOf(s).y = y THEN s
     ELSE IF HasEventAtEnd(s) THEN Append(SubSeq(s, 1, Len(s) - 1), sample)
     ELSE Append(s, sample)

Record(s) == line' = Needed(s, LastOf(s).t - Delay)

\* The value before the first sample is that of the first sample.
Init == \E t \in Instants, y \in Values :
          line = << [t |-> t, y |-> y], [t |-> t, y |-> y] >>

Step == \E t \in Instants, y \in Values :
          t > LastOf(line).t /\ Record(Append(line, [t |-> t, y |-> y]))

Event == \E y \in Values : Record(WithEvent(line, y))

Next == Step \/ Event

Spec == Init /\ [][Next]_line
=============================================================================
