------------------------- MODULE SpatialDistribution -------------------------
(***************************************************************************)
(* One spatialDistribution block (jmi_spatialdist_t) in a simulation: a    *)
(* pipe of length Length whose contents move with x.  What flows in on one *)
(* side is recorded at that end of a delay buffer; what flows out on the   *)
(* other is found there.  When the flow reverses, the samples kept behind  *)
(* the outlet for interpolation are cut off before recording at that end.  *)
(*                                                                         *)
(* The importer evaluates the block at trial positions, completes steps,   *)
(* and iterates events; the direction of the flow changes at events only,  *)
(* unless the block has no events.                                         *)
(***************************************************************************)
EXTENDS DelayBuffer, Sequences

CONSTANTS
  Length, MaxX,     \* the pipe, 1.0 in the code; positions -MaxX .. MaxX
  Values,           \* values of the inputs
  MaxSamples,       \* bound of the samples recorded in a behaviour
  NoEvent           \* jmi_spatialdist_t.no_event

ASSUME PipeAssumption ==
  Length \in Nat \ {0} /\ MaxX \in Nat /\ MaxSamples \in Nat /\ Values # {}
  /\ NoEvent \in BOOLEAN

VARIABLES
  buffer, lposition, rposition, last_x,     \* jmi_spatialdist_t
  x, positiveVelocity,      \* position and direction of the last evaluation
  phase,                    \* as in DelayBlock
  samples,                  \* how many were recorded
  offered                   \* history: the inflow at the last of them

vars == << buffer, lposition, rposition, last_x, x, positiveVelocity, phase, samples, offered >>

Infinity == 2 * MaxX + Length + 1
Positions == -MaxX .. MaxX

x2left(p) == -p
x2right(p) == Length - p

\* jmi_spatialdist_init: contents as in x_init and y_init, a position given
\* twice is an event; then the right position is moved to the right end.
InitialContents ==
  {<< 0, Length >>, << 0, 0, Length >>, << 0, Length, Length >>}
    \cup {<< 0, p, p, Length >> : p \in 1 .. Length - 1}

Filled(xs, ys) ==
  LET after[k \in 0 .. Len(xs)] ==
        IF k = 0 THEN NewBuffer
        ELSE RecordedRight(after[k - 1], xs[k], ys[k], k > 1 /\ xs[k] = xs[k - 1], Length)
  IN after[Len(xs)]

\* The inflow during an evaluation: no position depends on its value.
Inflow == CHOOSE y \in Values : TRUE

Init ==
  /\ \E xs \in InitialContents : \E ys \in [1 .. Len(xs) -> Values] : buffer = Filled(xs, ys)
  /\ lposition = 0
  /\ rposition = Position(buffer, TRUE, Infinity, 0)
  /\ last_x = 0 /\ x = 0
  /\ positiveVelocity \in BOOLEAN
  /\ phase = "continuous"
  /\ samples = 0 /\ offered = Inflow

-----------------------------------------------------------------------------
\* Events are crossed in an event iteration, or at any time without events.
MayCross(at_event) == at_event \/ NoEvent

\* jmi_spatialdist_evaluate: the inflow is put at its end for the time of it.
Evaluated(at_event, p, positive) ==
  LET b == WithCurrent(buffer, IF positive THEN x2left(p) ELSE x2right(p), Inflow, ~positive)
  IN [buffer |-> WithoutCurrent(b, buffer.size, ~positive),
      lposition |-> IF positive THEN lposition
                    ELSE PositionEvaluated(b, MayCross(at_event), x2left(p), lposition),
      rposition |-> IF ~positive THEN rposition
                    ELSE PositionEvaluated(b, MayCross(at_event), x2right(p), rposition)]

Evaluate(at_event, p, positive) ==
  LET e == Evaluated(at_event, p, positive)
  IN /\ buffer' = e.buffer /\ lposition' = e.lposition /\ rposition' = e.rposition
     /\ x' = p /\ positiveVelocity' = positive

\* A mutant of Crosses: only contents that move left have events.
CrossesLeft(b, l, r, p, positive) ==
  ~NoEvent /\ ~positive /\ NextEventTime(b, l, Infinity) < x2left(p)

\* jmi_spatialdist_event_indicator is negative.
Crosses(b, l, r, p, positive) ==
  /\ ~NoEvent
  /\ IF positive THEN x2right(p) < PreviousEventTime(b, r, -Infinity)
                 ELSE NextEventTime(b, l, Infinity) < x2left(p)

\* The relation that decides on the direction changes at events only.
Directions == IF NoEvent THEN BOOLEAN ELSE {positiveVelocity}

Integrate ==
  /\ phase \in {"continuous", "crossing"}
  /\ \E p \in Positions, positive \in Directions :
       /\ Evaluate(FALSE, p, positive)
       /\ phase' = IF Crosses(buffer', lposition', rposition', p, positive)
                   THEN "crossing" ELSE "continuous"
  /\ UNCHANGED << last_x, samples, offered >>

-----------------------------------------------------------------------------
MovesRight(p, positive) == p > last_x \/ (p = last_x /\ positive)

\* A mutant of TruncatesAt: samples behind the end stay when the flow reverses.
NeverTruncates(b, right) == FALSE

\* jmi_delaybuffer_truncate_left and _right change the buffer at a reversal only.
TruncatesAt(b, right) ==
  IF right THEN Sample(b, TailIndex(b)).t > x2right(last_x)
           ELSE Sample(b, b.head_index).t < x2left(last_x)

\* The value at the limit is interpolated: between those of the two samples.
ValuesAt(b, index) ==
  LET f == Interval(b, index)
  IN {y \in Values : Min({f[1].y, f[2].y}) <= y /\ y <= Max({f[1].y, f[2].y})}

\* After an event the position at the recording end is at the end.
EndPosition(b, right, index) ==
  Position(b, TRUE, IF right THEN Infinity ELSE -Infinity, index)

\* jmi_spatialdist_record_sample, after an evaluation e
RecordSample(e, p, y, positive, at_event) ==
  LET right == ~MovesRight(p, positive)
      limit == IF right THEN x2right(last_x) ELSE x2left(last_x)
      at == IF right THEN x2right(p) ELSE x2left(p)
      truncates == TruncatesAt(e.buffer, right)
      before == IF right THEN e.rposition ELSE e.lposition
      index == IF truncates THEN PositionEvaluated(e.buffer, FALSE, limit, before) ELSE before
  IN \E v \in IF truncates THEN ValuesAt(e.buffer, index) ELSE {y} :
       LET b == IF ~truncates THEN e.buffer
                ELSE IF right THEN TruncatedRight(e.buffer, limit, v)
                ELSE TruncatedLeft(e.buffer, limit, v)
           c == IF right THEN RecordedRight(b, at, y, at_event, Length)
                ELSE RecordedLeft(b, at, y, at_event, Length)
           rejected == Rejected(b, at, right, at_event)
           position == IF at_event /\ ~rejected THEN EndPosition(c, right, index) ELSE index
       IN /\ samples < MaxSamples /\ samples' = samples + 1 /\ offered' = y
          /\ buffer' = c
          /\ lposition' = IF right THEN e.lposition ELSE position
          /\ rposition' = IF right THEN position ELSE e.rposition
          /\ last_x' = IF rejected THEN last_x ELSE p

\* jmi_completed_integrator_step: between events the contents moved with the flow.
CompletedStep ==
  /\ phase \in {"continuous", "crossing"}
  /\ ~NoEvent => IF positiveVelocity THEN x >= last_x ELSE x <= last_x
  /\ \E y \in Values :
       RecordSample([buffer |-> buffer, lposition |-> lposition, rposition |-> rposition],
                    x, y, positiveVelocity, FALSE)
  /\ phase' = IF phase = "crossing" THEN "crossed" ELSE "continuous"
  /\ UNCHANGED << x, positiveVelocity >>

\* A pass of jmi_event_iteration: the direction may change.
IterateEvent ==
  /\ x = last_x
  /\ \E positive \in BOOLEAN : Evaluate(TRUE, x, positive)
  /\ phase' = "event"
  /\ UNCHANGED << last_x, samples, offered >>

\* The final step: the last evaluation and the sample.
FinishEvent ==
  /\ phase = "event"
  /\ \E y \in Values, positive \in Directions :
       /\ RecordSample(Evaluated(FALSE, x, positive), x, y, positive, TRUE)
       /\ positiveVelocity' = positive
  /\ phase' = "continuous"
  /\ UNCHANGED x

Next == Integrate \/ CompletedStep \/ IterateEvent \/ FinishEvent

Spec == Init /\ [][Next]_vars

-----------------------------------------------------------------------------
SameContents(b, c) ==
  /\ c.head_index = b.head_index /\ c.size = b.size
  /\ \A i \in b.head_index .. TailIndex(b) : Sample(c, i) = Sample(b, i)

TypeOK ==
  /\ buffer.capacity \in Nat /\ buffer.event_capacity \in Nat
  /\ buffer.size \in 1 .. buffer.capacity /\ buffer.head_index \in Int
  /\ buffer.buf \in [0 .. buffer.capacity - 1 ->
                       [t : -Infinity .. Infinity, y : Values \cup {0}, segment : Int]]
  /\ buffer.event_buf \in [0 .. buffer.event_capacity - 1 -> Int]
  /\ lposition \in Int /\ rposition \in Int
  /\ last_x \in Positions /\ x \in Positions
  /\ positiveVelocity \in BOOLEAN
  /\ phase \in {"continuous", "crossing", "crossed", "event"}
  /\ samples \in 0 .. MaxSamples /\ offered \in Values

\* The buffer keeps the promises of jmi_delay_impl.h while it grows, is cut off
\* and is discarded from at both ends.
BufferOK == SamplesOrdered(buffer) /\ EventsFound(buffer)

\* The buffer always holds what is in the whole pipe, from end to end.
CoversPipe ==
  /\ Sample(buffer, buffer.head_index).t <= x2left(last_x)
  /\ x2right(last_x) <= Sample(buffer, TailIndex(buffer)).t

\* What a sample leaves at the inlet.
TakesInflow ==
  LET right == ~MovesRight(x, positiveVelocity')
      inlet == Sample(buffer', EndIndex(buffer', right))
  IN /\ last_x' = x
     /\ inlet.t = IF right THEN x2right(x) ELSE x2left(x)
     /\ IF phase # "event" /\ x = last_x THEN SameContents(buffer, buffer')
        ELSE inlet.y = offered'

\* A sample is refused between events only, and only when the flow stands still,
\* so that nothing flowed in; it changes nothing then.  Every other one moves the
\* contents on to the present position and leaves the inflow at the inlet, also
\* after the end was cut off or an event there replaced (the generated code would
\* not notice otherwise, it ignores what record_sample returns).
InflowTaken == [][samples' # samples => TakesInflow]_vars

\* What flows out at a position reached in the direction of the flow is found
\* between the samples around the outlet, and the event indicator is negative
\* just when it is not.
ExtrapolationSignalled ==
  phase \in {"continuous", "crossing"} =>
    \A p \in Positions :
      (IF positiveVelocity THEN p >= last_x ELSE p <= last_x) =>
        LET b == WithCurrent(buffer, IF positiveVelocity THEN x2left(p) ELSE x2right(p), Inflow,
                             ~positiveVelocity)
            tr == IF positiveVelocity THEN x2right(p) ELSE x2left(p)
            l == PositionEvaluated(b, NoEvent, tr, lposition)
            r == PositionEvaluated(b, NoEvent, tr, rposition)
            f == Interval(b, IF positiveVelocity THEN r ELSE l)
            inside == f[1].t <= tr /\ tr <= f[2].t
        IN inside = ~Crosses(WithoutCurrent(b, buffer.size, ~positiveVelocity), l, r, p,
                             positiveVelocity)

\* "`lposition` should point to the interval for t_limit" (jmi_delay.c:69, :71):
\* whenever a sample is recorded at an end that has to be cut off first, the
\* value put there is interpolated in the interval around the limit.
TruncationInside ==
  LET right == ~MovesRight(x, positiveVelocity)
      limit == IF right THEN x2right(last_x) ELSE x2left(last_x)
      f == Interval(buffer, PositionEvaluated(buffer, FALSE, limit,
                                              IF right THEN rposition ELSE lposition))
  IN TruncatesAt(buffer, right) => f[1].t <= limit /\ limit <= f[2].t

\* What flows out is what is in the pipe: after any reversals of the flow the
\* buffer is in order and covers the pipe, its outlet is found or signalled, and
\* the value put at an end that is cut off belongs there.
PipeSound == TypeOK /\ BufferOK /\ CoversPipe /\ ExtrapolationSignalled /\ TruncationInside
=============================================================================
