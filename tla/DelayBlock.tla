----------------------------- MODULE DelayBlock -----------------------------
(***************************************************************************)
(* One delay block (jmi_delay_t) in a simulation.  The importer evaluates  *)
(* it at trial times after the last accepted one, possibly going back,     *)
(* completes steps, and iterates events; jmi_me.c samples the block after  *)
(* each completed step and each completed event iteration.                 *)
(*                                                                         *)
(* A fixed delay records its input at time + MaxDelay and causes a time    *)
(* event for each event in it, which the importer never steps past.  A     *)
(* variable delay has two event indicators, and the importer calls an event*)
(* where one turns negative.  A block without events crosses events in the *)
(* buffer at any time.                                                     *)
(***************************************************************************)
EXTENDS DelayBuffer, Sequences

CONSTANTS
  MaxTime, MaxDelay,    \* times 0 .. MaxTime; the longest, or the fixed, delay
  Values,               \* values of the input
  FixedKinds,           \* which values of jmi_delay_t.fixed to check
  NoEventKinds,         \* and of no_event
  AlwaysActive          \* FALSE: the delay may be in a branch not evaluated

ASSUME DelayAssumption ==
  MaxTime \in Nat /\ MaxDelay \in Nat \ {0} /\ Values # {}
  /\ FixedKinds \subseteq BOOLEAN /\ NoEventKinds \subseteq BOOLEAN /\ AlwaysActive \in BOOLEAN

VARIABLES
  fixed, no_event,  \* jmi_delay_t: what kind of delay the block was created as
  buffer,           \* jmi_delay_t.buffer
  curr_interval,    \* jmi_delay_t.position
  time,             \* time of the model
  last,             \* time of the last sample
  next_event,       \* the next time event the block asked for, or Never
  phase             \* "continuous"; "crossing": the last evaluation turned an
                    \* indicator negative; "crossed": it is accepted; "event"

kind == << fixed, no_event >>
vars == << fixed, no_event, buffer, curr_interval, time, last, next_event, phase >>

Never == MaxTime + MaxDelay + 1
TimeEvents == fixed /\ ~no_event
StateEvents == ~fixed /\ ~no_event
TimeOffset == IF fixed THEN MaxDelay ELSE 0     \* get_time_offset
Delays == IF fixed THEN {MaxDelay} ELSE 0 .. MaxDelay
Delayed(t, d) == IF fixed THEN t ELSE t - d

\* jmi_delay_next_time_event: an event in the past is of no interest.
NextTimeEvent(b, index, t) ==
  LET e == NextEventTime(b, index, Never)
  IN IF TimeEvents /\ e > t THEN e ELSE Never

\* A mutant of Crosses: only events right of the position are noticed.
CrossesSecond(b, index, tr) == StateEvents /\ NextEventTime(b, index, Never) < tr

\* jmi_delay_event_indicator: an indicator is negative at the delayed time.
Crosses(b, index, tr) ==
  StateEvents /\ \/ tr < PreviousEventTime(b, index, -MaxDelay)
                 \/ NextEventTime(b, index, Never) < tr

\* jmi_delay_record_sample
RecordSample(b, t, y, at_event) == RecordedRight(b, t + TimeOffset, y, at_event, MaxDelay)

\* jmi_delay_init at time 0: the initial value, twice, as before an event.
Init ==
  /\ fixed \in FixedKinds /\ no_event \in NoEventKinds
  /\ \E y0 \in Values :
       buffer = RecordSample(RecordSample(NewBuffer, 0, y0, FALSE), 0, y0, TRUE)
  /\ curr_interval = 0
  /\ time = 0 /\ last = 0
  /\ next_event = NextTimeEvent(buffer, 0, 0)
  /\ phase = "continuous"

\* jmi_delay_evaluate
Evaluate(at_event, t, y, d) ==
  LET b == WithCurrent(buffer, t + TimeOffset, y, TRUE)
  IN /\ curr_interval' =
          PositionEvaluated(b, at_event \/ no_event, Delayed(t, d), curr_interval)
     /\ buffer' = WithoutCurrent(b, buffer.size, TRUE)

\* A delay in a branch that is not active is not evaluated.
EvaluateOrNot(at_event, t, y, d) ==
  \/ Evaluate(at_event, t, y, d)
  \/ ~AlwaysActive /\ UNCHANGED << buffer, curr_interval >>

\* The importer may try any time from the last step to the next time event.
Trial == {t \in last .. MaxTime : TimeEvents => t <= next_event}

Integrate ==
  /\ phase \in {"continuous", "crossing"}
  /\ \E t \in Trial, y \in Values, d \in Delays :
       /\ time' = t
       /\ EvaluateOrNot(FALSE, t, y, d)
       /\ phase' = IF Crosses(buffer', curr_interval', Delayed(t, d))
                   THEN "crossing" ELSE "continuous"
  /\ UNCHANGED << kind, last, next_event >>

\* jmi_completed_integrator_step
CompletedStep ==
  /\ phase \in {"continuous", "crossing"} /\ time > last
  /\ \E y \in Values : buffer' = RecordSample(buffer, time, y, FALSE)
  /\ last' = time
  /\ phase' = IF phase = "crossing" THEN "crossed" ELSE "continuous"
  /\ UNCHANGED << kind, curr_interval, time, next_event >>

\* A pass of jmi_event_iteration: relations and delays cross events.
IterateEvent ==
  /\ time = last
  /\ \E y \in Values, d \in Delays : EvaluateOrNot(TRUE, time, y, d)
  /\ phase' = "event"
  /\ UNCHANGED << kind, time, last, next_event >>

\* The final step: the last evaluation, the sample, the next time event.
FinishEvent ==
  /\ phase = "event"
  /\ \E y \in Values, d \in Delays :
       LET b == WithCurrent(buffer, time + TimeOffset, y, TRUE)
           evaluated == WithoutCurrent(b, buffer.size, TRUE)
       IN \/ /\ curr_interval' = PositionEvaluated(b, no_event, Delayed(time, d), curr_interval)
             /\ buffer' = RecordSample(evaluated, time, y, TRUE)
          \/ /\ ~AlwaysActive
             /\ UNCHANGED curr_interval
             /\ buffer' = RecordSample(buffer, time, y, TRUE)
  /\ next_event' = NextTimeEvent(buffer', curr_interval', time)
  /\ phase' = "continuous"
  /\ UNCHANGED << kind, time, last >>

Next == Integrate \/ CompletedStep \/ IterateEvent \/ FinishEvent

Spec == Init /\ [][Next]_vars

-----------------------------------------------------------------------------
Content == [k \in 1 .. buffer.size |->
              LET s == Sample(buffer, buffer.head_index + k - 1) IN [t |-> s.t, y |-> s.y]]

TypeOK ==
  /\ fixed \in BOOLEAN /\ no_event \in BOOLEAN
  /\ buffer.capacity \in Nat /\ buffer.event_capacity \in Nat
  /\ buffer.size \in 1 .. buffer.capacity /\ buffer.head_index \in Nat
  /\ buffer.buf \in [0 .. buffer.capacity - 1 ->
                       [t : 0 .. Never, y : Values \cup {0}, segment : Int]]
  /\ buffer.event_buf \in [0 .. buffer.event_capacity - 1 -> Int]
  /\ curr_interval \in Nat
  /\ time \in 0 .. MaxTime /\ last \in 0 .. MaxTime
  /\ next_event \in 0 .. Never
  /\ phase \in {"continuous", "crossing", "crossed", "event"}

\* The buffer keeps the promises of jmi_delay_impl.h through growth, filtering,
\* discards and the temporary sample of each evaluation, and it ends with the
\* last step: no sample was rejected.
BufferOK ==
  /\ SamplesOrdered(buffer) /\ EventsFound(buffer)
  /\ Sample(buffer, TailIndex(buffer)).t = last + TimeOffset

\* The ring buffer, its segments and its events implement the plain history of
\* the input: no sample is lost, moved or left behind by the temporary ones.
Line == INSTANCE DelayLine
          WITH Delay <- MaxDelay, Instants <- 0 .. MaxTime + MaxDelay, line <- Content

ImplementsDelayLine == Line!Spec

\* Whatever the importer tries next, the delayed value is interpolated between
\* the samples around the delayed time, and an event indicator is negative just
\* when it would be extrapolated; before the first sample it is the initial one.
ExtrapolationSignalled ==
  phase # "event" /\ AlwaysActive =>
    \A t \in Trial, y \in Values, d \in Delays :
      LET b == WithCurrent(buffer, t + TimeOffset, y, TRUE)
          tr == Delayed(t, d)
          index == PositionEvaluated(b, no_event, tr, curr_interval)
          f == Interval(b, index)
          inside == f[1].t <= tr /\ tr <= f[2].t
          before == tr < f[1].t /\ f[1] = f[2] /\ f[1].t = TimeOffset
          signalled == Crosses(WithoutCurrent(b, buffer.size, TRUE), index, tr)
      IN (inside => ~signalled) /\ (inside \/ before \/ signalled)

\* What a delayed value is made of: whatever steps were accepted and tried, the
\* ring buffer is in order and ends with the last step, and the next value is
\* between two of its samples or signalled as extrapolated.
HistorySound == TypeOK /\ BufferOK /\ ExtrapolationSignalled

\* A fixed delay asks for the earliest event in its history that is still to
\* come: none is skipped and none is invented.
EventTimes == {buffer.buf[i % buffer.capacity].t : i \in
                 {j \in Indices(buffer) : j < TailIndex(buffer) /\ EventRightOf(buffer, j)}}

NextEventAsked ==
  TimeEvents /\ AlwaysActive =>
    /\ \A e \in EventTimes : ~(last < e /\ e < next_event)
    /\ next_event \in EventTimes \cup {Never} \/ next_event <= last

\* "`index` must be within the buffer" (jmi_delay.c:449, :454): when the block
\* looks for the next time event its position is one of a present sample.
PositionPresent ==
  [][phase = "event" /\ phase' = "continuous" => curr_interval' \in Indices(buffer)']_vars
=============================================================================
