----------------------------- MODULE DelayBuffer -----------------------------
(***************************************************************************)
(* The delay buffer of jmi_delay.c: a ring buffer of samples that grows and*)
(* shrinks at both ends, and a second ring buffer with the events between  *)
(* them.  An operator takes a buffer and returns the changed one.          *)
(*                                                                         *)
(* A sample is found by its index, buf[index % capacity].  Its segment     *)
(* increases by one across events; event_buf[e % event_capacity] is the    *)
(* index of the sample left of event e, where event "segment" is at the    *)
(* left end of a segment and "segment + 1" at the right end.               *)
(***************************************************************************)
EXTENDS Integers, FiniteSetsExt

CONSTANT InitialCapacity        \* BUFFER_INITIAL_CAPACITY; 256 in the code

ASSUME CapacityAssumption == \E k \in 1 .. 8 : InitialCapacity = 2^k

EmptySample == [t |-> 0, y |-> 0, segment |-> 0]

NewBuffer ==
  [capacity |-> InitialCapacity, size |-> 0, head_index |-> 0,
   buf |-> [p \in 0 .. InitialCapacity - 1 |-> EmptySample],
   event_capacity |-> InitialCapacity,
   event_buf |-> [p \in 0 .. InitialCapacity - 1 |-> 0]]

TailIndex(b) == b.head_index + b.size - 1
Indices(b) == b.head_index .. TailIndex(b)

\* capacity is a power of two: index & (capacity - 1) is the remainder.
Sample(b, index) == b.buf[index % b.capacity]
SampleLeftOf(b, e) == b.event_buf[e % b.event_capacity]

SetSample(b, index, s) == [b EXCEPT !.buf[index % b.capacity] = s]
SetEvent(b, e, index) == [b EXCEPT !.event_buf[e % b.event_capacity] = index]

-----------------------------------------------------------------------------
\* A mutant of Reallocated: the second block of a wrapped buffer is lost.
FirstBlock(old, capacity, first, n, empty) ==
  LET head == first % capacity
      new_head == first % (2 * capacity)
      first_size == Min({n, capacity - head})
  IN [p \in 0 .. 2 * capacity - 1 |->
        IF p \in new_head .. new_head + first_size - 1 THEN old[head + p - new_head] ELSE empty]

\* _reallocate, which never needs more than twice the capacity here: the n
\* elements from index first on are copied in one block or, wrapped, in two.
Reallocated(old, capacity, first, n, empty) ==
  LET head == first % capacity
      new_head == first % (2 * capacity)
      first_size == Min({n, capacity - head})
      wrapped == (first + first_size) % (2 * capacity)
  IN [p \in 0 .. 2 * capacity - 1 |->
        CASE p \in new_head .. new_head + first_size - 1 -> old[head + p - new_head]
          [] p \in wrapped .. wrapped + n - first_size - 1 -> old[p - wrapped]
          [] OTHER -> empty]

GrownEvents(b, head_event, num_events) ==
  IF num_events + 1 <= b.event_capacity THEN b
  ELSE [b EXCEPT !.event_capacity = 2 * @,
                 !.event_buf = Reallocated(@, b.event_capacity, head_event, num_events, 0)]

\* A mutant of GrownSamples: the reserved sample is not counted.
GrownWhenFull(b) ==
  IF b.size <= b.capacity THEN b
  ELSE [b EXCEPT !.capacity = 2 * @,
                 !.buf = Reallocated(@, b.capacity, b.head_index, b.size, EmptySample)]

GrownSamples(b) ==
  IF b.size + 1 <= b.capacity THEN b
  ELSE [b EXCEPT !.capacity = 2 * @,
                 !.buf = Reallocated(@, b.capacity, b.head_index, b.size, EmptySample)]

\* reserve_one_sample
Reserved(b) ==
  IF b.size = 0 THEN b
  ELSE LET head_event == Sample(b, b.head_index).segment
           num_events == Sample(b, TailIndex(b)).segment + 2 - head_event
       IN GrownSamples(GrownEvents(b, head_event, num_events))

-----------------------------------------------------------------------------
EventLeftOf(b, index) ==
  index <= b.head_index \/ Sample(b, index).segment # Sample(b, index - 1).segment

EventRightOf(b, index) ==
  index >= TailIndex(b) \/ Sample(b, index).segment # Sample(b, index + 1).segment

LastOnSegment(b, index) == SampleLeftOf(b, Sample(b, index).segment + 1)
FirstOnSegment(b, index) == SampleLeftOf(b, Sample(b, index).segment) + 1

\* A mutant of DiscardRight: the implicit event at the right end is kept.
DropTail(b) == [b EXCEPT !.size = @ - 1]

DiscardRight(b) ==
  LET c == [b EXCEPT !.size = @ - 1]
  IN IF c.size = 0 THEN c
     ELSE SetEvent(c, Sample(c, TailIndex(c)).segment + 1, TailIndex(c))

DiscardLeft(b) ==
  LET c == [b EXCEPT !.size = @ - 1, !.head_index = @ + 1]
  IN IF c.size = 0 THEN c
     ELSE SetEvent(c, Sample(c, c.head_index).segment, c.head_index - 1)

PutFirst(b, t, y) ==
  LET c == SetSample([b EXCEPT !.size = 1], b.head_index, [t |-> t, y |-> y, segment |-> 0])
  IN SetEvent(SetEvent(c, 0, b.head_index - 1), 1, b.head_index)

PutRight(b, t, y, event) ==
  LET segment == Sample(b, TailIndex(b)).segment + IF event THEN 1 ELSE 0
      c == [b EXCEPT !.size = @ + 1]
  IN SetEvent(SetSample(c, TailIndex(c), [t |-> t, y |-> y, segment |-> segment]),
              segment + 1, TailIndex(c))

PutLeft(b, t, y, event) ==
  LET segment == Sample(b, b.head_index).segment - IF event THEN 1 ELSE 0
      c == [b EXCEPT !.size = @ + 1, !.head_index = @ - 1]
  IN SetEvent(SetSample(c, c.head_index, [t |-> t, y |-> y, segment |-> segment]),
              segment, c.head_index - 1)

-----------------------------------------------------------------------------
(* record: add a sample at one end                                         *)

EndIndex(b, at_right) == IF at_right THEN TailIndex(b) ELSE b.head_index

\* An event keeps the time of the sample at the end; a step moves on from it.
Rejected(b, t, at_right, event) ==
  LET end == Sample(b, EndIndex(b, at_right)).t
  IN /\ b.size >= 1
     /\ \/ event /\ end # t
        \/ ~event /\ at_right /\ end >= t
        \/ ~event /\ ~at_right /\ end <= t

\* An event that does not change the value is not recorded.
Filtered(b, y, at_right, event) ==
  event /\ b.size > 1 /\ Sample(b, EndIndex(b, at_right)).y = y

\* A mutant of ReplacesEnd: two events at the same place are both kept.
ReplacesNothing(b, at_right, event) == FALSE

\* A second event at the same place replaces the first.
ReplacesEnd(b, at_right, event) ==
  /\ event /\ b.size > 1
  /\ IF at_right THEN EventLeftOf(b, TailIndex(b)) ELSE EventRightOf(b, b.head_index)

Recorded(b, t, y, at_right, event) ==
  LET r == Reserved(b)
      c == IF ~ReplacesEnd(r, at_right, event) THEN r
           ELSE IF at_right THEN DiscardRight(r) ELSE DiscardLeft(r)
  IN IF b.size = 0 THEN PutFirst(r, t, y)
     ELSE IF Rejected(r, t, at_right, event) \/ Filtered(r, y, at_right, event) THEN r
     ELSE IF at_right THEN PutRight(c, t, y, event) ELSE PutLeft(c, t, y, event)

DiscardedLeft(b, n) ==
  LET after[k \in 0 .. n] == IF k = 0 THEN b ELSE DiscardLeft(after[k - 1]) IN after[n]

DiscardedRight(b, n) ==
  LET after[k \in 0 .. n] == IF k = 0 THEN b ELSE DiscardRight(after[k - 1]) IN after[n]

\* discard_samples_left: keep one sample before the limit to interpolate from.
WithoutOlder(b, limit) ==
  DiscardedLeft(b, Min({n \in 0 .. b.size - 1 :
    n = b.size - 1 \/ Sample(b, b.head_index + n + 1).t >= limit}))

\* A mutant of WithoutNewer: the sample right of the limit goes, too.
WithoutRight(b, limit) ==
  DiscardedRight(b, Min({n \in 0 .. b.size - 1 :
    n = b.size - 1 \/ Sample(b, TailIndex(b) - n).t <= limit}))

\* discard_samples_right
WithoutNewer(b, limit) ==
  DiscardedRight(b, Min({n \in 0 .. b.size - 1 :
    n = b.size - 1 \/ Sample(b, TailIndex(b) - n - 1).t <= limit}))

\* jmi_delaybuffer_record_sample and jmi_delaybuffer_record_sample_left
RecordedRight(b, t, y, event, max_delay) ==
  LET c == Recorded(b, t, y, TRUE, event)
  IN IF Rejected(b, t, TRUE, event) THEN c ELSE WithoutOlder(c, t - max_delay)

RecordedLeft(b, t, y, event, max_delay) ==
  LET c == Recorded(b, t, y, FALSE, event)
  IN IF Rejected(b, t, FALSE, event) THEN c ELSE WithoutNewer(c, t + max_delay)

-----------------------------------------------------------------------------
(* evaluate: find the interval of the delayed time                         *)

Clamped(b, index) == Max({b.head_index, Min({index, TailIndex(b)})})

\* A mutant of Position: the search goes to the right only.
PositionRight(b, at_event, tr, index) ==
  LET l == Clamped(b, index)
  IN IF ~at_event /\ EventRightOf(b, l) THEN l
     ELSE Min({i \in l .. TailIndex(b) :
                 \/ i = TailIndex(b)
                 \/ ~at_event /\ EventRightOf(b, i + 1)
                 \/ Sample(b, i + 1).t > tr})

\* update_position: the interval around tr that can be reached from index, to
\* the left and then to the right, without crossing an event unless at_event.
Position(b, at_event, tr, index) ==
  LET l == Max({i \in b.head_index .. Clamped(b, index) :
                  \/ i = b.head_index
                  \/ ~at_event /\ EventLeftOf(b, i)
                  \/ Sample(b, i).t <= tr})
  IN IF b.size = 1 THEN b.head_index
     ELSE IF ~at_event /\ EventRightOf(b, l) THEN l
     ELSE Min({i \in l .. TailIndex(b) :
                 \/ i = TailIndex(b)
                 \/ ~at_event /\ EventRightOf(b, i + 1)
                 \/ Sample(b, i + 1).t > tr})

\* evaluate leaves the position alone if there are less than two samples.
PositionEvaluated(b, at_event, tr, index) ==
  IF b.size <= 1 THEN index ELSE Position(b, at_event, tr, index)

\* The samples the value is interpolated between: one, or the ends of an interval.
Interval(b, index) ==
  << Sample(b, index), IF EventRightOf(b, index) THEN Sample(b, index) ELSE Sample(b, index + 1) >>

\* The present input is put at the end for the time of one evaluation; it is
\* not if the last sample is not older.
WithCurrent(b, t, y, at_right) == Recorded(b, t, y, at_right, FALSE)

WithoutCurrent(b, size, at_right) ==
  IF b.size = size THEN b ELSE IF at_right THEN DiscardRight(b) ELSE DiscardLeft(b)

-----------------------------------------------------------------------------
\* The first event right, or left, of a position; none if that is an end.
NextEventTime(b, index, none) ==
  LET i == LastOnSegment(b, index)
  IN IF b.size <= 0 \/ i >= TailIndex(b) THEN none ELSE Sample(b, i).t

PreviousEventTime(b, index, none) ==
  LET i == FirstOnSegment(b, index)
  IN IF b.size <= 0 \/ i <= b.head_index THEN none ELSE Sample(b, i).t

\* jmi_delaybuffer_truncate_left and _right: the samples beyond the limit are
\* replaced by one at the limit, with the value y evaluated there.
TruncatedLeft(b, limit, y) ==
  LET n == Cardinality({i \in Indices(b) : Sample(b, i).t <= limit})
  IN IF b.size > 0 /\ Sample(b, b.head_index).t < limit
       THEN Recorded(DiscardedLeft(b, n), limit, y, FALSE, FALSE)
       ELSE b

TruncatedRight(b, limit, y) ==
  LET n == Cardinality({i \in Indices(b) : Sample(b, i).t >= limit})
  IN IF b.size > 0 /\ Sample(b, TailIndex(b)).t > limit
       THEN Recorded(DiscardedRight(b, n), limit, y, TRUE, FALSE)
       ELSE b

-----------------------------------------------------------------------------
(* What jmi_delay_impl.h promises of a buffer                              *)

\* "Increases between points, except at events, where it remains the same.
\* There may never be two events in a row without an event-free interval".
SamplesOrdered(b) ==
  /\ \A i \in Indices(b) \ {TailIndex(b)} :
       LET s == Sample(b, i)
           r == Sample(b, i + 1)
       IN \/ s.segment = r.segment /\ s.t < r.t
          \/ s.segment + 1 = r.segment /\ s.t = r.t
  /\ \A i \in Indices(b) :
       b.head_index < i /\ i < TailIndex(b) => ~(EventLeftOf(b, i) /\ EventRightOf(b, i))

\* Every event points to the sample left of it, the first to the one before
\* the buffer and the last to the last sample.
EventsFound(b) ==
  \A i \in Indices(b) :
    /\ EventLeftOf(b, i) => SampleLeftOf(b, Sample(b, i).segment) = i - 1
    /\ EventRightOf(b, i) => SampleLeftOf(b, Sample(b, i).segment + 1) = i
=============================================================================
