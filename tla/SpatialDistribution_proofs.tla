---------------------- MODULE SpatialDistribution_proofs ----------------------
(***************************************************************************)
(* What flows out of a spatial distribution is what is in it, and every    *)
(* sample is taken, for pipes and behaviours of any length: the invariant  *)
(* that the importer's calls keep.                                         *)
(***************************************************************************)
EXTENDS SpatialDistribution, DelayBuffer_proofs, FiniteSetTheorems

(* A segment reaches from samples up to a time, to samples from it on.     *)
Starts(b, sg, t) == \E l \in Indices(b) : Sample(b, l).segment = sg /\ Sample(b, l).t <= t
Ends(b, sg, t) == \E r \in Indices(b) : Sample(b, r).segment = sg /\ t <= Sample(b, r).t
IsAround(b, sg, t) == Starts(b, sg, t) /\ Ends(b, sg, t)

(* The segment that a position is on.                                      *)
SegmentAt(b, index) == Sample(b, Clamped(b, index)).segment

LastSegment(b) == Sample(b, TailIndex(b)).segment

Inside(f, t) == f[1].t <= t /\ t <= f[2].t

---------------------------------------------------------------------------
(* The interval found is around the time if the segment is.                *)
LEMMA IntervalAround ==
  ASSUME NEW T, NEW Y, AreTimes(T), NEW b, IsBuffer(b, T, Y), Kept(b), b.size > 1,
         NEW tr \in Int, NEW index \in Int
  PROVE  LET p == Position(b, FALSE, tr, index)
             sg == SegmentAt(b, index)
         IN /\ p \in Indices(b) /\ Sample(b, p).segment = sg
            /\ Inside(Interval(b, p), tr) <=> IsAround(b, sg, tr)
<1>a. T \subseteq Int
  BY DEF AreTimes
<1> USE <1>a
<1> DEFINE c == Clamped(b, index)
           p == Position(b, FALSE, tr, index)
           sg == SegmentAt(b, index)
           first == FirstOnSegment(b, c)
           last == LastOnSegment(b, c)
<1>0. b.size > 0 /\ b.head_index \in Int /\ TailIndex(b) \in Int /\ Indices(b) = b.head_index .. TailIndex(b)
  BY IndicesAre
<1>1. c \in Indices(b) /\ sg = Sample(b, c).segment
  BY <1>0, ClampedIs DEF SegmentAt
<1>2. FoundOnSegment(b, p, tr, c)
  BY ONLY AreTimes(T), IsBuffer(b, T, Y), Kept(b), b.size > 1, tr \in Int, index \in Int, PositionOnSegment
<1>3. /\ p \in first .. last
      /\ p = first \/ Sample(b, p).t <= tr
      /\ p = last \/ p + 1 = last \/ Sample(b, p + 1).t > tr
  BY <1>2 DEF FoundOnSegment
<1> HIDE DEF p, c, sg
<1>4. /\ first \in Indices(b) /\ last \in Indices(b) /\ first \in Int /\ last \in Int
      /\ Sample(b, first).segment = sg /\ Sample(b, last).segment = sg
      /\ first <= c /\ c <= last
  BY <1>0, <1>1 DEF Kept, SegmentFound
<1>5. p \in Indices(b) /\ Sample(b, p).segment = sg
      /\ (p < last => ~ EventRightOf(b, p))
  <2>1. p \in Segment(b, c)
    BY <1>3 DEF Segment
  <2> QED
    BY ONLY AreTimes(T), IsBuffer(b, T, Y), Kept(b), <1>1, <2>1, OnSegment
<1>6. ASSUME NEW j \in Indices(b), Sample(b, j).segment = sg
      PROVE  Sample(b, first).t <= Sample(b, j).t /\ Sample(b, j).t <= Sample(b, last).t
  <2>1. Sample(b, j).segment = Sample(b, c).segment
    BY <1>1, <1>6
  <2>2. first \in b.head_index .. j /\ last \in j .. TailIndex(b)
    BY ONLY AreTimes(T), IsBuffer(b, T, Y), Kept(b), <1>1, <2>1, j \in Indices(b), SameSegment
  <2> QED
    BY <1>0, <1>4, <2>2 DEF Kept, Ordered
<1>7. EventRightOf(b, last)
  BY <1>1 DEF Kept, SegmentFound
<1> HIDE DEF first, last
<1>8. p \in Int /\ Sample(b, p).t \in Int /\ Sample(b, p + 1).t \in Int
      /\ Sample(b, first).t \in Int /\ Sample(b, last).t \in Int
  <2>1. p \in Int /\ p + 1 \in Int
    BY <1>0, <1>5
  <2> QED
    BY <1>4, <2>1, SampleType
<1>9. Interval(b, p)[1] = Sample(b, p)
      /\ Interval(b, p)[2] = IF p = last THEN Sample(b, p) ELSE Sample(b, p + 1)
  BY <1>3, <1>4, <1>5, <1>7, <1>8 DEF Interval
<1>10. ASSUME IsAround(b, sg, tr)
       PROVE  Inside(Interval(b, p), tr)
  <2>1. PICK l \in Indices(b), r \in Indices(b) : /\ Sample(b, l).segment = sg /\ Sample(b, l).t <= tr
                                                  /\ Sample(b, r).segment = sg /\ tr <= Sample(b, r).t
    BY <1>10 DEF IsAround, Starts, Ends
  <2>2. Sample(b, l).t \in Int /\ Sample(b, r).t \in Int
    BY IndicesAre, SampleType
  <2>3. Sample(b, first).t <= tr /\ tr <= Sample(b, last).t
    BY <1>6, <1>8, <2>1, <2>2
  <2>4. Sample(b, p).t <= tr
    BY <1>3, <2>3
  <2>5. p = last => tr <= Sample(b, p).t
    BY <2>3
  <2>6. p # last => tr <= Sample(b, p + 1).t
    BY <1>3, <1>8, <2>3
  <2> QED
    BY <1>9, <2>4, <2>5, <2>6 DEF Inside
<1>11. ASSUME Inside(Interval(b, p), tr)
       PROVE  IsAround(b, sg, tr)
  <2>1. Starts(b, sg, tr)
    BY <1>5, <1>9, <1>11 DEF Inside, Starts
  <2>2. CASE p = last
    BY <1>5, <1>9, <1>11, <2>1, <2>2 DEF Inside, Ends, IsAround
  <2>3. CASE p # last
    <3>1. p + 1 \in Segment(b, c)
      BY <1>3, <1>4, <1>8, <2>3 DEF Segment, first, last
    <3>2. p + 1 \in Indices(b) /\ Sample(b, p + 1).segment = Sample(b, c).segment
      BY ONLY AreTimes(T), IsBuffer(b, T, Y), Kept(b), <1>1, <3>1, OnSegment
    <3>3. Ends(b, sg, tr)
      BY <1>1, <1>9, <1>11, <2>3, <3>2 DEF Inside, Ends
    <3> QED
      BY <2>1, <3>3 DEF IsAround
  <2> QED
    BY <2>2, <2>3
<1> QED
  BY <1>5, <1>10, <1>11 DEF p, sg

(* A position found across events is around every time in the buffer.      *)
LEMMA AcrossAround ==
  ASSUME NEW T, NEW Y, AreTimes(T), NEW b, IsBuffer(b, T, Y), Kept(b), b.size > 1,
         NEW tr \in Int, NEW index \in Int,
         Sample(b, b.head_index).t <= tr, tr <= Sample(b, TailIndex(b)).t
  PROVE  LET p == Position(b, TRUE, tr, index)
         IN p \in Indices(b) /\ IsAround(b, Sample(b, p).segment, tr)
<1>a. T \subseteq Int
  BY DEF AreTimes
<1> USE <1>a
<1> DEFINE p == Position(b, TRUE, tr, index)
<1>1. FoundAcross(b, p, tr)
  BY ONLY AreTimes(T), IsBuffer(b, T, Y), b.size > 1, tr \in Int, index \in Int, PositionAcross
<1> HIDE DEF p
<1>2. /\ p \in Indices(b) /\ p \in Int
      /\ p = b.head_index \/ Sample(b, p).t <= tr
      /\ p = TailIndex(b) \/ Sample(b, p + 1).t > tr
  BY <1>1, IndicesAre DEF FoundAcross
<1>3. Sample(b, p).t <= tr
  BY <1>2
<1>4. Starts(b, Sample(b, p).segment, tr)
  BY <1>2, <1>3 DEF Starts
<1>5. Ends(b, Sample(b, p).segment, tr)
  <2>1. CASE p = TailIndex(b)
    BY <1>2, <2>1 DEF Ends
  <2>2. CASE p # TailIndex(b)
    <3>1. Sample(b, p + 1).t > tr /\ Sample(b, p).t \in Int /\ Sample(b, p + 1).t \in Int
      <4>1. p + 1 \in Int
        BY <1>2
      <4> QED
        BY <1>2, <2>2, <4>1, SampleType
    <3>2. /\ p + 1 \in Indices(b)
          /\ EventRightOf(b, p) => Sample(b, p + 1).t = Sample(b, p).t
          /\ ~ EventRightOf(b, p) => Sample(b, p + 1).segment = Sample(b, p).segment
      BY ONLY IsBuffer(b, T, Y), Kept(b), <1>2, <2>2, Neighbours
    <3>3. ~ EventRightOf(b, p)
      BY <1>3, <3>1, <3>2
    <3>4. tr <= Sample(b, p + 1).t
      BY <3>1
    <3> QED
      BY <3>2, <3>3, <3>4 DEF Ends
  <2> QED
    BY <2>1, <2>2
<1> QED
  BY <1>2, <1>4, <1>5 DEF IsAround, p

(* The time of an event is asked for from any index on the segment.        *)
LEMMA PreviousEvent ==
  ASSUME NEW T, NEW Y, AreTimes(T), NEW b, IsBuffer(b, T, Y), Kept(b), NEW i \in Indices(b),
         NEW r, Sample(b, r).segment = Sample(b, i).segment, NEW none, NEW tr \in Int
  PROVE  LET sg == Sample(b, i).segment
             e == PreviousEventTime(b, r, none)
         IN \/ FirstEvent(b) = sg /\ e = none
            \/ FirstEvent(b) # sg /\ (tr < e <=> ~ Starts(b, sg, tr))
<1>a. T \subseteq Int
  BY DEF AreTimes
<1> USE <1>a
<1> DEFINE sg == Sample(b, i).segment
           first == FirstOnSegment(b, i)
           e == PreviousEventTime(b, r, none)
<1>0. b.size \in Nat /\ ~ (b.size <= 0) /\ b.head_index \in Indices(b) /\ b.head_index \in Int /\ TailIndex(b) \in Int
      /\ Indices(b) = b.head_index .. TailIndex(b) /\ i \in Int /\ b.head_index <= i /\ i <= TailIndex(b)
  <2>1. /\ b.head_index \in Int /\ TailIndex(b) \in Int /\ b.size \in Nat
        /\ TailIndex(b) = (b.head_index + b.size) - 1
        /\ Indices(b) = b.head_index .. TailIndex(b)
    BY IndicesAre
  <2> QED
    BY <2>1
<1>1. first \in Indices(b) /\ first \in Int /\ b.head_index <= first /\ Sample(b, first).segment = sg
  BY <1>0 DEF Kept, SegmentFound
<1>2. e = IF first <= b.head_index THEN none ELSE Sample(b, first).t
  <2>1. FirstOnSegment(b, r) = first
    BY DEF FirstOnSegment
  <2> QED
    BY <1>0, <2>1 DEF PreviousEventTime
<1>3. ASSUME NEW j \in Indices(b), Sample(b, j).segment = sg
      PROVE  first <= j /\ Sample(b, first).t <= Sample(b, j).t
  <2>1. first \in b.head_index .. j
    BY ONLY AreTimes(T), IsBuffer(b, T, Y), Kept(b), i \in Indices(b), <1>3, SameSegment
  <2> QED
    BY <1>0, <1>1, <2>1 DEF Kept, Ordered
<1> HIDE DEF first, e
<1>4. CASE first <= b.head_index
  BY <1>0, <1>1, <1>2, <1>4 DEF FirstEvent, e
<1>5. CASE ~ (first <= b.head_index)
  <2>1. FirstEvent(b) # sg
    BY <1>0, <1>3, <1>5 DEF FirstEvent
  <2>2. e = Sample(b, first).t /\ e \in Int
    BY <1>1, <1>2, <1>5, SampleType
  <2>3. ASSUME Starts(b, sg, tr)
        PROVE  ~ (tr < e)
    <3>1. PICK l \in Indices(b) : Sample(b, l).segment = sg /\ Sample(b, l).t <= tr
      BY <2>3 DEF Starts
    <3>2. Sample(b, l).t \in Int
      BY IndicesAre, SampleType
    <3> QED
      BY <1>3, <2>2, <3>1, <3>2
  <2>4. ASSUME ~ (tr < e)
        PROVE  Starts(b, sg, tr)
    BY <1>1, <2>2, <2>4 DEF Starts
  <2> QED
    BY <2>1, <2>3, <2>4 DEF e
<1> QED
  BY <1>4, <1>5

LEMMA NextEvent ==
  ASSUME NEW T, NEW Y, AreTimes(T), NEW b, IsBuffer(b, T, Y), Kept(b), NEW i \in Indices(b),
         NEW r, Sample(b, r).segment = Sample(b, i).segment, NEW none, NEW tr \in Int
  PROVE  LET sg == Sample(b, i).segment
             e == NextEventTime(b, r, none)
         IN \/ LastSegment(b) = sg /\ e = none
            \/ LastSegment(b) # sg /\ (e < tr <=> ~ Ends(b, sg, tr))
<1>a. T \subseteq Int
  BY DEF AreTimes
<1> USE <1>a
<1> DEFINE sg == Sample(b, i).segment
           last == LastOnSegment(b, i)
           e == NextEventTime(b, r, none)
<1>0. b.size \in Nat /\ ~ (b.size <= 0) /\ TailIndex(b) \in Indices(b) /\ b.head_index \in Int /\ TailIndex(b) \in Int
      /\ Indices(b) = b.head_index .. TailIndex(b) /\ i \in Int /\ b.head_index <= i /\ i <= TailIndex(b)
  <2>1. /\ b.head_index \in Int /\ TailIndex(b) \in Int /\ b.size \in Nat
        /\ TailIndex(b) = (b.head_index + b.size) - 1
        /\ Indices(b) = b.head_index .. TailIndex(b)
    BY IndicesAre
  <2> QED
    BY <2>1
<1>1. last \in Indices(b) /\ last \in Int /\ last <= TailIndex(b) /\ Sample(b, last).segment = sg
  BY <1>0 DEF Kept, SegmentFound
<1>2. e = IF last >= TailIndex(b) THEN none ELSE Sample(b, last).t
  <2>1. LastOnSegment(b, r) = last
    BY DEF LastOnSegment
  <2> QED
    BY <1>0, <2>1 DEF NextEventTime
<1>3. ASSUME NEW j \in Indices(b), Sample(b, j).segment = sg
      PROVE  j <= last /\ Sample(b, j).t <= Sample(b, last).t
  <2>1. last \in j .. TailIndex(b)
    BY ONLY AreTimes(T), IsBuffer(b, T, Y), Kept(b), i \in Indices(b), <1>3, SameSegment
  <2> QED
    BY <1>0, <1>1, <2>1 DEF Kept, Ordered
<1> HIDE DEF last, e
<1>4. CASE last >= TailIndex(b)
  BY <1>0, <1>1, <1>2, <1>4 DEF LastSegment, e
<1>5. CASE ~ (last >= TailIndex(b))
  <2>1. LastSegment(b) # sg
    BY <1>0, <1>3, <1>5 DEF LastSegment
  <2>2. e = Sample(b, last).t /\ e \in Int
    BY <1>1, <1>2, <1>5, SampleType
  <2>3. ASSUME Ends(b, sg, tr)
        PROVE  ~ (e < tr)
    <3>1. PICK l \in Indices(b) : Sample(b, l).segment = sg /\ tr <= Sample(b, l).t
      BY <2>3 DEF Ends
    <3>2. Sample(b, l).t \in Int
      BY IndicesAre, SampleType
    <3> QED
      BY <1>3, <2>2, <3>1, <3>2
  <2>4. ASSUME ~ (e < tr)
        PROVE  Ends(b, sg, tr)
    BY <1>1, <2>2, <2>4 DEF Ends
  <2> QED
    BY <2>1, <2>3, <2>4 DEF e
<1> QED
  BY <1>4, <1>5

---------------------------------------------------------------------------
(* Positions are on the segments they were on while samples are put at an  *)
(* end and taken away again; the event indicator says whether what flows   *)
(* out is found between samples.                                           *)
SignalsAtRight(T, Y, b, t, y, tr, index, none) ==
  LET c == WithCurrent(b, t, y, FALSE)
      e == WithoutCurrent(c, b.size, FALSE)
      p == Position(c, FALSE, tr, index)
  IN /\ c.size > 1 /\ ~ (c.size <= 1) /\ p \in Int
     /\ Ends(b, SegmentAt(b, index), tr)
          => (Inside(Interval(c, p), tr) <=> ~ (tr < PreviousEventTime(e, p, none)))
     /\ IsBuffer(e, T, Y) /\ Stays(b, e)
     /\ SegmentAt(e, p) = SegmentAt(b, index)

LEMMA SignalledRight ==
  ASSUME NEW T, NEW Y, AreTimes(T), 0 \in T, 0 \in Y, NEW b, IsBuffer(b, T, Y), Kept(b), b.size > 1,
         NEW t \in T, NEW y \in Y, NEW tr \in Int, NEW index \in Int, NEW none \in Int,
         t < tr, none <= tr
  PROVE  SignalsAtRight(T, Y, b, t, y, tr, index, none)
<1>a. T \subseteq Int
  BY DEF AreTimes
<1> USE <1>a
<1> DEFINE c == WithCurrent(b, t, y, FALSE)
           e == WithoutCurrent(c, b.size, FALSE)
           p == Position(c, FALSE, tr, index)
           sg == SegmentAt(b, index)
           h == b.head_index
           q == TailIndex(b)
           i == Clamped(b, index)
<1>0. /\ b.size > 0 /\ b.size \in Nat /\ h \in Int /\ q \in Int /\ q = (h + b.size) - 1 /\ h <= q
      /\ Indices(b) = h .. q /\ h \in Indices(b)
  BY IndicesAre
<1>1. /\ IsBuffer(c, T, Y) /\ Kept(c) /\ TailIndex(c) = q
      /\ IF t < Sample(b, h).t THEN Prepended(b, c, t, y, FALSE) ELSE Stays(b, c)
      /\ IsBuffer(e, T, Y) /\ Kept(e) /\ e.head_index = h /\ Unchanged(b, e)
      /\ SameSamples(c, e)
  BY ONLY AreTimes(T), 0 \in T, 0 \in Y, IsBuffer(b, T, Y), Kept(b), <1>0, t \in T, y \in Y, CurrentLeftKeeps
<1> HIDE DEF c, e
<1>2. i \in Indices(b) /\ i \in Int /\ sg = Sample(b, i).segment
  <2>1. i \in Indices(b)
    BY ONLY IsBuffer(b, T, Y), <1>0, index \in Int, ClampedIs
  <2> QED
    BY <1>0, <2>1 DEF SegmentAt
<1>3. /\ c.size > 1 /\ ~ (c.size <= 1) /\ c.size > 0
      /\ c.head_index \in Int /\ c.head_index <= h /\ h <= c.head_index + 1
      /\ Indices(c) = c.head_index .. q
      /\ \A j \in h .. q : Sample(c, j) = Sample(b, j)
  <2>1. Indices(c) = c.head_index .. q
    BY <1>1 DEF Indices
  <2>2. CASE t < Sample(b, h).t
    BY <1>0, <1>1, <2>1, <2>2 DEF Prepended, InPlace
  <2>3. CASE ~ (t < Sample(b, h).t)
    BY <1>0, <1>1, <2>1, <2>3 DEF Stays, Unchanged, InPlace
  <2> QED
    BY <2>2, <2>3
<1>4. Sample(c, c.head_index).segment = FirstEvent(b) /\ Sample(c, c.head_index).t < tr
  <2>0. Sample(b, h).segment \in Int /\ Sample(b, h).t \in Int /\ t \in Int
    BY <1>0, SampleType
  <2>1. CASE t < Sample(b, h).t
    <3>1. /\ c.head_index = h - 1 /\ Sample(c, h - 1).t = t
          /\ Sample(c, h - 1).segment = Sample(b, h).segment - (IF FALSE THEN 1 ELSE 0)
      BY <1>1, <2>1 DEF Prepended
    <3>2. Sample(c, h - 1).segment = Sample(b, h).segment
      BY <2>0, <3>1
    <3> QED
      BY <3>1, <3>2 DEF FirstEvent
  <2>2. CASE ~ (t < Sample(b, h).t)
    <3>1. c.head_index = h /\ Sample(c, h) = Sample(b, h)
      BY <1>0, <1>1, <1>3, <2>2 DEF Stays
    <3>2. Sample(b, h).t < tr
      BY <2>0, <2>2
    <3> QED
      BY <3>1, <3>2 DEF FirstEvent
  <2> QED
    BY <2>1, <2>2
<1>5. SegmentAt(c, index) = sg
  <2> DEFINE k == Clamped(c, index)
  <2>1. /\ k \in Indices(c)
        /\ index \in Indices(c) => k = index
        /\ index < c.head_index => k = c.head_index
        /\ index > q => k = q
    <3>1. IsBuffer(c, T, Y) /\ c.size > 0 /\ TailIndex(c) = q
      BY <1>1, <1>3
    <3>2. /\ k \in Indices(c)
          /\ index \in Indices(c) => k = index
          /\ index < c.head_index => k = c.head_index
          /\ index > TailIndex(c) => k = TailIndex(c)
      BY ONLY <3>1, index \in Int, ClampedIs
    <3> QED
      BY <3>1, <3>2
  <2>2. /\ index \in Indices(b) => i = index
        /\ index < h => i = h
        /\ index > q => i = q
    BY ONLY IsBuffer(b, T, Y), <1>0, index \in Int, ClampedIs
  <2>3. SegmentAt(c, index) = Sample(c, k).segment
    BY DEF SegmentAt
  <2> HIDE DEF k, i
  <2>4. CASE index >= h
    <3>1. k = i
      BY <1>0, <1>3, <2>1, <2>2, <2>4
    <3>2. Sample(c, k) = Sample(b, i)
      BY <1>0, <1>2, <1>3, <3>1
    <3> QED
      BY <1>2, <2>3, <3>2
  <2>5. CASE index < h
    <3>1. i = h /\ k = c.head_index
      BY <1>0, <1>3, <2>1, <2>2, <2>5
    <3> QED
      BY <1>2, <1>4, <2>3, <3>1 DEF FirstEvent
  <2> QED
    BY <1>0, <2>4, <2>5
<1>6. /\ p \in Indices(c) /\ p \in Int /\ Sample(c, p).segment = sg
      /\ Inside(Interval(c, p), tr) <=> IsAround(c, sg, tr)
  <2>1. /\ p \in Indices(c) /\ Sample(c, p).segment = SegmentAt(c, index)
        /\ Inside(Interval(c, p), tr) <=> IsAround(c, SegmentAt(c, index), tr)
    BY ONLY AreTimes(T), <1>1, <1>3, tr \in Int, index \in Int, IntervalAround
  <2> HIDE DEF p, sg
  <2>2. p \in Int
    BY <1>0, <1>3, <2>1
  <2> QED
    BY ONLY <1>5, <2>1, <2>2
<1> HIDE DEF sg, p, i
<1>7. ASSUME Ends(b, sg, tr)
      PROVE  Ends(c, sg, tr)
  <2>1. PICK r \in Indices(b) : Sample(b, r).segment = sg /\ tr <= Sample(b, r).t
    BY <1>7 DEF Ends
  <2>2. r \in Indices(c) /\ Sample(c, r) = Sample(b, r)
    BY <1>0, <1>3
  <2> QED
    BY <2>1, <2>2 DEF Ends
<1>8. /\ Indices(e) = h .. q /\ \A j \in h .. q : Sample(e, j) = Sample(b, j)
      /\ Sample(e, p).segment = sg /\ i \in Indices(e) /\ Sample(e, i).segment = sg
      /\ FirstEvent(e) = FirstEvent(b) /\ e.size > 0
  <2>1. TailIndex(e) = q /\ e.size > 0
    BY <1>0, <1>1 DEF TailIndex, Unchanged, q
  <2>2. Indices(e) = h .. q
    BY <1>1, <2>1 DEF Indices
  <2>3. \A j \in h .. q : Sample(e, j) = Sample(b, j)
    BY <1>1 DEF Unchanged, InPlace
  <2>4. Sample(e, p).segment = sg
    BY <1>1, <1>6 DEF SameSamples
  <2>5. Sample(e, i).segment = sg
    BY <1>0, <1>2, <2>3
  <2> QED
    BY <1>0, <1>1, <1>2, <2>1, <2>2, <2>3, <2>4, <2>5 DEF FirstEvent
<1>9. ASSUME Ends(b, sg, tr)
      PROVE  Inside(Interval(c, p), tr) <=> ~ (tr < PreviousEventTime(e, p, none))
  <2> DEFINE ev == PreviousEventTime(e, p, none)
  <2>1. \/ FirstEvent(e) = sg /\ ev = none
        \/ FirstEvent(e) # sg /\ (tr < ev <=> ~ Starts(e, sg, tr))
    <3>1. Sample(e, p).segment = Sample(e, i).segment
      BY <1>8
    <3>2. \/ FirstEvent(e) = Sample(e, i).segment /\ ev = none
          \/ FirstEvent(e) # Sample(e, i).segment /\ (tr < ev <=> ~ Starts(e, Sample(e, i).segment, tr))
      BY ONLY AreTimes(T), <1>1, <1>8, <3>1, tr \in Int, PreviousEvent
    <3> QED
      BY <1>8, <3>2
  <2> HIDE DEF ev
  <2>2. CASE FirstEvent(e) = sg /\ ev = none
    <3>1. Starts(c, sg, tr)
      <4>1. c.head_index \in Indices(c) /\ Sample(c, c.head_index).segment = sg /\ Sample(c, c.head_index).t <= tr
        <5>1. Sample(c, c.head_index).t \in Int
          BY <1>1, <1>3, SampleType
        <5> QED
          BY <1>0, <1>3, <1>4, <1>8, <2>2, <5>1
      <4> QED
        BY <4>1 DEF Starts
    <3>2. ~ (tr < ev)
      BY <2>2
    <3> QED
      BY <1>6, <1>7, <1>9, <3>1, <3>2 DEF IsAround, ev
  <2>3. CASE FirstEvent(e) # sg /\ (tr < ev <=> ~ Starts(e, sg, tr))
    <3>1. Starts(c, sg, tr) <=> Starts(e, sg, tr)
      <4>1. ASSUME NEW l \in Indices(c), Sample(c, l).segment = sg
            PROVE  l \in Indices(e) /\ Sample(e, l) = Sample(c, l)
        <5>1. l # c.head_index \/ c.head_index = h
          BY <1>4, <1>8, <2>3, <4>1
        <5>2. l \in h .. q
          BY <1>0, <1>3, <4>1, <5>1
        <5> QED
          BY <1>3, <1>8, <5>2
      <4>2. ASSUME NEW l \in Indices(e)
            PROVE  l \in Indices(c) /\ Sample(e, l) = Sample(c, l)
        BY <1>0, <1>3, <1>8
      <4> QED
        BY <4>1, <4>2 DEF Starts
    <3> QED
      BY <1>6, <1>7, <1>9, <2>3, <3>1 DEF IsAround, ev
  <2> QED
    BY <2>1, <2>2, <2>3
<1>10. SegmentAt(e, p) = sg
  <2>1. /\ p \in Indices(e) => Clamped(e, p) = p
        /\ p < h => Clamped(e, p) = h
    <3>1. IsBuffer(e, T, Y) /\ e.size > 0 /\ e.head_index = h /\ p \in Int
      BY <1>1, <1>6, <1>8
    <3>2. /\ p \in Indices(e) => Clamped(e, p) = p
          /\ p < e.head_index => Clamped(e, p) = e.head_index
      BY ONLY <3>1, ClampedIs
    <3> QED
      BY <3>1, <3>2
  <2>2. CASE p >= h
    BY <1>3, <1>6, <1>8, <2>1, <2>2 DEF SegmentAt
  <2>3. CASE p < h
    <3>1. p = c.head_index
      BY <1>0, <1>3, <1>6, <2>3
    <3>2. FirstEvent(b) = sg
      BY <1>4, <1>6, <3>1
    <3> QED
      BY <1>1, <1>8, <2>1, <2>3, <3>2 DEF SegmentAt, FirstEvent
  <2> QED
    BY <1>0, <1>6, <2>2, <2>3
<1>11. Stays(b, e)
  BY <1>1 DEF Stays
<1> QED
  BY <1>1, <1>3, <1>6, <1>9, <1>10, <1>11 DEF c, e, p, sg, SignalsAtRight
SignalsAtLeft(T, Y, b, t, y, tr, index, none) ==
  LET c == WithCurrent(b, t, y, TRUE)
      e == WithoutCurrent(c, b.size, TRUE)
      p == Position(c, FALSE, tr, index)
  IN /\ c.size > 1 /\ ~ (c.size <= 1) /\ p \in Int
     /\ Starts(b, SegmentAt(b, index), tr)
          => (Inside(Interval(c, p), tr) <=> ~ (NextEventTime(e, p, none) < tr))
     /\ IsBuffer(e, T, Y) /\ Stays(b, e)
     /\ SegmentAt(e, p) = SegmentAt(b, index)

LEMMA SignalledLeft ==
  ASSUME NEW T, NEW Y, AreTimes(T), 0 \in T, 0 \in Y, NEW b, IsBuffer(b, T, Y), Kept(b), b.size > 1,
         NEW t \in T, NEW y \in Y, NEW tr \in Int, NEW index \in Int, NEW none \in Int,
         tr < t, tr <= none
  PROVE  SignalsAtLeft(T, Y, b, t, y, tr, index, none)
<1>a. T \subseteq Int
  BY DEF AreTimes
<1> USE <1>a
<1> DEFINE c == WithCurrent(b, t, y, TRUE)
           e == WithoutCurrent(c, b.size, TRUE)
           p == Position(c, FALSE, tr, index)
           sg == SegmentAt(b, index)
           h == b.head_index
           q == TailIndex(b)
           i == Clamped(b, index)
<1>0. /\ b.size > 0 /\ b.size \in Nat /\ h \in Int /\ q \in Int /\ q = (h + b.size) - 1 /\ h <= q
      /\ Indices(b) = h .. q /\ q \in Indices(b)
  BY IndicesAre
<1>1. /\ IsBuffer(c, T, Y) /\ Kept(c) /\ c.head_index = h
      /\ IF Sample(b, q).t < t THEN Extended(b, c, t, y, FALSE) ELSE Unchanged(b, c)
      /\ IsBuffer(e, T, Y) /\ Kept(e) /\ e.head_index = h /\ Unchanged(b, e)
      /\ SameSamples(c, e)
  BY ONLY AreTimes(T), 0 \in T, 0 \in Y, IsBuffer(b, T, Y), Kept(b), <1>0, t \in T, y \in Y, CurrentKeeps
<1> HIDE DEF c, e
<1>2. i \in Indices(b) /\ i \in Int /\ sg = Sample(b, i).segment
  <2>1. i \in Indices(b)
    BY ONLY IsBuffer(b, T, Y), <1>0, index \in Int, ClampedIs
  <2> QED
    BY <1>0, <2>1 DEF SegmentAt
<1>3. /\ c.size > 1 /\ ~ (c.size <= 1) /\ c.size > 0
      /\ TailIndex(c) \in Int /\ q <= TailIndex(c) /\ TailIndex(c) <= q + 1
      /\ Indices(c) = h .. TailIndex(c)
      /\ \A j \in h .. q : Sample(c, j) = Sample(b, j)
  <2>1. Indices(c) = h .. TailIndex(c) /\ TailIndex(c) = (h + c.size) - 1
    BY <1>1, IndicesAre
  <2>2. CASE Sample(b, q).t < t
    BY <1>0, <1>1, <2>1, <2>2, SMTT(20) DEF Extended, InPlace
  <2>3. CASE ~ (Sample(b, q).t < t)
    BY <1>0, <1>1, <2>1, <2>3 DEF Unchanged, InPlace
  <2> QED
    BY <2>2, <2>3
<1>4. Sample(c, TailIndex(c)).segment = LastSegment(b) /\ tr < Sample(c, TailIndex(c)).t
  <2>0. Sample(b, q).segment \in Int /\ Sample(b, q).t \in Int /\ t \in Int
    BY <1>0, SampleType
  <2>1. CASE Sample(b, q).t < t
    <3>1. /\ TailIndex(c) = q + 1 /\ Sample(c, q + 1).t = t
          /\ Sample(c, q + 1).segment = Sample(b, q).segment + (IF FALSE THEN 1 ELSE 0)
      <4>1. TailIndex(c) = (h + c.size) - 1
        BY <1>1, IndicesAre
      <4> QED
        BY <1>0, <1>1, <2>1, <4>1 DEF Extended
    <3>2. Sample(c, q + 1).segment = Sample(b, q).segment
      BY <2>0, <3>1
    <3> QED
      BY <3>1, <3>2 DEF LastSegment
  <2>2. CASE ~ (Sample(b, q).t < t)
    <3>1. TailIndex(c) = q /\ Sample(c, q) = Sample(b, q)
      <4>1. TailIndex(c) = (h + c.size) - 1
        BY <1>1, IndicesAre
      <4> QED
        BY <1>0, <1>1, <1>3, <2>2, <4>1 DEF Unchanged
    <3>2. tr < Sample(b, q).t
      BY <2>0, <2>2
    <3> QED
      BY <3>1, <3>2 DEF LastSegment
  <2> QED
    BY <2>1, <2>2
<1>5. SegmentAt(c, index) = sg
  <2> DEFINE k == Clamped(c, index)
  <2>1. /\ k \in Indices(c)
        /\ index \in Indices(c) => k = index
        /\ index < h => k = h
        /\ index > TailIndex(c) => k = TailIndex(c)
    <3>1. IsBuffer(c, T, Y) /\ c.size > 0 /\ c.head_index = h
      BY <1>1, <1>3
    <3>2. /\ k \in Indices(c)
          /\ index \in Indices(c) => k = index
          /\ index < c.head_index => k = c.head_index
          /\ index > TailIndex(c) => k = TailIndex(c)
      BY ONLY <3>1, index \in Int, ClampedIs
    <3> QED
      BY <3>1, <3>2
  <2>2. /\ index \in Indices(b) => i = index
        /\ index < h => i = h
        /\ index > q => i = q
    BY ONLY IsBuffer(b, T, Y), <1>0, index \in Int, ClampedIs
  <2>3. SegmentAt(c, index) = Sample(c, k).segment
    BY DEF SegmentAt
  <2> HIDE DEF k, i
  <2>4. CASE index <= q
    <3>1. k = i
      BY <1>0, <1>3, <2>1, <2>2, <2>4
    <3>2. Sample(c, k) = Sample(b, i)
      BY <1>0, <1>2, <1>3, <3>1
    <3> QED
      BY <1>2, <2>3, <3>2
  <2>5. CASE index > q
    <3>1. i = q /\ k = TailIndex(c)
      BY <1>0, <1>3, <2>1, <2>2, <2>5
    <3> QED
      BY <1>2, <1>4, <2>3, <3>1 DEF LastSegment
  <2> QED
    BY <1>0, <2>4, <2>5
<1>6. /\ p \in Indices(c) /\ p \in Int /\ Sample(c, p).segment = sg
      /\ Inside(Interval(c, p), tr) <=> IsAround(c, sg, tr)
  <2>1. /\ p \in Indices(c) /\ Sample(c, p).segment = SegmentAt(c, index)
        /\ Inside(Interval(c, p), tr) <=> IsAround(c, SegmentAt(c, index), tr)
    BY ONLY AreTimes(T), <1>1, <1>3, tr \in Int, index \in Int, IntervalAround
  <2> HIDE DEF p, sg
  <2>2. p \in Int
    BY <1>0, <1>3, <2>1
  <2> QED
    BY ONLY <1>5, <2>1, <2>2
<1> HIDE DEF sg, p, i
<1>7. ASSUME Starts(b, sg, tr)
      PROVE  Starts(c, sg, tr)
  <2>1. PICK r \in Indices(b) : Sample(b, r).segment = sg /\ Sample(b, r).t <= tr
    BY <1>7 DEF Starts
  <2>2. r \in Indices(c) /\ Sample(c, r) = Sample(b, r)
    BY <1>0, <1>3
  <2> QED
    BY <2>1, <2>2 DEF Starts
<1>8. /\ Indices(e) = h .. q /\ \A j \in h .. q : Sample(e, j) = Sample(b, j)
      /\ Sample(e, p).segment = sg /\ i \in Indices(e) /\ Sample(e, i).segment = sg /\ TailIndex(e) = q
      /\ LastSegment(e) = LastSegment(b) /\ e.size > 0
  <2>1. TailIndex(e) = q /\ e.size > 0
    BY <1>0, <1>1 DEF TailIndex, Unchanged, q
  <2>2. Indices(e) = h .. q
    BY <1>1, <2>1 DEF Indices
  <2>3. \A j \in h .. q : Sample(e, j) = Sample(b, j)
    BY <1>1 DEF Unchanged, InPlace
  <2>4. Sample(e, p).segment = sg
    BY <1>1, <1>6 DEF SameSamples
  <2>5. Sample(e, i).segment = sg
    BY <1>0, <1>2, <2>3
  <2> QED
    BY <1>0, <1>1, <1>2, <2>1, <2>2, <2>3, <2>4, <2>5 DEF LastSegment
<1>9. ASSUME Starts(b, sg, tr)
      PROVE  Inside(Interval(c, p), tr) <=> ~ (NextEventTime(e, p, none) < tr)
  <2> DEFINE ev == NextEventTime(e, p, none)
  <2>1. \/ LastSegment(e) = sg /\ ev = none
        \/ LastSegment(e) # sg /\ (ev < tr <=> ~ Ends(e, sg, tr))
    <3>1. Sample(e, p).segment = Sample(e, i).segment
      BY <1>8
    <3>2. \/ LastSegment(e) = Sample(e, i).segment /\ ev = none
          \/ LastSegment(e) # Sample(e, i).segment /\ (ev < tr <=> ~ Ends(e, Sample(e, i).segment, tr))
      BY ONLY AreTimes(T), <1>1, <1>8, <3>1, tr \in Int, NextEvent
    <3> QED
      BY <1>8, <3>2
  <2> HIDE DEF ev
  <2>2. CASE LastSegment(e) = sg /\ ev = none
    <3>1. Ends(c, sg, tr)
      <4>1. TailIndex(c) \in Indices(c) /\ Sample(c, TailIndex(c)).segment = sg /\ tr <= Sample(c, TailIndex(c)).t
        <5>1. Sample(c, TailIndex(c)).t \in Int
          BY <1>1, <1>3, SampleType
        <5> QED
          BY <1>0, <1>3, <1>4, <1>8, <2>2, <5>1
      <4> QED
        BY <4>1 DEF Ends
    <3>2. ~ (ev < tr)
      BY <2>2
    <3> QED
      BY <1>6, <1>7, <1>9, <3>1, <3>2 DEF IsAround, ev
  <2>3. CASE LastSegment(e) # sg /\ (ev < tr <=> ~ Ends(e, sg, tr))
    <3>1. Ends(c, sg, tr) <=> Ends(e, sg, tr)
      <4>1. ASSUME NEW l \in Indices(c), Sample(c, l).segment = sg
            PROVE  l \in Indices(e) /\ Sample(e, l) = Sample(c, l)
        <5>1. l # TailIndex(c) \/ TailIndex(c) = q
          BY <1>4, <1>8, <2>3, <4>1
        <5>2. l \in h .. q
          BY <1>0, <1>3, <4>1, <5>1
        <5> QED
          BY <1>3, <1>8, <5>2
      <4>2. ASSUME NEW l \in Indices(e)
            PROVE  l \in Indices(c) /\ Sample(e, l) = Sample(c, l)
        BY <1>0, <1>3, <1>8
      <4> QED
        BY <4>1, <4>2 DEF Ends
    <3> QED
      BY <1>6, <1>7, <1>9, <2>3, <3>1 DEF IsAround, ev
  <2> QED
    BY <2>1, <2>2, <2>3
<1>10. SegmentAt(e, p) = sg
  <2>1. /\ p \in Indices(e) => Clamped(e, p) = p
        /\ p > q => Clamped(e, p) = q
    <3>1. IsBuffer(e, T, Y) /\ e.size > 0 /\ TailIndex(e) = q /\ p \in Int
      BY <1>1, <1>6, <1>8
    <3>2. /\ p \in Indices(e) => Clamped(e, p) = p
          /\ p > TailIndex(e) => Clamped(e, p) = TailIndex(e)
      BY ONLY <3>1, ClampedIs
    <3> QED
      BY <3>1, <3>2
  <2>2. CASE p <= q
    BY <1>3, <1>6, <1>8, <2>1, <2>2 DEF SegmentAt
  <2>3. CASE p > q
    <3>1. p = TailIndex(c)
      BY <1>0, <1>3, <1>6, <2>3
    <3>2. LastSegment(b) = sg
      BY <1>4, <1>6, <3>1
    <3> QED
      BY <1>1, <1>8, <2>1, <2>3, <3>2 DEF SegmentAt, LastSegment
  <2> QED
    BY <1>0, <1>6, <2>2, <2>3
<1>11. Stays(b, e)
  BY <1>1 DEF Stays
<1> QED
  BY <1>1, <1>3, <1>6, <1>9, <1>10, <1>11 DEF c, e, p, sg, SignalsAtLeft
---------------------------------------------------------------------------
(* What a sample recorded at an end leaves: the times and segments of the  *)
(* samples that stay, the new end, and one sample beyond the limit.        *)
SameTimes(b, c) ==
  \A i \in Indices(b) \cap Indices(c) :
    Sample(c, i).t = Sample(b, i).t /\ Sample(c, i).segment = Sample(b, i).segment

PutOnLeft(b, c, t, event, limit) ==
  /\ c.head_index \in {b.head_index - 1, b.head_index}
  /\ c.head_index < TailIndex(c) /\ TailIndex(c) <= TailIndex(b)
  /\ SameTimes(b, c)
  /\ Sample(c, c.head_index).t = t
  /\ c.head_index = b.head_index - 1
       => Sample(c, c.head_index).segment = FirstEvent(b) - (IF event THEN 1 ELSE 0)
  /\ Sample(c, TailIndex(c) - 1).t <= limit /\ limit <= Sample(c, TailIndex(c)).t

PutOnRight(b, c, t, event, limit) ==
  /\ TailIndex(c) \in {TailIndex(b), TailIndex(b) + 1}
  /\ b.head_index <= c.head_index /\ c.head_index < TailIndex(c)
  /\ SameTimes(b, c)
  /\ Sample(c, TailIndex(c)).t = t
  /\ TailIndex(c) = TailIndex(b) + 1
       => Sample(c, TailIndex(c)).segment = LastSegment(b) + (IF event THEN 1 ELSE 0)
  /\ Sample(c, c.head_index).t <= limit /\ limit <= Sample(c, c.head_index + 1).t

LEMMA RecordedOnLeft ==
  ASSUME NEW T, NEW Y, AreTimes(T), 0 \in T, 0 \in Y, NEW b, IsBuffer(b, T, Y), Kept(b), b.size > 0,
         NEW t \in T, NEW y \in Y, NEW event \in BOOLEAN, Precedes(b, t, event), NEW len \in Nat \ {0},
         t + len <= Sample(b, TailIndex(b)).t
  PROVE  LET c == RecordedLeft(b, t, y, event, len)
         IN IsBuffer(c, T, Y) /\ Kept(c) /\ c.size > 1 /\ PutOnLeft(b, c, t, event, t + len)
<1>a. T \subseteq Int
  BY DEF AreTimes
<1> DEFINE c == RecordedLeft(b, t, y, event, len)
           h == b.head_index
           q == TailIndex(b)
           limit == t + len
<1>0. /\ h \in Int /\ q \in Int /\ b.size \in Nat /\ h <= q /\ q = (h + b.size) - 1
      /\ Indices(b) = h .. q /\ t \in Int /\ limit \in Int /\ t < limit
  <2>1. t \in Int
    BY <1>a
  <2> QED
    BY <2>1, IndicesAre
<1>1. IsBuffer(c, T, Y) /\ Kept(c) /\ c.size > 0 /\ RecordedLeftAndShortened(T, Y, b, c, t, y, event, len)
  <2>1. len \in Nat
    OBVIOUS
  <2> QED
    BY ONLY AreTimes(T), 0 \in T, 0 \in Y, IsBuffer(b, T, Y), Kept(b), b.size > 0, t \in T, y \in Y,
            event \in BOOLEAN, Precedes(b, t, event), <2>1, RecordedLeftIs
<1>2. PICK d : /\ IsBuffer(d, T, Y) /\ Kept(d) /\ TailIndex(d) = q
               /\ RecordedAtLeft(b, d, t, y, event)
               /\ ShortenedRight(d, c, limit)
  BY <1>1 DEF RecordedLeftAndShortened
<1> HIDE DEF c
<1>3. \A i \in h .. q : Sample(b, i).t \in Int /\ Sample(b, i).segment \in Int
  <2> SUFFICES ASSUME NEW i \in h .. q
               PROVE  Sample(b, i).t \in Int /\ Sample(b, i).segment \in Int
    OBVIOUS
  <2>1. i \in Int
    BY <1>0
  <2> QED
    BY <1>a, <2>1, SampleType
<1>4. d.head_index \in Int /\ TailIndex(d) = (d.head_index + d.size) - 1
  BY <1>2, IndicesAre
<1> HIDE DEF h, q, limit
<1>5. /\ d.head_index \in {h - 1, h}
      /\ \A i \in h .. q : Sample(d, i).t = Sample(b, i).t /\ Sample(d, i).segment = Sample(b, i).segment
      /\ Sample(d, d.head_index).t = t
      /\ d.head_index = h - 1 => Sample(d, d.head_index).segment = FirstEvent(b) - (IF event THEN 1 ELSE 0)
  <2>1. CASE event /\ b.size > 1 /\ Sample(b, h).y = y
    <3>1. Unchanged(b, d) /\ d.head_index = h
      BY <1>2, <2>1 DEF RecordedAtLeft, h
    <3>2. \A i \in h .. q : Sample(d, i) = Sample(b, i)
      BY <3>1 DEF Unchanged, InPlace, h, q
    <3>3. Sample(d, h).t = t
      BY <1>0, <2>1, <3>2 DEF Precedes, h
    <3> QED
      BY <1>0, <3>1, <3>2, <3>3
  <2>2. CASE ~ (event /\ b.size > 1 /\ Sample(b, h).y = y) /\ event /\ b.size > 1 /\ EventRightOf(b, h)
    <3>1. ReplacedFirst(b, d, t, y)
      BY <1>2, <2>2 DEF RecordedAtLeft, h
    <3>2. /\ d.head_index = h
          /\ \A i \in h + 1 .. q : Sample(d, i) = Sample(b, i)
          /\ Sample(d, h).t = t /\ Sample(d, h).segment = Sample(b, h).segment
      BY <3>1 DEF ReplacedFirst, InPlace, h, q
    <3>3. t = Sample(b, h).t
      BY <2>2 DEF Precedes, h
    <3>4. ASSUME NEW i \in h .. q
          PROVE  Sample(d, i).t = Sample(b, i).t /\ Sample(d, i).segment = Sample(b, i).segment
      <4>1. CASE i = h
        BY <3>2, <3>3, <4>1
      <4>2. CASE i # h
        <5>1. i \in h + 1 .. q
          BY <1>0, <4>2
        <5> QED
          BY <3>2, <5>1
      <4> QED
        BY <4>1, <4>2
    <3> QED
      BY <1>0, <3>2, <3>4
  <2>3. CASE ~ (event /\ b.size > 1 /\ Sample(b, h).y = y) /\ ~ (event /\ b.size > 1 /\ EventRightOf(b, h))
    <3>1. Prepended(b, d, t, y, event)
      BY <1>2, <2>3 DEF RecordedAtLeft, h
    <3> QED
      BY <3>1 DEF Prepended, InPlace, FirstEvent, h, q
  <2> QED
    BY <2>1, <2>2, <2>3
<1>6. /\ c.head_index = d.head_index /\ SameSamples(d, c) /\ TailIndex(c) \in d.head_index .. q
      /\ c.head_index < TailIndex(c) => Sample(d, TailIndex(c) - 1).t <= limit
      /\ TailIndex(c) < q => Sample(d, TailIndex(c)).t > limit
  BY <1>2 DEF ShortenedRight, Indices
<1>7. /\ TailIndex(c) = (c.head_index + c.size) - 1 /\ TailIndex(c) \in Int /\ c.head_index \in Int
      /\ c.size \in Nat /\ Indices(c) = c.head_index .. TailIndex(c)
  BY <1>1, IndicesAre
<1>8. Sample(d, q).t = Sample(b, q).t /\ limit <= Sample(b, q).t /\ Sample(b, q).t \in Int
  BY <1>0, <1>3, <1>5 DEF limit, q
<1>9. limit <= Sample(d, TailIndex(c)).t
  <2>1. CASE TailIndex(c) = q
    BY <1>8, <2>1
  <2>2. CASE TailIndex(c) < q
    <3>1. Sample(d, TailIndex(c)).t > limit /\ Sample(d, TailIndex(c)).t \in Int
      BY <1>a, <1>2, <1>6, <1>7, <2>2, SampleType
    <3> QED
      BY <1>0, <3>1
  <2> QED
    BY <1>0, <1>4, <1>6, <1>7, <2>1, <2>2
<1>10. c.head_index < TailIndex(c)
  <2>1. SUFFICES ASSUME c.head_index = TailIndex(c)
                 PROVE  FALSE
    BY <1>4, <1>6, <1>7
  <2>2. Sample(d, TailIndex(c)).t = t
    BY <1>5, <1>6, <2>1
  <2> QED
    BY <1>0, <1>9, <2>2
<1>11. SameTimes(b, c)
  <2>1. ASSUME NEW i \in h .. q, i \in c.head_index .. TailIndex(c)
        PROVE  Sample(c, i).t = Sample(b, i).t /\ Sample(c, i).segment = Sample(b, i).segment
    <3>1. i \in Int
      BY <1>0
    <3>2. Sample(c, i) = Sample(d, i)
      BY <1>6, <3>1 DEF SameSamples
    <3> QED
      BY <1>5, <3>2
  <2> QED
    BY <1>0, <1>7, <2>1 DEF SameTimes
<1>12. /\ Sample(c, c.head_index) = Sample(d, d.head_index)
       /\ Sample(c, TailIndex(c)) = Sample(d, TailIndex(c))
       /\ Sample(c, TailIndex(c) - 1) = Sample(d, TailIndex(c) - 1)
  BY <1>6, <1>7 DEF SameSamples
<1>13. PutOnLeft(b, c, t, event, limit)
  <2>1. c.head_index \in {h - 1, h} /\ TailIndex(c) <= q
    BY <1>4, <1>5, <1>6, <1>7, <1>0
  <2>2. Sample(c, TailIndex(c) - 1).t <= limit /\ limit <= Sample(c, TailIndex(c)).t
    BY <1>6, <1>9, <1>10, <1>12
  <2> QED
    BY <1>5, <1>6, <1>10, <1>11, <1>12, <2>1, <2>2 DEF PutOnLeft, h, q
<1>14. c.size > 1
  BY <1>7, <1>10
<1> QED
  BY <1>1, <1>13, <1>14 DEF c, limit

LEMMA RecordedOnRight ==
  ASSUME NEW T, NEW Y, AreTimes(T), 0 \in T, 0 \in Y, NEW b, IsBuffer(b, T, Y), Kept(b), b.size > 0,
         NEW t \in T, NEW y \in Y, NEW event \in BOOLEAN, Follows(b, t, event), NEW len \in Nat \ {0},
         Sample(b, b.head_index).t <= t - len
  PROVE  LET c == RecordedRight(b, t, y, event, len)
         IN IsBuffer(c, T, Y) /\ Kept(c) /\ c.size > 1 /\ PutOnRight(b, c, t, event, t - len)
<1>a. T \subseteq Int
  BY DEF AreTimes
<1> DEFINE c == RecordedRight(b, t, y, event, len)
           h == b.head_index
           q == TailIndex(b)
           limit == t - len
<1>0. /\ h \in Int /\ q \in Int /\ b.size \in Nat /\ h <= q /\ q = (h + b.size) - 1
      /\ Indices(b) = h .. q /\ t \in Int /\ limit \in Int /\ limit < t
  <2>1. t \in Int
    BY <1>a
  <2> QED
    BY <2>1, IndicesAre
<1>1. IsBuffer(c, T, Y) /\ Kept(c) /\ RecordedAndShortened(T, Y, b, c, t, y, event, len)
  <2>1. len \in Nat
    OBVIOUS
  <2> QED
    BY ONLY AreTimes(T), 0 \in T, 0 \in Y, IsBuffer(b, T, Y), Kept(b), b.size > 0, t \in T, y \in Y,
            event \in BOOLEAN, Follows(b, t, event), <2>1, RecordedRightIs
<1>2. PICK d : /\ IsBuffer(d, T, Y) /\ Kept(d) /\ d.head_index = h
               /\ RecordedAtRight(b, d, t, y, event)
               /\ ShortenedTo(d, c, limit)
  BY <1>1 DEF RecordedAndShortened
<1> HIDE DEF c
<1>3. \A i \in h .. q : Sample(b, i).t \in Int /\ Sample(b, i).segment \in Int
  <2> SUFFICES ASSUME NEW i \in h .. q
               PROVE  Sample(b, i).t \in Int /\ Sample(b, i).segment \in Int
    OBVIOUS
  <2>1. i \in Int
    BY <1>0
  <2> QED
    BY <1>a, <2>1, SampleType
<1>4. TailIndex(d) \in Int /\ TailIndex(d) = (d.head_index + d.size) - 1
  BY <1>2, IndicesAre
<1> HIDE DEF h, q, limit
<1>5. /\ TailIndex(d) \in {q, q + 1}
      /\ \A i \in h .. q : Sample(d, i).t = Sample(b, i).t /\ Sample(d, i).segment = Sample(b, i).segment
      /\ Sample(d, TailIndex(d)).t = t
      /\ TailIndex(d) = q + 1 => Sample(d, TailIndex(d)).segment = LastSegment(b) + (IF event THEN 1 ELSE 0)
  <2>1. CASE event /\ b.size > 1 /\ Sample(b, q).y = y
    <3>1. Unchanged(b, d) /\ TailIndex(d) = q
      BY <1>0, <1>2, <1>4, <2>1 DEF RecordedAtRight, Unchanged, q
    <3>2. \A i \in h .. q : Sample(d, i) = Sample(b, i)
      BY <3>1 DEF Unchanged, InPlace, h, q
    <3>3. Sample(d, q).t = t
      BY <1>0, <2>1, <3>2 DEF Follows, q
    <3> QED
      BY <1>0, <3>1, <3>2, <3>3
  <2>2. CASE ~ (event /\ b.size > 1 /\ Sample(b, q).y = y) /\ event /\ b.size > 1 /\ EventLeftOf(b, q)
    <3>1. Replaced(b, d, t, y)
      BY <1>2, <2>2 DEF RecordedAtRight, q
    <3>2. /\ TailIndex(d) = q
          /\ \A i \in h .. q - 1 : Sample(d, i) = Sample(b, i)
          /\ Sample(d, q).t = t /\ Sample(d, q).segment = Sample(b, q).segment
      BY <1>0, <1>2, <1>4, <3>1 DEF Replaced, InPlace, h, q
    <3>3. t = Sample(b, q).t
      BY <2>2 DEF Follows, q
    <3>4. ASSUME NEW i \in h .. q
          PROVE  Sample(d, i).t = Sample(b, i).t /\ Sample(d, i).segment = Sample(b, i).segment
      <4>1. CASE i = q
        BY <3>2, <3>3, <4>1
      <4>2. CASE i # q
        <5>1. i \in h .. q - 1
          BY <1>0, <4>2
        <5> QED
          BY <3>2, <5>1
      <4> QED
        BY <4>1, <4>2
    <3> QED
      BY <1>0, <3>2, <3>4
  <2>3. CASE ~ (event /\ b.size > 1 /\ Sample(b, q).y = y) /\ ~ (event /\ b.size > 1 /\ EventLeftOf(b, q))
    <3>1. Extended(b, d, t, y, event)
      BY <1>2, <2>3 DEF RecordedAtRight, q
    <3> QED
      BY <1>0, <1>2, <1>4, <3>1, SMTT(20) DEF Extended, InPlace, LastSegment, h, q
  <2> QED
    BY <2>1, <2>2, <2>3
<1>6. /\ TailIndex(c) = TailIndex(d) /\ SameSamples(d, c) /\ c.head_index \in h .. TailIndex(d)
      /\ c.head_index < TailIndex(c) => Sample(d, c.head_index + 1).t >= limit
      /\ h < c.head_index => Sample(d, c.head_index).t < limit
  BY <1>2 DEF ShortenedTo, Indices
<1>7. /\ TailIndex(c) = (c.head_index + c.size) - 1 /\ TailIndex(c) \in Int /\ c.head_index \in Int
      /\ c.size \in Nat /\ Indices(c) = c.head_index .. TailIndex(c)
  BY <1>1, IndicesAre
<1>8. Sample(d, h).t = Sample(b, h).t /\ Sample(b, h).t <= limit /\ Sample(b, h).t \in Int
  BY <1>0, <1>3, <1>5 DEF limit, h
<1>9. Sample(d, c.head_index).t <= limit
  <2>1. CASE c.head_index = h
    BY <1>8, <2>1
  <2>2. CASE h < c.head_index
    <3>1. Sample(d, c.head_index).t < limit /\ Sample(d, c.head_index).t \in Int
      BY <1>a, <1>2, <1>6, <1>7, <2>2, SampleType
    <3> QED
      BY <1>0, <3>1
  <2> QED
    BY <1>0, <1>4, <1>6, <1>7, <2>1, <2>2
<1>10. c.head_index < TailIndex(c)
  <2>1. SUFFICES ASSUME c.head_index = TailIndex(c)
                 PROVE  FALSE
    BY <1>4, <1>6, <1>7
  <2>2. Sample(d, c.head_index).t = t
    BY <1>5, <1>6, <2>1
  <2> QED
    BY <1>0, <1>9, <2>2
<1>11. SameTimes(b, c)
  <2>1. ASSUME NEW i \in h .. q, i \in c.head_index .. TailIndex(c)
        PROVE  Sample(c, i).t = Sample(b, i).t /\ Sample(c, i).segment = Sample(b, i).segment
    <3>1. i \in Int
      BY <1>0
    <3>2. Sample(c, i) = Sample(d, i)
      BY <1>6, <3>1 DEF SameSamples
    <3> QED
      BY <1>5, <3>2
  <2> QED
    BY <1>0, <1>7, <2>1 DEF SameTimes
<1>12. /\ Sample(c, c.head_index) = Sample(d, c.head_index)
       /\ Sample(c, TailIndex(c)) = Sample(d, TailIndex(d))
       /\ Sample(c, c.head_index + 1) = Sample(d, c.head_index + 1)
  BY <1>6, <1>7 DEF SameSamples
<1>13. PutOnRight(b, c, t, event, limit)
  <2>1. TailIndex(c) \in {q, q + 1} /\ h <= c.head_index
    BY <1>4, <1>5, <1>6, <1>7, <1>0
  <2>2. Sample(c, c.head_index).t <= limit /\ limit <= Sample(c, c.head_index + 1).t
    BY <1>6, <1>9, <1>10, <1>12
  <2> QED
    BY <1>5, <1>6, <1>10, <1>11, <1>12, <2>1, <2>2 DEF PutOnRight, h, q
<1>14. c.size > 1
  BY <1>7, <1>10
<1> QED
  BY <1>1, <1>13, <1>14 DEF c, limit

---------------------------------------------------------------------------
(* The outlet stays on a segment around its place in the pipe, although the*)
(* samples beyond it go: if they do, it is at the last one.                *)
LEMMA OutletAtRight ==
  ASSUME NEW T, NEW Y, AreTimes(T), NEW b, IsBuffer(b, T, Y), Kept(b), b.size > 0,
         NEW c, IsBuffer(c, T, Y), Kept(c), c.size > 0, NEW t, NEW event \in BOOLEAN, NEW limit \in Int,
         PutOnLeft(b, c, t, event, limit), NEW index \in Int, event => index \in Indices(b),
         Ends(b, SegmentAt(b, index), limit)
  PROVE  IsAround(c, SegmentAt(c, index), limit)
<1>a. T \subseteq Int
  BY DEF AreTimes
<1> DEFINE h == b.head_index
           q == TailIndex(b)
           g == c.head_index
           w == TailIndex(c)
           i == Clamped(b, index)
           k == Clamped(c, index)
           sg == Sample(c, k).segment
<1>0. /\ h \in Int /\ q \in Int /\ g \in Int /\ w \in Int /\ h <= q
      /\ Indices(b) = h .. q /\ Indices(c) = g .. w
  BY IndicesAre
<1>1. /\ g = h - 1 \/ g = h
      /\ g < w /\ w <= q
      /\ \A j \in Indices(b) \cap Indices(c) : Sample(c, j).t = Sample(b, j).t /\ Sample(c, j).segment = Sample(b, j).segment
      /\ g = h - 1 => Sample(c, g).segment = FirstEvent(b) - (IF event THEN 1 ELSE 0)
      /\ Sample(c, w - 1).t <= limit /\ limit <= Sample(c, w).t
  BY DEF PutOnLeft, SameTimes
<1>2. /\ i \in h .. q
      /\ index \in h .. q => i = index
      /\ index < h => i = h
      /\ index > q => i = q
  BY ONLY IsBuffer(b, T, Y), b.size > 0, index \in Int, <1>0, ClampedIs
<1>3. /\ k \in g .. w
      /\ index \in g .. w => k = index
      /\ index < g => k = g
      /\ index > w => k = w
  BY ONLY IsBuffer(c, T, Y), c.size > 0, index \in Int, <1>0, ClampedIs
<1>4. SegmentAt(b, index) = Sample(b, i).segment /\ SegmentAt(c, index) = sg
  BY DEF SegmentAt
<1>5. Ordered(b) /\ Ordered(c)
  BY DEF Kept
<1> HIDE DEF h, q, g, w, i, k, sg
<1>6. w - 1 \in Indices(c) /\ w \in Indices(c) /\ k \in Indices(c) /\ k \in Int /\ i \in Int
  BY <1>0, <1>1, <1>2, <1>3
<1>7. /\ Sample(c, w - 1).t \in Int /\ Sample(c, w).t \in Int /\ Sample(c, k).t \in Int
      /\ Sample(c, w).segment \in Int /\ Sample(c, k).segment \in Int /\ Sample(c, w - 1).segment \in Int
  <2>1. w - 1 \in Int
    BY <1>0
  <2> QED
    BY <1>0, <1>a, <1>6, <2>1, SampleType
<1>8. CASE k = w
  <2>1. Ends(c, sg, limit)
    BY <1>1, <1>6, <1>8 DEF Ends, sg
  <2>2. Starts(c, sg, limit)
    <3>1. CASE EventRightOf(c, w - 1)
      <4>1. Sample(c, (w - 1) + 1).t = Sample(c, w - 1).t
        <5>1. w - 1 # TailIndex(c)
          BY <1>0 DEF w
        <5> QED
          BY ONLY IsBuffer(c, T, Y), Kept(c), <1>6, <3>1, <5>1, Neighbours
      <4>2. (w - 1) + 1 = w
        BY <1>0
      <4>3. Sample(c, w).t <= limit
        BY <1>1, <4>1, <4>2
      <4> QED
        BY <1>6, <1>8, <4>3 DEF Starts, sg
    <3>2. CASE ~ EventRightOf(c, w - 1)
      <4>1. Sample(c, (w - 1) + 1).segment = Sample(c, w - 1).segment
        <5>1. w - 1 # TailIndex(c)
          BY <1>0 DEF w
        <5> QED
          BY ONLY IsBuffer(c, T, Y), Kept(c), <1>6, <3>2, <5>1, Neighbours
      <4>2. (w - 1) + 1 = w
        BY <1>0
      <4>3. Sample(c, w - 1).segment = sg
        BY <1>8, <4>1, <4>2 DEF sg
      <4> QED
        BY <1>1, <1>6, <4>3 DEF Starts
    <3> QED
      BY <3>1, <3>2
  <2> QED
    BY <1>4, <2>1, <2>2 DEF IsAround
<1>9. CASE k # w
  <2>1. Starts(c, sg, limit)
    <3>1. k <= w - 1
      BY <1>0, <1>3, <1>6, <1>9
    <3>2. Sample(c, k).t <= Sample(c, w - 1).t
      BY <1>5, <1>6, <3>1 DEF Ordered
    <3>3. Sample(c, k).t <= limit
      BY <1>1, <1>7, <3>2
    <3> QED
      BY <1>6, <3>3 DEF Starts, sg
  <2>2. sg = Sample(b, i).segment /\ k <= i
    <3>1. CASE k >= h
      <4>1. k = i \/ (index < g /\ k = g /\ g = h /\ i = h)
        BY <1>0, <1>1, <1>2, <1>3, <1>6, <1>9, <3>1
      <4>2. k = i /\ k \in Indices(b)
        BY <1>0, <1>2, <4>1
      <4> QED
        BY <1>1, <1>6, <4>2 DEF sg
    <3>2. CASE k < h
      <4>1. k = g /\ g = h - 1 /\ i = h /\ index < h
        BY <1>0, <1>1, <1>2, <1>3, <1>6, <1>9, <3>2
      <4>2. ~ event
        BY <1>0, <4>1
      <4>3. Sample(b, h).segment \in Int
        BY <1>0, SampleType
      <4>4. FirstEvent(b) = Sample(b, h).segment
        BY DEF FirstEvent, h
      <4>5. sg = Sample(b, h).segment
        BY <1>1, <4>1, <4>2, <4>3, <4>4 DEF sg
      <4> QED
        BY <1>0, <4>1, <4>5
    <3> QED
      BY <1>0, <1>6, <3>1, <3>2
  <2>3. PICK r \in Indices(b) : Sample(b, r).segment = sg /\ limit <= Sample(b, r).t
    BY <1>4, <2>2 DEF Ends
  <2>4. r \in Int /\ r \in h .. q
    BY <1>0
  <2>5. CASE r < g
    <3>1. FALSE
      BY <1>0, <1>1, <2>4, <2>5
    <3> QED
      BY <3>1
  <2>6. CASE r \in g .. w
    <3>1. r \in Indices(c) /\ Sample(c, r).t = Sample(b, r).t /\ Sample(c, r).segment = Sample(b, r).segment
      BY <1>0, <1>1, <2>6
    <3>2. Ends(c, sg, limit)
      BY <2>3, <3>1 DEF Ends
    <3> QED
      BY <1>4, <2>1, <3>2 DEF IsAround
  <2>7. CASE r > w
    <3>1. w \in Indices(b)
      BY <1>0, <1>1
    <3>2. Sample(c, w).segment = Sample(b, w).segment
      BY <1>1, <1>6, <3>1
    <3>3. Sample(b, w).segment <= Sample(b, r).segment
      BY <1>5, <2>4, <2>7, <3>1, <1>0 DEF Ordered
    <3>4. sg <= Sample(c, w).segment
      <4>1. k <= w
        BY <1>0, <1>3
      <4> QED
        BY <1>5, <1>6, <4>1 DEF Ordered, sg
    <3>5. Sample(c, w).segment = sg
      BY <1>7, <2>3, <3>2, <3>3, <3>4 DEF sg
    <3>6. Ends(c, sg, limit)
      BY <1>1, <1>6, <3>5 DEF Ends
    <3> QED
      BY <1>4, <2>1, <3>6 DEF IsAround
  <2> QED
    BY <1>0, <2>4, <2>5, <2>6, <2>7
<1> QED
  BY <1>8, <1>9

(* The inlet stays on the segment at the end.                              *)
LEMMA InletAtLeft ==
  ASSUME NEW T, NEW Y, AreTimes(T), NEW b, IsBuffer(b, T, Y), Kept(b), b.size > 0,
         NEW c, IsBuffer(c, T, Y), Kept(c), c.size > 0, NEW t, NEW event \in BOOLEAN, NEW limit \in Int,
         PutOnLeft(b, c, t, event, limit), ~ event, NEW index \in Int, SegmentAt(b, index) = FirstEvent(b)
  PROVE  SegmentAt(c, index) = FirstEvent(c) /\ FirstEvent(c) = FirstEvent(b)
<1>a. T \subseteq Int
  BY DEF AreTimes
<1> DEFINE h == b.head_index
           q == TailIndex(b)
           g == c.head_index
           w == TailIndex(c)
           i == Clamped(b, index)
           k == Clamped(c, index)
<1>0. /\ h \in Int /\ q \in Int /\ g \in Int /\ w \in Int /\ h <= q
      /\ Indices(b) = h .. q /\ Indices(c) = g .. w
  BY IndicesAre
<1>1. /\ g = h - 1 \/ g = h
      /\ g < w /\ w <= q
      /\ \A j \in Indices(b) \cap Indices(c) : Sample(c, j).segment = Sample(b, j).segment
      /\ g = h - 1 => Sample(c, g).segment = FirstEvent(b) - (IF event THEN 1 ELSE 0)
  BY DEF PutOnLeft, SameTimes
<1>2. /\ i \in h .. q
      /\ index \in h .. q => i = index
      /\ index > q => i = q
  BY ONLY IsBuffer(b, T, Y), b.size > 0, index \in Int, <1>0, ClampedIs
<1>3. /\ k \in g .. w
      /\ index \in g .. w => k = index
      /\ index < g => k = g
      /\ index > w => k = w
  BY ONLY IsBuffer(c, T, Y), c.size > 0, index \in Int, <1>0, ClampedIs
<1>4. Sample(b, i).segment = FirstEvent(b) /\ SegmentAt(c, index) = Sample(c, k).segment
      /\ FirstEvent(b) = Sample(b, h).segment /\ FirstEvent(c) = Sample(c, g).segment
  BY DEF SegmentAt, FirstEvent
<1>5. Ordered(b)
  BY DEF Kept
<1> HIDE DEF h, q, g, w, i, k
<1>6. Sample(b, h).segment \in Int
  BY <1>0, SampleType
<1>7. Sample(c, g).segment = Sample(b, h).segment
  <2>1. CASE g = h
    <3>1. h \in Indices(b) \cap Indices(c)
      BY <1>0, <1>1, <2>1
    <3> QED
      BY <1>1, <2>1, <3>1
  <2>2. CASE g = h - 1
    BY <1>1, <1>4, <1>6, <2>2
  <2> QED
    BY <1>1, <2>1, <2>2
<1>8. CASE k = g
  BY <1>4, <1>7, <1>8
<1>9. CASE k # g
  <2>1. k \in Indices(b) \cap Indices(c) /\ h <= k /\ k <= i /\ i \in Indices(b) /\ h \in Indices(b) /\ k \in Int
    BY <1>0, <1>1, <1>2, <1>3, <1>9
  <2>2. Sample(c, k).segment = Sample(b, k).segment
    BY <1>1, <2>1
  <2>3. Sample(b, h).segment <= Sample(b, k).segment /\ Sample(b, k).segment <= Sample(b, i).segment
    BY <1>5, <2>1 DEF Ordered
  <2>4. Sample(b, k).segment \in Int
    BY <2>1, SampleType
  <2> QED
    BY <1>4, <1>6, <1>7, <2>2, <2>3, <2>4
<1> QED
  BY <1>4, <1>7, <1>8, <1>9

LEMMA OutletAtLeft ==
  ASSUME NEW T, NEW Y, AreTimes(T), NEW b, IsBuffer(b, T, Y), Kept(b), b.size > 0,
         NEW c, IsBuffer(c, T, Y), Kept(c), c.size > 0, NEW t, NEW event \in BOOLEAN, NEW limit \in Int,
         PutOnRight(b, c, t, event, limit), NEW index \in Int, event => index \in Indices(b),
         Starts(b, SegmentAt(b, index), limit)
  PROVE  IsAround(c, SegmentAt(c, index), limit)
<1>a. T \subseteq Int
  BY DEF AreTimes
<1> DEFINE h == TailIndex(b)
           q == b.head_index
           g == TailIndex(c)
           w == c.head_index
           i == Clamped(b, index)
           k == Clamped(c, index)
           sg == Sample(c, k).segment
<1>0. /\ h \in Int /\ q \in Int /\ g \in Int /\ w \in Int /\ h >= q
      /\ Indices(b) = q .. h /\ Indices(c) = w .. g
  BY IndicesAre
<1>1. /\ g = h + 1 \/ g = h
      /\ g > w /\ w >= q
      /\ \A j \in Indices(b) \cap Indices(c) : Sample(c, j).t = Sample(b, j).t /\ Sample(c, j).segment = Sample(b, j).segment
      /\ g = h + 1 => Sample(c, g).segment = LastSegment(b) + (IF event THEN 1 ELSE 0)
      /\ Sample(c, w + 1).t >= limit /\ limit >= Sample(c, w).t
  BY DEF PutOnRight, SameTimes
<1>2. /\ i \in q .. h
      /\ index \in q .. h => i = index
      /\ index > h => i = h
      /\ index < q => i = q
  BY ONLY IsBuffer(b, T, Y), b.size > 0, index \in Int, <1>0, ClampedIs
<1>3. /\ k \in w .. g
      /\ index \in w .. g => k = index
      /\ index > g => k = g
      /\ index < w => k = w
  BY ONLY IsBuffer(c, T, Y), c.size > 0, index \in Int, <1>0, ClampedIs
<1>4. SegmentAt(b, index) = Sample(b, i).segment /\ SegmentAt(c, index) = sg
  BY DEF SegmentAt
<1>5. Ordered(b) /\ Ordered(c)
  BY DEF Kept
<1> HIDE DEF h, q, g, w, i, k, sg
<1>6. w + 1 \in Indices(c) /\ w \in Indices(c) /\ k \in Indices(c) /\ k \in Int /\ i \in Int
  BY <1>0, <1>1, <1>2, <1>3
<1>7. /\ Sample(c, w + 1).t \in Int /\ Sample(c, w).t \in Int /\ Sample(c, k).t \in Int
      /\ Sample(c, w).segment \in Int /\ Sample(c, k).segment \in Int /\ Sample(c, w + 1).segment \in Int
  <2>1. w + 1 \in Int
    BY <1>0
  <2> QED
    BY <1>0, <1>a, <1>6, <2>1, SampleType
<1>8. CASE k = w
  <2>1. Starts(c, sg, limit)
    BY <1>1, <1>6, <1>8 DEF Starts, sg
  <2>2. Ends(c, sg, limit)
    <3>1. w # TailIndex(c)
      BY <1>0, <1>1 DEF g
    <3>2. /\ EventRightOf(c, w) => Sample(c, w + 1).t = Sample(c, w).t
          /\ ~ EventRightOf(c, w) => Sample(c, w + 1).segment = Sample(c, w).segment
      BY ONLY IsBuffer(c, T, Y), Kept(c), <1>6, <3>1, Neighbours
    <3>3. CASE EventRightOf(c, w)
      <4>1. limit <= Sample(c, w).t
        BY <1>1, <1>7, <3>2, <3>3
      <4> QED
        BY <1>6, <1>8, <4>1 DEF Ends, sg
    <3>4. CASE ~ EventRightOf(c, w)
      <4>1. Sample(c, w + 1).segment = sg
        BY <1>8, <3>2, <3>4 DEF sg
      <4>2. limit <= Sample(c, w + 1).t
        BY <1>1, <1>7
      <4> QED
        BY <1>6, <4>1, <4>2 DEF Ends
    <3> QED
      BY <3>3, <3>4
  <2> QED
    BY <1>4, <2>1, <2>2 DEF IsAround
<1>9. CASE k # w
  <2>1. Ends(c, sg, limit)
    <3>1. k >= w + 1
      BY <1>0, <1>3, <1>6, <1>9
    <3>2. Sample(c, k).t >= Sample(c, w + 1).t
      BY <1>5, <1>6, <3>1 DEF Ordered
    <3>3. Sample(c, k).t >= limit
      BY <1>1, <1>7, <3>2
    <3> QED
      BY <1>6, <3>3 DEF Ends, sg
  <2>2. sg = Sample(b, i).segment /\ k >= i
    <3>1. CASE k <= h
      <4>1. k = i \/ (index > g /\ k = g /\ g = h /\ i = h)
        BY <1>0, <1>1, <1>2, <1>3, <1>6, <1>9, <3>1
      <4>2. k = i /\ k \in Indices(b)
        BY <1>0, <1>2, <4>1
      <4> QED
        BY <1>1, <1>6, <4>2 DEF sg
    <3>2. CASE k > h
      <4>1. k = g /\ g = h + 1 /\ i = h /\ index > h
        BY <1>0, <1>1, <1>2, <1>3, <1>6, <1>9, <3>2
      <4>2. ~ event
        BY <1>0, <4>1
      <4>3. Sample(b, h).segment \in Int
        BY <1>0, SampleType
      <4>4. LastSegment(b) = Sample(b, h).segment
        BY DEF LastSegment, h
      <4>5. sg = Sample(b, h).segment
        BY <1>1, <4>1, <4>2, <4>3, <4>4 DEF sg
      <4> QED
        BY <1>0, <4>1, <4>5
    <3> QED
      BY <1>0, <1>6, <3>1, <3>2
  <2>3. PICK r \in Indices(b) : Sample(b, r).segment = sg /\ limit >= Sample(b, r).t
    BY <1>4, <2>2 DEF Starts
  <2>4. r \in Int /\ r \in q .. h
    BY <1>0
  <2>5. CASE r > g
    <3>1. FALSE
      BY <1>0, <1>1, <2>4, <2>5
    <3> QED
      BY <3>1
  <2>6. CASE r \in w .. g
    <3>1. r \in Indices(c) /\ Sample(c, r).t = Sample(b, r).t /\ Sample(c, r).segment = Sample(b, r).segment
      BY <1>0, <1>1, <2>6
    <3>2. Starts(c, sg, limit)
      BY <2>3, <3>1 DEF Starts
    <3> QED
      BY <1>4, <2>1, <3>2 DEF IsAround
  <2>7. CASE r < w
    <3>1. w \in Indices(b)
      BY <1>0, <1>1
    <3>2. Sample(c, w).segment = Sample(b, w).segment
      BY <1>1, <1>6, <3>1
    <3>3. Sample(b, w).segment >= Sample(b, r).segment
      BY <1>5, <2>4, <2>7, <3>1, <1>0 DEF Ordered
    <3>4. sg >= Sample(c, w).segment
      <4>1. k >= w
        BY <1>0, <1>3
      <4> QED
        BY <1>5, <1>6, <4>1 DEF Ordered, sg
    <3>5. Sample(c, w).segment = sg
      BY <1>7, <2>3, <3>2, <3>3, <3>4 DEF sg
    <3>6. Starts(c, sg, limit)
      BY <1>1, <1>6, <3>5 DEF Starts
    <3> QED
      BY <1>4, <2>1, <3>6 DEF IsAround
  <2> QED
    BY <1>0, <2>4, <2>5, <2>6, <2>7
<1> QED
  BY <1>8, <1>9

LEMMA InletAtRight ==
  ASSUME NEW T, NEW Y, AreTimes(T), NEW b, IsBuffer(b, T, Y), Kept(b), b.size > 0,
         NEW c, IsBuffer(c, T, Y), Kept(c), c.size > 0, NEW t, NEW event \in BOOLEAN, NEW limit \in Int,
         PutOnRight(b, c, t, event, limit), ~ event, NEW index \in Int, SegmentAt(b, index) = LastSegment(b)
  PROVE  SegmentAt(c, index) = LastSegment(c) /\ LastSegment(c) = LastSegment(b)
<1>a. T \subseteq Int
  BY DEF AreTimes
<1> DEFINE h == TailIndex(b)
           q == b.head_index
           g == TailIndex(c)
           w == c.head_index
           i == Clamped(b, index)
           k == Clamped(c, index)
<1>0. /\ h \in Int /\ q \in Int /\ g \in Int /\ w \in Int /\ h >= q
      /\ Indices(b) = q .. h /\ Indices(c) = w .. g
  BY IndicesAre
<1>1. /\ g = h + 1 \/ g = h
      /\ g > w /\ w >= q
      /\ \A j \in Indices(b) \cap Indices(c) : Sample(c, j).segment = Sample(b, j).segment
      /\ g = h + 1 => Sample(c, g).segment = LastSegment(b) + (IF event THEN 1 ELSE 0)
  BY DEF PutOnRight, SameTimes
<1>2. /\ i \in q .. h
      /\ index \in q .. h => i = index
      /\ index < q => i = q
  BY ONLY IsBuffer(b, T, Y), b.size > 0, index \in Int, <1>0, ClampedIs
<1>3. /\ k \in w .. g
      /\ index \in w .. g => k = index
      /\ index > g => k = g
      /\ index < w => k = w
  BY ONLY IsBuffer(c, T, Y), c.size > 0, index \in Int, <1>0, ClampedIs
<1>4. Sample(b, i).segment = LastSegment(b) /\ SegmentAt(c, index) = Sample(c, k).segment
      /\ LastSegment(b) = Sample(b, h).segment /\ LastSegment(c) = Sample(c, g).segment
  BY DEF SegmentAt, LastSegment
<1>5. Ordered(b)
  BY DEF Kept
<1> HIDE DEF h, q, g, w, i, k
<1>6. Sample(b, h).segment \in Int
  BY <1>0, SampleType
<1>7. Sample(c, g).segment = Sample(b, h).segment
  <2>1. CASE g = h
    <3>1. h \in Indices(b) \cap Indices(c)
      BY <1>0, <1>1, <2>1
    <3> QED
      BY <1>1, <2>1, <3>1
  <2>2. CASE g = h + 1
    BY <1>1, <1>4, <1>6, <2>2
  <2> QED
    BY <1>1, <2>1, <2>2
<1>8. CASE k = g
  BY <1>4, <1>7, <1>8
<1>9. CASE k # g
  <2>1. k \in Indices(b) \cap Indices(c) /\ h >= k /\ k >= i /\ i \in Indices(b) /\ h \in Indices(b) /\ k \in Int
    BY <1>0, <1>1, <1>2, <1>3, <1>9
  <2>2. Sample(c, k).segment = Sample(b, k).segment
    BY <1>1, <2>1
  <2>3. Sample(b, h).segment >= Sample(b, k).segment /\ Sample(b, k).segment >= Sample(b, i).segment
    BY <1>5, <2>1 DEF Ordered
  <2>4. Sample(b, k).segment \in Int
    BY <2>1, SampleType
  <2> QED
    BY <1>4, <1>6, <1>7, <2>2, <2>3, <2>4
<1> QED
  BY <1>4, <1>7, <1>8, <1>9

---------------------------------------------------------------------------
(* What is left when an end is cut off: a sample at the limit, on the      *)
(* segment that was there, and those beyond it.                            *)
CutOnLeft(b, d, limit) ==
  /\ d.head_index \in b.head_index .. TailIndex(b) - 1 /\ TailIndex(d) = TailIndex(b)
  /\ Sample(d, d.head_index).t = limit
  /\ Sample(d, d.head_index).segment = Sample(b, d.head_index).segment
  /\ Sample(b, d.head_index).t <= limit
  /\ InPlace(b, d, d.head_index + 1, TailIndex(b))

CutOnRight(b, d, limit) ==
  /\ TailIndex(d) \in b.head_index + 1 .. TailIndex(b) /\ d.head_index = b.head_index
  /\ Sample(d, TailIndex(d)).t = limit
  /\ Sample(d, TailIndex(d)).segment = Sample(b, TailIndex(d)).segment
  /\ limit <= Sample(b, TailIndex(d)).t
  /\ InPlace(b, d, b.head_index, TailIndex(d) - 1)

LEMMA TruncatedOnLeft ==
  ASSUME NEW T, NEW Y, AreTimes(T), 0 \in T, 0 \in Y, NEW b, IsBuffer(b, T, Y), Kept(b), b.size > 0,
         NEW limit \in T, NEW y \in Y, Sample(b, b.head_index).t < limit, limit < Sample(b, TailIndex(b)).t
  PROVE  LET d == TruncatedLeft(b, limit, y)
         IN IsBuffer(d, T, Y) /\ Kept(d) /\ d.size > 0 /\ CutOnLeft(b, d, limit)
<1>a. T \subseteq Int /\ limit \in Int
  BY DEF AreTimes
<1> DEFINE h == b.head_index
           q == TailIndex(b)
           S == {i \in Indices(b) : Sample(b, i).t <= limit}
           m == Max(S)
           n == (m - h) + 1
           c == DiscardedLeft(b, n)
           event == FALSE
           d == Recorded(c, limit, y, FALSE, event)
<1>0. /\ h \in Int /\ q \in Int /\ b.size \in Nat /\ h <= q /\ q = (h + b.size) - 1
      /\ Indices(b) = h .. q /\ h \in Indices(b)
  BY IndicesAre
<1>1. ASSUME NEW i \in h .. q
      PROVE  Sample(b, i).t \in Int /\ Sample(b, i).segment \in Int
  <2>1. i \in Int
    BY <1>0
  <2> QED
    BY <1>a, <2>1, SampleType
<1>2. m \in S /\ \A i \in S : i <= m
  <2>1. h \in S
    BY <1>a, <1>0, <1>1
  <2>2. S # {} /\ \A i \in S : i \in Int /\ i <= q
    BY <1>0, <2>1
  <2> HIDE DEF S
  <2> QED
    BY ONLY <1>0, <2>2, MaxOfIndices
<1>3. m \in h .. q /\ Sample(b, m).t <= limit /\ m \in Int
  BY <1>0, <1>2
<1>4. m < q
  BY <1>a, <1>0, <1>1, <1>3
<1>5. S = h .. m
  <2>1. ASSUME NEW i \in h .. m
        PROVE  i \in S
    <3>1. i \in Indices(b) /\ m \in Indices(b) /\ i <= m
      BY <1>0, <1>3
    <3>2. Sample(b, i).t <= Sample(b, m).t
      BY <3>1 DEF Kept, Ordered
    <3>3. Sample(b, i).t <= limit
      BY <1>a, <1>0, <1>1, <1>3, <3>1, <3>2
    <3> QED
      BY <3>1, <3>3
  <2>2. ASSUME NEW i \in S
        PROVE  i \in h .. m
    <3>1. i \in h .. q /\ i <= m
      BY <1>0, <1>2
    <3> QED
      BY <1>0, <1>3, <3>1
  <2> HIDE DEF S
  <2> QED
    BY <2>1, <2>2
<1>6. Cardinality(S) = n
  <2>1. Cardinality(h .. m) = IF h > m THEN 0 ELSE m - h + 1
    BY <1>0, <1>3, FS_Interval
  <2> HIDE DEF S, m, h
  <2> QED
    BY <1>0, <1>3, <1>5, <2>1
<1>7. TruncatedLeft(b, limit, y) = d
  <2>1. b.size > 0 /\ Sample(b, b.head_index).t < limit
    OBVIOUS
  <2>2. TruncatedLeft(b, limit, y) = Recorded(DiscardedLeft(b, Cardinality(S)), limit, y, FALSE, FALSE)
    BY ONLY <2>1 DEF TruncatedLeft
  <2> HIDE DEF n
  <2> QED
    BY <1>6, <2>2
<1> HIDE DEF S, m
<1>8. n \in 0 .. b.size - 1 /\ h + n = m + 1 /\ n \in Int
  <2> HIDE DEF h
  <2> QED
    BY <1>0, <1>3, <1>4
<1> HIDE DEF n
<1>9. /\ IsBuffer(c, T, Y) /\ Kept(c) /\ c.size = b.size - n /\ c.head_index = m + 1
      /\ SameSamples(b, c)
  <2>1. /\ IsBuffer(c, T, Y) /\ Kept(c) /\ c.size = b.size - n /\ c.head_index = b.head_index + n
        /\ SameSamples(b, c)
    BY ONLY AreTimes(T), IsBuffer(b, T, Y), Kept(b), <1>8, DiscardedLeftKeeps
  <2> QED
    BY <1>8, <2>1
<1> HIDE DEF c
<1>10. c.size > 0 /\ TailIndex(c) = q
  <2>1. TailIndex(c) = (c.head_index + c.size) - 1
    BY <1>9, IndicesAre
  <2> HIDE DEF h, q
  <2> QED
    BY <1>0, <1>8, <1>9, <2>1
<1>11. Sample(c, m + 1) = Sample(b, m + 1) /\ limit < Sample(b, m + 1).t
  <2>1. m + 1 \in h .. q /\ m + 1 \in Int /\ ~ (m + 1 <= m)
    BY <1>0, <1>3, <1>4
  <2>2. m + 1 \notin S
    BY <1>2, <2>1
  <2>3. ~ (Sample(b, m + 1).t <= limit)
    BY <1>0, <2>1, <2>2 DEF S
  <2> QED
    BY <1>a, <1>1, <1>9, <2>1, <2>3 DEF SameSamples
<1>12. Precedes(c, limit, event) /\ event \in BOOLEAN
  BY <1>9, <1>11 DEF Precedes
<1> HIDE DEF event
<1>13. /\ IsBuffer(d, T, Y) /\ Kept(d) /\ TailIndex(d) = q
       /\ RecordedAtLeft(c, d, limit, y, event)
  <2>1. IsBuffer(c, T, Y) /\ Kept(c) /\ c.size > 0
    BY <1>9, <1>10
  <2>2. /\ IsBuffer(d, T, Y) /\ Kept(d) /\ TailIndex(d) = TailIndex(c)
        /\ RecordedAtLeft(c, d, limit, y, event)
    BY ONLY AreTimes(T), 0 \in T, 0 \in Y, limit \in T, y \in Y, <2>1, <1>12, RecordedLeftKeeps, Zenon
  <2> QED
    BY <1>10, <2>2
<1> HIDE DEF d
<1>14. Prepended(c, d, limit, y, FALSE)
  BY <1>13 DEF RecordedAtLeft, event
<1>15. /\ d.head_index = m /\ Sample(d, m).t = limit /\ d.size = c.size + 1
       /\ Sample(d, m).segment = Sample(c, m + 1).segment - (IF FALSE THEN 1 ELSE 0)
       /\ \A i \in m + 1 .. q : Sample(d, i) = Sample(c, i)
  <2>1. (m + 1) - 1 = m
    BY <1>3
  <2> QED
    BY <1>9, <1>10, <1>14, <2>1 DEF Prepended, InPlace
<1>16. Sample(d, m).segment = Sample(b, m).segment
  <2>1. m \in Indices(b) /\ m # TailIndex(b) /\ m + 1 \in h .. q
    BY <1>0, <1>3, <1>4
  <2>2. /\ EventRightOf(b, m) => Sample(b, m + 1).t = Sample(b, m).t
        /\ ~ EventRightOf(b, m) => Sample(b, m + 1).segment = Sample(b, m).segment
    BY ONLY IsBuffer(b, T, Y), Kept(b), <2>1, Neighbours
  <2>3. Sample(b, m + 1).t # Sample(b, m).t
    BY <1>a, <1>1, <1>3, <1>11, <2>1
  <2>4. Sample(b, m + 1).segment \in Int
    BY <1>1, <2>1
  <2> QED
    BY <1>11, <1>15, <2>2, <2>3, <2>4
<1>17. InPlace(b, d, m + 1, q)
  <2>1. ASSUME NEW i \in m + 1 .. q
        PROVE  Sample(d, i) = Sample(b, i)
    <3>1. i \in Int
      BY <1>0, <1>3
    <3> QED
      BY <1>9, <1>15, <3>1 DEF SameSamples
  <2> QED
    BY <2>1 DEF InPlace
<1>18. CutOnLeft(b, d, limit)
  <2>1. m \in h .. q - 1
    BY <1>0, <1>3, <1>4
  <2> QED
    BY <1>3, <1>13, <1>15, <1>16, <1>17, <2>1 DEF CutOnLeft
<1>19. d.size > 0
  BY <1>9, <1>10, <1>15, IndicesAre, SMTT(20)
<1> QED
  BY <1>7, <1>13, <1>18, <1>19 DEF d

LEMMA TruncatedOnRight ==
  ASSUME NEW T, NEW Y, AreTimes(T), 0 \in T, 0 \in Y, NEW b, IsBuffer(b, T, Y), Kept(b), b.size > 0,
         NEW limit \in T, NEW y \in Y, Sample(b, b.head_index).t < limit, limit < Sample(b, TailIndex(b)).t
  PROVE  LET d == TruncatedRight(b, limit, y)
         IN IsBuffer(d, T, Y) /\ Kept(d) /\ d.size > 0 /\ CutOnRight(b, d, limit)
<1>a. T \subseteq Int /\ limit \in Int
  BY DEF AreTimes
<1> DEFINE h == b.head_index
           q == TailIndex(b)
           S == {i \in Indices(b) : Sample(b, i).t >= limit}
           m == Min(S)
           n == (q - m) + 1
           c == DiscardedRight(b, n)
           event == FALSE
           d == Recorded(c, limit, y, TRUE, event)
<1>0. /\ h \in Int /\ q \in Int /\ b.size \in Nat /\ h <= q /\ q = (h + b.size) - 1
      /\ Indices(b) = h .. q /\ q \in Indices(b)
  BY IndicesAre
<1>1. ASSUME NEW i \in h .. q
      PROVE  Sample(b, i).t \in Int /\ Sample(b, i).segment \in Int
  <2>1. i \in Int
    BY <1>0
  <2> QED
    BY <1>a, <2>1, SampleType
<1>2. m \in S /\ \A i \in S : m <= i
  <2>1. q \in S
    BY <1>a, <1>0, <1>1
  <2>2. S # {} /\ \A i \in S : i \in Int /\ h <= i
    BY <1>0, <2>1
  <2> HIDE DEF S
  <2> QED
    BY ONLY <1>0, <2>2, MinOfIndices
<1>3. m \in h .. q /\ limit <= Sample(b, m).t /\ m \in Int
  BY <1>0, <1>2
<1>4. h < m
  BY <1>a, <1>0, <1>1, <1>3
<1>5. S = m .. q
  <2>1. ASSUME NEW i \in m .. q
        PROVE  i \in S
    <3>1. i \in Indices(b) /\ m \in Indices(b) /\ m <= i
      BY <1>0, <1>3
    <3>2. Sample(b, m).t <= Sample(b, i).t
      BY <3>1 DEF Kept, Ordered
    <3>3. Sample(b, i).t >= limit
      BY <1>a, <1>0, <1>1, <1>3, <3>1, <3>2
    <3> QED
      BY <3>1, <3>3
  <2>2. ASSUME NEW i \in S
        PROVE  i \in m .. q
    <3>1. i \in h .. q /\ m <= i
      BY <1>0, <1>2
    <3> QED
      BY <1>0, <1>3, <3>1
  <2> HIDE DEF S
  <2> QED
    BY <2>1, <2>2
<1>6. Cardinality(S) = n
  <2>1. Cardinality(m .. q) = IF m > q THEN 0 ELSE q - m + 1
    BY <1>0, <1>3, FS_Interval
  <2> HIDE DEF S, m, q
  <2> QED
    BY <1>0, <1>3, <1>5, <2>1
<1>7. TruncatedRight(b, limit, y) = d
  <2>1. b.size > 0 /\ Sample(b, TailIndex(b)).t > limit
    OBVIOUS
  <2>2. TruncatedRight(b, limit, y) = Recorded(DiscardedRight(b, Cardinality(S)), limit, y, TRUE, FALSE)
    BY ONLY <2>1 DEF TruncatedRight
  <2> HIDE DEF n
  <2> QED
    BY <1>6, <2>2
<1> HIDE DEF S, m
<1>8. n \in 0 .. b.size - 1 /\ q - n = m - 1 /\ n \in Int
  <2> HIDE DEF h, q
  <2> QED
    BY <1>0, <1>3, <1>4
<1> HIDE DEF n
<1>9. /\ IsBuffer(c, T, Y) /\ Kept(c) /\ c.size = b.size - n /\ TailIndex(c) = m - 1 /\ c.head_index = h
      /\ SameSamples(b, c)
  <2>1. /\ IsBuffer(c, T, Y) /\ Kept(c) /\ c.size = b.size - n /\ c.head_index = b.head_index
        /\ SameSamples(b, c)
    BY ONLY AreTimes(T), IsBuffer(b, T, Y), Kept(b), <1>8, DiscardedRightKeeps
  <2>2. TailIndex(c) = (c.head_index + c.size) - 1
    BY <2>1, IndicesAre
  <2> HIDE DEF c, q
  <2> QED
    BY <1>0, <1>8, <2>1, <2>2
<1> HIDE DEF c
<1>10. c.size > 0
  BY <1>0, <1>8, <1>9
<1>11. Sample(c, m - 1) = Sample(b, m - 1) /\ Sample(b, m - 1).t < limit
  <2>1. m - 1 \in h .. q /\ m - 1 \in Int /\ ~ (m <= m - 1)
    BY <1>0, <1>3, <1>4
  <2>2. m - 1 \notin S
    BY <1>2, <2>1
  <2>3. ~ (Sample(b, m - 1).t >= limit)
    BY <1>0, <2>1, <2>2 DEF S
  <2> QED
    BY <1>a, <1>1, <1>9, <2>1, <2>3 DEF SameSamples
<1>12. Follows(c, limit, event) /\ event \in BOOLEAN
  BY <1>9, <1>11 DEF Follows
<1> HIDE DEF event
<1>13. /\ IsBuffer(d, T, Y) /\ Kept(d) /\ d.head_index = h
       /\ RecordedAtRight(c, d, limit, y, event)
  <2>1. IsBuffer(c, T, Y) /\ Kept(c) /\ c.size > 0
    BY <1>9, <1>10
  <2>2. /\ IsBuffer(d, T, Y) /\ Kept(d) /\ d.head_index = c.head_index
        /\ RecordedAtRight(c, d, limit, y, event)
    BY ONLY AreTimes(T), 0 \in T, 0 \in Y, limit \in T, y \in Y, <2>1, <1>12, RecordedRightKeeps, Zenon
  <2> QED
    BY <1>9, <2>2
<1> HIDE DEF d
<1>14. Extended(c, d, limit, y, FALSE)
  BY <1>13 DEF RecordedAtRight, event
<1>15. /\ TailIndex(d) = m /\ Sample(d, m).t = limit /\ d.size = c.size + 1
       /\ Sample(d, m).segment = Sample(c, m - 1).segment + (IF FALSE THEN 1 ELSE 0)
       /\ \A i \in h .. m - 1 : Sample(d, i) = Sample(c, i)
  <2>1. (m - 1) + 1 = m
    BY <1>3
  <2>2. TailIndex(d) = (d.head_index + d.size) - 1 /\ TailIndex(c) = (c.head_index + c.size) - 1
        /\ c.size \in Nat /\ c.head_index \in Int
    BY <1>9, <1>13, IndicesAre
  <2>3. d.size = c.size + 1
    BY <1>14 DEF Extended
  <2>4. TailIndex(d) = m
    BY ONLY <1>3, <1>9, <1>13, <2>2, <2>3
  <2> QED
    BY <1>9, <1>10, <1>14, <2>1, <2>4 DEF Extended, InPlace
<1>16. Sample(d, m).segment = Sample(b, m).segment
  <2>1. m - 1 \in Indices(b) /\ m - 1 # TailIndex(b) /\ m - 1 \in h .. q /\ (m - 1) + 1 = m
    BY <1>0, <1>3, <1>4
  <2>2. /\ EventRightOf(b, m - 1) => Sample(b, m).t = Sample(b, m - 1).t
        /\ ~ EventRightOf(b, m - 1) => Sample(b, m).segment = Sample(b, m - 1).segment
    <3>1. /\ EventRightOf(b, m - 1) => Sample(b, (m - 1) + 1).t = Sample(b, m - 1).t
          /\ ~ EventRightOf(b, m - 1) => Sample(b, (m - 1) + 1).segment = Sample(b, m - 1).segment
      BY ONLY IsBuffer(b, T, Y), Kept(b), <2>1, Neighbours
    <3> QED
      BY <2>1, <3>1
  <2>3. Sample(b, m - 1).t # Sample(b, m).t
    BY <1>a, <1>1, <1>3, <1>11, <2>1
  <2>4. Sample(b, m - 1).segment \in Int
    BY <1>1, <2>1
  <2> QED
    BY <1>11, <1>15, <2>2, <2>3, <2>4
<1>17. InPlace(b, d, h, m - 1)
  <2>1. ASSUME NEW i \in h .. m - 1
        PROVE  Sample(d, i) = Sample(b, i)
    <3>1. i \in Int
      BY <1>0, <1>3
    <3> QED
      BY <1>9, <1>15, <3>1 DEF SameSamples
  <2> QED
    BY <2>1 DEF InPlace
<1>18. CutOnRight(b, d, limit)
  <2>1. m \in h + 1 .. q
    BY <1>0, <1>3, <1>4
  <2> QED
    BY <1>3, <1>13, <1>15, <1>16, <1>17, <2>1 DEF CutOnRight
<1>19. d.size > 0
  BY <1>9, <1>10, <1>15, IndicesAre, SMTT(20)
<1> QED
  BY <1>7, <1>13, <1>18, <1>19 DEF d

(* The outlet is beyond the end that is cut off.                           *)
LEMMA OutletLeftByCut ==
  ASSUME NEW T, NEW Y, AreTimes(T), NEW b, IsBuffer(b, T, Y), Kept(b), NEW d, IsBuffer(d, T, Y), d.size > 0,
         NEW limit \in Int, NEW tr \in Int, NEW p \in Indices(b), limit < tr,
         CutOnLeft(b, d, limit), Inside(Interval(b, p), tr), Ends(b, Sample(b, p).segment, tr)
  PROVE  p \in Indices(d) /\ Ends(d, Sample(d, p).segment, tr)
<1>a. T \subseteq Int
  BY DEF AreTimes
<1> DEFINE h == b.head_index
           q == TailIndex(b)
           m == d.head_index
<1>0. /\ h \in Int /\ q \in Int /\ Indices(b) = h .. q /\ m \in Int /\ Indices(d) = m .. q
      /\ m \in h .. q - 1 /\ p \in Int /\ p \in h .. q
  BY IndicesAre DEF CutOnLeft
<1>1. /\ Sample(d, m).segment = Sample(b, m).segment /\ Sample(b, m).t <= limit
      /\ \A i \in m + 1 .. q : Sample(d, i) = Sample(b, i)
  BY DEF CutOnLeft, InPlace
<1> HIDE DEF h, q, m
<1>2. ASSUME NEW i \in Indices(b), tr <= Sample(b, i).t
      PROVE  i \in m + 1 .. q /\ i \in Indices(d)
  <2>0. i \in Int
    BY <1>0
  <2>1. Sample(b, i).t \in Int /\ Sample(b, m).t \in Int /\ i \in Int
    BY <1>a, <1>0, <2>0, SampleType
  <2>2. m \in Indices(b)
    BY <1>0
  <2>3. i <= m => Sample(b, i).t <= Sample(b, m).t
    BY <2>2 DEF Kept, Ordered
  <2>4. i > m
    BY <1>0, <1>1, <1>2, <2>1, <2>3
  <2> QED
    BY <1>0, <2>1, <2>4
<1>3. p \in Indices(d)
  <2>1. CASE EventRightOf(b, p)
    <3>1. tr <= Sample(b, p).t
      BY <2>1 DEF Inside, Interval
    <3> QED
      BY <1>2, <3>1
  <2>2. CASE ~ EventRightOf(b, p)
    <3>1. tr <= Sample(b, p + 1).t
      BY <2>2 DEF Inside, Interval
    <3>2. p + 1 \in Indices(b)
      BY <1>0, <2>2 DEF EventRightOf, q
    <3>3. p + 1 \in m + 1 .. q
      BY <1>2, <3>1, <3>2
    <3> QED
      BY <1>0, <3>3
  <2> QED
    BY <2>1, <2>2
<1>4. Sample(d, p).segment = Sample(b, p).segment
  <2>1. p = m \/ p \in m + 1 .. q
    BY <1>0, <1>3
  <2> QED
    BY <1>1, <2>1
<1>5. PICK r \in Indices(b) : Sample(b, r).segment = Sample(b, p).segment /\ tr <= Sample(b, r).t
  BY DEF Ends
<1>6. r \in Indices(d) /\ Sample(d, r) = Sample(b, r)
  BY <1>1, <1>2, <1>5
<1> QED
  BY <1>3, <1>4, <1>5, <1>6 DEF Ends

LEMMA OutletRightByCut ==
  ASSUME NEW T, NEW Y, AreTimes(T), NEW b, IsBuffer(b, T, Y), Kept(b), NEW d, IsBuffer(d, T, Y), d.size > 0,
         NEW limit \in Int, NEW tr \in Int, NEW p \in Indices(b), tr < limit,
         CutOnRight(b, d, limit), Inside(Interval(b, p), tr), Starts(b, Sample(b, p).segment, tr)
  PROVE  p \in Indices(d) /\ Starts(d, Sample(d, p).segment, tr)
<1>a. T \subseteq Int
  BY DEF AreTimes
<1> DEFINE h == b.head_index
           q == TailIndex(b)
           m == TailIndex(d)
<1>0. /\ h \in Int /\ q \in Int /\ Indices(b) = h .. q /\ m \in Int /\ Indices(d) = h .. m
      /\ m \in h + 1 .. q /\ p \in Int /\ p \in h .. q
  BY IndicesAre DEF CutOnRight
<1>1. /\ Sample(d, m).segment = Sample(b, m).segment /\ limit <= Sample(b, m).t
      /\ \A i \in h .. m - 1 : Sample(d, i) = Sample(b, i)
  BY DEF CutOnRight, InPlace
<1> HIDE DEF h, q, m
<1>2. ASSUME NEW i \in Indices(b), Sample(b, i).t <= tr
      PROVE  i \in h .. m - 1 /\ i \in Indices(d)
  <2>0. i \in Int
    BY <1>0
  <2>1. Sample(b, i).t \in Int /\ Sample(b, m).t \in Int /\ i \in Int
    BY <1>a, <1>0, <2>0, SampleType
  <2>2. m \in Indices(b)
    BY <1>0
  <2>3. m <= i => Sample(b, m).t <= Sample(b, i).t
    BY <2>2 DEF Kept, Ordered
  <2>4. i < m
    BY <1>0, <1>1, <1>2, <2>1, <2>3
  <2> QED
    BY <1>0, <2>1, <2>4
<1>3. p \in Indices(d) /\ p \in h .. m - 1
  <2>1. Sample(b, p).t <= tr
    BY DEF Inside, Interval
  <2> QED
    BY <1>2, <2>1
<1>4. Sample(d, p).segment = Sample(b, p).segment
  BY <1>1, <1>3
<1>5. PICK l \in Indices(b) : Sample(b, l).segment = Sample(b, p).segment /\ Sample(b, l).t <= tr
  BY DEF Starts
<1>6. l \in Indices(d) /\ Sample(d, l) = Sample(b, l)
  BY <1>1, <1>2, <1>5
<1> QED
  BY <1>3, <1>4, <1>5, <1>6 DEF Starts


(***************************************************************************)
(* The block: what its buffer and its positions hold in every state, when  *)
(* the direction of the flow changes at events only.                       *)
(***************************************************************************)
Times == 1 - Infinity .. Infinity - 1
Contents == Values \cup {0}

(* The buffer is in order, and the positions are on segments around the    *)
(* ends of the pipe.                                                       *)
Holds(b, l, r, p) ==
  /\ IsBuffer(b, Times, Contents) /\ Kept(b) /\ b.size > 1
  /\ l \in Int /\ r \in Int
  /\ IsAround(b, SegmentAt(b, l), x2left(p)) /\ IsAround(b, SegmentAt(b, r), x2right(p))

(* The end at which the pipe is filled is the end of the buffer, and the   *)
(* position there is on the segment at that end.                           *)
FilledTo(b, l, r, p, positive) ==
  IF positive THEN Sample(b, b.head_index).t = x2left(p) /\ SegmentAt(b, l) = FirstEvent(b)
  ELSE Sample(b, TailIndex(b)).t = x2right(p) /\ SegmentAt(b, r) = LastSegment(b)

ControlOK ==
  /\ last_x \in Positions /\ x \in Positions /\ positiveVelocity \in BOOLEAN
  /\ phase \in {"continuous", "crossing", "crossed", "event"}
  /\ samples \in 0 .. MaxSamples /\ offered \in Values

IInv ==
  /\ ControlOK
  /\ Holds(buffer, lposition, rposition, last_x)
  /\ phase = "event" => x = last_x
  /\ phase # "event" => FilledTo(buffer, lposition, rposition, last_x, positiveVelocity)

LEMMA ConstantsAre ==
  /\ Length \in Nat \ {0} /\ MaxX \in Nat /\ MaxSamples \in Nat /\ Infinity \in Int
  /\ AreTimes(Times) /\ Times \subseteq Int /\ 0 \in Times /\ 0 \in Contents
  /\ Values \subseteq Contents /\ Inflow \in Values
<1>1. /\ Length \in Nat \ {0} /\ MaxX \in Nat /\ MaxSamples \in Nat /\ Values # {}
  BY PipeAssumption
<1>2. Inflow \in Values
  BY <1>1 DEF Inflow
<1> QED
  BY <1>1, <1>2 DEF Infinity, Times, Contents, AreTimes

LEMMA PlacesAre ==
  ASSUME NEW p \in Positions
  PROVE  /\ p \in Int /\ x2left(p) \in Int /\ x2right(p) \in Int
         /\ x2left(p) \in Times /\ x2right(p) \in Times
         /\ x2left(p) = -p /\ x2right(p) = Length - p
         /\ x2left(p) < x2right(p) /\ x2left(p) + Length = x2right(p) /\ x2right(p) - Length = x2left(p)
         /\ x2right(p) <= Infinity /\ -Infinity <= x2left(p)
         /\ x2left(p) <= Infinity /\ -Infinity <= x2right(p) /\ -Infinity \in Int
BY ConstantsAre DEF Positions, x2left, x2right, Times, Infinity

(* The same buffer, with positions on the same segments.                   *)
LEMMA HoldsStill ==
  ASSUME NEW b, NEW l, NEW r, NEW p, Holds(b, l, r, p),
         NEW c, IsBuffer(c, Times, Contents), Stays(b, c), NEW m \in Int, NEW s \in Int,
         SegmentAt(c, m) = SegmentAt(b, l), SegmentAt(c, s) = SegmentAt(b, r)
  PROVE  /\ Holds(c, m, s, p)
         /\ \A positive \in BOOLEAN : FilledTo(b, l, r, p, positive) => FilledTo(c, m, s, p, positive)
<1>1. /\ c.size = b.size /\ c.head_index = b.head_index /\ TailIndex(c) = TailIndex(b)
      /\ Indices(c) = Indices(b)
      /\ \A i \in Indices(b) : Sample(c, i) = Sample(b, i)
  BY StaysSame DEF Holds
<1>2. \A sg, t : IsAround(b, sg, t) => IsAround(c, sg, t)
  BY <1>1, Zenon DEF IsAround, Starts, Ends
<1>3. b.head_index \in Indices(b) /\ TailIndex(b) \in Indices(b)
  BY IndicesAre DEF Holds
<1>4. Kept(c)
  BY DEF Stays
<1> QED
  BY <1>1, <1>2, <1>3, <1>4 DEF Holds, FilledTo, FirstEvent, LastSegment

LEMMA SegmentStays ==
  ASSUME NEW b, IsBuffer(b, Times, Contents), b.size > 0, NEW c, IsBuffer(c, Times, Contents), Stays(b, c),
         NEW index \in Int
  PROVE  SegmentAt(c, index) = SegmentAt(b, index)
<1>1. /\ c.head_index = b.head_index /\ TailIndex(c) = TailIndex(b)
      /\ \A i \in Indices(b) : Sample(c, i) = Sample(b, i)
  BY StaysSame
<1>2. Clamped(c, index) = Clamped(b, index)
  BY <1>1 DEF Clamped
<1>3. Clamped(b, index) \in Indices(b)
  BY ONLY IsBuffer(b, Times, Contents), b.size > 0, index \in Int, ClampedIs
<1> QED
  BY <1>1, <1>2, <1>3 DEF SegmentAt

LEMMA EvaluatedIs ==
  ASSUME ~ NoEvent, NEW at_event \in BOOLEAN, NEW p
  PROVE  LET left == WithCurrent(buffer, x2left(p), Inflow, FALSE)
             right == WithCurrent(buffer, x2right(p), Inflow, TRUE)
         IN /\ Evaluated(at_event, p, TRUE) =
                 [buffer |-> WithoutCurrent(left, buffer.size, FALSE), lposition |-> lposition,
                  rposition |-> PositionEvaluated(left, at_event, x2right(p), rposition)]
            /\ Evaluated(at_event, p, FALSE) =
                 [buffer |-> WithoutCurrent(right, buffer.size, TRUE),
                  lposition |-> PositionEvaluated(right, at_event, x2left(p), lposition),
                  rposition |-> rposition]
<1>1. MayCross(at_event) = at_event
  BY Zenon DEF MayCross
<1>2. (~TRUE) = FALSE /\ (~FALSE) = TRUE
  OBVIOUS
<1> QED
  BY <1>1, <1>2 DEF Evaluated

(* An evaluation between events changes no segment.                        *)
LEMMA EvaluatedHolds ==
  ASSUME ~ NoEvent, NEW px \in Positions, Holds(buffer, lposition, rposition, px),
         NEW p \in Positions, NEW positive \in BOOLEAN
  PROVE  LET e == Evaluated(FALSE, p, positive)
         IN /\ Holds(e.buffer, e.lposition, e.rposition, px)
            /\ \A d \in BOOLEAN : FilledTo(buffer, lposition, rposition, px, d)
                 => FilledTo(e.buffer, e.lposition, e.rposition, px, d)
<1> DEFINE b == buffer
           none == -Infinity
           far == Infinity
           ev == Evaluated(FALSE, p, positive)
<1>0. /\ IsBuffer(b, Times, Contents) /\ Kept(b) /\ b.size > 1 /\ b.size > 0
      /\ lposition \in Int /\ rposition \in Int
      /\ x2left(p) \in Times /\ x2right(p) \in Times /\ x2left(p) \in Int /\ x2right(p) \in Int
      /\ x2left(p) < x2right(p)
      /\ x2left(p) <= far /\ none <= x2right(p) /\ far \in Int /\ none \in Int
      /\ AreTimes(Times) /\ 0 \in Times /\ 0 \in Contents /\ Inflow \in Contents
  <2>1. b.size \in Int
    BY IndicesAre DEF Holds
  <2> QED
    BY <2>1, ConstantsAre, PlacesAre DEF Holds
<1> HIDE DEF none, far
<1>1. CASE positive
  <2> DEFINE c == WithCurrent(b, x2left(p), Inflow, FALSE)
             e == WithoutCurrent(c, b.size, FALSE)
             k == Position(c, FALSE, x2right(p), rposition)
  <2>1. ~ (c.size <= 1) /\ k \in Int /\ IsBuffer(e, Times, Contents) /\ Stays(b, e) /\ SegmentAt(e, k) = SegmentAt(b, rposition)
    <3>1. SignalsAtRight(Times, Contents, b, x2left(p), Inflow, x2right(p), rposition, none)
      BY ONLY <1>0, SignalledRight
    <3> QED
      BY ONLY <3>1 DEF SignalsAtRight
  <2>2. SegmentAt(e, lposition) = SegmentAt(b, lposition)
    BY ONLY <1>0, <2>1, SegmentStays
  <2>3. PositionEvaluated(c, FALSE, x2right(p), rposition) = k
    BY <2>1 DEF PositionEvaluated
  <2>4. ev = [buffer |-> e, lposition |-> lposition, rposition |-> k]
    BY <1>1, <2>3, EvaluatedIs
  <2> HIDE DEF e, k, c
  <2>5. /\ Holds(e, lposition, k, px)
        /\ \A d \in BOOLEAN : FilledTo(b, lposition, rposition, px, d) => FilledTo(e, lposition, k, px, d)
    BY ONLY Holds(b, lposition, rposition, px), <1>0, <2>1, <2>2, HoldsStill, SMTT(20)
  <2> HIDE DEF ev
  <2>6. ev.buffer = e /\ ev.lposition = lposition /\ ev.rposition = k
    BY ONLY <2>4
  <2>7. /\ Holds(ev.buffer, ev.lposition, ev.rposition, px)
        /\ \A d \in BOOLEAN : FilledTo(b, lposition, rposition, px, d)
                            => FilledTo(ev.buffer, ev.lposition, ev.rposition, px, d)
    BY ONLY <2>5, <2>6
  <2> QED
    BY ONLY <2>7 DEF ev
<1>2. CASE ~ positive
  <2> DEFINE c == WithCurrent(b, x2right(p), Inflow, TRUE)
             e == WithoutCurrent(c, b.size, TRUE)
             k == Position(c, FALSE, x2left(p), lposition)
  <2>1. ~ (c.size <= 1) /\ k \in Int /\ IsBuffer(e, Times, Contents) /\ Stays(b, e) /\ SegmentAt(e, k) = SegmentAt(b, lposition)
    <3>1. SignalsAtLeft(Times, Contents, b, x2right(p), Inflow, x2left(p), lposition, far)
      BY ONLY <1>0, SignalledLeft
    <3> QED
      BY ONLY <3>1 DEF SignalsAtLeft
  <2>2. SegmentAt(e, rposition) = SegmentAt(b, rposition)
    BY ONLY <1>0, <2>1, SegmentStays
  <2>3. PositionEvaluated(c, FALSE, x2left(p), lposition) = k
    BY <2>1 DEF PositionEvaluated
  <2>4. ev = [buffer |-> e, lposition |-> k, rposition |-> rposition]
    BY <1>2, <2>3, EvaluatedIs
  <2> HIDE DEF e, k, c
  <2>5. /\ Holds(e, k, rposition, px)
        /\ \A d \in BOOLEAN : FilledTo(b, lposition, rposition, px, d) => FilledTo(e, k, rposition, px, d)
    BY ONLY Holds(b, lposition, rposition, px), <1>0, <2>1, <2>2, HoldsStill, SMTT(20)
  <2> HIDE DEF ev
  <2>6. ev.buffer = e /\ ev.lposition = k /\ ev.rposition = rposition
    BY ONLY <2>4
  <2>7. /\ Holds(ev.buffer, ev.lposition, ev.rposition, px)
        /\ \A d \in BOOLEAN : FilledTo(b, lposition, rposition, px, d)
                            => FilledTo(ev.buffer, ev.lposition, ev.rposition, px, d)
    BY ONLY <2>5, <2>6
  <2> QED
    BY ONLY <2>7 DEF ev
<1> QED
  BY <1>1, <1>2

(* A buffer with segments around both ends of the pipe covers it.          *)
LEMMA Covers ==
  ASSUME NEW b, NEW l, NEW r, NEW p \in Positions, Holds(b, l, r, p)
  PROVE  /\ Sample(b, b.head_index).t \in Int /\ Sample(b, TailIndex(b)).t \in Int
         /\ Sample(b, b.head_index).t <= x2left(p) /\ x2right(p) <= Sample(b, TailIndex(b)).t
<1> DEFINE lo == x2left(p)
           hi == x2right(p)
           h == b.head_index
           q == TailIndex(b)
<1>0. /\ h \in Int /\ q \in Int /\ h \in Indices(b) /\ q \in Indices(b) /\ lo \in Int /\ hi \in Int
      /\ Times \subseteq Int /\ Indices(b) = h .. q
  <2>1. b.size > 0 /\ IsBuffer(b, Times, Contents)
    BY IndicesAre DEF Holds
  <2> QED
    BY <2>1, IndicesAre, PlacesAre, ConstantsAre
<1>1. \A i \in Indices(b) : Sample(b, i).t \in Int
  <2> SUFFICES ASSUME NEW i \in Indices(b) PROVE Sample(b, i).t \in Int
    OBVIOUS
  <2>1. i \in Int
    BY <1>0
  <2> QED
    BY <1>0, <2>1, SampleType DEF Holds
<1>2. PICK i \in Indices(b) : Sample(b, i).t <= lo
  BY DEF Holds, IsAround, Starts
<1>3. PICK j \in Indices(b) : hi <= Sample(b, j).t
  BY DEF Holds, IsAround, Ends
<1>4. Sample(b, h).t <= Sample(b, i).t /\ Sample(b, j).t <= Sample(b, q).t
  <2>1. h <= i /\ j <= q
    BY <1>0
  <2> QED
    BY <1>0, <2>1 DEF Holds, Kept, Ordered
<1> HIDE DEF lo, hi
<1>5. Sample(b, h).t <= lo /\ hi <= Sample(b, q).t
  BY ONLY <1>0, <1>1, <1>2, <1>3, <1>4
<1> QED
  BY <1>0, <1>1, <1>5 DEF lo, hi

(* Recording at the left end between events.                               *)
LEMMA StepLeft ==
  ASSUME NEW b, NEW l, NEW r, NEW p \in Positions, Holds(b, l, r, p), FilledTo(b, l, r, p, TRUE),
         NEW y \in Values, NEW n \in Positions, n > p
  PROVE  LET c == RecordedLeft(b, x2left(n), y, FALSE, Length)
         IN Holds(c, l, r, n) /\ FilledTo(c, l, r, n, TRUE)
<1> DEFINE event == FALSE
           t == x2left(n)
           limit == x2right(n)
           c == RecordedLeft(b, t, y, event, Length)
           h == b.head_index
           q == TailIndex(b)
<1>0. /\ IsBuffer(b, Times, Contents) /\ Kept(b) /\ b.size > 0 /\ l \in Int /\ r \in Int
      /\ t \in Times /\ t \in Int /\ limit \in Int /\ y \in Contents /\ Length \in Nat \ {0}
      /\ AreTimes(Times) /\ 0 \in Times /\ 0 \in Contents /\ event \in BOOLEAN
      /\ t + Length = limit
  <2>1. b.size > 0
    BY IndicesAre DEF Holds
  <2> QED
    BY <2>1, ConstantsAre, PlacesAre DEF Holds
<1>1. Precedes(b, t, event)
  <2>1. Sample(b, h).t = x2left(p) /\ t < x2left(p)
    BY PlacesAre DEF FilledTo
  <2> QED
    BY <2>1 DEF Precedes
<1>2. t + Length <= Sample(b, q).t
  <2>1. x2right(p) <= Sample(b, q).t /\ Sample(b, q).t \in Int
    BY Covers
  <2>2. limit <= x2right(p) /\ x2right(p) \in Int
    <3>1. p \in Int /\ n \in Int /\ limit = Length - n /\ x2right(p) = Length - p
      BY PlacesAre
    <3> QED
      BY ONLY <1>0, <3>1, n > p
  <2> HIDE DEF t, limit, q
  <2> QED
    BY ONLY <1>0, <2>1, <2>2
<1>3. Ends(b, SegmentAt(b, r), limit)
  <2>1. PICK i \in Indices(b) : Sample(b, i).segment = SegmentAt(b, r) /\ x2right(p) <= Sample(b, i).t
    BY DEF Holds, IsAround, Ends
  <2>2. i \in Int
    BY IndicesAre DEF Holds
  <2>3. Sample(b, i).t \in Int
    BY <1>0, <2>2, SampleType, ConstantsAre
  <2>4. limit <= x2right(p) /\ x2right(p) \in Int
    <3>1. p \in Int /\ n \in Int /\ limit = Length - n /\ x2right(p) = Length - p
      BY PlacesAre
    <3> QED
      BY ONLY <1>0, <3>1, n > p
  <2> HIDE DEF limit
  <2>5. limit <= Sample(b, i).t
    BY ONLY <1>0, <2>1, <2>3, <2>4
  <2> QED
    BY <2>1, <2>5 DEF Ends
<1>4. SegmentAt(b, l) = FirstEvent(b)
  BY DEF FilledTo
<1> HIDE DEF event, t, limit, c
<1>5. IsBuffer(c, Times, Contents) /\ Kept(c) /\ c.size > 1 /\ PutOnLeft(b, c, t, event, t + Length)
  <2>1. c = RecordedLeft(b, t, y, event, Length)
    BY DEF c
  <2> QED
    BY ONLY <1>0, <1>1, <1>2, <2>1, RecordedOnLeft
<1>6. PutOnLeft(b, c, t, event, limit) /\ c.size > 0
  <2>1. PutOnLeft(b, c, t, event, limit)
    BY <1>0, <1>5
  <2>2. c.size > 0
    BY <1>5, IndicesAre
  <2> QED
    BY <2>1, <2>2
<1>7. IsAround(c, SegmentAt(c, r), limit)
  <2>1. event => r \in Indices(b)
    BY DEF event
  <2> QED
    BY ONLY <1>0, <1>3, <1>5, <1>6, <2>1, OutletAtRight
<1>8. SegmentAt(c, l) = FirstEvent(c)
  <2>1. ~ event
    BY DEF event
  <2>2. SegmentAt(c, l) = FirstEvent(c) /\ FirstEvent(c) = FirstEvent(b)
    BY ONLY <1>0, <1>4, <1>5, <1>6, <2>1, InletAtLeft
  <2> QED
    BY <2>2
<1>9. Sample(c, c.head_index).t = t
  BY <1>6 DEF PutOnLeft
<1>10. IsAround(c, SegmentAt(c, l), t)
  <2>1. c.head_index \in Indices(c)
    BY <1>5, <1>6, IndicesAre
  <2>2. t <= t
    BY <1>0
  <2> QED
    BY <1>8, <1>9, <2>1, <2>2 DEF IsAround, Starts, Ends, FirstEvent
<1> QED
  BY <1>0, <1>5, <1>7, <1>8, <1>9, <1>10 DEF Holds, FilledTo, c, t, limit, event

(* Cutting the left end off, with the outlet between samples.              *)
LEMMA CutLeft ==
  ASSUME NEW b, NEW l, NEW r, NEW p \in Positions, Holds(b, l, r, p), r \in Indices(b),
         Inside(Interval(b, r), x2right(p)), Sample(b, b.head_index).t < x2left(p), NEW v \in Values
  PROVE  LET d == TruncatedLeft(b, x2left(p), v)
         IN /\ IsBuffer(d, Times, Contents) /\ Kept(d) /\ d.size > 0
            /\ Sample(d, d.head_index).t = x2left(p) /\ x2right(p) <= Sample(d, TailIndex(d)).t
            /\ r \in Indices(d) /\ Ends(d, Sample(d, r).segment, x2right(p))
<1> DEFINE limit == x2left(p)
           tr == x2right(p)
           d == TruncatedLeft(b, limit, v)
           h == b.head_index
           q == TailIndex(b)
<1>0. /\ IsBuffer(b, Times, Contents) /\ Kept(b) /\ b.size > 0 /\ r \in Int
      /\ limit \in Times /\ limit \in Int /\ tr \in Int /\ v \in Contents /\ limit < tr
      /\ AreTimes(Times) /\ 0 \in Times /\ 0 \in Contents
  <2>1. b.size > 0
    BY IndicesAre DEF Holds
  <2> QED
    BY <2>1, ConstantsAre, PlacesAre DEF Holds
<1>1. Sample(b, h).t < limit /\ limit < Sample(b, q).t /\ tr <= Sample(b, q).t
  <2>1. tr <= Sample(b, q).t /\ Sample(b, q).t \in Int
    BY Covers
  <2>2. Sample(b, h).t < limit
    OBVIOUS
  <2> HIDE DEF limit, tr, h, q
  <2> QED
    BY ONLY <1>0, <2>1, <2>2
<1>2. Ends(b, Sample(b, r).segment, tr)
  <2>1. SegmentAt(b, r) = Sample(b, r).segment
    <3>1. Clamped(b, r) = r
      BY ONLY <1>0, r \in Indices(b), ClampedIs
    <3> QED
      BY <3>1 DEF SegmentAt
  <2> QED
    BY <2>1 DEF Holds, IsAround
<1>3. Inside(Interval(b, r), tr)
  OBVIOUS
<1> HIDE DEF limit, tr, d
<1>4. IsBuffer(d, Times, Contents) /\ Kept(d) /\ d.size > 0 /\ CutOnLeft(b, d, limit)
  <2>1. d = TruncatedLeft(b, limit, v)
    BY DEF d
  <2> QED
    BY ONLY <1>0, <1>1, <2>1, TruncatedOnLeft
<1>5. r \in Indices(d) /\ Ends(d, Sample(d, r).segment, tr)
  BY ONLY <1>0, <1>2, <1>3, <1>4, r \in Indices(b), OutletLeftByCut
<1>6. Sample(d, d.head_index).t = limit
  BY <1>4 DEF CutOnLeft
<1>7. Sample(d, TailIndex(d)) = Sample(b, q)
  <2>1. h \in Int /\ q \in Int
    BY <1>0, IndicesAre
  <2>2. d.head_index \in h .. q - 1 /\ TailIndex(d) = q /\ InPlace(b, d, d.head_index + 1, q)
    BY <1>4 DEF CutOnLeft
  <2>3. q \in d.head_index + 1 .. q
    BY <2>1, <2>2
  <2> QED
    BY <2>2, <2>3 DEF InPlace
<1> QED
  BY <1>1, <1>4, <1>5, <1>6, <1>7 DEF limit, tr, d

(* Recording at the left end after an event.                               *)
LEMMA EventLeft ==
  ASSUME NEW b, IsBuffer(b, Times, Contents), Kept(b), b.size > 0, NEW p \in Positions,
         Sample(b, b.head_index).t = x2left(p), x2right(p) <= Sample(b, TailIndex(b)).t,
         NEW r \in Indices(b), Ends(b, Sample(b, r).segment, x2right(p)), NEW y \in Values, NEW index \in Int
  PROVE  LET c == RecordedLeft(b, x2left(p), y, TRUE, Length)
             m == Position(c, TRUE, -Infinity, index)
         IN Holds(c, m, r, p) /\ FilledTo(c, m, r, p, TRUE)
<1> DEFINE event == TRUE
           t == x2left(p)
           limit == x2right(p)
           far == -Infinity
           c == RecordedLeft(b, t, y, event, Length)
           m == Position(c, TRUE, far, index)
<1>0. /\ r \in Int /\ t \in Times /\ t \in Int /\ limit \in Int /\ y \in Contents /\ Length \in Nat \ {0}
      /\ AreTimes(Times) /\ 0 \in Times /\ 0 \in Contents /\ event \in BOOLEAN /\ event
      /\ t + Length = limit /\ far \in Int /\ far < t
  <2>1. r \in Int
    BY IndicesAre
  <2>2. far < t /\ far \in Int
    BY ConstantsAre DEF Positions, x2left, Infinity
  <2> QED
    BY <2>1, <2>2, ConstantsAre, PlacesAre
<1>1. Precedes(b, t, event)
  BY DEF Precedes
<1>2. t + Length <= Sample(b, TailIndex(b)).t
  BY <1>0
<1>3. Ends(b, SegmentAt(b, r), limit)
  <2>1. Clamped(b, r) = r
    BY ONLY <1>0, IsBuffer(b, Times, Contents), b.size > 0, r \in Indices(b), ClampedIs
  <2> QED
    BY <2>1 DEF SegmentAt
<1> HIDE DEF event, t, limit, far, c
<1>4. IsBuffer(c, Times, Contents) /\ Kept(c) /\ c.size > 1 /\ PutOnLeft(b, c, t, event, t + Length)
  <2>1. c = RecordedLeft(b, t, y, event, Length)
    BY DEF c
  <2> QED
    BY ONLY IsBuffer(b, Times, Contents), Kept(b), b.size > 0, <1>0, <1>1, <1>2, <2>1, RecordedOnLeft, ZenonT(40)
<1>5. PutOnLeft(b, c, t, event, limit) /\ c.size > 0
  <2>1. PutOnLeft(b, c, t, event, limit)
    BY <1>0, <1>4
  <2>2. c.size > 0
    BY <1>4, IndicesAre
  <2> QED
    BY <2>1, <2>2
<1>6. IsAround(c, SegmentAt(c, r), limit)
  BY ONLY IsBuffer(b, Times, Contents), Kept(b), b.size > 0, r \in Indices(b),
          <1>0, <1>3, <1>4, <1>5, OutletAtRight
<1>7. Sample(c, c.head_index).t = t
  BY <1>5 DEF PutOnLeft
<1>8. m = c.head_index /\ c.head_index \in Indices(c) /\ c.head_index \in Int
  <2>1. FoundAcross(c, m, far)
    BY ONLY <1>0, <1>4, index \in Int, PositionAcross
  <2>2. c.head_index \in Indices(c) /\ c.head_index \in Int /\ TailIndex(c) \in Int /\ Indices(c) = c.head_index .. TailIndex(c)
    BY <1>4, <1>5, IndicesAre
  <2> HIDE DEF m
  <2>3. m \in Indices(c) /\ (m = c.head_index \/ Sample(c, m).t <= far)
    BY <2>1 DEF FoundAcross
  <2>4. Sample(c, c.head_index).t <= Sample(c, m).t /\ Sample(c, m).t \in Int
    <3>1. c.head_index <= m /\ m \in Int
      BY <2>2, <2>3
    <3>2. Sample(c, m).t \in Int
      BY <1>4, <3>1, SampleType, ConstantsAre
    <3> QED
      BY <1>4, <2>2, <2>3, <3>1, <3>2 DEF Kept, Ordered
  <2>5. m = c.head_index
    BY <1>0, <1>7, <2>3, <2>4
  <2> QED
    BY <2>2, <2>5
<1> HIDE DEF m
<1>9. SegmentAt(c, m) = FirstEvent(c)
  <2>1. Clamped(c, m) = m
    BY ONLY <1>4, <1>5, <1>8, ClampedIs
  <2> QED
    BY <1>8, <2>1 DEF SegmentAt, FirstEvent
<1>10. IsAround(c, SegmentAt(c, m), t)
  <2>1. t <= t
    BY <1>0
  <2> QED
    BY <1>7, <1>8, <1>9, <2>1 DEF IsAround, Starts, Ends, FirstEvent
<1>11. Holds(c, m, r, p)
  BY <1>0, <1>4, <1>6, <1>8, <1>10 DEF Holds, t, limit
<1>12. FilledTo(c, m, r, p, TRUE)
  BY <1>7, <1>9 DEF FilledTo, t
<1> QED
  BY <1>11, <1>12 DEF c, m, t, event, far

(* Recording at the right end between events.                              *)
LEMMA StepRight ==
  ASSUME NEW b, NEW l, NEW r, NEW p \in Positions, Holds(b, l, r, p), FilledTo(b, l, r, p, FALSE),
         NEW y \in Values, NEW n \in Positions, n < p
  PROVE  LET c == RecordedRight(b, x2right(n), y, FALSE, Length)
         IN Holds(c, l, r, n) /\ FilledTo(c, l, r, n, FALSE)
<1> DEFINE event == FALSE
           t == x2right(n)
           limit == x2left(n)
           c == RecordedRight(b, t, y, event, Length)
           h == TailIndex(b)
           q == b.head_index
<1>0. /\ IsBuffer(b, Times, Contents) /\ Kept(b) /\ b.size > 0 /\ r \in Int /\ l \in Int
      /\ t \in Times /\ t \in Int /\ limit \in Int /\ y \in Contents /\ Length \in Nat \ {0}
      /\ AreTimes(Times) /\ 0 \in Times /\ 0 \in Contents /\ event \in BOOLEAN
      /\ t - Length = limit
  <2>1. b.size > 0
    BY IndicesAre DEF Holds
  <2> QED
    BY <2>1, ConstantsAre, PlacesAre DEF Holds
<1>1. Follows(b, t, event)
  <2>0. p \in Int /\ n \in Int /\ t = Length - n /\ x2right(p) = Length - p
    BY PlacesAre
  <2>1. Sample(b, h).t = x2right(p) /\ x2right(p) < t
    BY <1>0, <2>0 DEF FilledTo
  <2> QED
    BY <2>1 DEF Follows
<1>2. t - Length >= Sample(b, q).t
  <2>1. x2left(p) >= Sample(b, q).t /\ Sample(b, q).t \in Int
    BY Covers
  <2>2. limit >= x2left(p) /\ x2left(p) \in Int
    <3>1. p \in Int /\ n \in Int /\ limit = -n /\ x2left(p) = -p
      BY PlacesAre
    <3> QED
      BY ONLY <1>0, <3>1, n < p
  <2> HIDE DEF t, limit, q
  <2> QED
    BY ONLY <1>0, <2>1, <2>2
<1>3. Starts(b, SegmentAt(b, l), limit)
  <2>1. PICK i \in Indices(b) : Sample(b, i).segment = SegmentAt(b, l) /\ x2left(p) >= Sample(b, i).t
    BY DEF Holds, IsAround, Starts
  <2>2. i \in Int
    BY IndicesAre DEF Holds
  <2>3. Sample(b, i).t \in Int
    BY <1>0, <2>2, SampleType, ConstantsAre
  <2>4. limit >= x2left(p) /\ x2left(p) \in Int
    <3>1. p \in Int /\ n \in Int /\ limit = -n /\ x2left(p) = -p
      BY PlacesAre
    <3> QED
      BY ONLY <1>0, <3>1, n < p
  <2> HIDE DEF limit
  <2>5. limit >= Sample(b, i).t
    BY ONLY <1>0, <2>1, <2>3, <2>4
  <2> QED
    BY <2>1, <2>5 DEF Starts
<1>4. SegmentAt(b, r) = LastSegment(b)
  BY DEF FilledTo
<1> HIDE DEF event, t, limit, c
<1>5. IsBuffer(c, Times, Contents) /\ Kept(c) /\ c.size > 1 /\ PutOnRight(b, c, t, event, t - Length)
  <2>1. c = RecordedRight(b, t, y, event, Length)
    BY DEF c
  <2> QED
    BY ONLY <1>0, <1>1, <1>2, <2>1, RecordedOnRight
<1>6. PutOnRight(b, c, t, event, limit) /\ c.size > 0
  <2>1. PutOnRight(b, c, t, event, limit)
    BY <1>0, <1>5
  <2>2. c.size > 0
    BY <1>5, IndicesAre
  <2> QED
    BY <2>1, <2>2
<1>7. IsAround(c, SegmentAt(c, l), limit)
  <2>1. event => l \in Indices(b)
    BY DEF event
  <2> QED
    BY ONLY <1>0, <1>3, <1>5, <1>6, <2>1, OutletAtLeft
<1>8. SegmentAt(c, r) = LastSegment(c)
  <2>1. ~ event
    BY DEF event
  <2>2. SegmentAt(c, r) = LastSegment(c) /\ LastSegment(c) = LastSegment(b)
    BY ONLY <1>0, <1>4, <1>5, <1>6, <2>1, InletAtRight
  <2> QED
    BY <2>2
<1>9. Sample(c, TailIndex(c)).t = t
  BY <1>6 DEF PutOnRight
<1>10. IsAround(c, SegmentAt(c, r), t)
  <2>1. TailIndex(c) \in Indices(c)
    BY <1>5, <1>6, IndicesAre
  <2>2. t >= t
    BY <1>0
  <2> QED
    BY <1>8, <1>9, <2>1, <2>2 DEF IsAround, Ends, Starts, LastSegment
<1> QED
  BY <1>0, <1>5, <1>7, <1>8, <1>9, <1>10 DEF Holds, FilledTo, c, t, limit, event

(* Cutting the right end off, with the outlet between samples.             *)
LEMMA CutRight ==
  ASSUME NEW b, NEW l, NEW r, NEW p \in Positions, Holds(b, l, r, p), l \in Indices(b),
         Inside(Interval(b, l), x2left(p)), Sample(b, TailIndex(b)).t > x2right(p), NEW v \in Values
  PROVE  LET d == TruncatedRight(b, x2right(p), v)
         IN /\ IsBuffer(d, Times, Contents) /\ Kept(d) /\ d.size > 0
            /\ Sample(d, TailIndex(d)).t = x2right(p) /\ x2left(p) >= Sample(d, d.head_index).t
            /\ l \in Indices(d) /\ Starts(d, Sample(d, l).segment, x2left(p))
<1> DEFINE limit == x2right(p)
           tr == x2left(p)
           d == TruncatedRight(b, limit, v)
           h == TailIndex(b)
           q == b.head_index
<1>0. /\ IsBuffer(b, Times, Contents) /\ Kept(b) /\ b.size > 0 /\ l \in Int
      /\ limit \in Times /\ limit \in Int /\ tr \in Int /\ v \in Contents /\ limit > tr
      /\ AreTimes(Times) /\ 0 \in Times /\ 0 \in Contents
  <2>1. b.size > 0
    BY IndicesAre DEF Holds
  <2> QED
    BY <2>1, ConstantsAre, PlacesAre DEF Holds
<1>1. Sample(b, h).t > limit /\ limit > Sample(b, q).t /\ tr >= Sample(b, q).t
  <2>1. tr >= Sample(b, q).t /\ Sample(b, q).t \in Int
    BY Covers
  <2>2. Sample(b, h).t > limit
    OBVIOUS
  <2> HIDE DEF limit, tr, h, q
  <2> QED
    BY ONLY <1>0, <2>1, <2>2
<1>2. Starts(b, Sample(b, l).segment, tr)
  <2>1. SegmentAt(b, l) = Sample(b, l).segment
    <3>1. Clamped(b, l) = l
      BY ONLY <1>0, l \in Indices(b), ClampedIs
    <3> QED
      BY <3>1 DEF SegmentAt
  <2> QED
    BY <2>1 DEF Holds, IsAround
<1>3. Inside(Interval(b, l), tr)
  OBVIOUS
<1> HIDE DEF limit, tr, d
<1>4. IsBuffer(d, Times, Contents) /\ Kept(d) /\ d.size > 0 /\ CutOnRight(b, d, limit)
  <2>1. d = TruncatedRight(b, limit, v)
    BY DEF d
  <2> QED
    BY ONLY <1>0, <1>1, <2>1, TruncatedOnRight
<1>5. l \in Indices(d) /\ Starts(d, Sample(d, l).segment, tr)
  BY ONLY <1>0, <1>2, <1>3, <1>4, l \in Indices(b), OutletRightByCut
<1>6. Sample(d, TailIndex(d)).t = limit
  BY <1>4 DEF CutOnRight
<1>7. Sample(d, d.head_index) = Sample(b, q)
  <2>1. h \in Int /\ q \in Int
    BY <1>0, IndicesAre
  <2>2. TailIndex(d) \in q + 1 .. h /\ d.head_index = q /\ InPlace(b, d, q, TailIndex(d) - 1)
    BY <1>4 DEF CutOnRight
  <2>3. q \in q .. TailIndex(d) - 1
    BY <2>1, <2>2
  <2> QED
    BY <2>2, <2>3 DEF InPlace
<1> QED
  BY <1>1, <1>4, <1>5, <1>6, <1>7 DEF limit, tr, d

(* Beyond all samples the last one is found.                               *)
LEMMA LastFound ==
  ASSUME NEW c, IsBuffer(c, Times, Contents), Kept(c), c.size > 1, NEW far \in Int, NEW index \in Int,
         far > Sample(c, TailIndex(c)).t
  PROVE  Position(c, TRUE, far, index) = TailIndex(c)
<1> DEFINE m == Position(c, TRUE, far, index)
<1>0. AreTimes(Times) /\ Times \subseteq Int
  BY ConstantsAre
<1>1. FoundAcross(c, m, far)
  BY ONLY <1>0, IsBuffer(c, Times, Contents), Kept(c), c.size > 1, far \in Int, index \in Int, PositionAcross
<1>2. /\ TailIndex(c) \in Indices(c) /\ TailIndex(c) \in Int /\ c.head_index \in Int
      /\ Indices(c) = c.head_index .. TailIndex(c)
  BY IndicesAre
<1> HIDE DEF m
<1>3. m \in Indices(c) /\ (m = TailIndex(c) \/ far < Sample(c, m + 1).t)
  BY <1>1 DEF FoundAcross
<1>4. ASSUME m # TailIndex(c)
      PROVE  Sample(c, m + 1).t <= Sample(c, TailIndex(c)).t /\ Sample(c, m + 1).t \in Int
  <2>1. m + 1 \in Indices(c) /\ m + 1 <= TailIndex(c) /\ m + 1 \in Int
    BY <1>2, <1>3, <1>4
  <2>2. Sample(c, m + 1).t \in Int
    BY <1>0, <2>1, SampleType
  <2> QED
    BY <1>2, <2>1, <2>2 DEF Kept, Ordered
<1>5. Sample(c, TailIndex(c)).t \in Int
  BY <1>0, <1>2, SampleType
<1>6. m = TailIndex(c)
  BY <1>3, <1>4, <1>5
<1> QED
  BY <1>6 DEF m

(* Recording at the right end after an event.                              *)
LEMMA EventRight ==
  ASSUME NEW b, IsBuffer(b, Times, Contents), Kept(b), b.size > 0, NEW p \in Positions,
         Sample(b, TailIndex(b)).t = x2right(p), x2left(p) >= Sample(b, b.head_index).t,
         NEW l \in Indices(b), Starts(b, Sample(b, l).segment, x2left(p)), NEW y \in Values, NEW index \in Int
  PROVE  LET c == RecordedRight(b, x2right(p), y, TRUE, Length)
             m == Position(c, TRUE, Infinity, index)
         IN Holds(c, l, m, p) /\ FilledTo(c, l, m, p, FALSE)
<1> DEFINE event == TRUE
           t == x2right(p)
           limit == x2left(p)
           far == Infinity
           c == RecordedRight(b, t, y, event, Length)
           m == Position(c, TRUE, far, index)
<1>0. /\ l \in Int /\ t \in Times /\ t \in Int /\ limit \in Int /\ y \in Contents /\ Length \in Nat \ {0}
      /\ AreTimes(Times) /\ 0 \in Times /\ 0 \in Contents /\ event \in BOOLEAN /\ event
      /\ t - Length = limit /\ far \in Int /\ far > t
  <2>1. l \in Int
    BY IndicesAre
  <2>2. far > t /\ far \in Int
    BY ConstantsAre DEF Positions, x2right, Infinity
  <2> QED
    BY <2>1, <2>2, ConstantsAre, PlacesAre
<1>1. Follows(b, t, event)
  BY DEF Follows
<1>2. t - Length >= Sample(b, b.head_index).t
  BY <1>0
<1>3. Starts(b, SegmentAt(b, l), limit)
  <2>1. Clamped(b, l) = l
    BY ONLY <1>0, IsBuffer(b, Times, Contents), b.size > 0, l \in Indices(b), ClampedIs
  <2> QED
    BY <2>1 DEF SegmentAt
<1> HIDE DEF event, t, limit, far, c
<1>4. IsBuffer(c, Times, Contents) /\ Kept(c) /\ c.size > 1 /\ PutOnRight(b, c, t, event, t - Length)
  <2>1. c = RecordedRight(b, t, y, event, Length)
    BY DEF c
  <2> QED
    BY ONLY IsBuffer(b, Times, Contents), Kept(b), b.size > 0, <1>0, <1>1, <1>2, <2>1, RecordedOnRight, ZenonT(40)
<1>5. PutOnRight(b, c, t, event, limit) /\ c.size > 0
  <2>1. PutOnRight(b, c, t, event, limit)
    BY <1>0, <1>4
  <2>2. c.size > 0
    BY <1>4, IndicesAre
  <2> QED
    BY <2>1, <2>2
<1>6. IsAround(c, SegmentAt(c, l), limit)
  BY ONLY IsBuffer(b, Times, Contents), Kept(b), b.size > 0, l \in Indices(b),
          <1>0, <1>3, <1>4, <1>5, OutletAtLeft
<1>7. Sample(c, TailIndex(c)).t = t
  BY <1>5 DEF PutOnRight
<1>8. m = TailIndex(c) /\ TailIndex(c) \in Indices(c) /\ TailIndex(c) \in Int
  <2>1. m = TailIndex(c)
    BY ONLY <1>0, <1>4, <1>7, index \in Int, LastFound
  <2> QED
    BY <1>4, <1>5, <2>1, IndicesAre
<1> HIDE DEF m
<1>9. SegmentAt(c, m) = LastSegment(c)
  <2>1. Clamped(c, m) = m
    BY ONLY <1>4, <1>5, <1>8, ClampedIs
  <2> QED
    BY <1>8, <2>1 DEF SegmentAt, LastSegment
<1>10. IsAround(c, SegmentAt(c, m), t)
  <2>1. t >= t
    BY <1>0
  <2> QED
    BY <1>7, <1>8, <1>9, <2>1 DEF IsAround, Ends, Starts, LastSegment
<1>11. Holds(c, l, m, p)
  BY <1>0, <1>4, <1>6, <1>8, <1>10 DEF Holds, t, limit
<1>12. FilledTo(c, l, m, p, FALSE)
  BY <1>7, <1>9 DEF FilledTo, t
<1> QED
  BY <1>11, <1>12 DEF c, m, t, event, far

(* At a place where a sample was recorded, the present input changes       *)
(* nothing, and the outlet is found.                                       *)
LEMMA OutletRight ==
  ASSUME NEW b, NEW l, NEW r, NEW p \in Positions, Holds(b, l, r, p), NEW at_event \in BOOLEAN
  PROVE  LET c == WithCurrent(b, x2left(p), Inflow, FALSE)
             k == PositionEvaluated(c, at_event, x2right(p), r)
         IN /\ WithoutCurrent(c, b.size, FALSE) = c
            /\ Holds(c, l, k, p) /\ k \in Indices(c)
            /\ ~ at_event => Inside(Interval(c, k), x2right(p))
<1> DEFINE right == FALSE
           t == x2left(p)
           tr == x2right(p)
           c == WithCurrent(b, t, Inflow, right)
           k == Position(c, at_event, tr, r)
<1>0. /\ IsBuffer(b, Times, Contents) /\ Kept(b) /\ b.size > 0 /\ b.size >= 1 /\ l \in Int /\ r \in Int
      /\ tr \in Int /\ AreTimes(Times) /\ 0 \in Times /\ 0 \in Contents /\ right \in BOOLEAN
  <2>1. b.size > 0 /\ b.size >= 1
    BY IndicesAre DEF Holds
  <2> QED
    BY <2>1, ConstantsAre, PlacesAre DEF Holds
<1>1. Rejected(b, t, right, right)
  BY <1>0, Covers DEF Rejected, EndIndex
<1>2. IsBuffer(c, Times, Contents) /\ Stays(b, c)
  <2>1. c = Recorded(b, t, Inflow, right, right)
    BY DEF c, WithCurrent
  <2> HIDE DEF right, c, t
  <2> QED
    BY ONLY <1>0, <1>1, <2>1, RejectedKeeps
<1>3. WithoutCurrent(c, b.size, right) = c
  BY <1>2 DEF WithoutCurrent, Stays, Unchanged
<1> HIDE DEF right, c
<1>4. /\ Holds(c, l, r, p) /\ Kept(c) /\ c.size > 1 /\ c.size > 0 /\ ~ (c.size <= 1)
      /\ IsAround(c, SegmentAt(c, r), tr) /\ IsAround(c, SegmentAt(c, l), t)
  <2>1. SegmentAt(c, l) = SegmentAt(b, l) /\ SegmentAt(c, r) = SegmentAt(b, r)
    BY ONLY <1>0, <1>2, SegmentStays
  <2>2. Holds(c, l, r, p)
    BY ONLY Holds(b, l, r, p), <1>0, <1>2, <2>1, HoldsStill
  <2>3. Kept(c) /\ c.size > 1 /\ c.size \in Nat
    BY <1>2, <2>2, IndicesAre DEF Holds
  <2>4. c.size > 0 /\ ~ (c.size <= 1)
    BY <2>3
  <2> QED
    BY <2>2, <2>3, <2>4 DEF Holds
<1>5. PositionEvaluated(c, at_event, tr, r) = k
  BY <1>4 DEF PositionEvaluated
<1>6. k \in Indices(c) /\ IsAround(c, Sample(c, k).segment, tr) /\ (~ at_event => Inside(Interval(c, k), tr))
  <2>1. CASE at_event
    <3>1. k = Position(c, TRUE, tr, r)
      BY <2>1
    <3>2. /\ Sample(c, c.head_index).t <= tr /\ tr <= Sample(c, TailIndex(c)).t
      <4>1. /\ Sample(c, c.head_index).t \in Int /\ Sample(c, c.head_index).t <= t
            /\ tr <= Sample(c, TailIndex(c)).t
        BY ONLY p \in Positions, <1>4, Covers
      <4>2. t \in Int /\ t < tr
        BY PlacesAre
      <4> HIDE DEF t, tr
      <4> QED
        BY ONLY <1>0, <4>1, <4>2
    <3> HIDE DEF k, t, tr
    <3>3. k \in Indices(c) /\ IsAround(c, Sample(c, k).segment, tr)
      BY ONLY <1>0, <1>2, <1>4, <3>1, <3>2, AcrossAround
    <3> QED
      BY <2>1, <3>3
  <2>2. CASE ~ at_event
    <3> DEFINE j == Position(c, FALSE, tr, r)
    <3>1. k = j
      BY <2>2
    <3> HIDE DEF k, t, tr
    <3>2. /\ j \in Indices(c) /\ Sample(c, j).segment = SegmentAt(c, r)
          /\ Inside(Interval(c, j), tr) <=> IsAround(c, SegmentAt(c, r), tr)
      BY ONLY <1>0, <1>2, <1>4, IntervalAround
    <3> HIDE DEF j
    <3> QED
      BY <1>4, <3>1, <3>2
  <2> QED
    BY <2>1, <2>2
<1> HIDE DEF k
<1>7. k \in Int /\ SegmentAt(c, k) = Sample(c, k).segment
  <2>1. k \in Int
    BY <1>2, <1>6, IndicesAre
  <2>2. Clamped(c, k) = k
    BY ONLY <1>2, <1>4, <1>6, <2>1, ClampedIs
  <2> QED
    BY <2>1, <2>2 DEF SegmentAt
<1>8. Holds(c, l, k, p)
  BY <1>0, <1>2, <1>4, <1>6, <1>7 DEF Holds
<1> QED
  BY <1>3, <1>5, <1>6, <1>8 DEF c, t, tr, right

LEMMA OutletLeft ==
  ASSUME NEW b, NEW l, NEW r, NEW p \in Positions, Holds(b, l, r, p), NEW at_event \in BOOLEAN
  PROVE  LET c == WithCurrent(b, x2right(p), Inflow, TRUE)
             k == PositionEvaluated(c, at_event, x2left(p), l)
         IN /\ WithoutCurrent(c, b.size, TRUE) = c
            /\ Holds(c, k, r, p) /\ k \in Indices(c)
            /\ ~ at_event => Inside(Interval(c, k), x2left(p))
<1> DEFINE right == TRUE
           step == FALSE
           t == x2right(p)
           tr == x2left(p)
           c == WithCurrent(b, t, Inflow, right)
           k == Position(c, at_event, tr, l)
<1>0. /\ IsBuffer(b, Times, Contents) /\ Kept(b) /\ b.size > 0 /\ b.size >= 1 /\ r \in Int /\ l \in Int
      /\ tr \in Int /\ AreTimes(Times) /\ 0 \in Times /\ 0 \in Contents /\ right \in BOOLEAN /\ step \in BOOLEAN
  <2>1. b.size > 0 /\ b.size >= 1
    BY IndicesAre DEF Holds
  <2> QED
    BY <2>1, ConstantsAre, PlacesAre DEF Holds
<1>1. Rejected(b, t, right, step)
  BY <1>0, Covers DEF Rejected, EndIndex
<1>2. IsBuffer(c, Times, Contents) /\ Stays(b, c)
  <2>1. c = Recorded(b, t, Inflow, right, step)
    BY DEF c, WithCurrent
  <2> HIDE DEF right, step, c, t
  <2> QED
    BY ONLY <1>0, <1>1, <2>1, RejectedKeeps
<1>3. WithoutCurrent(c, b.size, right) = c
  BY <1>2 DEF WithoutCurrent, Stays, Unchanged
<1> HIDE DEF right, step, c
<1>4. /\ Holds(c, l, r, p) /\ Kept(c) /\ c.size > 1 /\ c.size > 0 /\ ~ (c.size <= 1)
      /\ IsAround(c, SegmentAt(c, l), tr) /\ IsAround(c, SegmentAt(c, r), t)
  <2>1. SegmentAt(c, r) = SegmentAt(b, r) /\ SegmentAt(c, l) = SegmentAt(b, l)
    BY ONLY <1>0, <1>2, SegmentStays
  <2>2. Holds(c, l, r, p)
    BY ONLY Holds(b, l, r, p), <1>0, <1>2, <2>1, HoldsStill
  <2>3. Kept(c) /\ c.size > 1 /\ c.size \in Nat
    BY <1>2, <2>2, IndicesAre DEF Holds
  <2>4. c.size > 0 /\ ~ (c.size <= 1)
    BY <2>3
  <2> QED
    BY <2>2, <2>3, <2>4 DEF Holds
<1>5. PositionEvaluated(c, at_event, tr, l) = k
  BY <1>4 DEF PositionEvaluated
<1>6. k \in Indices(c) /\ IsAround(c, Sample(c, k).segment, tr) /\ (~ at_event => Inside(Interval(c, k), tr))
  <2>1. CASE at_event
    <3>1. k = Position(c, TRUE, tr, l)
      BY <2>1
    <3>2. /\ Sample(c, TailIndex(c)).t >= tr /\ tr >= Sample(c, c.head_index).t
      <4>1. /\ Sample(c, TailIndex(c)).t \in Int /\ Sample(c, TailIndex(c)).t >= t
            /\ tr >= Sample(c, c.head_index).t
        BY ONLY p \in Positions, <1>4, Covers
      <4>2. t \in Int /\ t > tr
        BY PlacesAre
      <4> HIDE DEF t, tr
      <4> QED
        BY ONLY <1>0, <4>1, <4>2
    <3> HIDE DEF k, t, tr
    <3>3. k \in Indices(c) /\ IsAround(c, Sample(c, k).segment, tr)
      BY ONLY <1>0, <1>2, <1>4, <3>1, <3>2, AcrossAround
    <3> QED
      BY <2>1, <3>3
  <2>2. CASE ~ at_event
    <3> DEFINE j == Position(c, FALSE, tr, l)
    <3>1. k = j
      BY <2>2
    <3> HIDE DEF k, t, tr
    <3>2. /\ j \in Indices(c) /\ Sample(c, j).segment = SegmentAt(c, l)
          /\ Inside(Interval(c, j), tr) <=> IsAround(c, SegmentAt(c, l), tr)
      BY ONLY <1>0, <1>2, <1>4, IntervalAround
    <3> HIDE DEF j
    <3> QED
      BY <1>4, <3>1, <3>2
  <2> QED
    BY <2>1, <2>2
<1> HIDE DEF k
<1>7. k \in Int /\ SegmentAt(c, k) = Sample(c, k).segment
  <2>1. k \in Int
    BY <1>2, <1>6, IndicesAre
  <2>2. Clamped(c, k) = k
    BY ONLY <1>2, <1>4, <1>6, <2>1, ClampedIs
  <2> QED
    BY <2>1, <2>2 DEF SegmentAt
<1>8. Holds(c, k, r, p)
  BY <1>0, <1>2, <1>4, <1>6, <1>7 DEF Holds
<1> QED
  BY <1>3, <1>5, <1>6, <1>8 DEF c, t, tr, right

(* Both together: what an evaluation at the last place does.               *)
LEMMA EvaluatedThere ==
  ASSUME ~ NoEvent, NEW p \in Positions, Holds(buffer, lposition, rposition, p),
         NEW at_event \in BOOLEAN, NEW positive \in BOOLEAN
  PROVE  LET e == Evaluated(at_event, p, positive)
         IN /\ Holds(e.buffer, e.lposition, e.rposition, p)
            /\ positive => /\ e.rposition \in Indices(e.buffer)
                           /\ ~ at_event => Inside(Interval(e.buffer, e.rposition), x2right(p))
            /\ ~ positive => /\ e.lposition \in Indices(e.buffer)
                             /\ ~ at_event => Inside(Interval(e.buffer, e.lposition), x2left(p))
<1> DEFINE e == Evaluated(at_event, p, positive)
<1>1. CASE positive
  <2> DEFINE c == WithCurrent(buffer, x2left(p), Inflow, FALSE)
             k == PositionEvaluated(c, at_event, x2right(p), rposition)
  <2>1. /\ WithoutCurrent(c, buffer.size, FALSE) = c
        /\ Holds(c, lposition, k, p) /\ k \in Indices(c)
        /\ ~ at_event => Inside(Interval(c, k), x2right(p))
    BY OutletRight
  <2>2. e = [buffer |-> c, lposition |-> lposition, rposition |-> k]
    BY <1>1, <2>1, EvaluatedIs
  <2> HIDE DEF c, k, e
  <2>3. e.buffer = c /\ e.lposition = lposition /\ e.rposition = k
    BY ONLY <2>2
  <2> QED
    BY <1>1, <2>1, <2>3 DEF e
<1>2. CASE ~ positive
  <2> DEFINE c == WithCurrent(buffer, x2right(p), Inflow, TRUE)
             k == PositionEvaluated(c, at_event, x2left(p), lposition)
  <2>1. /\ WithoutCurrent(c, buffer.size, TRUE) = c
        /\ Holds(c, k, rposition, p) /\ k \in Indices(c)
        /\ ~ at_event => Inside(Interval(c, k), x2left(p))
    BY OutletLeft
  <2>2. e = [buffer |-> c, lposition |-> k, rposition |-> rposition]
    BY <1>2, <2>1, EvaluatedIs
  <2> HIDE DEF c, k, e
  <2>3. e.buffer = c /\ e.lposition = k /\ e.rposition = rposition
    BY ONLY <2>2
  <2> QED
    BY <1>2, <2>1, <2>3 DEF e
<1> QED
  BY <1>1, <1>2

---------------------------------------------------------------------------
(* The actions keep the invariant.                                         *)
LEMMA IntegrateKeeps ==
  ASSUME ~ NoEvent, IInv, Integrate
  PROVE  IInv'
<1>1. PICK p \in Positions, positive \in Directions :
        /\ Evaluate(FALSE, p, positive)
        /\ phase' = IF Crosses(buffer', lposition', rposition', p, positive)
                    THEN "crossing" ELSE "continuous"
  BY DEF Integrate
<1> DEFINE e == Evaluated(FALSE, p, positive)
<1>2. /\ buffer' = e.buffer /\ lposition' = e.lposition /\ rposition' = e.rposition
      /\ x' = p /\ positiveVelocity' = positive /\ phase' \in {"continuous", "crossing"}
      /\ last_x' = last_x /\ samples' = samples /\ offered' = offered /\ phase \in {"continuous", "crossing"}
  BY <1>1 DEF Evaluate, Integrate
<1>3. positive = positiveVelocity /\ positive \in BOOLEAN /\ last_x \in Positions
  BY <1>1 DEF Directions, IInv, ControlOK
<1>4. FilledTo(buffer, lposition, rposition, last_x, positive) /\ Holds(buffer, lposition, rposition, last_x)
  BY <1>2, <1>3 DEF IInv
<1>5. /\ Holds(e.buffer, e.lposition, e.rposition, last_x)
      /\ FilledTo(e.buffer, e.lposition, e.rposition, last_x, positive)
  BY <1>3, <1>4, EvaluatedHolds
<1> HIDE DEF e
<1>6. ControlOK'
  BY <1>2, <1>3 DEF IInv, ControlOK
<1> QED
  BY <1>2, <1>5, <1>6 DEF IInv

LEMMA IterateEventKeeps ==
  ASSUME ~ NoEvent, IInv, IterateEvent
  PROVE  IInv'
<1>1. PICK positive \in BOOLEAN : Evaluate(TRUE, x, positive)
  BY DEF IterateEvent
<1> DEFINE e == Evaluated(TRUE, x, positive)
<1>2. /\ buffer' = e.buffer /\ lposition' = e.lposition /\ rposition' = e.rposition
      /\ x' = x /\ positiveVelocity' = positive /\ phase' = "event"
      /\ last_x' = last_x /\ samples' = samples /\ offered' = offered /\ x = last_x
  BY <1>1 DEF Evaluate, IterateEvent
<1>3. x \in Positions /\ Holds(buffer, lposition, rposition, x)
  BY <1>2 DEF IInv, ControlOK
<1>4. Holds(e.buffer, e.lposition, e.rposition, x)
  BY <1>3, EvaluatedThere
<1> HIDE DEF e
<1>5. ControlOK'
  BY <1>2 DEF IInv, ControlOK
<1> QED
  BY <1>2, <1>4, <1>5 DEF IInv

(* Recording at one end: RecordSample for each direction.                  *)
RecordsLeft(e, p, y, at_event) ==
  LET truncates == Sample(e.buffer, e.buffer.head_index).t < x2left(last_x)
      index == IF truncates THEN PositionEvaluated(e.buffer, FALSE, x2left(last_x), e.lposition) ELSE e.lposition
  IN \E v :
       LET b == IF truncates THEN TruncatedLeft(e.buffer, x2left(last_x), v) ELSE e.buffer
           c == RecordedLeft(b, x2left(p), y, at_event, Length)
           rejected == Rejected(b, x2left(p), FALSE, at_event)
       IN /\ truncates => v \in Values
          /\ buffer' = c /\ rposition' = e.rposition
          /\ lposition' = IF at_event /\ ~ rejected THEN Position(c, TRUE, -Infinity, index) ELSE index
          /\ last_x' = IF rejected THEN last_x ELSE p

RecordsRight(e, p, y, at_event) ==
  LET truncates == Sample(e.buffer, TailIndex(e.buffer)).t > x2right(last_x)
      index == IF truncates THEN PositionEvaluated(e.buffer, FALSE, x2right(last_x), e.rposition) ELSE e.rposition
  IN \E v :
       LET b == IF truncates THEN TruncatedRight(e.buffer, x2right(last_x), v) ELSE e.buffer
           c == RecordedRight(b, x2right(p), y, at_event, Length)
           rejected == Rejected(b, x2right(p), TRUE, at_event)
       IN /\ truncates => v \in Values
          /\ buffer' = c /\ lposition' = e.lposition
          /\ rposition' = IF at_event /\ ~ rejected THEN Position(c, TRUE, Infinity, index) ELSE index
          /\ last_x' = IF rejected THEN last_x ELSE p

LEMMA RecordsAtLeft ==
  ASSUME NEW e, NEW p, NEW y, NEW positive, NEW at_event \in BOOLEAN,
         RecordSample(e, p, y, positive, at_event), MovesRight(p, positive)
  PROVE  RecordsLeft(e, p, y, at_event)
<1>1. ~ MovesRight(p, positive) = FALSE
  BY Zenon
<1>2. TruncatesAt(e.buffer, FALSE) = (Sample(e.buffer, e.buffer.head_index).t < x2left(last_x))
  BY Zenon DEF TruncatesAt
<1> QED
  BY <1>1, <1>2, Zenon DEF RecordSample, RecordsLeft, ValuesAt, EndPosition

LEMMA RecordsAtRight ==
  ASSUME NEW e, NEW p, NEW y, NEW positive, NEW at_event \in BOOLEAN,
         RecordSample(e, p, y, positive, at_event), ~ MovesRight(p, positive)
  PROVE  RecordsRight(e, p, y, at_event)
<1>1. (~ MovesRight(p, positive)) = TRUE
  BY Zenon
<1>2. TruncatesAt(e.buffer, TRUE) = (Sample(e.buffer, TailIndex(e.buffer)).t > x2right(last_x))
  BY Zenon DEF TruncatesAt
<1> QED
  BY <1>1, <1>2, Zenon DEF RecordSample, RecordsRight, ValuesAt, EndPosition

(* What is recorded is at the end, put there, or in place of an event, or   *)
(* because the sample there has the same value.                            *)
LEMMA InflowOnLeft ==
  ASSUME NEW b, IsBuffer(b, Times, Contents), Kept(b), b.size > 0,
         NEW t \in Times, NEW y \in Contents, NEW event \in BOOLEAN, Precedes(b, t, event)
  PROVE  LET c == RecordedLeft(b, t, y, event, Length) IN Sample(c, c.head_index).y = y
<1> DEFINE c == RecordedLeft(b, t, y, event, Length)
           h == b.head_index
<1>1. RecordedLeftAndShortened(Times, Contents, b, c, t, y, event, Length)
  <2>1. Length \in Nat /\ AreTimes(Times) /\ 0 \in Times /\ 0 \in Contents
    BY ConstantsAre
  <2> QED
    BY ONLY <2>1, IsBuffer(b, Times, Contents), Kept(b), b.size > 0, t \in Times, y \in Contents,
            event \in BOOLEAN, Precedes(b, t, event), RecordedLeftIs
<1>2. PICK d : RecordedAtLeft(b, d, t, y, event) /\ ShortenedRight(d, c, t + Length)
  BY <1>1 DEF RecordedLeftAndShortened
<1> HIDE DEF c
<1>3. h \in Int /\ h \in h .. TailIndex(b)
  BY IndicesAre
<1>4. d.head_index \in Int /\ Sample(d, d.head_index).y = y
  <2>1. CASE event /\ b.size > 1 /\ Sample(b, h).y = y
    <3>1. Unchanged(b, d) /\ d.head_index = h
      BY <1>2, <2>1 DEF RecordedAtLeft
    <3> QED
      BY <1>3, <2>1, <3>1 DEF Unchanged, InPlace
  <2>2. CASE ReplacedFirst(b, d, t, y) \/ Prepended(b, d, t, y, event)
    BY <1>3, <2>2 DEF ReplacedFirst, Prepended
  <2> QED
    BY <1>2, <2>1, <2>2 DEF RecordedAtLeft
<1>5. c.head_index = d.head_index /\ Sample(c, d.head_index) = Sample(d, d.head_index)
  BY <1>2, <1>4 DEF ShortenedRight, SameSamples
<1> QED
  BY <1>4, <1>5 DEF c

LEMMA InflowOnRight ==
  ASSUME NEW b, IsBuffer(b, Times, Contents), Kept(b), b.size > 0,
         NEW t \in Times, NEW y \in Contents, NEW event \in BOOLEAN, Follows(b, t, event)
  PROVE  LET c == RecordedRight(b, t, y, event, Length) IN Sample(c, TailIndex(c)).y = y
<1> DEFINE c == RecordedRight(b, t, y, event, Length)
           q == TailIndex(b)
<1>1. RecordedAndShortened(Times, Contents, b, c, t, y, event, Length)
  <2>1. Length \in Nat /\ AreTimes(Times) /\ 0 \in Times /\ 0 \in Contents
    BY ConstantsAre
  <2> QED
    BY ONLY <2>1, IsBuffer(b, Times, Contents), Kept(b), b.size > 0, t \in Times, y \in Contents,
            event \in BOOLEAN, Follows(b, t, event), RecordedRightIs
<1>2. PICK d : /\ RecordedAtRight(b, d, t, y, event) /\ ShortenedTo(d, c, t - Length)
               /\ d.head_index = b.head_index
  BY <1>1 DEF RecordedAndShortened
<1> HIDE DEF c
<1>3. q \in Int /\ q \in b.head_index .. q /\ q = (b.head_index + b.size) - 1 /\ b.size \in Nat
      /\ b.head_index \in Int
  BY IndicesAre
<1>4. TailIndex(d) \in Int /\ Sample(d, TailIndex(d)).y = y
  <2>1. CASE event /\ b.size > 1 /\ Sample(b, q).y = y
    <3>1. Unchanged(b, d)
      BY <1>2, <2>1 DEF RecordedAtRight
    <3>2. TailIndex(d) = q /\ Sample(d, q) = Sample(b, q)
      BY <1>2, <1>3, <3>1 DEF Unchanged, InPlace, TailIndex
    <3> QED
      BY <1>3, <2>1, <3>2
  <2>2. CASE Replaced(b, d, t, y)
    <3>1. TailIndex(d) = q
      BY <1>2, <2>2 DEF Replaced, TailIndex
    <3> QED
      BY <1>3, <2>2, <3>1 DEF Replaced
  <2>3. CASE Extended(b, d, t, y, event)
    <3>1. TailIndex(d) = q + 1
      BY <1>2, <1>3, <2>3 DEF Extended, TailIndex
    <3> QED
      BY <1>3, <2>3, <3>1 DEF Extended
  <2> QED
    BY <1>2, <2>1, <2>2, <2>3 DEF RecordedAtRight
<1>5. TailIndex(c) = TailIndex(d) /\ Sample(c, TailIndex(d)) = Sample(d, TailIndex(d))
  BY <1>2, <1>4 DEF ShortenedTo, SameSamples
<1> QED
  BY <1>4, <1>5 DEF c

LEMMA CompletedLeft ==
  ASSUME NEW e, NEW p \in Positions, last_x \in Positions, Holds(e.buffer, e.lposition, e.rposition, last_x),
         FilledTo(e.buffer, e.lposition, e.rposition, last_x, TRUE), last_x <= p, NEW y \in Values,
         RecordsLeft(e, p, y, FALSE)
  PROVE  /\ Holds(buffer', lposition', rposition', p) /\ last_x' = p
         /\ FilledTo(buffer', lposition', rposition', p, TRUE)
         /\ IF p = last_x THEN SameContents(e.buffer, buffer') ELSE Sample(buffer', buffer'.head_index).y = y
<1> DEFINE b == e.buffer
           t == x2left(p)
           l == e.lposition
           r == e.rposition
           at_right == FALSE
           event == FALSE
           c == RecordedLeft(b, t, y, event, Length)
           rejected == Rejected(b, t, at_right, event)
<1>0. /\ IsBuffer(b, Times, Contents) /\ Kept(b) /\ b.size > 0 /\ b.size >= 1 /\ l \in Int /\ r \in Int
      /\ AreTimes(Times) /\ 0 \in Times /\ 0 \in Contents
  <2>1. b.size > 0 /\ b.size >= 1
    BY IndicesAre DEF Holds
  <2> QED
    BY <2>1, ConstantsAre DEF Holds
<1>1. /\ Sample(b, b.head_index).t = x2left(last_x) /\ x2left(last_x) = -last_x /\ t = -p
      /\ last_x \in Int /\ p \in Int
  BY PlacesAre DEF FilledTo
<1>2. ~ (Sample(b, b.head_index).t < x2left(last_x))
  BY <1>1
<1>3. /\ buffer' = c /\ lposition' = l /\ rposition' = r
      /\ last_x' = IF rejected THEN last_x ELSE p
  BY <1>2 DEF RecordsLeft
<1>4. rejected <=> p = last_x
  <2>1. rejected <=> Sample(b, b.head_index).t <= t
    BY <1>0 DEF Rejected, EndIndex
  <2> HIDE DEF rejected, t
  <2> QED
    BY <1>1, <2>1
<1>5. CASE p = last_x
  <2>1. c = Recorded(b, t, y, at_right, event)
    BY <1>4, <1>5 DEF RecordedLeft
  <2>2. at_right \in BOOLEAN /\ event \in BOOLEAN /\ Rejected(b, t, at_right, event)
    BY <1>4, <1>5
  <2> HIDE DEF at_right, event, c, t, rejected
  <2>3. IsBuffer(c, Times, Contents) /\ Stays(b, c)
    BY ONLY <1>0, <2>1, <2>2, RejectedKeeps
  <2>4. SegmentAt(c, l) = SegmentAt(b, l) /\ SegmentAt(c, r) = SegmentAt(b, r)
    BY ONLY <1>0, <2>3, SegmentStays
  <2>5. Holds(b, l, r, p) /\ FilledTo(b, l, r, p, TRUE)
    BY <1>5
  <2>6. /\ Holds(c, l, r, p)
        /\ \A positive \in BOOLEAN : FilledTo(b, l, r, p, positive) => FilledTo(c, l, r, p, positive)
    BY ONLY <1>0, <2>3, <2>4, <2>5, HoldsStill
  <2>7. SameContents(b, c)
    BY <2>3 DEF SameContents, Stays, Unchanged, InPlace
  <2> QED
    BY <1>3, <1>5, <2>5, <2>6, <2>7
<1>6. CASE p # last_x
  <2>1. last_x' = p
    BY <1>3, <1>4, <1>6
  <2>2. last_x < p
    BY <1>1, <1>6
  <2>3. Holds(c, l, r, p) /\ FilledTo(c, l, r, p, TRUE)
    BY <2>2, StepLeft
  <2>4. Sample(c, c.head_index).y = y
    <3>1. t \in Times /\ y \in Contents /\ event \in BOOLEAN
      BY PlacesAre, ConstantsAre
    <3>2. Precedes(b, t, event)
      <4>1. ~ event /\ t < Sample(b, b.head_index).t
        BY <1>1, <2>2
      <4> HIDE DEF event, t
      <4> QED
        BY <4>1 DEF Precedes
    <3> HIDE DEF event, t
    <3> QED
      BY ONLY <1>0, <3>1, <3>2, InflowOnLeft DEF c
  <2> QED
    BY <1>3, <1>6, <2>1, <2>3, <2>4
<1> QED
  BY <1>5, <1>6

LEMMA FinishedLeft ==
  ASSUME NEW e, NEW p \in Positions, last_x = p, Holds(e.buffer, e.lposition, e.rposition, p),
         e.rposition \in Indices(e.buffer), Inside(Interval(e.buffer, e.rposition), x2right(p)),
         NEW y \in Values, RecordsLeft(e, p, y, TRUE)
  PROVE  /\ Holds(buffer', lposition', rposition', p) /\ last_x' = p
         /\ FilledTo(buffer', lposition', rposition', p, TRUE)
         /\ Sample(buffer', buffer'.head_index).y = y
<1> DEFINE a == e.buffer
           t == x2left(p)
           truncates == Sample(a, a.head_index).t < t
           r == e.rposition
           index == IF truncates THEN PositionEvaluated(a, FALSE, t, e.lposition) ELSE e.lposition
<1>0. /\ IsBuffer(a, Times, Contents) /\ Kept(a) /\ a.size > 0 /\ a.size > 1 /\ e.lposition \in Int
      /\ t \in Int /\ AreTimes(Times)
  <2>1. a.size > 0
    BY IndicesAre DEF Holds
  <2> QED
    BY <2>1, ConstantsAre, PlacesAre DEF Holds
<1>1. index \in Int
  <2> DEFINE k == Position(a, FALSE, t, e.lposition)
  <2>1. /\ k \in Indices(a) /\ Sample(a, k).segment = SegmentAt(a, e.lposition)
        /\ Inside(Interval(a, k), t) <=> IsAround(a, SegmentAt(a, e.lposition), t)
    BY ONLY <1>0, IntervalAround
  <2> HIDE DEF k
  <2>2. k \in Int
    BY <1>0, <2>1, IndicesAre
  <2> QED
    BY <1>0, <2>2 DEF PositionEvaluated, k
<1> HIDE DEF index
<1>2. PICK v :
        LET b == IF truncates THEN TruncatedLeft(a, t, v) ELSE a
            c == RecordedLeft(b, t, y, TRUE, Length)
            rejected == Rejected(b, t, FALSE, TRUE)
        IN /\ truncates => v \in Values
           /\ buffer' = c /\ rposition' = r
           /\ lposition' = IF TRUE /\ ~ rejected THEN Position(c, TRUE, -Infinity, index) ELSE index
           /\ last_x' = IF rejected THEN last_x ELSE p
  BY Zenon DEF RecordsLeft, index
<1> DEFINE b == IF truncates THEN TruncatedLeft(a, t, v) ELSE a
           c == RecordedLeft(b, t, y, TRUE, Length)
           m == Position(c, TRUE, -Infinity, index)
<1>3. /\ IsBuffer(b, Times, Contents) /\ Kept(b) /\ b.size > 0
      /\ Sample(b, b.head_index).t = t /\ x2right(p) <= Sample(b, TailIndex(b)).t
      /\ r \in Indices(b) /\ Ends(b, Sample(b, r).segment, x2right(p))
  <2>1. CASE truncates
    <3> DEFINE d == TruncatedLeft(a, t, v)
    <3>1. v \in Values
      BY <1>2, <2>1
    <3>2. /\ IsBuffer(d, Times, Contents) /\ Kept(d) /\ d.size > 0
          /\ Sample(d, d.head_index).t = t /\ x2right(p) <= Sample(d, TailIndex(d)).t
          /\ r \in Indices(d) /\ Ends(d, Sample(d, r).segment, x2right(p))
      BY <2>1, <3>1, CutLeft
    <3>3. b = d
      BY <2>1
    <3> HIDE DEF b, d
    <3> QED
      BY <3>2, <3>3
  <2>2. CASE ~ truncates
    <3>1. b = a
      BY <2>2
    <3>2. Sample(a, a.head_index).t = t /\ x2right(p) <= Sample(a, TailIndex(a)).t
      <4>1. Sample(a, a.head_index).t \in Int /\ Sample(a, a.head_index).t <= t /\ x2right(p) <= Sample(a, TailIndex(a)).t
        BY Covers
      <4> HIDE DEF t
      <4> QED
        BY <1>0, <2>2, <4>1
    <3>3. Ends(a, Sample(a, r).segment, x2right(p))
      <4>1. r \in Int
        BY IndicesAre, <1>0
      <4>2. Clamped(a, r) = r
        BY ONLY <1>0, <4>1, r \in Indices(a), ClampedIs
      <4>3. SegmentAt(a, r) = Sample(a, r).segment
        BY <4>2 DEF SegmentAt
      <4> QED
        BY <4>3 DEF Holds, IsAround
    <3> HIDE DEF b
    <3> QED
      BY <1>0, <3>1, <3>2, <3>3
  <2> QED
    BY <2>1, <2>2
<1>4. ~ Rejected(b, t, FALSE, TRUE)
  <2> HIDE DEF b
  <2> QED
    BY <1>3 DEF Rejected, EndIndex
<1>5. buffer' = c /\ rposition' = r /\ lposition' = m /\ last_x' = p
  <2>1. LET rejected == Rejected(b, t, FALSE, TRUE)
        IN /\ buffer' = c /\ rposition' = r
           /\ lposition' = IF TRUE /\ ~ rejected THEN m ELSE index
           /\ last_x' = IF rejected THEN last_x ELSE p
    BY ONLY <1>2
  <2> HIDE DEF b, c, m
  <2> QED
    BY <1>4, <2>1
<1>6. Holds(c, m, r, p) /\ FilledTo(c, m, r, p, TRUE)
  <2> HIDE DEF b
  <2> QED
    BY ONLY <1>1, <1>3, p \in Positions, y \in Values, EventLeft
<1>7. Sample(c, c.head_index).y = y
  <2> DEFINE event == TRUE
             new == RecordedLeft(b, t, y, event, Length)
  <2>1. t \in Times /\ y \in Contents /\ event \in BOOLEAN
    BY PlacesAre, ConstantsAre
  <2>2. Precedes(b, t, event)
    BY <1>3 DEF Precedes
  <2>3. c = new
    OBVIOUS
  <2> HIDE DEF event, t, b, c
  <2>4. Sample(new, new.head_index).y = y
    BY ONLY <1>3, <2>1, <2>2, InflowOnLeft
  <2> HIDE DEF new
  <2> QED
    BY <2>3, <2>4
<1> HIDE DEF c, m
<1> QED
  BY <1>5, <1>6, <1>7

LEMMA CompletedRight ==
  ASSUME NEW e, NEW p \in Positions, last_x \in Positions, Holds(e.buffer, e.lposition, e.rposition, last_x),
         FilledTo(e.buffer, e.lposition, e.rposition, last_x, FALSE), last_x >= p, NEW y \in Values,
         RecordsRight(e, p, y, FALSE)
  PROVE  /\ Holds(buffer', lposition', rposition', p) /\ last_x' = p
         /\ FilledTo(buffer', lposition', rposition', p, FALSE)
         /\ IF p = last_x THEN SameContents(e.buffer, buffer') ELSE Sample(buffer', TailIndex(buffer')).y = y
<1> DEFINE b == e.buffer
           t == x2right(p)
           r == e.rposition
           l == e.lposition
           at_right == TRUE
           event == FALSE
           c == RecordedRight(b, t, y, event, Length)
           rejected == Rejected(b, t, at_right, event)
<1>0. /\ IsBuffer(b, Times, Contents) /\ Kept(b) /\ b.size > 0 /\ b.size >= 1 /\ r \in Int /\ l \in Int
      /\ AreTimes(Times) /\ 0 \in Times /\ 0 \in Contents
  <2>1. b.size > 0 /\ b.size >= 1
    BY IndicesAre DEF Holds
  <2> QED
    BY <2>1, ConstantsAre DEF Holds
<1>1. /\ Sample(b, TailIndex(b)).t = x2right(last_x) /\ x2right(last_x) = Length - last_x /\ t = Length - p
      /\ Length \in Int /\ last_x \in Int /\ p \in Int
  BY ConstantsAre, PlacesAre DEF FilledTo
<1>2. ~ (Sample(b, TailIndex(b)).t > x2right(last_x))
  BY <1>1
<1>3. /\ buffer' = c /\ rposition' = r /\ lposition' = l
      /\ last_x' = IF rejected THEN last_x ELSE p
  BY <1>2 DEF RecordsRight
<1>4. rejected <=> p = last_x
  <2>1. rejected <=> Sample(b, TailIndex(b)).t >= t
    BY <1>0 DEF Rejected, EndIndex
  <2> HIDE DEF rejected, t
  <2> QED
    BY <1>1, <2>1
<1>5. CASE p = last_x
  <2>1. c = Recorded(b, t, y, at_right, event)
    BY <1>4, <1>5 DEF RecordedRight
  <2>2. at_right \in BOOLEAN /\ event \in BOOLEAN /\ Rejected(b, t, at_right, event)
    BY <1>4, <1>5
  <2> HIDE DEF at_right, event, c, t, rejected
  <2>3. IsBuffer(c, Times, Contents) /\ Stays(b, c)
    BY ONLY <1>0, <2>1, <2>2, RejectedKeeps
  <2>4. SegmentAt(c, r) = SegmentAt(b, r) /\ SegmentAt(c, l) = SegmentAt(b, l)
    BY ONLY <1>0, <2>3, SegmentStays
  <2>5. Holds(b, l, r, p) /\ FilledTo(b, l, r, p, FALSE)
    BY <1>5
  <2>6. /\ Holds(c, l, r, p)
        /\ \A positive \in BOOLEAN : FilledTo(b, l, r, p, positive) => FilledTo(c, l, r, p, positive)
    BY ONLY <1>0, <2>3, <2>4, <2>5, HoldsStill
  <2>7. SameContents(b, c)
    BY <2>3 DEF SameContents, Stays, Unchanged, InPlace
  <2> QED
    BY <1>3, <1>5, <2>5, <2>6, <2>7
<1>6. CASE p # last_x
  <2>1. last_x' = p
    BY <1>3, <1>4, <1>6
  <2>2. last_x > p
    BY <1>1, <1>6
  <2>3. Holds(c, l, r, p) /\ FilledTo(c, l, r, p, FALSE)
    BY <2>2, StepRight
  <2>4. Sample(c, TailIndex(c)).y = y
    <3>1. t \in Times /\ y \in Contents /\ event \in BOOLEAN
      BY PlacesAre, ConstantsAre
    <3>2. Follows(b, t, event)
      <4>1. ~ event /\ Sample(b, TailIndex(b)).t < t
        BY <1>1, <2>2
      <4> HIDE DEF event, t
      <4> QED
        BY <4>1 DEF Follows
    <3> HIDE DEF event, t
    <3> QED
      BY ONLY <1>0, <3>1, <3>2, InflowOnRight DEF c
  <2> QED
    BY <1>3, <1>6, <2>1, <2>3, <2>4
<1> QED
  BY <1>5, <1>6

LEMMA FinishedRight ==
  ASSUME NEW e, NEW p \in Positions, last_x = p, Holds(e.buffer, e.lposition, e.rposition, p),
         e.lposition \in Indices(e.buffer), Inside(Interval(e.buffer, e.lposition), x2left(p)),
         NEW y \in Values, RecordsRight(e, p, y, TRUE)
  PROVE  /\ Holds(buffer', lposition', rposition', p) /\ last_x' = p
         /\ FilledTo(buffer', lposition', rposition', p, FALSE)
         /\ Sample(buffer', TailIndex(buffer')).y = y
<1> DEFINE a == e.buffer
           t == x2right(p)
           truncates == Sample(a, TailIndex(a)).t > t
           l == e.lposition
           index == IF truncates THEN PositionEvaluated(a, FALSE, t, e.rposition) ELSE e.rposition
<1>0. /\ IsBuffer(a, Times, Contents) /\ Kept(a) /\ a.size > 0 /\ a.size > 1 /\ e.rposition \in Int
      /\ t \in Int /\ AreTimes(Times)
  <2>1. a.size > 0
    BY IndicesAre DEF Holds
  <2> QED
    BY <2>1, ConstantsAre, PlacesAre DEF Holds
<1>1. index \in Int
  <2> DEFINE k == Position(a, FALSE, t, e.rposition)
  <2>1. /\ k \in Indices(a) /\ Sample(a, k).segment = SegmentAt(a, e.rposition)
        /\ Inside(Interval(a, k), t) <=> IsAround(a, SegmentAt(a, e.rposition), t)
    BY ONLY <1>0, IntervalAround
  <2> HIDE DEF k
  <2>2. k \in Int
    BY <1>0, <2>1, IndicesAre
  <2> QED
    BY <1>0, <2>2 DEF PositionEvaluated, k
<1> HIDE DEF index
<1>2. PICK v :
        LET b == IF truncates THEN TruncatedRight(a, t, v) ELSE a
            c == RecordedRight(b, t, y, TRUE, Length)
            rejected == Rejected(b, t, TRUE, TRUE)
        IN /\ truncates => v \in Values
           /\ buffer' = c /\ lposition' = l
           /\ rposition' = IF TRUE /\ ~ rejected THEN Position(c, TRUE, Infinity, index) ELSE index
           /\ last_x' = IF rejected THEN last_x ELSE p
  BY Zenon DEF RecordsRight, index
<1> DEFINE b == IF truncates THEN TruncatedRight(a, t, v) ELSE a
           c == RecordedRight(b, t, y, TRUE, Length)
           m == Position(c, TRUE, Infinity, index)
<1>3. /\ IsBuffer(b, Times, Contents) /\ Kept(b) /\ b.size > 0
      /\ Sample(b, TailIndex(b)).t = t /\ x2left(p) >= Sample(b, b.head_index).t
      /\ l \in Indices(b) /\ Starts(b, Sample(b, l).segment, x2left(p))
  <2>1. CASE truncates
    <3> DEFINE d == TruncatedRight(a, t, v)
    <3>1. v \in Values
      BY <1>2, <2>1
    <3>2. /\ IsBuffer(d, Times, Contents) /\ Kept(d) /\ d.size > 0
          /\ Sample(d, TailIndex(d)).t = t /\ x2left(p) >= Sample(d, d.head_index).t
          /\ l \in Indices(d) /\ Starts(d, Sample(d, l).segment, x2left(p))
      BY <2>1, <3>1, CutRight
    <3>3. b = d
      BY <2>1
    <3> HIDE DEF b, d
    <3> QED
      BY <3>2, <3>3
  <2>2. CASE ~ truncates
    <3>1. b = a
      BY <2>2
    <3>2. Sample(a, TailIndex(a)).t = t /\ x2left(p) >= Sample(a, a.head_index).t
      <4>1. Sample(a, TailIndex(a)).t \in Int /\ Sample(a, TailIndex(a)).t >= t /\ x2left(p) >= Sample(a, a.head_index).t
        BY Covers
      <4> HIDE DEF t
      <4> QED
        BY <1>0, <2>2, <4>1
    <3>3. Starts(a, Sample(a, l).segment, x2left(p))
      <4>1. l \in Int
        BY IndicesAre, <1>0
      <4>2. Clamped(a, l) = l
        BY ONLY <1>0, <4>1, l \in Indices(a), ClampedIs
      <4>3. SegmentAt(a, l) = Sample(a, l).segment
        BY <4>2 DEF SegmentAt
      <4> QED
        BY <4>3 DEF Holds, IsAround
    <3> HIDE DEF b
    <3> QED
      BY <1>0, <3>1, <3>2, <3>3
  <2> QED
    BY <2>1, <2>2
<1>4. ~ Rejected(b, t, TRUE, TRUE)
  <2> HIDE DEF b
  <2> QED
    BY <1>3 DEF Rejected, EndIndex
<1>5. buffer' = c /\ lposition' = l /\ rposition' = m /\ last_x' = p
  <2>1. LET rejected == Rejected(b, t, TRUE, TRUE)
        IN /\ buffer' = c /\ lposition' = l
           /\ rposition' = IF TRUE /\ ~ rejected THEN m ELSE index
           /\ last_x' = IF rejected THEN last_x ELSE p
    BY ONLY <1>2
  <2> HIDE DEF b, c, m
  <2> QED
    BY <1>4, <2>1
<1>6. Holds(c, l, m, p) /\ FilledTo(c, l, m, p, FALSE)
  <2> HIDE DEF b
  <2> QED
    BY ONLY <1>1, <1>3, p \in Positions, y \in Values, EventRight
<1>7. Sample(c, TailIndex(c)).y = y
  <2> DEFINE event == TRUE
             new == RecordedRight(b, t, y, event, Length)
  <2>1. t \in Times /\ y \in Contents /\ event \in BOOLEAN
    BY PlacesAre, ConstantsAre
  <2>2. Follows(b, t, event)
    BY <1>3 DEF Follows
  <2>3. c = new
    OBVIOUS
  <2> HIDE DEF event, t, b, c
  <2>4. Sample(new, TailIndex(new)).y = y
    BY ONLY <1>3, <2>1, <2>2, InflowOnRight
  <2> HIDE DEF new
  <2> QED
    BY <2>3, <2>4
<1> HIDE DEF c, m
<1> QED
  BY <1>5, <1>6, <1>7

LEMMA CompletedStepKeeps ==
  ASSUME ~ NoEvent, IInv, CompletedStep
  PROVE  IInv' /\ TakesInflow
<1> DEFINE e == [buffer |-> buffer, lposition |-> lposition, rposition |-> rposition]
           step == FALSE
<1>1. PICK y \in Values : RecordSample(e, x, y, positiveVelocity, step)
  BY DEF CompletedStep
<1>2. /\ phase \in {"continuous", "crossing"} /\ phase' \in {"crossed", "continuous"}
      /\ x' = x /\ positiveVelocity' = positiveVelocity
      /\ IF positiveVelocity THEN x >= last_x ELSE x <= last_x
  BY DEF CompletedStep
<1>3. e.buffer = buffer /\ e.lposition = lposition /\ e.rposition = rposition
  OBVIOUS
<1>4. samples' = samples + 1 /\ samples < MaxSamples /\ offered' = y
  BY <1>1 DEF RecordSample
<1> HIDE DEF e, step
<1>5. /\ last_x \in Positions /\ x \in Positions /\ last_x \in Int /\ x \in Int /\ samples \in 0 .. MaxSamples
      /\ positiveVelocity \in BOOLEAN
      /\ Holds(e.buffer, e.lposition, e.rposition, last_x)
      /\ FilledTo(e.buffer, e.lposition, e.rposition, last_x, positiveVelocity)
  BY <1>2, <1>3, PlacesAre DEF IInv, ControlOK
<1>6. /\ Holds(buffer', lposition', rposition', x) /\ last_x' = x
      /\ FilledTo(buffer', lposition', rposition', x, positiveVelocity)
      /\ IF x = last_x THEN SameContents(e.buffer, buffer')
         ELSE Sample(buffer', EndIndex(buffer', ~ MovesRight(x, positiveVelocity))).y = y
  <2>0. step \in BOOLEAN /\ step = FALSE
    BY DEF step
  <2>1. CASE positiveVelocity
    <3>1. MovesRight(x, positiveVelocity) /\ last_x <= x
      BY <1>2, <1>5, <2>1 DEF MovesRight
    <3>2. RecordsLeft(e, x, y, step)
      BY <1>1, <2>0, <3>1, RecordsAtLeft
    <3>3. RecordsLeft(e, x, y, FALSE) /\ FilledTo(e.buffer, e.lposition, e.rposition, last_x, TRUE)
      BY <1>5, <2>0, <2>1, <3>2
    <3>4. /\ Holds(buffer', lposition', rposition', x) /\ last_x' = x
          /\ FilledTo(buffer', lposition', rposition', x, TRUE)
          /\ IF x = last_x THEN SameContents(e.buffer, buffer') ELSE Sample(buffer', buffer'.head_index).y = y
      BY <1>5, <3>1, <3>3, CompletedLeft
    <3> QED
      BY <2>1, <3>1, <3>4 DEF EndIndex
  <2>2. CASE ~ positiveVelocity
    <3>1. ~ MovesRight(x, positiveVelocity) /\ last_x >= x
      BY <1>2, <1>5, <2>2 DEF MovesRight
    <3>2. RecordsRight(e, x, y, step)
      BY <1>1, <2>0, <3>1, RecordsAtRight
    <3>3. RecordsRight(e, x, y, FALSE) /\ FilledTo(e.buffer, e.lposition, e.rposition, last_x, FALSE)
      BY <1>5, <2>0, <2>2, <3>2
    <3>4. /\ Holds(buffer', lposition', rposition', x) /\ last_x' = x
          /\ FilledTo(buffer', lposition', rposition', x, FALSE)
          /\ IF x = last_x THEN SameContents(e.buffer, buffer') ELSE Sample(buffer', TailIndex(buffer')).y = y
      BY <1>5, <3>1, <3>3, CompletedRight
    <3>5. positiveVelocity = FALSE
      BY <1>5, <2>2
    <3> QED
      BY <3>1, <3>4, <3>5 DEF EndIndex
  <2> QED
    BY <1>5, <2>1, <2>2
<1>7. samples' \in 0 .. MaxSamples
  BY <1>4, <1>5, ConstantsAre
<1>8. ControlOK'
  BY <1>2, <1>4, <1>5, <1>6, <1>7 DEF ControlOK
<1>9. TakesInflow
  <2>1. MovesRight(x, positiveVelocity) <=> positiveVelocity
    BY <1>2, <1>5 DEF MovesRight
  <2>2. Sample(buffer', EndIndex(buffer', ~ MovesRight(x, positiveVelocity))).t
          = IF ~ MovesRight(x, positiveVelocity) THEN x2right(x) ELSE x2left(x)
    BY <1>6, <2>1 DEF FilledTo, EndIndex
  <2> QED
    BY <1>2, <1>3, <1>4, <1>6, <2>2 DEF TakesInflow
<1> QED
  BY <1>2, <1>6, <1>8, <1>9 DEF IInv

LEMMA FinishEventKeeps ==
  ASSUME ~ NoEvent, IInv, FinishEvent
  PROVE  IInv' /\ TakesInflow
<1>1. PICK y \in Values, positive \in Directions :
        /\ RecordSample(Evaluated(FALSE, x, positive), x, y, positive, TRUE)
        /\ positiveVelocity' = positive
  BY DEF FinishEvent
<1> DEFINE e == Evaluated(FALSE, x, positive)
           event == TRUE
<1>2. phase = "event" /\ phase' = "continuous" /\ x' = x /\ x = last_x
  BY DEF FinishEvent, IInv
<1>3. RecordSample(e, x, y, positive, event)
  BY <1>1
<1>4. samples' = samples + 1 /\ samples < MaxSamples /\ offered' = y
  BY <1>1 DEF RecordSample
<1>5. /\ x \in Positions /\ x \in Int /\ samples \in 0 .. MaxSamples
      /\ positive = positiveVelocity /\ positive \in BOOLEAN
      /\ Holds(buffer, lposition, rposition, x)
  BY <1>1, <1>2, PlacesAre DEF IInv, ControlOK, Directions
<1>6. /\ Holds(e.buffer, e.lposition, e.rposition, x)
      /\ positive => /\ e.rposition \in Indices(e.buffer)
                     /\ Inside(Interval(e.buffer, e.rposition), x2right(x))
      /\ ~ positive => /\ e.lposition \in Indices(e.buffer)
                       /\ Inside(Interval(e.buffer, e.lposition), x2left(x))
  BY <1>5, EvaluatedThere
<1> HIDE DEF e, event
<1>7. /\ Holds(buffer', lposition', rposition', x) /\ last_x' = x
      /\ FilledTo(buffer', lposition', rposition', x, positive)
      /\ Sample(buffer', EndIndex(buffer', ~ MovesRight(x, positive))).y = y
  <2>0. event \in BOOLEAN /\ event = TRUE
    BY DEF event
  <2>1. CASE positive
    <3>1. MovesRight(x, positive)
      BY <1>2, <2>1 DEF MovesRight
    <3>2. RecordsLeft(e, x, y, event)
      BY <1>3, <2>0, <3>1, RecordsAtLeft
    <3>3. RecordsLeft(e, x, y, TRUE)
      BY <2>0, <3>2
    <3>4. /\ Holds(buffer', lposition', rposition', x) /\ last_x' = x
          /\ FilledTo(buffer', lposition', rposition', x, TRUE)
          /\ Sample(buffer', buffer'.head_index).y = y
      BY <1>2, <1>5, <1>6, <2>1, <3>3, FinishedLeft
    <3> QED
      BY <2>1, <3>1, <3>4 DEF EndIndex
  <2>2. CASE ~ positive
    <3>1. ~ MovesRight(x, positive)
      BY <1>2, <1>5, <2>2 DEF MovesRight
    <3>2. RecordsRight(e, x, y, event)
      BY <1>3, <2>0, <3>1, RecordsAtRight
    <3>3. RecordsRight(e, x, y, TRUE)
      BY <2>0, <3>2
    <3>4. /\ Holds(buffer', lposition', rposition', x) /\ last_x' = x
          /\ FilledTo(buffer', lposition', rposition', x, FALSE)
          /\ Sample(buffer', TailIndex(buffer')).y = y
      BY <1>2, <1>5, <1>6, <2>2, <3>3, FinishedRight
    <3>5. positive = FALSE
      BY <1>5, <2>2
    <3> QED
      BY <3>1, <3>4, <3>5 DEF EndIndex
  <2> QED
    BY <1>5, <2>1, <2>2
<1>8. samples' \in 0 .. MaxSamples
  BY <1>4, <1>5, ConstantsAre
<1>9. ControlOK'
  BY <1>1, <1>2, <1>4, <1>5, <1>7, <1>8 DEF ControlOK
<1>10. TakesInflow
  <2>1. MovesRight(x, positive) <=> positive
    BY <1>2, <1>5 DEF MovesRight
  <2>2. Sample(buffer', EndIndex(buffer', ~ MovesRight(x, positive))).t
          = IF ~ MovesRight(x, positive) THEN x2right(x) ELSE x2left(x)
    BY <1>5, <1>7, <2>1 DEF FilledTo, EndIndex
  <2>3. positiveVelocity' = positive
    BY <1>1
  <2> QED
    BY <1>2, <1>4, <1>7, <2>2, <2>3 DEF TakesInflow
<1> QED
  BY <1>1, <1>2, <1>7, <1>9, <1>10 DEF IInv

LEMMA NothingKeeps ==
  ASSUME IInv, UNCHANGED vars
  PROVE  IInv'
BY DEF vars, IInv, ControlOK

---------------------------------------------------------------------------
(* The initial contents, recorded one after the other.                     *)
FilledNext(b, xs, ys, k) == RecordedRight(b, xs[k], ys[k], k > 1 /\ xs[k] = xs[k-1], Length)

AfterFilled(f, xs, ys, n) ==
  f = [k \in 0 .. n |-> IF k = 0 THEN NewBuffer ELSE FilledNext(f[k-1], xs, ys, k)]

LEMMA AfterFilledExists ==
  ASSUME NEW xs, NEW ys, Len(xs) \in Nat
  PROVE  \E f : AfterFilled(f, xs, ys, Len(xs)) /\ Filled(xs, ys) = f[Len(xs)]
<1> DEFINE n == Len(xs)
           Good == {k \in 0 .. n : \E f : AfterFilled(f, xs, ys, k)}
<1>a. n \in Nat
  OBVIOUS
<1>1. 0 \in Good
  <2>1. AfterFilled([k \in 0 .. 0 |-> NewBuffer], xs, ys, 0)
    BY DEF AfterFilled
  <2> QED
    BY <2>1
<1> HIDE DEF n
<1>2. ASSUME NEW m \in 0 .. n, m \in Good, m < n
      PROVE  m + 1 \in Good
  <2>1. PICK f : AfterFilled(f, xs, ys, m)
    BY <1>2
  <2> DEFINE g == [k \in 0 .. m + 1 |-> IF k <= m THEN f[k] ELSE FilledNext(f[m], xs, ys, m + 1)]
  <2>2. ASSUME NEW k \in 0 .. m + 1
        PROVE  g[k] = IF k = 0 THEN NewBuffer ELSE FilledNext(g[k-1], xs, ys, k)
    <3>1. CASE k = m + 1
      <4>1. g[k] = FilledNext(f[m], xs, ys, m + 1) /\ g[k-1] = f[m] /\ k # 0
        BY <3>1
      <4> QED
        BY <3>1, <4>1
    <3>2. CASE k <= m
      <4>1. f[k] = IF k = 0 THEN NewBuffer ELSE FilledNext(f[k-1], xs, ys, k)
        <5>1. k \in 0 .. m
          BY <3>2
        <5> QED
          BY <2>1, <5>1 DEF AfterFilled
      <4>2. g[k] = f[k] /\ (k # 0 => g[k-1] = f[k-1])
        BY <3>2
      <4> QED
        BY <4>1, <4>2
    <3> QED
      BY <3>1, <3>2
  <2>3. AfterFilled(g, xs, ys, m + 1)
    <3>1. g = [k \in 0 .. m + 1 |-> g[k]]
      OBVIOUS
    <3> HIDE DEF g
    <3> QED
      BY <2>2, <3>1 DEF AfterFilled
  <2>4. m + 1 \in 0 .. n
    BY <1>a, <1>2
  <2> QED
    BY <2>3, <2>4
<1>3. n \in Good
  <2> HIDE DEF Good
  <2>1. 0 .. n \subseteq Good
    BY ONLY <1>a, <1>1, <1>2, InductionUpTo
  <2> QED
    BY <1>a, <2>1
<1> DEFINE after == CHOOSE f : f = [k \in 0 .. n |->
                      IF k = 0 THEN NewBuffer
                      ELSE RecordedRight(f[k-1], xs[k], ys[k], k > 1 /\ xs[k] = xs[k-1], Length)]
<1>4. AfterFilled(after, xs, ys, n)
  BY <1>3 DEF AfterFilled, FilledNext
<1>5. Filled(xs, ys) = after[n]
  BY DEF Filled, n
<1> QED
  BY <1>4, <1>5 DEF n

LEMMA InitialContentsAre ==
  ASSUME NEW xs \in InitialContents
  PROVE  /\ Len(xs) \in Nat /\ Len(xs) >= 2
         /\ xs[1] = 0 /\ xs[Len(xs)] = Length
         /\ \A k \in 1 .. Len(xs) : xs[k] \in 0 .. Length /\ (k > 1 => xs[k-1] <= xs[k])
<1>0. Length \in Nat \ {0}
  BY ConstantsAre
<1>1. CASE xs = << 0, Length >>
  BY <1>0, <1>1
<1>2. CASE xs = << 0, 0, Length >>
  BY <1>0, <1>2
<1>3. CASE xs = << 0, Length, Length >>
  BY <1>0, <1>3
<1>4. ASSUME NEW p \in 1 .. Length - 1, xs = << 0, p, p, Length >>
      PROVE  /\ Len(xs) \in Nat /\ Len(xs) >= 2
             /\ xs[1] = 0 /\ xs[Len(xs)] = Length
             /\ \A k \in 1 .. Len(xs) : xs[k] \in 0 .. Length /\ (k > 1 => xs[k-1] <= xs[k])
  BY <1>0, <1>4
<1> QED
  BY <1>1, <1>2, <1>3, <1>4 DEF InitialContents

(* One more sample: nothing is discarded from a pipe that is not yet full. *)
FilledUpTo(b, t) ==
  /\ IsBuffer(b, Times, Contents) /\ Kept(b) /\ b.size > 0 /\ b.head_index = 0
  /\ Sample(b, 0).t = 0 /\ Sample(b, TailIndex(b)).t = t

LEMMA OneMoreFilled ==
  ASSUME NEW b, NEW s \in 0 .. Length, FilledUpTo(b, s), NEW t \in 0 .. Length, NEW y \in Values,
         NEW event \in BOOLEAN, IF event THEN t = s ELSE s < t
  PROVE  FilledUpTo(RecordedRight(b, t, y, event, Length), t)
<1> DEFINE c == RecordedRight(b, t, y, event, Length)
           q == TailIndex(b)
<1>0. /\ IsBuffer(b, Times, Contents) /\ Kept(b) /\ b.size > 0 /\ b.head_index = 0
      /\ AreTimes(Times) /\ Times \subseteq Int /\ 0 \in Times /\ 0 \in Contents
      /\ t \in Times /\ t \in Int /\ y \in Contents /\ Length \in Nat /\ t <= Length
  <2>1. t \in Times
    BY ConstantsAre DEF Times, Infinity
  <2> QED
    BY <2>1, ConstantsAre DEF FilledUpTo
<1>1. Follows(b, t, event)
  BY DEF Follows, FilledUpTo
<1>2. IsBuffer(c, Times, Contents) /\ Kept(c) /\ RecordedAndShortened(Times, Contents, b, c, t, y, event, Length)
  BY ONLY <1>0, <1>1, event \in BOOLEAN, RecordedRightIs
<1> HIDE DEF c
<1>3. PICK d : /\ IsBuffer(d, Times, Contents) /\ Kept(d) /\ d.head_index = b.head_index
               /\ RecordedAtRight(b, d, t, y, event) /\ ShortenedTo(d, c, t - Length)
  BY <1>2, Zenon DEF RecordedAndShortened
<1>4. /\ b.size \in Nat /\ q \in Int /\ q = b.size - 1 /\ 0 \in 0 .. q /\ q \in 0 .. q
      /\ d.size \in Nat /\ TailIndex(d) = d.size - 1 /\ Indices(d) = 0 .. TailIndex(d)
      /\ TailIndex(d) \in Int
  BY <1>0, <1>3, IndicesAre, SMTT(20)
<1>5. Sample(d, 0).t = 0 /\ Sample(d, TailIndex(d)).t = t /\ TailIndex(d) >= q
  <2>0. Sample(b, 0).t = 0 /\ Sample(b, q).t = s
    BY DEF FilledUpTo
  <2>1. CASE event /\ b.size > 1 /\ Sample(b, q).y = y
    <3>1. d.size = b.size /\ InPlace(b, d, 0, q)
      BY <1>0, <1>3, <2>1 DEF RecordedAtRight, Unchanged
    <3> QED
      BY <1>4, <2>0, <2>1, <3>1 DEF InPlace
  <2>2. CASE ~ (event /\ b.size > 1 /\ Sample(b, q).y = y) /\ (event /\ b.size > 1 /\ EventLeftOf(b, q))
    <3>1. d.size = b.size /\ InPlace(b, d, 0, q - 1) /\ Sample(d, q).t = t
      BY <1>0, <1>3, <2>2 DEF RecordedAtRight, Replaced
    <3>2. 0 \in 0 .. q - 1
      BY <1>4, <2>2
    <3> QED
      BY <1>4, <2>0, <3>1, <3>2 DEF InPlace
  <2>3. CASE ~ (event /\ b.size > 1 /\ Sample(b, q).y = y) /\ ~ (event /\ b.size > 1 /\ EventLeftOf(b, q))
    <3>1. d.size = b.size + 1 /\ InPlace(b, d, 0, q) /\ Sample(d, q + 1).t = t
      BY <1>0, <1>3, <2>3 DEF RecordedAtRight, Extended
    <3>2. TailIndex(d) = q + 1
      BY <1>4, <3>1
    <3> QED
      BY <1>4, <2>0, <3>1, <3>2 DEF InPlace
  <2> QED
    BY <2>1, <2>2, <2>3
<1>6. /\ c.head_index \in Indices(d) /\ TailIndex(c) = TailIndex(d) /\ SameSamples(d, c)
      /\ 0 < c.head_index => Sample(d, c.head_index).t < t - Length
  BY <1>0, <1>3 DEF ShortenedTo
<1>7. c.head_index = 0
  <2>1. 0 \in Indices(d) /\ c.head_index \in Int /\ 0 <= c.head_index
    BY <1>4, <1>5, <1>6
  <2>2. Sample(d, 0).t <= Sample(d, c.head_index).t
    BY <1>3, <1>6, <2>1 DEF Kept, Ordered
  <2>3. Sample(d, c.head_index).t \in Int
    BY <1>0, <1>3, <2>1, SampleType
  <2> QED
    BY <1>0, <1>5, <1>6, <2>1, <2>2, <2>3
<1>8. Sample(c, 0) = Sample(d, 0) /\ Sample(c, TailIndex(c)) = Sample(d, TailIndex(d))
  BY <1>4, <1>6 DEF SameSamples
<1>9. c.size > 0
  BY <1>2, <1>4, <1>5, <1>6, <1>7, IndicesAre
<1> QED
  BY <1>2, <1>5, <1>7, <1>8, <1>9 DEF FilledUpTo, c

LEMMA FilledIs ==
  ASSUME NEW xs \in InitialContents, NEW ys \in [1 .. Len(xs) -> Values]
  PROVE  FilledUpTo(Filled(xs, ys), Length)
<1> DEFINE n == Len(xs)
<1>1. PICK f : AfterFilled(f, xs, ys, n) /\ Filled(xs, ys) = f[n]
  BY InitialContentsAre, AfterFilledExists
<1>2. /\ n \in Nat /\ n >= 2 /\ xs[1] = 0 /\ xs[n] = Length /\ Length \in Nat
      /\ \A k \in 1 .. n : xs[k] \in 0 .. Length /\ (k > 1 => xs[k-1] <= xs[k]) /\ ys[k] \in Values
  BY InitialContentsAre, ConstantsAre
<1> HIDE DEF n
<1>3. f[0] = NewBuffer /\ \A k \in 1 .. n : f[k] = FilledNext(f[k-1], xs, ys, k)
  BY <1>1, <1>2 DEF AfterFilled
<1> DEFINE Good == {k \in 0 .. n : k > 0 => FilledUpTo(f[k], xs[k])}
<1>4. 0 \in Good
  BY <1>2
<1>5. ASSUME NEW k \in 0 .. n, k \in Good, k < n
      PROVE  k + 1 \in Good
  <2> DEFINE j == k + 1
             event == j > 1 /\ xs[j] = xs[j-1]
             b == f[k]
             t == xs[j]
  <2>1. j \in 1 .. n /\ j - 1 = k /\ j > 0 /\ j \in 0 .. n
    BY <1>2, <1>5
  <2>2. t \in 0 .. Length /\ ys[j] \in Values
    BY <1>2, <2>1
  <2>3. f[j] = RecordedRight(b, t, ys[j], event, Length)
    BY <1>3, <2>1 DEF FilledNext
  <2>4. event \in BOOLEAN
    OBVIOUS
  <2>5. CASE k = 0
    <3>1. t = 0 /\ b = NewBuffer
      BY <1>2, <1>3, <2>5
    <3>2. /\ AreTimes(Times) /\ 0 \in Times /\ 0 \in Contents /\ Length \in Nat
          /\ IsBuffer(b, Times, Contents) /\ b.size = 0 /\ b.head_index = 0
          /\ t \in Times /\ ys[j] \in Contents
      BY <2>2, <3>1, ConstantsAre, NewBufferIs
    <3> HIDE DEF event, t, b
    <3>3. IsBuffer(f[j], Times, Contents) /\ Kept(f[j]) /\ Single(b, f[j], t, ys[j])
      BY ONLY <2>3, <2>4, <3>2, FirstRecorded
    <3>4. FilledUpTo(f[j], t)
      <4> DEFINE c == f[j]
      <4>1. c.size = 1 /\ c.head_index = 0 /\ Sample(c, 0).t = t
        BY <3>2, <3>3 DEF Single
      <4>2. TailIndex(c) = 0
        BY <4>1 DEF TailIndex
      <4> QED
        BY <3>1, <3>3, <4>1, <4>2 DEF FilledUpTo
    <3> QED
      BY <2>1, <3>4 DEF t
  <2>6. CASE k # 0
    <3> DEFINE s == xs[k]
    <3>1. k \in 1 .. n /\ s \in 0 .. Length /\ FilledUpTo(b, s) /\ s <= t /\ j > 1
      BY <1>2, <1>5, <2>1, <2>6
    <3>2. IF event THEN t = s ELSE s < t
      BY <2>1, <2>2, <3>1
    <3> HIDE DEF event, t, b, s
    <3>3. FilledUpTo(f[j], t)
      BY ONLY <2>2, <2>3, <2>4, <3>1, <3>2, OneMoreFilled
    <3> QED
      BY <2>1, <3>3 DEF t
  <2> QED
    BY <2>5, <2>6
<1>6. n \in Good
  <2> HIDE DEF Good
  <2>1. 0 .. n \subseteq Good
    BY ONLY <1>2, <1>4, <1>5, InductionUpTo
  <2> QED
    BY <1>2, <2>1
<1> QED
  BY <1>1, <1>2, <1>6

LEMMA InitKeeps ==
  ASSUME Init
  PROVE  IInv
<1> DEFINE b == buffer
           q == TailIndex(b)
<1>1. FilledUpTo(b, Length)
  <2>1. PICK xs \in InitialContents : \E ys \in [1 .. Len(xs) -> Values] : buffer = Filled(xs, ys)
    BY DEF Init
  <2>2. PICK ys \in [1 .. Len(xs) -> Values] : buffer = Filled(xs, ys)
    BY <2>1
  <2> QED
    BY <2>2, FilledIs
<1>2. /\ IsBuffer(b, Times, Contents) /\ Kept(b) /\ b.size > 0 /\ b.head_index = 0 /\ b.size \in Nat
      /\ Sample(b, 0).t = 0 /\ Sample(b, q).t = Length /\ Length \in Nat \ {0} /\ MaxX \in Nat
      /\ q \in Int /\ q = b.size - 1 /\ 0 \in Indices(b) /\ q \in Indices(b)
  BY <1>1, IndicesAre, ConstantsAre DEF FilledUpTo
<1>3. b.size > 1
  BY <1>2
<1>4. 0 \in Positions /\ x2left(0) = 0 /\ x2right(0) = Length
  <2>1. 0 \in Positions
    BY <1>2 DEF Positions
  <2>2. x2right(0) = Length - 0 /\ x2right(0) - Length = x2left(0)
    BY <2>1, PlacesAre
  <2> QED
    BY <1>2, <2>1, <2>2
<1>5. rposition = q
  <2> DEFINE far == Infinity
  <2>1. far \in Int /\ far > Sample(b, q).t
    BY <1>2 DEF Infinity
  <2>2. rposition = Position(b, TRUE, far, 0)
    BY DEF Init
  <2> HIDE DEF far
  <2>3. 0 \in Int
    OBVIOUS
  <2> QED
    BY ONLY <1>2, <1>3, <2>1, <2>2, <2>3, LastFound
<1>6. /\ lposition = 0 /\ last_x = 0 /\ x = 0 /\ positiveVelocity \in BOOLEAN
      /\ phase = "continuous" /\ samples = 0 /\ offered \in Values
  BY ConstantsAre DEF Init
<1>7. SegmentAt(b, lposition) = FirstEvent(b) /\ SegmentAt(b, rposition) = LastSegment(b)
  <2>1. Clamped(b, 0) = 0 /\ Clamped(b, q) = q
    BY <1>2, ClampedIs
  <2> QED
    BY <1>2, <1>5, <1>6, <2>1 DEF SegmentAt, FirstEvent, LastSegment
<1>8. IsAround(b, FirstEvent(b), 0) /\ IsAround(b, LastSegment(b), Length)
  <2>1. 0 <= 0 /\ Length <= Length
    BY <1>2
  <2> QED
    BY <1>2, <2>1 DEF IsAround, Starts, Ends, FirstEvent, LastSegment
<1>9. Holds(b, lposition, rposition, last_x) /\ FilledTo(b, lposition, rposition, last_x, positiveVelocity)
  BY <1>2, <1>3, <1>4, <1>5, <1>6, <1>7, <1>8 DEF Holds, FilledTo
<1>10. ControlOK
  BY <1>4, <1>6, ConstantsAre DEF ControlOK
<1> QED
  BY <1>6, <1>9, <1>10 DEF IInv

---------------------------------------------------------------------------
(* What the invariant says of what flows out.                              *)
LEMMA BufferInOrder ==
  ASSUME IInv
  PROVE  TypeOK /\ BufferOK /\ CoversPipe
<1>1. /\ IsBuffer(buffer, Times, Contents) /\ Kept(buffer) /\ buffer.size > 1 /\ AreTimes(Times)
      /\ Times \subseteq -Infinity .. Infinity /\ last_x \in Positions
      /\ Holds(buffer, lposition, rposition, last_x) /\ lposition \in Int /\ rposition \in Int
  <2>1. Times \subseteq -Infinity .. Infinity
    BY ConstantsAre DEF Times
  <2> QED
    BY <2>1, ConstantsAre DEF IInv, Holds, ControlOK
<1>2. TypeOK
  <2>1. /\ buffer.capacity \in Nat /\ buffer.event_capacity \in Nat
        /\ buffer.size \in 1 .. buffer.capacity /\ buffer.head_index \in Int
    BY <1>1 DEF IsBuffer
  <2>2. buffer.buf \in [0 .. buffer.capacity - 1 -> [t : -Infinity .. Infinity, y : Values \cup {0}, segment : Int]]
    <3>1. buffer.buf \in [0 .. buffer.capacity - 1 -> [t : Times, y : Contents, segment : Int]]
      BY <1>1 DEF IsBuffer
    <3> QED
      BY <1>1, <3>1 DEF Contents
  <2>3. buffer.event_buf \in [0 .. buffer.event_capacity - 1 -> Int]
    BY <1>1 DEF IsBuffer
  <2> QED
    BY <1>1, <2>1, <2>2, <2>3 DEF IInv, ControlOK, TypeOK
<1>3. BufferOK
  <2>1. SamplesOrdered(buffer)
    BY <1>1 DEF Kept
  <2>2. ASSUME NEW i \in Indices(buffer)
        PROVE  /\ EventLeftOf(buffer, i) => SampleLeftOf(buffer, Sample(buffer, i).segment) = i - 1
               /\ EventRightOf(buffer, i) => SampleLeftOf(buffer, Sample(buffer, i).segment + 1) = i
    <3>1. /\ EventLeftOf(buffer, i) <=> i = FirstOnSegment(buffer, i)
          /\ EventRightOf(buffer, i) <=> i = LastOnSegment(buffer, i)
      BY ONLY <1>1, i \in Indices(buffer), SameSegment
    <3>2. Sample(buffer, i).segment \in Int
      BY <1>1, IndicesAre, SampleType
    <3>3. SampleLeftOf(buffer, Sample(buffer, i).segment) \in Int
      BY <1>1, <3>2, SampleType
    <3> QED
      BY <3>1, <3>3 DEF FirstOnSegment, LastOnSegment
  <2> QED
    BY <2>1, <2>2 DEF BufferOK, EventsFound
<1>4. CoversPipe
  BY <1>1, Covers DEF CoversPipe
<1> QED
  BY <1>2, <1>3, <1>4

(* An outlet further on is still before the end of its segment.            *)
LEMMA OutletBeyond ==
  ASSUME IInv, NEW p \in Positions
  PROVE  /\ last_x <= p => Ends(buffer, SegmentAt(buffer, rposition), x2right(p))
         /\ p <= last_x => Starts(buffer, SegmentAt(buffer, lposition), x2left(p))
<1>1. /\ last_x \in Positions /\ last_x \in Int /\ p \in Int /\ Length \in Int
      /\ x2right(p) = Length - p /\ x2right(last_x) = Length - last_x
      /\ x2left(p) = -p /\ x2left(last_x) = -last_x
  <2>1. last_x \in Positions
    BY DEF IInv, ControlOK
  <2> QED
    BY <2>1, PlacesAre, ConstantsAre
<1>2. /\ \E i \in Indices(buffer) : Sample(buffer, i).segment = SegmentAt(buffer, rposition)
                                    /\ x2right(last_x) <= Sample(buffer, i).t
      /\ \E i \in Indices(buffer) : Sample(buffer, i).segment = SegmentAt(buffer, lposition)
                                    /\ Sample(buffer, i).t <= x2left(last_x)
  BY Zenon DEF IInv, Holds, IsAround, Starts, Ends
<1>3. \A i \in Indices(buffer) : Sample(buffer, i).t \in Int
  <2> SUFFICES ASSUME NEW i \in Indices(buffer) PROVE Sample(buffer, i).t \in Int
    OBVIOUS
  <2>1. IsBuffer(buffer, Times, Contents)
    BY DEF IInv, Holds
  <2>2. i \in Int
    BY <2>1, IndicesAre
  <2> QED
    BY <2>1, <2>2, SampleType, ConstantsAre
<1>4. ASSUME last_x <= p
      PROVE  Ends(buffer, SegmentAt(buffer, rposition), x2right(p))
  <2>1. PICK i \in Indices(buffer) : Sample(buffer, i).segment = SegmentAt(buffer, rposition)
                                     /\ x2right(last_x) <= Sample(buffer, i).t
    BY <1>2
  <2>2. x2right(p) <= Sample(buffer, i).t
    BY <1>1, <1>3, <1>4, <2>1
  <2> QED
    BY <2>1, <2>2 DEF Ends
<1>5. ASSUME p <= last_x
      PROVE  Starts(buffer, SegmentAt(buffer, lposition), x2left(p))
  <2>1. PICK i \in Indices(buffer) : Sample(buffer, i).segment = SegmentAt(buffer, lposition)
                                     /\ Sample(buffer, i).t <= x2left(last_x)
    BY <1>2
  <2>2. Sample(buffer, i).t <= x2left(p)
    BY <1>1, <1>3, <1>5, <2>1
  <2> QED
    BY <2>1, <2>2 DEF Starts
<1> QED
  BY <1>4, <1>5

LEMMA ExtrapolationIsSignalled ==
  ASSUME ~ NoEvent, IInv
  PROVE  ExtrapolationSignalled
<1> SUFFICES ASSUME NEW p \in Positions, IF positiveVelocity THEN p >= last_x ELSE p <= last_x
             PROVE  LET b == WithCurrent(buffer, IF positiveVelocity THEN x2left(p) ELSE x2right(p), Inflow,
                                         ~positiveVelocity)
                        tr == IF positiveVelocity THEN x2right(p) ELSE x2left(p)
                        l == PositionEvaluated(b, NoEvent, tr, lposition)
                        r == PositionEvaluated(b, NoEvent, tr, rposition)
                        f == Interval(b, IF positiveVelocity THEN r ELSE l)
                        inside == f[1].t <= tr /\ tr <= f[2].t
                    IN inside = ~Crosses(WithoutCurrent(b, buffer.size, ~positiveVelocity), l, r, p,
                                         positiveVelocity)
  BY Zenon DEF ExtrapolationSignalled
<1> DEFINE none == -Infinity
           far == Infinity
<1>0. /\ IsBuffer(buffer, Times, Contents) /\ Kept(buffer) /\ buffer.size > 1
      /\ lposition \in Int /\ rposition \in Int /\ last_x \in Int /\ p \in Int
      /\ x2left(p) \in Times /\ x2right(p) \in Times /\ x2left(p) \in Int /\ x2right(p) \in Int
      /\ x2left(p) < x2right(p)
      /\ x2left(p) <= far /\ none <= x2right(p) /\ far \in Int /\ none \in Int
      /\ AreTimes(Times) /\ 0 \in Times /\ 0 \in Contents /\ Inflow \in Contents
      /\ positiveVelocity \in BOOLEAN
  BY ConstantsAre, PlacesAre DEF IInv, Holds, ControlOK
<1>1. NoEvent = FALSE
  BY PipeAssumption
<1>2. CASE positiveVelocity
  <2> DEFINE c == WithCurrent(buffer, x2left(p), Inflow, FALSE)
             tr == x2right(p)
             k == Position(c, FALSE, tr, rposition)
             e == WithoutCurrent(c, buffer.size, FALSE)
  <2>1. positiveVelocity = TRUE /\ (~ positiveVelocity) = FALSE
    BY <1>2
  <2>2. Ends(buffer, SegmentAt(buffer, rposition), tr)
    BY <1>0, <1>2, OutletBeyond
  <2>3. ~ (c.size <= 1) /\ (Inside(Interval(c, k), tr) <=> ~ (tr < PreviousEventTime(e, k, -Infinity)))
    <3> HIDE DEF none, far
    <3>1. SignalsAtRight(Times, Contents, buffer, x2left(p), Inflow, x2right(p), rposition, none)
      BY ONLY <1>0, SignalledRight
    <3> QED
      BY <2>2, <3>1 DEF SignalsAtRight, none
  <2>4. PositionEvaluated(c, NoEvent, tr, rposition) = k
    BY <1>1, <2>3 DEF PositionEvaluated
  <2>5. \A l : Crosses(e, l, k, p, TRUE) <=> tr < PreviousEventTime(e, k, -Infinity)
    BY DEF Crosses
  <2>6. \A l : Inside(Interval(c, k), tr) = ~ Crosses(e, l, k, p, TRUE)
    BY <2>3, <2>5 DEF Inside
  <2> HIDE DEF k, e
  <2> QED
    BY <2>1, <2>4, <2>6 DEF Inside, e
<1>3. CASE ~ positiveVelocity
  <2> DEFINE c == WithCurrent(buffer, x2right(p), Inflow, TRUE)
             tr == x2left(p)
             k == Position(c, FALSE, tr, lposition)
             e == WithoutCurrent(c, buffer.size, TRUE)
  <2>1. positiveVelocity = FALSE /\ (~ positiveVelocity) = TRUE
    BY <1>0, <1>3
  <2>2. Starts(buffer, SegmentAt(buffer, lposition), tr)
    BY <1>0, <1>3, OutletBeyond
  <2>3. ~ (c.size <= 1) /\ (Inside(Interval(c, k), tr) <=> ~ (NextEventTime(e, k, Infinity) < tr))
    <3> HIDE DEF none, far
    <3>1. SignalsAtLeft(Times, Contents, buffer, x2right(p), Inflow, x2left(p), lposition, far)
      BY ONLY <1>0, SignalledLeft
    <3> QED
      BY <2>2, <3>1 DEF SignalsAtLeft, far
  <2>4. PositionEvaluated(c, NoEvent, tr, lposition) = k
    BY <1>1, <2>3 DEF PositionEvaluated
  <2>5. \A r : Crosses(e, k, r, p, FALSE) <=> NextEventTime(e, k, Infinity) < tr
    BY DEF Crosses
  <2>6. \A r : Inside(Interval(c, k), tr) = ~ Crosses(e, k, r, p, FALSE)
    BY <2>3, <2>5 DEF Inside
  <2> HIDE DEF k, e
  <2> QED
    BY <2>1, <2>4, <2>6 DEF Inside, e
<1> QED
  BY <1>2, <1>3

LEMMA TruncationIsInside ==
  ASSUME IInv
  PROVE  TruncationInside
<1>0. /\ IsBuffer(buffer, Times, Contents) /\ Kept(buffer) /\ buffer.size > 1 /\ ~ (buffer.size <= 1)
      /\ lposition \in Int /\ rposition \in Int /\ AreTimes(Times)
      /\ x2left(last_x) \in Int /\ x2right(last_x) \in Int
      /\ IsAround(buffer, SegmentAt(buffer, lposition), x2left(last_x))
      /\ IsAround(buffer, SegmentAt(buffer, rposition), x2right(last_x))
  <2>1. IsBuffer(buffer, Times, Contents) /\ buffer.size > 1 /\ last_x \in Positions
    BY DEF IInv, Holds, ControlOK
  <2>2. ~ (buffer.size <= 1)
    BY <2>1, IndicesAre
  <2> QED
    BY <2>1, <2>2, ConstantsAre, PlacesAre DEF IInv, Holds
<1>1. Inside(Interval(buffer, PositionEvaluated(buffer, FALSE, x2left(last_x), lposition)), x2left(last_x))
  <2> DEFINE k == Position(buffer, FALSE, x2left(last_x), lposition)
  <2>1. PositionEvaluated(buffer, FALSE, x2left(last_x), lposition) = k
    BY <1>0 DEF PositionEvaluated
  <2>2. /\ k \in Indices(buffer) /\ Sample(buffer, k).segment = SegmentAt(buffer, lposition)
        /\ Inside(Interval(buffer, k), x2left(last_x)) <=> IsAround(buffer, SegmentAt(buffer, lposition), x2left(last_x))
    BY ONLY <1>0, IntervalAround
  <2> HIDE DEF k
  <2> QED
    BY <1>0, <2>1, <2>2
<1>2. Inside(Interval(buffer, PositionEvaluated(buffer, FALSE, x2right(last_x), rposition)), x2right(last_x))
  <2> DEFINE k == Position(buffer, FALSE, x2right(last_x), rposition)
  <2>1. PositionEvaluated(buffer, FALSE, x2right(last_x), rposition) = k
    BY <1>0 DEF PositionEvaluated
  <2>2. /\ k \in Indices(buffer) /\ Sample(buffer, k).segment = SegmentAt(buffer, rposition)
        /\ Inside(Interval(buffer, k), x2right(last_x)) <=> IsAround(buffer, SegmentAt(buffer, rposition), x2right(last_x))
    BY ONLY <1>0, IntervalAround
  <2> HIDE DEF k
  <2> QED
    BY <1>0, <2>1, <2>2
<1> QED
  BY <1>1, <1>2, Zenon DEF TruncationInside, Inside

---------------------------------------------------------------------------
(* The invariant holds in every state, unless the block has no events:     *)
(* between calls of jmi_spatialdist_evaluate and _record_sample the buffer *)
(* is in order, both positions are on segments around the ends of the pipe,*)
(* and the inlet is the end of the buffer but while events are iterated.   *)
THEOREM Invariance ==
  ASSUME ~ NoEvent
  PROVE  Spec => []IInv
<1>1. IInv /\ [Next]_vars => IInv'
  BY IntegrateKeeps, CompletedStepKeeps, IterateEventKeeps, FinishEventKeeps, NothingKeeps DEF Next
<1> QED
  BY InitKeeps, <1>1, PTL DEF Spec

(* After any reversals of the flow the buffer is in order and covers the   *)
(* pipe, what flows out is found or signalled, and the value that          *)
(* jmi_delaybuffer_truncate puts at an end that is cut off is interpolated *)
(* in the interval around that end.                                        *)
THEOREM PipeIsAlwaysSound ==
  ASSUME ~ NoEvent
  PROVE  Spec => []PipeSound
<1>1. IInv => PipeSound
  BY BufferInOrder, ExtrapolationIsSignalled, TruncationIsInside DEF PipeSound
<1> QED
  BY Invariance, <1>1, PTL

(* jmi_spatialdist_record_sample refuses no inflow: what it refuses between *)
(* events flowed nowhere, and whatever else it records, the contents have  *)
(* moved on to the present position and the inflow is at the inlet.        *)
THEOREM InflowIsAlwaysTaken ==
  ASSUME ~ NoEvent
  PROVE  Spec => InflowTaken
<1>1. IInv /\ [Next]_vars => [samples' # samples => TakesInflow]_vars
  <2> SUFFICES ASSUME IInv, Next, samples' # samples
               PROVE  TakesInflow
    BY Zenon
  <2>1. CASE Integrate
    BY <2>1 DEF Integrate
  <2>2. CASE IterateEvent
    BY <2>2 DEF IterateEvent
  <2> QED
    BY <2>1, <2>2, CompletedStepKeeps, FinishEventKeeps DEF Next
<1> QED
  BY Invariance, <1>1, PTL DEF Spec, InflowTaken
==============================================================================
