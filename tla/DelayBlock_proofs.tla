-------------------------- MODULE DelayBlock_proofs --------------------------
(***************************************************************************)
(* The history of a delay block is sound, its time events are the ones in  *)
(* it, and it implements DelayLine.                                        *)
(***************************************************************************)
EXTENDS DelayBlock, DelayBuffer_proofs, SequenceTheorems

Times == 0 .. Never
Inputs == Values \cup {0}

LEMMA ConstantsAre ==
  /\ MaxTime \in Nat /\ MaxDelay \in Nat \ {0} /\ Never \in Nat
  /\ Never = MaxTime + MaxDelay + 1
  /\ AreTimes(Times) /\ Times \subseteq Int /\ 0 \in Times /\ 0 \in Inputs /\ Values \subseteq Inputs
  /\ InitialCapacity \in Nat \ {0, 1}
<1>1. MaxTime \in Nat /\ MaxDelay \in Nat \ {0}
  BY DelayAssumption
<1>2. InitialCapacity \in Nat \ {0, 1}
  BY CapacityIs
<1> QED
  BY <1>1, <1>2 DEF Never, AreTimes, Times, Inputs

(* An index outside of the buffer stands for the end it is beyond.         *)
LEMMA ClampedAt ==
  ASSUME NEW b, IsBuffer(b, Times, Inputs), b.size > 0, NEW index \in Int
  PROVE  /\ Clamped(b, index) \in Indices(b)
         /\ index \in Indices(b) => Clamped(b, index) = index
         /\ index < b.head_index => Clamped(b, index) = b.head_index
         /\ index > TailIndex(b) => Clamped(b, index) = TailIndex(b)
BY ONLY IsBuffer(b, Times, Inputs), b.size > 0, index \in Int, ClampedIs, Zenon

(***************************************************************************)
(* One evaluation: the present input is put at the end and taken away.     *)
(***************************************************************************)
WithInput(b, c, t) ==
  /\ c.head_index = b.head_index
  /\ InPlace(b, c, b.head_index, TailIndex(b))
  /\ TailIndex(c) = TailIndex(b) \/ TailIndex(c) = TailIndex(b) + 1
  /\ Sample(b, TailIndex(b)).t >= t => TailIndex(c) = TailIndex(b)
  /\ Sample(c, TailIndex(c)).segment = Sample(b, TailIndex(b)).segment
  /\ Sample(c, TailIndex(c)).t >= t

LEMMA InputPut ==
  ASSUME NEW b, IsBuffer(b, Times, Inputs), Kept(b), b.size > 0, NEW t \in Times, NEW y \in Inputs
  PROVE  LET c == WithCurrent(b, t, y, TRUE)
             e == WithoutCurrent(c, b.size, TRUE)
         IN /\ IsBuffer(c, Times, Inputs) /\ Kept(c) /\ WithInput(b, c, t)
            /\ IsBuffer(e, Times, Inputs) /\ Stays(b, e) /\ SameSamples(c, e)
<1> DEFINE c == WithCurrent(b, t, y, TRUE)
           e == WithoutCurrent(c, b.size, TRUE)
<1>1. /\ IsBuffer(c, Times, Inputs) /\ Kept(c) /\ c.head_index = b.head_index
      /\ IF Sample(b, TailIndex(b)).t < t THEN Extended(b, c, t, y, FALSE) ELSE Unchanged(b, c)
      /\ IsBuffer(e, Times, Inputs) /\ Kept(e) /\ e.head_index = b.head_index /\ Unchanged(b, e)
      /\ SameSamples(c, e)
  BY ConstantsAre, CurrentKeeps
<1> HIDE DEF e, c
<1>2. /\ b.size \in Nat /\ b.head_index \in Int /\ TailIndex(b) \in Int /\ b.head_index <= TailIndex(b)
      /\ TailIndex(b) = (b.head_index + b.size) - 1 /\ TailIndex(c) = (c.head_index + c.size) - 1
      /\ Sample(b, TailIndex(b)).t \in Int /\ Sample(b, TailIndex(b)).segment \in Int /\ t \in Int
  BY <1>1, IndicesAre, SampleType, ConstantsAre
<1>3. WithInput(b, c, t)
  <2>1. CASE Sample(b, TailIndex(b)).t < t
    <3>1. /\ c.size = b.size + 1 /\ InPlace(b, c, b.head_index, TailIndex(b))
          /\ Sample(c, TailIndex(b) + 1).t = t
          /\ Sample(c, TailIndex(b) + 1).segment = Sample(b, TailIndex(b)).segment
      BY <1>1, <1>2, <2>1 DEF Extended
    <3>2. TailIndex(c) = TailIndex(b) + 1
      BY <1>1, <1>2, <3>1
    <3> QED
      BY <1>1, <1>2, <2>1, <3>1, <3>2 DEF WithInput
  <2>2. CASE ~ (Sample(b, TailIndex(b)).t < t)
    <3>1. c.size = b.size /\ InPlace(b, c, b.head_index, TailIndex(b))
      BY <1>1, <2>2 DEF Unchanged
    <3>2. TailIndex(c) = TailIndex(b)
      BY <1>1, <1>2, <3>1
    <3>3. Sample(c, TailIndex(b)) = Sample(b, TailIndex(b))
      BY <1>2, <3>1 DEF InPlace
    <3> QED
      BY <1>1, <1>2, <2>2, <3>1, <3>2, <3>3 DEF WithInput
  <2> QED
    BY <2>1, <2>2
<1> QED
  BY <1>1, <1>3 DEF Stays, c, e

(***************************************************************************)
(* One sample recorded: the times and segments of the earlier ones stay.   *)
(***************************************************************************)
Grown(b, c, t, event) ==
  /\ c.head_index \in b.head_index .. TailIndex(b) /\ c.head_index < TailIndex(c)
  /\ \A i \in c.head_index .. TailIndex(b) :
       Sample(c, i).t = Sample(b, i).t /\ Sample(c, i).segment = Sample(b, i).segment
  /\ Sample(c, TailIndex(c)).t = t
  /\ \/ event /\ TailIndex(c) = TailIndex(b)
     \/ /\ TailIndex(c) = TailIndex(b) + 1
        /\ Sample(c, TailIndex(c)).segment = Sample(b, TailIndex(b)).segment + (IF event THEN 1 ELSE 0)
  /\ Sample(c, c.head_index + 1).t >= t - MaxDelay
  /\ b.head_index < c.head_index => Sample(c, c.head_index).t < t - MaxDelay

LEMMA SampleRecorded ==
  ASSUME NEW b, IsBuffer(b, Times, Inputs), Kept(b), b.size >= 2,
         NEW t \in Times, NEW y \in Inputs, NEW event \in BOOLEAN, Follows(b, t, event)
  PROVE  LET c == RecordedRight(b, t, y, event, MaxDelay)
         IN IsBuffer(c, Times, Inputs) /\ Kept(c) /\ c.size >= 2 /\ Grown(b, c, t, event)
<1> DEFINE c == RecordedRight(b, t, y, event, MaxDelay)
<1>1. /\ b.size \in Nat /\ b.size > 0 /\ b.head_index \in Int /\ TailIndex(b) \in Int
      /\ b.head_index < TailIndex(b) /\ TailIndex(b) = (b.head_index + b.size) - 1
  BY IndicesAre
<1>2. t \in Int /\ MaxDelay \in Nat /\ AreTimes(Times) /\ 0 \in Times /\ 0 \in Inputs
  BY ConstantsAre
<1>3. IsBuffer(c, Times, Inputs) /\ Kept(c) /\ RecordedAndShortened(Times, Inputs, b, c, t, y, event, MaxDelay)
  BY ONLY <1>1, <1>2, IsBuffer(b, Times, Inputs), Kept(b), t \in Times, y \in Inputs, event \in BOOLEAN,
          Follows(b, t, event), RecordedRightIs, Zenon
<1>4. PICK d : /\ IsBuffer(d, Times, Inputs) /\ Kept(d) /\ d.head_index = b.head_index
               /\ RecordedAtRight(b, d, t, y, event)
               /\ ShortenedTo(d, c, t - MaxDelay)
  BY <1>3, Zenon DEF RecordedAndShortened
<1> HIDE DEF c
<1>5. /\ TailIndex(d) = (d.head_index + d.size) - 1 /\ TailIndex(c) = (c.head_index + c.size) - 1
      /\ Indices(d) = d.head_index .. TailIndex(d) /\ c.size \in Nat /\ d.size \in Nat
  BY <1>3, <1>4, IndicesAre
<1>6. \A i \in b.head_index .. TailIndex(b) : Sample(b, i).t \in Int /\ Sample(b, i).segment \in Int
  <2> SUFFICES ASSUME NEW i \in b.head_index .. TailIndex(b)
               PROVE  Sample(b, i).t \in Int /\ Sample(b, i).segment \in Int
    OBVIOUS
  <2>1. i \in Int
    BY <1>1
  <2> QED
    BY <1>2, <2>1, SampleType, ConstantsAre
<1>7. /\ \A i \in b.head_index .. TailIndex(b) :
           Sample(d, i).t = Sample(b, i).t /\ Sample(d, i).segment = Sample(b, i).segment
      /\ Sample(d, TailIndex(d)).t = t
      /\ \/ event /\ TailIndex(d) = TailIndex(b)
         \/ /\ TailIndex(d) = TailIndex(b) + 1
            /\ Sample(d, TailIndex(d)).segment = Sample(b, TailIndex(b)).segment + (IF event THEN 1 ELSE 0)
  <2>1. CASE event /\ b.size > 1 /\ Sample(b, TailIndex(b)).y = y
    <3>1. Unchanged(b, d) /\ t = Sample(b, TailIndex(b)).t
      BY <1>4, <2>1 DEF RecordedAtRight, Follows
    <3> QED
      BY <1>1, <1>4, <1>5, <2>1, <3>1 DEF Unchanged, InPlace
  <2>2. CASE ~ (event /\ b.size > 1 /\ Sample(b, TailIndex(b)).y = y) /\ event /\ b.size > 1 /\ EventLeftOf(b, TailIndex(b))
    <3>1. Replaced(b, d, t, y) /\ t = Sample(b, TailIndex(b)).t
      BY <1>4, <2>2 DEF RecordedAtRight, Follows
    <3>2. TailIndex(d) = TailIndex(b)
      BY <1>1, <1>4, <1>5, <3>1 DEF Replaced
    <3>3. \A i \in b.head_index .. TailIndex(b) : i = TailIndex(b) \/ i \in b.head_index .. TailIndex(b) - 1
      BY <1>1
    <3> QED
      BY <1>1, <2>2, <3>1, <3>2, <3>3 DEF Replaced, InPlace
  <2>3. CASE ~ (event /\ b.size > 1 /\ Sample(b, TailIndex(b)).y = y)
             /\ ~ (event /\ b.size > 1 /\ EventLeftOf(b, TailIndex(b)))
    <3>1. Extended(b, d, t, y, event)
      BY <1>4, <2>3 DEF RecordedAtRight
    <3>2. TailIndex(d) = TailIndex(b) + 1
      BY <1>1, <1>4, <1>5, <3>1 DEF Extended
    <3> QED
      BY <1>1, <3>1, <3>2 DEF Extended, InPlace
  <2> QED
    BY <2>1, <2>2, <2>3
<1>8. /\ c.head_index \in b.head_index .. TailIndex(d) /\ TailIndex(c) = TailIndex(d) /\ TailIndex(d) \in Int
      /\ c.head_index < TailIndex(d) => Sample(d, c.head_index + 1).t >= t - MaxDelay
      /\ b.head_index < c.head_index => Sample(d, c.head_index).t < t - MaxDelay
      /\ \A i \in Int : Sample(c, i) = Sample(d, i)
  BY <1>1, <1>4, <1>5, <1>7 DEF ShortenedTo, SameSamples
<1>9. TailIndex(d) = TailIndex(b) \/ TailIndex(d) = TailIndex(b) + 1
  BY <1>7
<1>10. c.head_index < TailIndex(c)
  <2>1. c.head_index = TailIndex(d) => b.head_index < c.head_index
    BY <1>1, <1>8, <1>9
  <2>2. ~ (t < t - MaxDelay)
    BY <1>2
  <2> QED
    BY <1>1, <1>7, <1>8, <2>1, <2>2
<1>11. c.size >= 2
  <2>1. c.head_index \in Int
    BY <1>1, <1>8
  <2> QED
    BY <1>5, <1>10, <2>1
<1>12. c.head_index \in b.head_index .. TailIndex(b) /\ c.head_index \in Int /\ c.head_index + 1 \in Int
  BY <1>1, <1>8, <1>9, <1>10
<1>13. Grown(b, c, t, event)
  <2>1. /\ Sample(c, TailIndex(c)) = Sample(d, TailIndex(d)) /\ Sample(c, c.head_index + 1) = Sample(d, c.head_index + 1)
        /\ Sample(c, c.head_index) = Sample(d, c.head_index)
    BY <1>8, <1>12
  <2>2. ASSUME NEW i \in c.head_index .. TailIndex(b)
        PROVE  Sample(c, i).t = Sample(b, i).t /\ Sample(c, i).segment = Sample(b, i).segment
    <3>1. i \in Int /\ i \in b.head_index .. TailIndex(b)
      BY <1>1, <1>12
    <3> QED
      BY <1>7, <1>8, <3>1
  <2> QED
    BY <1>7, <1>8, <1>10, <1>12, <2>1, <2>2 DEF Grown
<1> QED
  BY <1>3, <1>11, <1>13 DEF c

(* With the input or without it, from a sample the same events are found.  *)
LEMMA EventsWithInput ==
  ASSUME NEW b, IsBuffer(b, Times, Inputs), Kept(b), b.size > 0, NEW t,
         NEW c, IsBuffer(c, Times, Inputs), Kept(c), WithInput(b, c, t),
         NEW e, IsBuffer(e, Times, Inputs), Stays(b, e), SameSamples(c, e), NEW i \in Indices(c)
  PROVE  /\ FirstOnSegment(e, i) = FirstOnSegment(c, i)
         /\ LastOnSegment(c, i) = TailIndex(c) => LastOnSegment(e, i) = TailIndex(e)
         /\ LastOnSegment(c, i) # TailIndex(c) =>
              LastOnSegment(e, i) = LastOnSegment(c, i) /\ LastOnSegment(c, i) < TailIndex(e)
<1>1. /\ b.head_index \in Int /\ TailIndex(b) \in Int /\ b.head_index <= TailIndex(b) /\ b.size \in Nat
      /\ TailIndex(b) = (b.head_index + b.size) - 1
  BY IndicesAre
<1>2. e.head_index = b.head_index /\ e.size = b.size /\ Kept(e) /\ TailIndex(e) = TailIndex(b)
  BY DEF Stays, Unchanged, TailIndex
<1>3. /\ c.head_index = b.head_index /\ Indices(c) = b.head_index .. TailIndex(c)
      /\ Indices(e) = b.head_index .. TailIndex(b)
      /\ TailIndex(c) = TailIndex(b) \/ TailIndex(c) = TailIndex(b) + 1
      /\ InPlace(b, c, b.head_index, TailIndex(b))
      /\ Sample(c, TailIndex(c)).segment = Sample(b, TailIndex(b)).segment
  BY <1>2, IndicesAre DEF WithInput
<1>4. \A k \in Int : Sample(e, k) = Sample(c, k)
  BY DEF SameSamples
<1>5. AreTimes(Times)
  BY ConstantsAre
<1> DEFINE j == IF i <= TailIndex(b) THEN i ELSE TailIndex(b)
<1>6. j \in Indices(c) /\ j \in Indices(e) /\ i \in Int /\ j \in Int
  BY <1>1, <1>3
<1>7. Sample(c, TailIndex(b)).segment = Sample(c, TailIndex(c)).segment
  BY <1>1, <1>3 DEF InPlace
<1>8. Sample(c, j).segment = Sample(c, i).segment
  BY <1>1, <1>3, <1>7
<1> HIDE DEF j
<1>9. Sample(e, j).segment = Sample(e, i).segment
  BY <1>4, <1>6, <1>8
<1> DEFINE fc == FirstOnSegment(c, i)
           lc == LastOnSegment(c, i)
           fe == FirstOnSegment(e, j)
           le == LastOnSegment(e, j)
<1>10. FirstOnSegment(e, i) = fe /\ LastOnSegment(e, i) = le
  BY <1>9 DEF FirstOnSegment, LastOnSegment
<1>11. /\ fe \in b.head_index .. j /\ EventLeftOf(e, fe) /\ Sample(e, fe).segment = Sample(e, j).segment
       /\ le \in j .. TailIndex(b) /\ EventRightOf(e, le) /\ Sample(e, le).segment = Sample(e, j).segment
  <2>1. SegmentFound(e, j)
    BY <1>2, <1>6 DEF Kept
  <2> QED
    BY <1>2, <2>1 DEF SegmentFound
<1> HIDE DEF fe, le
<1>12. fe \in Int /\ le \in Int /\ fe \in Indices(c) /\ le \in Indices(c)
  BY <1>1, <1>3, <1>6, <1>11
<1>13. Sample(c, fe).segment = Sample(c, i).segment /\ Sample(c, le).segment = Sample(c, i).segment
  BY <1>4, <1>6, <1>8, <1>11, <1>12
<1>14. fe = fc
  <2>1. EventLeftOf(c, fe)
    <3>1. Sample(e, fe) = Sample(c, fe) /\ Sample(e, fe - 1) = Sample(c, fe - 1)
      BY <1>4, <1>12
    <3> QED
      BY <1>2, <1>3, <1>11, <3>1 DEF EventLeftOf
  <2> QED
    BY <1>5, <1>12, <1>13, <2>1, SameSegment
<1>15. /\ lc \in le .. TailIndex(c) /\ (EventRightOf(c, le) <=> le = lc)
       /\ \A k \in Indices(c) : Sample(c, k).segment = Sample(c, i).segment => lc \in k .. TailIndex(c)
  <2>1. ASSUME NEW k \in Indices(c), Sample(c, k).segment = Sample(c, i).segment
        PROVE  lc \in k .. TailIndex(c) /\ (EventRightOf(c, k) <=> k = lc)
    BY ONLY <1>5, <2>1, i \in Indices(c), IsBuffer(c, Times, Inputs), Kept(c), SameSegment
  <2> QED
    BY <1>12, <1>13, <2>1
<1> HIDE DEF lc
<1>16. lc \in Int /\ TailIndex(c) \in Int
  BY <1>1, <1>3, <1>12, <1>15
<1>17. lc = TailIndex(c) => le = TailIndex(b)
  <2>1. SUFFICES ASSUME lc = TailIndex(c)
                 PROVE  le = TailIndex(b)
    OBVIOUS
  <2>2. Sample(c, TailIndex(c)).segment = Sample(c, i).segment
    <3>1. lc \in Indices(c) /\ SegmentFound(c, i)
      BY <1>3, <1>16, <2>1, <1>1 DEF Kept
    <3> QED
      BY <2>1, <3>1 DEF SegmentFound, lc
  <2>3. TailIndex(b) \in Indices(e) /\ Sample(e, TailIndex(b)).segment = Sample(e, j).segment
    BY <1>1, <1>3, <1>4, <1>6, <1>7, <1>9, <2>2
  <2>4. le \in TailIndex(b) .. TailIndex(e)
    BY <1>2, <1>5, <1>6, <2>3, SameSegment DEF le
  <2> QED
    BY <1>1, <1>2, <1>12, <2>4
<1>18. lc # TailIndex(c) => le = lc /\ lc < TailIndex(b)
  <2>1. SUFFICES ASSUME lc # TailIndex(c)
                 PROVE  le = lc /\ lc < TailIndex(b)
    OBVIOUS
  <2>2. lc < TailIndex(c) /\ le <= lc
    BY <1>12, <1>15, <1>16, <2>1
  <2>3. lc # TailIndex(b)
    <3>1. SUFFICES ASSUME lc = TailIndex(b)
                   PROVE  FALSE
      OBVIOUS
    <3>2. SegmentFound(c, i)
      BY DEF Kept
    <3>3. Sample(c, TailIndex(b)).segment = Sample(c, i).segment
      BY <3>1, <3>2 DEF SegmentFound, lc
    <3>4. TailIndex(c) \in Indices(c) /\ Sample(c, TailIndex(c)).segment = Sample(c, i).segment
      BY <1>1, <1>3, <1>7, <3>3
    <3>5. lc \in TailIndex(c) .. TailIndex(c)
      BY <1>15, <3>4
    <3> QED
      BY <1>16, <2>1, <3>5
  <2>4. lc < TailIndex(b)
    BY <1>1, <1>3, <1>16, <2>2, <2>3
  <2>5. le < TailIndex(b) /\ ~ (le >= TailIndex(b)) /\ ~ (le >= TailIndex(c))
    BY <1>1, <1>12, <1>16, <2>2, <2>4
  <2>6. Sample(e, le).segment # Sample(e, le + 1).segment
    BY <1>2, <1>11, <2>5 DEF EventRightOf
  <2>7. Sample(e, le) = Sample(c, le) /\ Sample(e, le + 1) = Sample(c, le + 1)
    BY <1>4, <1>12
  <2>8. EventRightOf(c, le)
    BY <2>5, <2>6, <2>7 DEF EventRightOf
  <2> QED
    BY <1>15, <2>4, <2>8
<1> QED
  BY <1>2, <1>10, <1>14, <1>17, <1>18 DEF fc, lc

(* The position found is one the value can be interpolated from.           *)
Fits(b, p, tr) ==
  /\ p \in Indices(b)
  /\ p = b.head_index \/ Sample(b, p).t <= tr
  /\ EventRightOf(b, p) => tr <= Sample(b, p).t
  /\ ~ EventRightOf(b, p) => tr <= Sample(b, p + 1).t

LEMMA AcrossFits ==
  ASSUME NEW b, IsBuffer(b, Times, Inputs), Kept(b), b.size > 1, NEW tr \in Int, NEW p, FoundAcross(b, p, tr),
         tr <= Sample(b, TailIndex(b)).t
  PROVE  Fits(b, p, tr)
<1>1. p \in Indices(b) /\ p \in Int /\ TailIndex(b) \in Int /\ AreTimes(Times)
  BY IndicesAre, ConstantsAre DEF FoundAcross
<1>2. Sample(b, p + 1).t \in Int /\ Sample(b, p).t \in Int
  <2>1. p + 1 \in Int
    BY <1>1
  <2> QED
    BY <1>1, <2>1, SampleType, ConstantsAre
<1>3. CASE p = TailIndex(b)
  BY <1>1, <1>3 DEF Fits, FoundAcross, EventRightOf
<1>4. CASE p # TailIndex(b)
  <2>1. EventRightOf(b, p) => Sample(b, p + 1).t = Sample(b, p).t
    BY ONLY <1>1, <1>4, IsBuffer(b, Times, Inputs), Kept(b), Neighbours
  <2> QED
    BY <1>1, <1>2, <1>4, <2>1 DEF Fits, FoundAcross
<1> QED
  BY <1>3, <1>4

LEMMA OnSegmentFits ==
  ASSUME NEW b, IsBuffer(b, Times, Inputs), Kept(b), NEW tr \in Int, NEW i \in Indices(b),
         NEW p, FoundOnSegment(b, p, tr, i),
         FirstOnSegment(b, i) = b.head_index \/ Sample(b, FirstOnSegment(b, i)).t <= tr,
         tr <= Sample(b, LastOnSegment(b, i)).t
  PROVE  Fits(b, p, tr)
<1>1. AreTimes(Times)
  BY ConstantsAre
<1>2. p \in Indices(b) /\ Sample(b, p).segment = Sample(b, i).segment
  <2>1. p \in Segment(b, i)
    BY DEF FoundOnSegment, Segment
  <2> QED
    BY ONLY <1>1, <2>1, IsBuffer(b, Times, Inputs), Kept(b), i \in Indices(b), OnSegment
<1>3. EventRightOf(b, p) <=> p = LastOnSegment(b, i)
  BY ONLY <1>1, <1>2, IsBuffer(b, Times, Inputs), Kept(b), i \in Indices(b), SameSegment
<1>4. p \in Int
  BY <1>2, IndicesAre
<1>5. Sample(b, p + 1).t \in Int /\ Sample(b, p).t \in Int
  <2>1. p + 1 \in Int
    BY <1>4
  <2> QED
    BY <1>1, <1>4, <2>1, SampleType, ConstantsAre
<1> QED
  BY <1>2, <1>3, <1>5 DEF Fits, FoundOnSegment

(***************************************************************************)
(* The invariant.                                                          *)
(***************************************************************************)

(* The samples reach back as far as the longest delay, or to the first one,*)
(* which is followed by an event.                                          *)
Covered ==
  \/ Sample(buffer, buffer.head_index).t + MaxDelay <= last + TimeOffset
  \/ /\ Sample(buffer, buffer.head_index).t = TimeOffset
     /\ Sample(buffer, buffer.head_index).segment # Sample(buffer, buffer.head_index + 1).segment

Sound ==
  /\ fixed \in BOOLEAN /\ no_event \in BOOLEAN
  /\ IsBuffer(buffer, Times, Inputs) /\ Kept(buffer)
  /\ buffer.size >= 2 /\ buffer.head_index \in Nat
  /\ Sample(buffer, TailIndex(buffer)).t = last + TimeOffset
  /\ Covered
  /\ curr_interval \in Nat
  /\ time \in 0 .. MaxTime /\ last \in 0 .. MaxTime /\ last <= time
  /\ next_event \in 0 .. Never
  /\ phase \in {"continuous", "crossing", "crossed", "event"}
  /\ phase = "event" => time = last
  /\ TimeEvents => time <= next_event

(* The events left of segment s are past, and e is the next one right of it*)
EarlierPast(b, s, t) == \A i \in Indices(b) : Sample(b, i).segment < s => Sample(b, i).t <= t

NextIs(b, s, e) ==
  \/ Sample(b, TailIndex(b)).segment = s /\ e = Never
  \/ \E i \in Indices(b) : /\ i < TailIndex(b) /\ Sample(b, i).t = e
                           /\ Sample(b, i).segment = s /\ Sample(b, i + 1).segment = s + 1

SegmentRight ==
  LET s == Sample(buffer, Clamped(buffer, curr_interval)).segment
  IN EarlierPast(buffer, s, last) /\ NextIs(buffer, s, next_event)

(* During event iteration the position is where the event is.              *)
AtEvent ==
  /\ curr_interval \in Indices(buffer) /\ curr_interval < TailIndex(buffer)
  /\ curr_interval = buffer.head_index \/ Sample(buffer, curr_interval).t <= last
  /\ Sample(buffer, curr_interval + 1).t > last

Asked ==
  TimeEvents /\ AlwaysActive =>
    /\ phase # "event" => SegmentRight
    /\ phase = "event" => AtEvent /\ NextEventAsked

IInv == Sound /\ Asked

LEMMA DelayedIs ==
  ASSUME Sound, NEW t \in last .. MaxTime, NEW d \in Delays
  PROVE  /\ t \in Int /\ TimeOffset \in Int /\ t + TimeOffset \in Times /\ Delayed(t, d) \in Int
         /\ Delayed(t, d) <= t + TimeOffset /\ - MaxDelay <= Delayed(t, d) /\ Delayed(t, d) <= MaxTime
         /\ (t + TimeOffset) - MaxDelay <= Delayed(t, d)
         /\ fixed => TimeOffset = MaxDelay /\ Delayed(t, d) = t
<1>1. MaxTime \in Nat /\ MaxDelay \in Nat /\ Never = MaxTime + MaxDelay + 1 /\ last \in 0 .. MaxTime
  BY ConstantsAre DEF Sound
<1>2. CASE fixed
  BY <1>1, <1>2 DEF Delayed, TimeOffset, Times
<1>3. CASE ~ fixed
  <2>1. d \in 0 .. MaxDelay
    BY <1>3 DEF Delays
  <2> QED
    BY <1>1, <1>3, <2>1 DEF Delayed, TimeOffset, Times
<1> QED
  BY <1>2, <1>3

(* Where a value is extrapolated unnoticed, it is the initial one.         *)
LEMMA FitsIsEnough ==
  ASSUME Sound, NEW t \in last .. MaxTime, NEW d \in Delays, NEW u,
         NEW c, IsBuffer(c, Times, Inputs), Kept(c), WithInput(buffer, c, u),
         NEW p, Fits(c, p, Delayed(t, d))
  PROVE  LET f == Interval(c, p)
             tr == Delayed(t, d)
         IN \/ f[1].t <= tr /\ tr <= f[2].t
            \/ tr < f[1].t /\ f[1] = f[2] /\ f[1].t = TimeOffset
<1> DEFINE tr == Delayed(t, d)
           h == buffer.head_index
           first == Sample(c, p)
           second == IF EventRightOf(c, p) THEN first ELSE Sample(c, p + 1)
<1>1. Interval(c, p)[1] = first /\ Interval(c, p)[2] = second
  BY DEF Interval
<1>2. /\ tr \in Int /\ (t + TimeOffset) - MaxDelay <= tr /\ t \in Int /\ last \in Int /\ last <= t
      /\ TimeOffset \in Int /\ MaxDelay \in Int
  BY DelayedIs, ConstantsAre DEF Sound
<1>3. h \in Int /\ TailIndex(buffer) \in Int /\ h < TailIndex(buffer)
  BY IndicesAre DEF Sound
<1>4. Sample(c, h) = Sample(buffer, h) /\ Sample(c, h + 1) = Sample(buffer, h + 1) /\ c.head_index = h
  BY <1>3 DEF WithInput, InPlace
<1>5. tr <= second.t
  BY DEF Fits
<1>6. first.t \in Int
  <2>1. p \in Int
    BY IndicesAre DEF Fits
  <2> QED
    BY <2>1, SampleType, ConstantsAre
<1>7. CASE first.t <= tr
  BY <1>1, <1>5, <1>7
<1>8. CASE tr < first.t
  <2>1. p = h
    BY <1>2, <1>4, <1>6, <1>8 DEF Fits
  <2>2. ~ (Sample(buffer, h).t + MaxDelay <= last + TimeOffset)
    BY <1>2, <1>4, <1>6, <1>8, <2>1
  <2>3. Sample(buffer, h).t = TimeOffset /\ Sample(buffer, h).segment # Sample(buffer, h + 1).segment
    BY <2>2 DEF Sound, Covered
  <2>4. EventRightOf(c, p)
    BY <1>4, <2>1, <2>3 DEF EventRightOf
  <2> QED
    BY <1>1, <1>4, <1>8, <2>1, <2>3, <2>4
<1> QED
  BY <1>2, <1>6, <1>7, <1>8

LEMMA ClampedWithInput ==
  ASSUME NEW b, IsBuffer(b, Times, Inputs), b.size > 0, NEW t, NEW index \in Int,
         NEW c, IsBuffer(c, Times, Inputs), WithInput(b, c, t)
  PROVE  Sample(c, Clamped(c, index)).segment = Sample(b, Clamped(b, index)).segment
<1>1. /\ b.head_index \in Int /\ TailIndex(b) \in Int /\ b.head_index <= TailIndex(b)
      /\ Indices(b) = b.head_index .. TailIndex(b)
  BY IndicesAre
<1>2. /\ c.head_index = b.head_index /\ Indices(c) = b.head_index .. TailIndex(c)
      /\ TailIndex(c) = TailIndex(b) \/ TailIndex(c) = TailIndex(b) + 1
      /\ \A i \in b.head_index .. TailIndex(b) : Sample(c, i) = Sample(b, i)
      /\ Sample(c, TailIndex(c)).segment = Sample(b, TailIndex(b)).segment
  BY IndicesAre DEF WithInput, InPlace
<1>3. c.size > 0
  <2>1. TailIndex(c) = (c.head_index + c.size) - 1 /\ c.size \in Nat /\ c.head_index \in Int
    BY IndicesAre
  <2> QED
    BY <1>1, <1>2, <2>1
<1>4. /\ index \in Indices(b) => Clamped(b, index) = index
      /\ index < b.head_index => Clamped(b, index) = b.head_index
      /\ index > TailIndex(b) => Clamped(b, index) = TailIndex(b)
  BY ClampedAt
<1>5. /\ index \in Indices(c) => Clamped(c, index) = index
      /\ index < b.head_index => Clamped(c, index) = b.head_index
      /\ index > TailIndex(c) => Clamped(c, index) = TailIndex(c)
  BY <1>2, <1>3, ClampedAt
<1>6. CASE index < b.head_index
  BY <1>1, <1>2, <1>4, <1>5, <1>6
<1>7. CASE index \in Indices(b)
  <2>1. index \in Indices(c)
    BY <1>1, <1>2, <1>7
  <2> QED
    BY <1>1, <1>2, <1>4, <1>5, <1>7, <2>1
<1>8. CASE index > TailIndex(b)
  <2>1. Clamped(c, index) = TailIndex(c)
    BY <1>1, <1>2, <1>5, <1>8
  <2> QED
    BY <1>2, <1>4, <1>8, <2>1
<1> QED
  BY <1>1, <1>6, <1>7, <1>8

(* The start of a segment is past if the events left of it are.            *)
LEMMA FirstIsPast ==
  ASSUME NEW b, IsBuffer(b, Times, Inputs), Kept(b), NEW i \in Indices(b), NEW t \in Int,
         EarlierPast(b, Sample(b, i).segment, t)
  PROVE  FirstOnSegment(b, i) = b.head_index \/ Sample(b, FirstOnSegment(b, i)).t <= t
<1> DEFINE first == FirstOnSegment(b, i)
<1>1. SegmentFound(b, i)
  BY DEF Kept
<1>2. first \in b.head_index .. i /\ Sample(b, first).segment = Sample(b, i).segment /\ EventLeftOf(b, first)
  BY <1>1 DEF SegmentFound
<1>3. /\ b.head_index \in Int /\ TailIndex(b) \in Int /\ i \in b.head_index .. TailIndex(b)
      /\ Indices(b) = b.head_index .. TailIndex(b)
  BY IndicesAre
<1> HIDE DEF first
<1>4. CASE first # b.head_index
  <2>1. first - 1 \in Indices(b) /\ first - 1 # TailIndex(b) /\ (first - 1) + 1 = first /\ ~ (first <= b.head_index)
    BY <1>2, <1>3, <1>4
  <2>2. EventRightOf(b, first - 1)
    BY <1>2, <2>1 DEF EventLeftOf, EventRightOf
  <2> DEFINE k == first - 1
  <2>3. k \in Indices(b) /\ k # TailIndex(b) /\ EventRightOf(b, k) /\ k + 1 = first
    BY <2>1, <2>2
  <2> HIDE DEF k
  <2>4. Sample(b, first).segment = Sample(b, k).segment + 1 /\ Sample(b, first).t = Sample(b, k).t
    BY <2>3, Neighbours
  <2>5. Sample(b, k).segment \in Int
    BY <1>3, <2>3, SampleType
  <2>6. Sample(b, k).segment < Sample(b, i).segment
    BY <1>2, <2>4, <2>5
  <2> QED
    BY <2>3, <2>4, <2>6 DEF EarlierPast, first
<1> QED
  BY <1>4 DEF first

LEMMA ExtrapolationIsSignalled == Sound /\ Asked => ExtrapolationSignalled
<1> SUFFICES ASSUME Sound, Asked, phase # "event", AlwaysActive,
                    NEW t \in Trial, NEW y \in Values, NEW d \in Delays
             PROVE  LET b == WithCurrent(buffer, t + TimeOffset, y, TRUE)
                        tr == Delayed(t, d)
                        index == PositionEvaluated(b, no_event, tr, curr_interval)
                        f == Interval(b, index)
                        inside == f[1].t <= tr /\ tr <= f[2].t
                        before == tr < f[1].t /\ f[1] = f[2] /\ f[1].t = TimeOffset
                        signalled == Crosses(WithoutCurrent(b, buffer.size, TRUE), index, tr)
                    IN (inside => ~signalled) /\ (inside \/ before \/ signalled)
  BY DEF ExtrapolationSignalled
<1> DEFINE u == t + TimeOffset
           tr == Delayed(t, d)
           c == WithCurrent(buffer, u, y, TRUE)
           e == WithoutCurrent(c, buffer.size, TRUE)
           p == PositionEvaluated(c, no_event, tr, curr_interval)
           f == Interval(c, p)
           inside == f[1].t <= tr /\ tr <= f[2].t
           before == tr < f[1].t /\ f[1] = f[2] /\ f[1].t = TimeOffset
           signalled == Crosses(e, p, tr)
<1>1. t \in last .. MaxTime /\ (TimeEvents => t <= next_event) /\ last \in 0 .. MaxTime
  BY DEF Trial, Sound
<1>2. /\ t \in Int /\ u \in Times /\ u \in Int /\ tr \in Int /\ tr <= u /\ - MaxDelay <= tr /\ tr <= MaxTime
      /\ fixed => tr = t
  BY <1>1, DelayedIs
<1>3. /\ IsBuffer(buffer, Times, Inputs) /\ Kept(buffer) /\ buffer.size > 0 /\ curr_interval \in Int
      /\ buffer.head_index \in Int /\ TailIndex(buffer) \in Int /\ buffer.head_index < TailIndex(buffer)
      /\ no_event \in BOOLEAN /\ fixed \in BOOLEAN
  BY IndicesAre DEF Sound
<1>4. y \in Inputs /\ AreTimes(Times) /\ MaxTime \in Nat /\ MaxDelay \in Nat /\ Never = MaxTime + MaxDelay + 1
  BY ConstantsAre
<1> HIDE DEF u, tr
<1>5. /\ IsBuffer(c, Times, Inputs) /\ Kept(c) /\ WithInput(buffer, c, u)
      /\ IsBuffer(e, Times, Inputs) /\ Stays(buffer, e) /\ SameSamples(c, e)
  BY <1>2, <1>3, <1>4, InputPut
<1> HIDE DEF e, c
<1>6. /\ c.head_index = buffer.head_index /\ e.head_index = buffer.head_index /\ e.size > 0
      /\ TailIndex(c) = (c.head_index + c.size) - 1 /\ c.size \in Nat /\ TailIndex(c) \in Int
      /\ Indices(c) = c.head_index .. TailIndex(c)
      /\ TailIndex(buffer) <= TailIndex(c) /\ TailIndex(e) = TailIndex(buffer) /\ u <= Sample(c, TailIndex(c)).t
  <2>1. TailIndex(c) = (c.head_index + c.size) - 1 /\ c.size \in Nat /\ TailIndex(c) \in Int /\ Indices(c) = c.head_index .. TailIndex(c)
    BY <1>5, IndicesAre
  <2>2. e.head_index = buffer.head_index /\ e.size = buffer.size
    BY <1>5 DEF Stays, Unchanged
  <2>3. TailIndex(e) = TailIndex(buffer)
    BY <2>2 DEF TailIndex
  <2> QED
    BY <1>3, <1>5, <2>1, <2>2, <2>3 DEF WithInput
<1>7. c.size > 1
  BY <1>3, <1>6
<1>8. p = Position(c, no_event, tr, curr_interval)
  BY <1>6, <1>7 DEF PositionEvaluated
<1>9. tr <= Sample(c, TailIndex(c)).t
  <2>1. Sample(c, TailIndex(c)).t \in Int
    BY <1>4, <1>5, <1>6, SampleType, ConstantsAre
  <2> QED
    BY <1>2, <1>6, <2>1
<1>10. Fits(c, p, tr) => inside \/ before
  <2> HIDE DEF p
  <2> QED
    BY <1>1, <1>5, FitsIsEnough DEF tr
<1>11. CASE no_event
  <2>1. p = Position(c, TRUE, tr, curr_interval)
    BY <1>3, <1>8, <1>11
  <2>2. FoundAcross(c, p, tr)
    BY <1>2, <1>3, <1>4, <1>5, <1>7, <2>1, PositionAcross
  <2> HIDE DEF p
  <2>3. Fits(c, p, tr)
    BY <1>2, <1>5, <1>7, <1>9, <2>2, AcrossFits
  <2>4. ~ signalled
    BY <1>11 DEF Crosses, StateEvents
  <2> QED
    BY <1>10, <2>3, <2>4 DEF c, e, p, tr, u
<1>12. CASE ~ no_event
  <2> DEFINE i == Clamped(c, curr_interval)
             first == FirstOnSegment(c, i)
             final == LastOnSegment(c, i)
  <2>1. p = Position(c, FALSE, tr, curr_interval)
    BY <1>3, <1>8, <1>12
  <2>2. FoundOnSegment(c, p, tr, i)
    BY <1>2, <1>3, <1>4, <1>5, <1>7, <2>1, PositionOnSegment
  <2> HIDE DEF p
  <2>3. i \in Indices(c)
    <3>1. IsBuffer(c, Times, Inputs) /\ c.size > 0 /\ curr_interval \in Int
      BY <1>3, <1>5, <1>6, <1>7
    <3>2. Clamped(c, curr_interval) \in Indices(c)
      BY ONLY <3>1, ClampedAt, Zenon
    <3> QED
      BY <3>2
  <2> HIDE DEF i
  <2>4. p \in Indices(c) /\ Sample(c, p).segment = Sample(c, i).segment
        /\ FirstOnSegment(c, p) = first /\ LastOnSegment(c, p) = final
    <3>1. p \in Segment(c, i)
      BY <2>2 DEF FoundOnSegment, Segment
    <3> QED
      BY ONLY <1>4, <1>5, <2>3, <3>1, OnSegment
  <2>5. SegmentFound(c, i) /\ SegmentFound(c, p) /\ Ordered(c)
    BY <1>5, <2>3, <2>4 DEF Kept
  <2>6. first \in Indices(c) /\ final \in Indices(c) /\ first \in Int /\ final \in Int /\ p \in Int
        /\ first <= p /\ p <= final /\ c.head_index <= first /\ final <= TailIndex(c)
    BY <1>3, <1>6, <2>4, <2>5 DEF SegmentFound
  <2>7. \A k \in Int : Sample(c, k).t \in Int /\ Sample(c, k).segment \in Int
    BY <1>5, SampleType, ConstantsAre
  <2>8. (first = c.head_index \/ Sample(c, first).t <= tr) /\ tr <= Sample(c, final).t => Fits(c, p, tr)
    BY <1>2, <1>5, <2>2, <2>3, OnSegmentFits
  <2>9. inside => Sample(c, first).t <= tr /\ tr <= Sample(c, final).t
    <3>1. Sample(c, first).t <= Sample(c, p).t /\ Sample(c, p).t <= Sample(c, final).t
      BY <2>4, <2>5, <2>6 DEF Ordered
    <3>2. ~ EventRightOf(c, p) => p + 1 \in Indices(c) /\ Sample(c, p + 1).t <= Sample(c, final).t
      <4>1. SUFFICES ASSUME ~ EventRightOf(c, p)
                     PROVE  p + 1 \in Indices(c) /\ Sample(c, p + 1).t <= Sample(c, final).t
        OBVIOUS
      <4>2. p # final
        BY <2>4, <2>5, <4>1 DEF SegmentFound
      <4>3. p + 1 \in Indices(c) /\ p + 1 <= final
        BY <1>3, <1>6, <2>4, <2>6, <4>2
      <4> QED
        BY <2>5, <2>6, <4>3 DEF Ordered
    <3>3. f[1] = Sample(c, p) /\ f[2] = IF EventRightOf(c, p) THEN Sample(c, p) ELSE Sample(c, p + 1)
      BY DEF Interval
    <3>4. p + 1 \in Int
      BY <2>6
    <3> HIDE DEF f, first, final
    <3> QED
      BY <1>2, <2>6, <2>7, <3>1, <3>2, <3>3, <3>4
  <2>10. CASE fixed
    <3>1. ~ signalled
      BY <2>10 DEF Crosses, StateEvents
    <3>2. TimeEvents
      BY <1>12, <2>10 DEF TimeEvents
    <3>3. SegmentRight /\ t <= next_event /\ tr = t
      BY <1>1, <1>2, <2>10, <3>2 DEF Asked
    <3> DEFINE s == Sample(buffer, Clamped(buffer, curr_interval)).segment
    <3>4. EarlierPast(buffer, s, last) /\ NextIs(buffer, s, next_event)
      BY <3>3 DEF SegmentRight
    <3>5. Sample(c, i).segment = s
      BY <1>3, <1>5, ClampedWithInput DEF i
    <3> HIDE DEF s
    <3>11. /\ Indices(buffer) = buffer.head_index .. TailIndex(buffer)
           /\ TailIndex(c) = TailIndex(buffer) \/ TailIndex(c) = TailIndex(buffer) + 1
      BY <1>3, <1>5, IndicesAre DEF WithInput
    <3>6. \A k \in Indices(buffer) : k \in Indices(c) /\ Sample(c, k) = Sample(buffer, k)
      BY <1>3, <1>5, <1>6, <3>11 DEF WithInput, InPlace
    <3>7. EarlierPast(c, s, last)
      <4>1. ASSUME NEW k \in Indices(c), Sample(c, k).segment < s
            PROVE  Sample(c, k).t <= last
        <5>1. k \in Indices(buffer) \/ k = TailIndex(c)
          BY <1>3, <1>6, <3>11
        <5>2. CASE k = TailIndex(c)
          <6>1. Sample(c, i).segment <= Sample(c, k).segment
            BY <1>3, <1>6, <2>3, <2>5, <5>2 DEF Ordered
          <6>2. i \in Int /\ k \in Int
            BY <1>6, <2>3, <5>2
          <6> QED
            BY <2>7, <3>5, <4>1, <6>1, <6>2
        <5>3. CASE k \in Indices(buffer)
          BY <3>4, <3>6, <4>1, <5>3 DEF EarlierPast
        <5> QED
          BY <5>1, <5>2, <5>3
      <4> QED
        BY <4>1 DEF EarlierPast
    <3>8. first = c.head_index \/ Sample(c, first).t <= last
      BY <1>1, <1>5, <2>3, <3>5, <3>7, FirstIsPast
    <3>9. t <= Sample(c, final).t
      <4>1. CASE Sample(buffer, TailIndex(buffer)).segment = s
        <5>1. Sample(c, TailIndex(c)).segment = Sample(c, i).segment /\ TailIndex(c) \in Indices(c)
          BY <1>3, <1>5, <1>6, <3>5, <4>1 DEF WithInput
        <5>2. final \in TailIndex(c) .. TailIndex(c)
          BY ONLY <1>4, <1>5, <2>3, <5>1, SameSegment
        <5>3. final = TailIndex(c)
          BY <1>6, <5>2
        <5> QED
          BY <1>9, <3>3, <5>3
      <4>2. CASE \E k \in Indices(buffer) : /\ k < TailIndex(buffer) /\ Sample(buffer, k).t = next_event
                                           /\ Sample(buffer, k).segment = s /\ Sample(buffer, k + 1).segment = s + 1
        <5>1. PICK k \in Indices(buffer) : Sample(buffer, k).t = next_event /\ Sample(buffer, k).segment = s
          BY <4>2
        <5>2. k \in Indices(c) /\ Sample(c, k).t = next_event /\ Sample(c, k).segment = Sample(c, i).segment
          BY <3>5, <3>6, <5>1
        <5>3. final \in k .. TailIndex(c)
          BY ONLY <1>4, <1>5, <2>3, <5>2, SameSegment
        <5>4. k \in Int /\ k <= final
          BY <1>6, <2>6, <5>2, <5>3
        <5>5. Sample(c, k).t <= Sample(c, final).t
          BY <2>5, <2>6, <5>2, <5>4 DEF Ordered
        <5>6. next_event \in Int /\ Sample(c, final).t \in Int
          BY <2>6, <2>7, <5>2, <5>4
        <5> QED
          BY <1>2, <3>3, <5>2, <5>5, <5>6
      <4> QED
        BY <3>4, <4>1, <4>2 DEF NextIs
    <3>10. first = c.head_index \/ Sample(c, first).t <= tr
      BY <1>1, <1>2, <2>6, <2>7, <3>3, <3>8
    <3> QED
      BY <1>10, <2>8, <3>1, <3>3, <3>9, <3>10 DEF c, e, p, tr, u
  <2>11. CASE ~ fixed
    <3>1. signalled <=> (tr < PreviousEventTime(e, p, -MaxDelay) \/ NextEventTime(e, p, Never) < tr)
      BY <1>12, <2>11 DEF Crosses, StateEvents
    <3>2. /\ FirstOnSegment(e, p) = first
          /\ final = TailIndex(c) => LastOnSegment(e, p) = TailIndex(e)
          /\ final # TailIndex(c) => LastOnSegment(e, p) = final /\ final < TailIndex(e)
      BY ONLY <1>3, <1>5, <2>4, EventsWithInput
    <3>3. \A k \in Int : Sample(e, k) = Sample(c, k)
      BY <1>5 DEF SameSamples
    <3>4. ~ (e.size <= 0) /\ TailIndex(e) \in Int
      BY <1>3, <1>5, <1>6 DEF Stays, Unchanged, IsBuffer
    <3>5. PreviousEventTime(e, p, -MaxDelay) = IF first <= c.head_index THEN -MaxDelay ELSE Sample(c, first).t
      BY <1>6, <2>6, <3>2, <3>3, <3>4 DEF PreviousEventTime
    <3>6. NextEventTime(e, p, Never) = IF final = TailIndex(c) THEN Never ELSE Sample(c, final).t
      BY <1>6, <2>6, <3>2, <3>3, <3>4 DEF NextEventTime
    <3>7. ~ (tr < - MaxDelay) /\ ~ (Never < tr)
      BY <1>2, <1>4
    <3>8. inside => ~ signalled
      <4> HIDE DEF inside, signalled, first, final
      <4> QED
        BY <1>2, <2>6, <2>7, <2>9, <3>1, <3>5, <3>6, <3>7
    <3>9. ~ signalled => (first = c.head_index \/ Sample(c, first).t <= tr) /\ tr <= Sample(c, final).t
      <4> HIDE DEF inside, signalled, first, final
      <4> QED
        BY <1>2, <1>3, <1>6, <1>9, <2>6, <2>7, <3>1, <3>5, <3>6
    <3> QED
      BY <1>10, <2>8, <3>8, <3>9 DEF c, e, p, tr, u
  <2> QED
    BY <2>10, <2>11
<1> QED
  BY <1>11, <1>12

LEMMA HistoryIsSound == Sound /\ Asked => HistorySound
<1> SUFFICES ASSUME Sound, Asked
             PROVE  HistorySound
  OBVIOUS
<1>1. IsBuffer(buffer, Times, Inputs) /\ Kept(buffer) /\ buffer.size >= 2 /\ AreTimes(Times)
  BY ConstantsAre DEF Sound
<1>2. TypeOK
  <2>1. /\ buffer.capacity \in Nat /\ buffer.event_capacity \in Nat
        /\ buffer.size \in 1 .. buffer.capacity
    BY <1>1 DEF IsBuffer
  <2>2. /\ buffer.buf \in [0 .. buffer.capacity - 1 -> [t : 0 .. Never, y : Values \cup {0}, segment : Int]]
        /\ buffer.event_buf \in [0 .. buffer.event_capacity - 1 -> Int]
    BY <1>1 DEF IsBuffer, Times, Inputs
  <2> QED
    BY <2>1, <2>2 DEF Sound, TypeOK
<1>3. BufferOK
  <2>1. SamplesOrdered(buffer)
    BY <1>1 DEF Kept
  <2>2. ASSUME NEW i \in Indices(buffer)
        PROVE  /\ EventLeftOf(buffer, i) => SampleLeftOf(buffer, Sample(buffer, i).segment) = i - 1
               /\ EventRightOf(buffer, i) => SampleLeftOf(buffer, Sample(buffer, i).segment + 1) = i
    <3>1. /\ EventLeftOf(buffer, i) <=> i = FirstOnSegment(buffer, i)
          /\ EventRightOf(buffer, i) <=> i = LastOnSegment(buffer, i)
      BY ONLY <1>1, i \in Indices(buffer), SameSegment
    <3>2. Sample(buffer, i).segment \in Int
      BY <1>1, IndicesAre, SampleType
    <3>3. SampleLeftOf(buffer, Sample(buffer, i).segment) \in Int
      BY <1>1, <3>2, SampleType
    <3> QED
      BY <3>1, <3>3 DEF FirstOnSegment, LastOnSegment
  <2> QED
    BY <2>1, <2>2 DEF BufferOK, EventsFound, Sound
<1>4. ExtrapolationSignalled
  BY ExtrapolationIsSignalled
<1> QED
  BY <1>2, <1>3, <1>4 DEF HistorySound

LEMMA NextEventIsAsked == Sound /\ Asked => NextEventAsked
<1> SUFFICES ASSUME Sound, Asked, TimeEvents, AlwaysActive
             PROVE  NextEventAsked
  BY DEF NextEventAsked
<1>1. CASE phase = "event"
  BY <1>1 DEF Asked
<1>2. CASE phase # "event"
  <2> DEFINE s == Sample(buffer, Clamped(buffer, curr_interval)).segment
             r == TailIndex(buffer)
  <2>1. EarlierPast(buffer, s, last) /\ NextIs(buffer, s, next_event)
    BY <1>2 DEF Asked, SegmentRight
  <2>2. /\ IsBuffer(buffer, Times, Inputs) /\ Kept(buffer) /\ buffer.size > 0 /\ curr_interval \in Int
        /\ r \in Int /\ r \in Indices(buffer) /\ \A i \in Indices(buffer) : i \in Int /\ i <= r
        /\ last \in Int /\ next_event \in Int
    <3>1. last \in 0 .. MaxTime /\ next_event \in 0 .. Never /\ MaxTime \in Int /\ Never \in Int
      BY ConstantsAre DEF Sound
    <3> QED
      BY <3>1, IndicesAre DEF Sound
  <2>3. \A i \in Int : Sample(buffer, i).t \in Int /\ Sample(buffer, i).segment \in Int
    BY <2>2, SampleType, ConstantsAre
  <2>4. s \in Int
    BY <2>2, <2>3, ClampedAt
  <2> HIDE DEF s, r
  <2>5. Ordered(buffer)
    BY <2>2 DEF Kept
  <2>6. \A i : buffer.buf[i % buffer.capacity].t = Sample(buffer, i).t
    BY DEF Sample
  <2>7. ASSUME NEW j \in Indices(buffer), j < r, EventRightOf(buffer, j)
        PROVE  ~ (last < Sample(buffer, j).t /\ Sample(buffer, j).t < next_event)
    <3>1. j + 1 \in Indices(buffer) /\ Sample(buffer, j + 1).segment = Sample(buffer, j).segment + 1
      <4>1. j # TailIndex(buffer)
        BY <2>2, <2>7 DEF r
      <4> QED
        BY <2>2, <2>7, <4>1, Neighbours
    <3>2. CASE Sample(buffer, j).segment < s
      BY <2>1, <2>2, <2>3, <3>2 DEF EarlierPast
    <3>3. CASE Sample(buffer, j).segment >= s
      <4>1. Sample(buffer, r).segment # s
        <5>1. Sample(buffer, j + 1).segment <= Sample(buffer, r).segment
          BY <2>2, <2>5, <3>1 DEF Ordered
        <5> QED
          BY <2>2, <2>3, <2>4, <3>1, <3>3, <5>1
      <4>2. PICK i \in Indices(buffer) : Sample(buffer, i).t = next_event /\ Sample(buffer, i).segment = s
                                         /\ Sample(buffer, i + 1).segment = s + 1 /\ i < r
        BY <2>1, <4>1 DEF NextIs, r
      <4>3. i <= j
        <5>1. SUFFICES ASSUME j + 1 <= i
                       PROVE  FALSE
          BY <2>2
        <5>2. Sample(buffer, j + 1).segment <= Sample(buffer, i).segment
          BY <2>5, <3>1, <4>2, <5>1 DEF Ordered
        <5> QED
          BY <2>2, <2>3, <2>4, <3>1, <3>3, <4>2, <5>2
      <4>4. Sample(buffer, i).t <= Sample(buffer, j).t
        BY <2>5, <4>2, <4>3 DEF Ordered
      <4> QED
        BY <2>2, <2>3, <4>2, <4>4
    <3> QED
      BY <2>2, <2>3, <2>4, <3>2, <3>3
  <2>8. next_event \in EventTimes \cup {Never}
    <3>1. CASE next_event = Never
      BY <3>1
    <3>2. CASE next_event # Never
      <4>1. PICK i \in Indices(buffer) : /\ i < r /\ Sample(buffer, i).t = next_event
                                         /\ Sample(buffer, i).segment = s /\ Sample(buffer, i + 1).segment = s + 1
        BY <2>1, <3>2 DEF NextIs, r
      <4>2. EventRightOf(buffer, i)
        BY <2>4, <4>1 DEF EventRightOf
      <4> QED
        BY <2>6, <4>1, <4>2 DEF EventTimes, r
    <3> QED
      BY <3>1, <3>2
  <2>9. \A e \in EventTimes : ~ (last < e /\ e < next_event)
    BY <2>6, <2>7 DEF EventTimes, r
  <2> QED
    BY <2>8, <2>9 DEF NextEventAsked
<1> QED
  BY <1>1, <1>2

(***************************************************************************)
(* The steps.                                                              *)
(***************************************************************************)
LEMMA StaysAs ==
  ASSUME NEW b, IsBuffer(b, Times, Inputs), NEW e, Stays(b, e)
  PROVE  /\ e.head_index = b.head_index /\ e.size = b.size /\ Kept(e)
         /\ TailIndex(e) = TailIndex(b) /\ Indices(e) = Indices(b)
         /\ \A i \in Indices(b) : Sample(e, i) = Sample(b, i)
         /\ \A i \in Indices(b) : i # TailIndex(b) => i + 1 \in Indices(b)
         /\ \A i : Clamped(e, i) = Clamped(b, i)
<1>1. e.head_index = b.head_index /\ e.size = b.size /\ Kept(e) /\ InPlace(b, e, b.head_index, TailIndex(b))
  BY DEF Stays, Unchanged
<1>2. TailIndex(e) = TailIndex(b)
  BY <1>1 DEF TailIndex
<1>3. /\ Indices(b) = b.head_index .. TailIndex(b) /\ Indices(e) = e.head_index .. TailIndex(e)
      /\ b.head_index \in Int /\ TailIndex(b) \in Int
  <2>1. Indices(b) = b.head_index .. TailIndex(b) /\ b.head_index \in Int /\ TailIndex(b) \in Int
    BY IndicesAre
  <2> QED
    BY <2>1 DEF Indices
<1> QED
  BY <1>1, <1>2, <1>3 DEF InPlace, Clamped

LEMMA SegmentStays ==
  ASSUME NEW b, IsBuffer(b, Times, Inputs), b.size > 0, NEW e, Stays(b, e), NEW s, NEW t,
         EarlierPast(b, s, t), NEW x, NextIs(b, s, x)
  PROVE  EarlierPast(e, s, t) /\ NextIs(e, s, x)
<1>1. EarlierPast(e, s, t)
  BY StaysAs DEF EarlierPast
<1>2. NextIs(e, s, x)
  <2>1. CASE Sample(b, TailIndex(b)).segment = s /\ x = Never
    <3>1. TailIndex(b) \in Indices(b)
      BY IndicesAre
    <3> QED
      BY <2>1, <3>1, StaysAs DEF NextIs
  <2>2. CASE \E i \in Indices(b) : /\ i < TailIndex(b) /\ Sample(b, i).t = x
                                   /\ Sample(b, i).segment = s /\ Sample(b, i + 1).segment = s + 1
    <3>1. PICK i \in Indices(b) : /\ i < TailIndex(b) /\ Sample(b, i).t = x
                                  /\ Sample(b, i).segment = s /\ Sample(b, i + 1).segment = s + 1
      BY <2>2
    <3>2. i \in Int /\ TailIndex(b) \in Int
      BY IndicesAre
    <3>3. i # TailIndex(b)
      BY <3>1, <3>2
    <3>4. i + 1 \in Indices(b)
      BY <3>3, StaysAs
    <3> QED
      BY <3>1, <3>4, StaysAs DEF NextIs
  <2> QED
    BY <2>1, <2>2 DEF NextIs
<1> QED
  BY <1>1, <1>2

LEMMA NothingStays ==
  ASSUME NEW b, Kept(b)
  PROVE  Stays(b, b)
BY DEF Stays, Unchanged, InPlace

(* The position in a segment, or across events, for an evaluation.         *)
LEMMA WithinSegment ==
  ASSUME Sound, NEW t \in last .. MaxTime, NEW y \in Values, NEW d \in Delays
  PROVE  LET c == WithCurrent(buffer, t + TimeOffset, y, TRUE)
             e == WithoutCurrent(c, buffer.size, TRUE)
             p == PositionEvaluated(c, FALSE, Delayed(t, d), curr_interval)
         IN /\ IsBuffer(e, Times, Inputs) /\ Stays(buffer, e) /\ p \in Nat
            /\ Sample(e, Clamped(e, p)).segment = Sample(buffer, Clamped(buffer, curr_interval)).segment
<1> DEFINE u == t + TimeOffset
           tr == Delayed(t, d)
           c == WithCurrent(buffer, u, y, TRUE)
           e == WithoutCurrent(c, buffer.size, TRUE)
           p == PositionEvaluated(c, FALSE, tr, curr_interval)
           i == Clamped(c, curr_interval)
<1>1. u \in Times /\ tr \in Int /\ AreTimes(Times) /\ y \in Inputs
  BY DelayedIs, ConstantsAre
<1> HIDE DEF u, tr
<1>2. /\ IsBuffer(buffer, Times, Inputs) /\ Kept(buffer) /\ buffer.size > 0 /\ curr_interval \in Int
      /\ buffer.head_index \in Nat /\ TailIndex(buffer) \in Int /\ buffer.head_index < TailIndex(buffer)
  BY IndicesAre DEF Sound
<1>3. /\ IsBuffer(c, Times, Inputs) /\ Kept(c) /\ WithInput(buffer, c, u)
      /\ IsBuffer(e, Times, Inputs) /\ Stays(buffer, e) /\ SameSamples(c, e)
  BY <1>1, <1>2, InputPut
<1> HIDE DEF e, c
<1>4. /\ c.head_index = buffer.head_index /\ TailIndex(c) = (c.head_index + c.size) - 1 /\ c.size \in Nat
      /\ Indices(c) = c.head_index .. TailIndex(c) /\ TailIndex(buffer) <= TailIndex(c) /\ TailIndex(c) \in Int
  <2>1. /\ TailIndex(c) = (c.head_index + c.size) - 1 /\ c.size \in Nat /\ TailIndex(c) \in Int
        /\ Indices(c) = c.head_index .. TailIndex(c)
    BY <1>3, IndicesAre
  <2> QED
    BY <1>2, <1>3, <2>1 DEF WithInput
<1>5. c.size > 1 /\ c.size > 0 /\ ~ (c.size <= 1)
  BY <1>2, <1>4
<1>6. p = Position(c, FALSE, tr, curr_interval)
  BY <1>5, Zenon DEF PositionEvaluated
<1>7. FoundOnSegment(c, p, tr, i)
  BY <1>1, <1>2, <1>3, <1>5, <1>6, PositionOnSegment
<1> HIDE DEF p
<1>8. i \in Indices(c)
  BY <1>2, <1>3, <1>5, <1>4, ClampedAt
<1> HIDE DEF i
<1>9. p \in Indices(c) /\ Sample(c, p).segment = Sample(c, i).segment
  <2>1. p \in Segment(c, i)
    BY <1>7 DEF FoundOnSegment, Segment
  <2> QED
    BY ONLY <1>1, <1>3, <1>8, <2>1, OnSegment
<1>10. p \in Nat /\ p \in Int
  BY <1>2, <1>4, <1>9
<1>11. Sample(c, i).segment = Sample(buffer, Clamped(buffer, curr_interval)).segment
  BY <1>2, <1>3, ClampedWithInput DEF i
<1>12. Clamped(c, p) = p
  BY <1>3, <1>4, <1>5, <1>9, <1>10, ClampedAt
<1>13. Sample(c, Clamped(c, p)).segment = Sample(buffer, Clamped(buffer, p)).segment
  BY <1>2, <1>3, <1>10, ClampedWithInput
<1>14. Sample(e, Clamped(e, p)).segment = Sample(buffer, Clamped(buffer, p)).segment
  <2>1. Clamped(e, p) = Clamped(buffer, p)
    BY <1>2, <1>3, StaysAs
  <2>2. Clamped(buffer, p) \in Indices(buffer)
    BY <1>2, <1>10, ClampedAt
  <2> QED
    BY <1>2, <1>3, <2>1, <2>2, StaysAs
<1> QED
  BY <1>3, <1>9, <1>10, <1>11, <1>12, <1>13, <1>14 DEF c, e, p, u, tr

LEMMA AcrossEvents ==
  ASSUME Sound, NEW t \in last .. MaxTime, NEW y \in Values, NEW d \in Delays
  PROVE  LET c == WithCurrent(buffer, t + TimeOffset, y, TRUE)
             e == WithoutCurrent(c, buffer.size, TRUE)
             p == PositionEvaluated(c, TRUE, Delayed(t, d), curr_interval)
         IN /\ IsBuffer(e, Times, Inputs) /\ Stays(buffer, e) /\ p \in Nat
            /\ WithInput(buffer, c, t + TimeOffset) /\ FoundAcross(c, p, Delayed(t, d))
<1> DEFINE u == t + TimeOffset
           tr == Delayed(t, d)
           c == WithCurrent(buffer, u, y, TRUE)
           e == WithoutCurrent(c, buffer.size, TRUE)
           p == PositionEvaluated(c, TRUE, tr, curr_interval)
<1>1. u \in Times /\ tr \in Int /\ AreTimes(Times) /\ y \in Inputs
  BY DelayedIs, ConstantsAre
<1> HIDE DEF u, tr
<1>2. /\ IsBuffer(buffer, Times, Inputs) /\ Kept(buffer) /\ buffer.size > 0 /\ curr_interval \in Int
      /\ buffer.head_index \in Nat /\ TailIndex(buffer) \in Int /\ buffer.head_index < TailIndex(buffer)
  BY IndicesAre DEF Sound
<1>3. /\ IsBuffer(c, Times, Inputs) /\ Kept(c) /\ WithInput(buffer, c, u)
      /\ IsBuffer(e, Times, Inputs) /\ Stays(buffer, e) /\ SameSamples(c, e)
  BY <1>1, <1>2, InputPut
<1> HIDE DEF e, c
<1>4. /\ c.head_index = buffer.head_index /\ TailIndex(c) = (c.head_index + c.size) - 1 /\ c.size \in Nat
      /\ Indices(c) = c.head_index .. TailIndex(c) /\ TailIndex(buffer) <= TailIndex(c) /\ TailIndex(c) \in Int
  <2>1. /\ TailIndex(c) = (c.head_index + c.size) - 1 /\ c.size \in Nat /\ TailIndex(c) \in Int
        /\ Indices(c) = c.head_index .. TailIndex(c)
    BY <1>3, IndicesAre
  <2> QED
    BY <1>2, <1>3, <2>1 DEF WithInput
<1>5. c.size > 1 /\ c.size > 0 /\ ~ (c.size <= 1)
  BY <1>2, <1>4
<1>6. p = Position(c, TRUE, tr, curr_interval)
  BY <1>5, Zenon DEF PositionEvaluated
<1>7. FoundAcross(c, p, tr)
  BY <1>1, <1>2, <1>3, <1>5, <1>6, PositionAcross
<1> HIDE DEF p
<1>8. p \in Nat
  BY <1>2, <1>4, <1>7 DEF FoundAcross
<1> QED
  BY <1>3, <1>7, <1>8 DEF c, e, p, u, tr

(* The part of Sound about the buffer, and what an evaluation leaves of it.*)
BufferSound ==
  /\ IsBuffer(buffer, Times, Inputs) /\ Kept(buffer)
  /\ buffer.size >= 2 /\ buffer.head_index \in Nat
  /\ Sample(buffer, TailIndex(buffer)).t = last + TimeOffset
  /\ Covered

LEMMA BufferStays ==
  ASSUME Sound, IsBuffer(buffer', Times, Inputs), Stays(buffer, buffer'), fixed' = fixed, last' = last
  PROVE  BufferSound'
<1>1. /\ IsBuffer(buffer, Times, Inputs) /\ buffer.size >= 2 /\ buffer.head_index \in Nat
      /\ Sample(buffer, TailIndex(buffer)).t = last + TimeOffset /\ Covered
  BY DEF Sound
<1>2. /\ buffer'.head_index = buffer.head_index /\ buffer'.size = buffer.size /\ Kept(buffer')
      /\ TailIndex(buffer') = TailIndex(buffer) /\ Indices(buffer') = Indices(buffer)
      /\ \A i \in Indices(buffer) : Sample(buffer', i) = Sample(buffer, i)
  BY <1>1, StaysAs
<1>3. buffer.head_index \in Indices(buffer) /\ buffer.head_index + 1 \in Indices(buffer) /\ TailIndex(buffer) \in Indices(buffer)
  <2>1. /\ Indices(buffer) = buffer.head_index .. TailIndex(buffer) /\ TailIndex(buffer) \in Int
        /\ TailIndex(buffer) = (buffer.head_index + buffer.size) - 1 /\ buffer.size \in Nat
    BY <1>1, IndicesAre
  <2> QED
    BY <1>1, <2>1
<1>4. TimeOffset' = TimeOffset
  BY DEF TimeOffset
<1>5. Covered'
  BY <1>1, <1>2, <1>3, <1>4 DEF Covered
<1> QED
  BY <1>1, <1>2, <1>3, <1>4, <1>5 DEF BufferSound

LEMMA EvaluateKeeps ==
  ASSUME Sound, NEW t \in last .. MaxTime, NEW y \in Values, NEW d \in Delays,
         EvaluateOrNot(FALSE, t, y, d) \/ EvaluateOrNot(TRUE, t, y, d)
  PROVE  IsBuffer(buffer', Times, Inputs) /\ Stays(buffer, buffer') /\ curr_interval' \in Nat
<1>1. CASE UNCHANGED << buffer, curr_interval >>
  BY <1>1, NothingStays DEF Sound
<1>2. CASE Evaluate(FALSE, t, y, d) \/ Evaluate(TRUE, t, y, d)
  <2> DEFINE c == WithCurrent(buffer, t + TimeOffset, y, TRUE)
             e == WithoutCurrent(c, buffer.size, TRUE)
  <2>1. no_event \in BOOLEAN
    BY DEF Sound
  <2>2. /\ buffer' = e
        /\ \/ curr_interval' = PositionEvaluated(c, FALSE, Delayed(t, d), curr_interval)
           \/ curr_interval' = PositionEvaluated(c, TRUE, Delayed(t, d), curr_interval)
    BY <1>2, <2>1 DEF Evaluate
  <2>3. /\ IsBuffer(e, Times, Inputs) /\ Stays(buffer, e)
        /\ PositionEvaluated(c, FALSE, Delayed(t, d), curr_interval) \in Nat
    BY WithinSegment
  <2>4. PositionEvaluated(c, TRUE, Delayed(t, d), curr_interval) \in Nat
    BY AcrossEvents
  <2> QED
    BY <2>2, <2>3, <2>4
<1> QED
  BY <1>1, <1>2 DEF EvaluateOrNot

(* A trial evaluation stays between the events it started between.         *)
LEMMA IntegrateKeeps == IInv /\ Integrate => IInv'
<1> SUFFICES ASSUME IInv, Integrate
             PROVE  IInv'
  OBVIOUS
<1>1. PICK t \in Trial, y \in Values, d \in Delays :
        /\ time' = t /\ EvaluateOrNot(FALSE, t, y, d)
        /\ phase' = IF Crosses(buffer', curr_interval', Delayed(t, d)) THEN "crossing" ELSE "continuous"
  BY DEF Integrate
<1>2. /\ Sound /\ Asked /\ fixed' = fixed /\ no_event' = no_event /\ last' = last /\ next_event' = next_event
      /\ phase # "event"
  BY DEF Integrate, IInv, kind
<1>3. t \in last .. MaxTime /\ (TimeEvents => t <= next_event) /\ last \in Nat /\ MaxTime \in Nat
  BY <1>2, ConstantsAre DEF Trial, Sound
<1>4. IsBuffer(buffer', Times, Inputs) /\ Stays(buffer, buffer') /\ curr_interval' \in Nat
  BY <1>1, <1>2, <1>3, EvaluateKeeps
<1>5. BufferSound'
  BY <1>2, <1>4, BufferStays
<1>6. TimeEvents' = TimeEvents /\ phase' \in {"continuous", "crossing"}
  BY <1>1, <1>2 DEF TimeEvents
<1>7. Sound'
  <2>1. t \in 0 .. MaxTime /\ last <= t
    BY <1>3
  <2> QED
    BY <1>1, <1>2, <1>3, <1>4, <1>5, <1>6, <2>1 DEF Sound, BufferSound
<1>8. ASSUME TimeEvents, AlwaysActive
      PROVE  SegmentRight'
  <2> DEFINE c == WithCurrent(buffer, t + TimeOffset, y, TRUE)
             e == WithoutCurrent(c, buffer.size, TRUE)
             s == Sample(buffer, Clamped(buffer, curr_interval)).segment
  <2>1. no_event = FALSE
    BY <1>2, <1>8 DEF TimeEvents, Sound
  <2>2. buffer' = e /\ curr_interval' = PositionEvaluated(c, FALSE, Delayed(t, d), curr_interval)
    BY <1>1, <1>8, <2>1 DEF EvaluateOrNot, Evaluate
  <2>3. Sample(buffer', Clamped(buffer', curr_interval')).segment = s
    BY <1>2, <1>3, <2>2, WithinSegment
  <2>4. EarlierPast(buffer, s, last) /\ NextIs(buffer, s, next_event)
    BY <1>2, <1>8 DEF Asked, SegmentRight
  <2>5. EarlierPast(buffer', s, last) /\ NextIs(buffer', s, next_event)
    <3>1. IsBuffer(buffer, Times, Inputs) /\ buffer.size > 0
      BY <1>2, IndicesAre DEF Sound
    <3> HIDE DEF s
    <3> QED
      BY <1>4, <2>4, <3>1, SegmentStays
  <2> QED
    BY <1>2, <2>3, <2>5 DEF SegmentRight
<1>9. Asked'
  BY <1>6, <1>8 DEF Asked
<1> QED
  BY <1>7, <1>9 DEF IInv

(* What a recorded sample leaves of Sound.                                 *)
LEMMA BufferGrows ==
  ASSUME Sound, fixed' = fixed, last' = time, NEW e, IsBuffer(e, Times, Inputs), Stays(buffer, e),
         IsBuffer(buffer', Times, Inputs), Kept(buffer'), buffer'.size >= 2,
         Grown(e, buffer', time + TimeOffset, TRUE) \/ Grown(e, buffer', time + TimeOffset, FALSE)
  PROVE  BufferSound'
<1> DEFINE c == buffer'
           h == buffer.head_index
           r == TailIndex(buffer)
           u == time + TimeOffset
<1>1. /\ h \in Nat /\ r \in Int /\ h < r /\ Indices(buffer) = h .. r /\ IsBuffer(buffer, Times, Inputs)
      /\ time \in Int /\ last \in Int /\ last <= time /\ MaxDelay \in Int /\ TimeOffset \in Int
  <2>1. MaxTime \in Nat /\ MaxDelay \in Int
    BY ConstantsAre
  <2> QED
    BY <2>1, IndicesAre DEF Sound, TimeOffset
<1>2. e.head_index = h /\ TailIndex(e) = r /\ \A i \in h .. r : Sample(e, i) = Sample(buffer, i)
  BY <1>1, StaysAs
<1>3. TimeOffset' = TimeOffset
  BY DEF TimeOffset
<1>4. /\ c.head_index \in h .. r
      /\ \A i \in c.head_index .. r :
           Sample(c, i).t = Sample(e, i).t /\ Sample(c, i).segment = Sample(e, i).segment
      /\ Sample(c, TailIndex(c)).t = u
      /\ h < c.head_index => Sample(c, c.head_index).t < u - MaxDelay
  BY <1>2 DEF Grown
<1> HIDE DEF c
<1>5. \A i \in Int : Sample(buffer, i).t \in Int /\ Sample(c, i).t \in Int
  BY <1>1, SampleType, ConstantsAre DEF c
<1>6. /\ Sample(c, c.head_index).t + MaxDelay <= time + TimeOffset
      \/ /\ Sample(c, c.head_index).t = TimeOffset
         /\ Sample(c, c.head_index).segment # Sample(c, c.head_index + 1).segment
  <2>1. CASE h < c.head_index
    <3>1. c.head_index \in Int
      BY <1>1, <1>4
    <3>2. Sample(c, c.head_index).t \in Int
      BY <1>5, <3>1
    <3> QED
      BY <1>1, <1>4, <2>1, <3>2
  <2>2. CASE c.head_index = h
    <3>1. h \in c.head_index .. r /\ h + 1 \in c.head_index .. r /\ h \in h .. r /\ h + 1 \in h .. r
      BY <1>1, <2>2
    <3>2. /\ Sample(c, h).t = Sample(buffer, h).t /\ Sample(c, h).segment = Sample(buffer, h).segment
          /\ Sample(c, h + 1).segment = Sample(buffer, h + 1).segment
      BY <1>2, <1>4, <3>1
    <3>3. CASE Sample(buffer, h).t + MaxDelay <= last + TimeOffset
      <4>1. Sample(buffer, h).t \in Int
        BY <1>1, <1>5
      <4> QED
        BY <1>1, <2>2, <3>2, <3>3, <4>1
    <3>4. CASE Sample(buffer, h).t = TimeOffset /\ Sample(buffer, h).segment # Sample(buffer, h + 1).segment
      BY <2>2, <3>2, <3>4
    <3> QED
      BY <3>3, <3>4 DEF Sound, Covered
  <2> QED
    BY <1>1, <1>4, <2>1, <2>2
<1>7. c.head_index \in Nat
  BY <1>1, <1>4
<1> QED
  BY <1>3, <1>4, <1>6, <1>7 DEF BufferSound, Covered, c

(* After a step the position is still left of the next event.              *)
LEMMA SegmentGrows ==
  ASSUME Sound, SegmentRight, TimeEvents, IsBuffer(buffer', Times, Inputs), Kept(buffer'), buffer'.size >= 2,
         Grown(buffer, buffer', time + TimeOffset, FALSE), last' = time, next_event' = next_event,
         curr_interval' = curr_interval
  PROVE  SegmentRight'
<1> DEFINE c == buffer'
           h == buffer.head_index
           r == TailIndex(buffer)
           g == c.head_index
           k == Clamped(buffer, curr_interval)
           l == Clamped(c, curr_interval)
           s == Sample(buffer, k).segment
<1>1. /\ h \in Nat /\ r \in Int /\ h < r /\ Indices(buffer) = h .. r /\ IsBuffer(buffer, Times, Inputs) /\ Kept(buffer)
      /\ time \in Int /\ last \in Int /\ last <= time /\ MaxDelay \in Int /\ TimeOffset = MaxDelay
      /\ time <= next_event /\ next_event \in Int /\ curr_interval \in Int /\ buffer.size > 0
  <2>1. MaxTime \in Nat /\ MaxDelay \in Int /\ Never \in Int
    BY ConstantsAre
  <2> QED
    BY <2>1, IndicesAre DEF Sound, TimeOffset, TimeEvents
<1>2. EarlierPast(buffer, s, last) /\ NextIs(buffer, s, next_event)
  BY DEF SegmentRight
<1>3. /\ g \in h .. r /\ g < TailIndex(c)
      /\ \A i \in g .. r : Sample(c, i).t = Sample(buffer, i).t /\ Sample(c, i).segment = Sample(buffer, i).segment
      /\ TailIndex(c) = r + 1 /\ Sample(c, TailIndex(c)).segment = Sample(buffer, r).segment + 0
      /\ h < g => Sample(c, g).t < (time + MaxDelay) - MaxDelay
  BY <1>1 DEF Grown
<1> HIDE DEF c
<1>4. \A i \in Int : /\ Sample(buffer, i).t \in Int /\ Sample(buffer, i).segment \in Int
                     /\ Sample(c, i).t \in Int /\ Sample(c, i).segment \in Int
  BY <1>1, SampleType, ConstantsAre DEF c
<1>5. g \in Int /\ TailIndex(c) \in Int /\ Indices(c) = g .. r + 1 /\ c.size > 0
  <2>1. Indices(c) = c.head_index .. TailIndex(c) /\ c.size \in Nat
    BY IndicesAre DEF c
  <2> QED
    BY <1>1, <1>3, <2>1 DEF c
<1>6. Sample(c, r + 1).segment = Sample(buffer, r).segment /\ Sample(c, r).segment = Sample(buffer, r).segment
  BY <1>1, <1>3, <1>4, <1>5
<1>7. Sample(c, g).t = Sample(buffer, g).t /\ (h < g => Sample(buffer, g).t < next_event)
  <2>1. Sample(c, g).t = Sample(buffer, g).t
    BY <1>1, <1>3, <1>5
  <2>2. Sample(buffer, g).t \in Int
    BY <1>4, <1>5
  <2> QED
    BY <1>1, <1>3, <2>1, <2>2
<1>8. k \in h .. r
  BY <1>1, ClampedAt
<1>9. /\ curr_interval \in h .. r => k = curr_interval
      /\ curr_interval < h => k = h
      /\ curr_interval > r => k = r
      /\ curr_interval \in g .. r + 1 => l = curr_interval
      /\ curr_interval < g => l = g
      /\ curr_interval > r + 1 => l = r + 1
  <2>1. /\ curr_interval \in Indices(c) => l = curr_interval
        /\ curr_interval < c.head_index => l = c.head_index
        /\ curr_interval > TailIndex(c) => l = TailIndex(c)
    <3>1. IsBuffer(c, Times, Inputs)
      BY DEF c
    <3>2. c.size > 0 /\ curr_interval \in Int
      BY <1>1, <1>5
    <3> QED
      BY ONLY <3>1, <3>2, ClampedAt, Zenon DEF l
  <2>2. /\ curr_interval \in Indices(buffer) => k = curr_interval
        /\ curr_interval < h => k = h
        /\ curr_interval > r => k = r
    BY <1>1, ClampedAt
  <2> QED
    BY <1>1, <1>3, <1>5, <2>1, <2>2
<1> HIDE DEF k, l
<1>10. Ordered(buffer) /\ Ordered(c)
  BY <1>1 DEF Kept, c
<1>11. s \in Int /\ k \in Int
  BY <1>1, <1>4, <1>8
<1>12. k < g => Sample(buffer, g).segment = s
  <2> SUFFICES ASSUME k < g
               PROVE  Sample(buffer, g).segment = s
    OBVIOUS
  <2>1. h < g /\ g \in Indices(buffer) /\ k \in Indices(buffer)
    BY <1>1, <1>3, <1>5, <1>8, <1>11
  <2>2. Sample(buffer, g).t < next_event /\ s <= Sample(buffer, g).segment
    BY <1>5, <1>7, <1>10, <1>11, <2>1 DEF Ordered
  <2>3. Sample(buffer, g).segment <= s
    <3>1. CASE Sample(buffer, TailIndex(buffer)).segment = s
      <4>1. r \in Indices(buffer) /\ g <= r
        BY <1>1, <1>3
      <4> QED
        BY <1>10, <2>1, <3>1, <4>1 DEF Ordered
    <3>2. CASE \E i \in Indices(buffer) : /\ i < TailIndex(buffer) /\ Sample(buffer, i).t = next_event
                                         /\ Sample(buffer, i).segment = s /\ Sample(buffer, i + 1).segment = s + 1
      <4>1. PICK i \in Indices(buffer) : Sample(buffer, i).t = next_event /\ Sample(buffer, i).segment = s
        BY <3>2
      <4>2. i \in Int
        BY <1>1
      <4>3. g <= i
        <5>1. i <= g => Sample(buffer, i).t <= Sample(buffer, g).t
          BY <1>10, <2>1 DEF Ordered
        <5>2. Sample(buffer, g).t \in Int
          BY <1>4, <1>5
        <5> QED
          BY <1>1, <1>5, <2>2, <4>1, <4>2, <5>1, <5>2
      <4> QED
        BY <1>10, <2>1, <4>1, <4>3 DEF Ordered
    <3> QED
      BY <1>2, <3>1, <3>2 DEF NextIs
  <2>4. Sample(buffer, g).segment \in Int
    BY <1>4, <1>5
  <2> QED
    BY <1>11, <2>2, <2>3, <2>4
<1>13. Sample(c, l).segment = s
  <2>1. CASE curr_interval \in g .. r
    <3>1. k = curr_interval /\ l = curr_interval
      BY <1>1, <1>3, <1>5, <1>9, <2>1
    <3> QED
      BY <1>3, <2>1, <3>1
  <2>2. CASE curr_interval > r
    <3>1. k = r /\ l = r + 1
      BY <1>1, <1>3, <1>5, <1>9, <2>2
    <3> QED
      BY <1>6, <3>1
  <2>3. CASE curr_interval < g
    <3>1. l = g /\ k <= g /\ g \in g .. r
      BY <1>1, <1>3, <1>5, <1>9, <2>3
    <3>2. Sample(c, g).segment = Sample(buffer, g).segment
      BY <1>3, <3>1
    <3>3. k = g => Sample(buffer, g).segment = s
      OBVIOUS
    <3> HIDE DEF s
    <3> QED
      BY <1>5, <1>11, <1>12, <3>1, <3>2, <3>3
  <2> QED
    BY <1>1, <1>5, <2>1, <2>2, <2>3
<1> HIDE DEF s
<1>14. EarlierPast(c, s, time)
  <2>1. ASSUME NEW i \in Indices(c), Sample(c, i).segment < s
        PROVE  Sample(c, i).t <= time
    <3>1. i \in g .. r \/ i = r + 1
      BY <1>1, <1>5
    <3>2. CASE i \in g .. r
      <4>1. i \in Indices(buffer) /\ i \in Int
        BY <1>1, <1>3, <1>5, <3>2
      <4>2. Sample(c, i).t <= last
        BY <1>2, <1>3, <2>1, <3>2, <4>1 DEF EarlierPast
      <4> QED
        BY <1>1, <1>4, <4>1, <4>2
    <3>3. CASE i = r + 1
      <4>1. s <= Sample(buffer, r).segment
        <5>1. k \in Indices(buffer) /\ r \in Indices(buffer) /\ k <= r
          BY <1>1, <1>8
        <5> QED
          BY <1>10, <5>1 DEF Ordered, s
      <4> QED
        BY <1>1, <1>4, <1>6, <1>11, <2>1, <3>3, <4>1
    <3> QED
      BY <3>1, <3>2, <3>3
  <2> QED
    BY <2>1 DEF EarlierPast
<1>15. NextIs(c, s, next_event)
  <2>1. CASE Sample(buffer, TailIndex(buffer)).segment = s /\ next_event = Never
    BY <1>3, <1>6, <2>1 DEF NextIs
  <2>2. CASE \E i \in Indices(buffer) : /\ i < TailIndex(buffer) /\ Sample(buffer, i).t = next_event
                                       /\ Sample(buffer, i).segment = s /\ Sample(buffer, i + 1).segment = s + 1
    <3>1. PICK i \in Indices(buffer) : /\ i < r /\ Sample(buffer, i).t = next_event
                                       /\ Sample(buffer, i).segment = s /\ Sample(buffer, i + 1).segment = s + 1
      BY <2>2
    <3>2. i \in h .. r /\ i \in Int
      BY <1>1, <3>1
    <3>3. g <= i
      <4>1. g \in Indices(buffer) /\ Sample(buffer, g).t \in Int
        BY <1>1, <1>3, <1>4, <1>5
      <4>2. i <= g => Sample(buffer, i).t <= Sample(buffer, g).t
        BY <1>10, <3>1, <4>1 DEF Ordered
      <4> QED
        BY <1>1, <1>3, <1>5, <1>7, <3>1, <3>2, <4>1, <4>2
    <3>4. i \in g .. r /\ i + 1 \in g .. r /\ i \in Indices(c) /\ i < TailIndex(c)
      BY <1>1, <1>3, <1>5, <3>1, <3>2, <3>3
    <3>5. /\ Sample(c, i).t = next_event /\ Sample(c, i).segment = s
          /\ Sample(c, i + 1).segment = s + 1
      BY <1>3, <3>1, <3>4
    <3> QED
      BY <3>4, <3>5 DEF NextIs
  <2> QED
    BY <1>2, <2>1, <2>2 DEF NextIs
<1> QED
  BY <1>13, <1>14, <1>15 DEF SegmentRight, c, l

LEMMA TimeToRecord ==
  ASSUME Sound
  PROVE  time + TimeOffset \in Times
<1>1. MaxTime \in Nat /\ MaxDelay \in Nat /\ Never = MaxTime + MaxDelay + 1 /\ time \in 0 .. MaxTime
  BY ConstantsAre DEF Sound
<1> QED
  BY <1>1 DEF TimeOffset, Times

(* An accepted step is recorded without crossing the next event.           *)
LEMMA CompletedStepKeeps == IInv /\ CompletedStep => IInv'
<1> SUFFICES ASSUME IInv, CompletedStep
             PROVE  IInv'
  OBVIOUS
<1> DEFINE event == FALSE
           u == time + TimeOffset
<1>1. PICK y \in Values : buffer' = RecordSample(buffer, time, y, FALSE)
  BY DEF CompletedStep
<1>2. /\ Sound /\ Asked /\ fixed' = fixed /\ no_event' = no_event /\ last' = time /\ next_event' = next_event
      /\ curr_interval' = curr_interval /\ time' = time
      /\ phase # "event" /\ phase' \in {"crossed", "continuous"} /\ time > last
  BY DEF CompletedStep, IInv, kind
<1>3. /\ IsBuffer(buffer, Times, Inputs) /\ Kept(buffer) /\ buffer.size >= 2 /\ y \in Inputs
      /\ last \in Int /\ time \in Int /\ TimeOffset \in Int
      /\ Sample(buffer, TailIndex(buffer)).t = last + TimeOffset
  <2>1. MaxDelay \in Int /\ MaxTime \in Int
    BY ConstantsAre
  <2> QED
    BY <1>2, <2>1, ConstantsAre DEF Sound, TimeOffset
<1>4. event \in BOOLEAN /\ ~ event /\ buffer' = RecordedRight(buffer, u, y, event, MaxDelay)
  BY <1>1 DEF RecordSample
<1>5. u \in Times
  BY <1>2, TimeToRecord
<1> HIDE DEF event, u
<1>6. Follows(buffer, u, event)
  BY <1>2, <1>3, <1>4 DEF Follows, u
<1>7. /\ IsBuffer(buffer', Times, Inputs) /\ Kept(buffer') /\ buffer'.size >= 2
      /\ Grown(buffer, buffer', u, event)
  BY ONLY <1>3, <1>4, <1>5, <1>6, SampleRecorded, Zenon
<1>8. Grown(buffer, buffer', time + TimeOffset, FALSE)
  BY <1>7 DEF event, u
<1>9. BufferSound'
  BY <1>2, <1>3, <1>7, <1>8, NothingStays, BufferGrows
<1>10. TimeEvents' = TimeEvents
  BY <1>2 DEF TimeEvents
<1>11. Sound'
  BY <1>2, <1>3, <1>9, <1>10 DEF Sound, BufferSound
<1>12. Asked'
  <2>1. ASSUME TimeEvents, AlwaysActive
        PROVE  SegmentRight'
    <3>1. SegmentRight
      BY <1>2, <2>1 DEF Asked
    <3> QED
      BY <1>2, <1>7, <1>8, <2>1, <3>1, SegmentGrows
  <2> QED
    BY <1>2, <1>10, <2>1 DEF Asked
<1> QED
  BY <1>11, <1>12 DEF IInv

LEMMA EventsStay ==
  ASSUME IsBuffer(buffer, Times, Inputs), Stays(buffer, buffer'), NextEventAsked,
         TimeEvents, AlwaysActive, last' = last, next_event' = next_event
  PROVE  NextEventAsked'
<1>1. /\ buffer'.head_index = buffer.head_index /\ TailIndex(buffer') = TailIndex(buffer)
      /\ Indices(buffer') = Indices(buffer)
      /\ \A i \in Indices(buffer) : Sample(buffer', i) = Sample(buffer, i)
      /\ \A i \in Indices(buffer) : i # TailIndex(buffer) => i + 1 \in Indices(buffer)
  BY StaysAs
<1>2. TailIndex(buffer) \in Int /\ \A i \in Indices(buffer) : i \in Int
  BY IndicesAre
<1>3. \A i \in Indices(buffer) : i < TailIndex(buffer) =>
        (EventRightOf(buffer', i) <=> EventRightOf(buffer, i))
  <2> SUFFICES ASSUME NEW i \in Indices(buffer), i < TailIndex(buffer)
               PROVE  EventRightOf(buffer', i) <=> EventRightOf(buffer, i)
    OBVIOUS
  <2>1. i + 1 \in Indices(buffer)
    BY <1>1, <1>2
  <2> QED
    BY <1>1, <2>1 DEF EventRightOf
<1> DEFINE Before == {j \in Indices(buffer) : j < TailIndex(buffer) /\ EventRightOf(buffer, j)}
           After == {j \in Indices(buffer') : j < TailIndex(buffer') /\ EventRightOf(buffer', j)}
<1>4. After = Before
  BY <1>1, <1>3
<1>5. \A i \in Before : i \in Indices(buffer)
  OBVIOUS
<1>6. EventTimes' = {Sample(buffer', i).t : i \in After} /\ EventTimes = {Sample(buffer, i).t : i \in Before}
  BY DEF EventTimes, Sample
<1> HIDE DEF Before, After
<1>7. EventTimes' = EventTimes
  BY <1>1, <1>4, <1>5, <1>6
<1> QED
  BY <1>7 DEF NextEventAsked

(* A pass of the event iteration finds the event.                          *)
LEMMA IterateEventKeeps == IInv /\ IterateEvent => IInv'
<1> SUFFICES ASSUME IInv, IterateEvent
             PROVE  IInv'
  OBVIOUS
<1>1. PICK y \in Values, d \in Delays : EvaluateOrNot(TRUE, time, y, d)
  BY DEF IterateEvent
<1>2. /\ Sound /\ Asked /\ fixed' = fixed /\ no_event' = no_event /\ last' = last /\ next_event' = next_event
      /\ time' = time /\ time = last /\ phase' = "event"
  BY DEF IterateEvent, IInv, kind
<1>3. time \in last .. MaxTime /\ last \in Nat /\ MaxTime \in Nat /\ MaxDelay \in Nat \ {0}
  BY <1>2, ConstantsAre DEF Sound
<1>4. IsBuffer(buffer', Times, Inputs) /\ Stays(buffer, buffer') /\ curr_interval' \in Nat
  BY <1>1, <1>2, <1>3, EvaluateKeeps
<1>5. BufferSound'
  BY <1>2, <1>4, BufferStays
<1>6. TimeEvents' = TimeEvents
  BY <1>2 DEF TimeEvents
<1>7. Sound'
  BY <1>2, <1>3, <1>4, <1>5, <1>6 DEF Sound, BufferSound
<1>8. ASSUME TimeEvents, AlwaysActive
      PROVE  AtEvent' /\ NextEventAsked'
  <2> DEFINE c == WithCurrent(buffer, time + TimeOffset, y, TRUE)
             e == WithoutCurrent(c, buffer.size, TRUE)
             p == PositionEvaluated(c, TRUE, Delayed(time, d), curr_interval)
  <2>1. fixed /\ no_event \in BOOLEAN /\ TimeOffset = MaxDelay /\ Delayed(time, d) = last
    BY <1>2, <1>8 DEF TimeEvents, Sound, TimeOffset, Delayed
  <2>2. buffer' = e /\ curr_interval' = p
    <3>1. (TRUE \/ no_event) = TRUE
      BY <2>1
    <3> QED
      BY <1>1, <1>8, <3>1 DEF EvaluateOrNot, Evaluate
  <2>3. p \in Nat /\ WithInput(buffer, c, time + TimeOffset) /\ FoundAcross(c, p, Delayed(time, d))
    BY <1>2, <1>3, AcrossEvents
  <2> HIDE DEF c, e, p
  <2> DEFINE h == buffer.head_index
             r == TailIndex(buffer)
  <2>4. /\ h \in Nat /\ r \in Int /\ h < r /\ Indices(buffer) = h .. r /\ IsBuffer(buffer, Times, Inputs)
        /\ Sample(buffer, r).t = last + MaxDelay
    BY <1>2, <2>1, IndicesAre DEF Sound
  <2>5. c.head_index = h /\ TailIndex(c) = r /\ \A i \in h .. r : Sample(c, i) = Sample(buffer, i)
    BY <1>2, <1>3, <2>1, <2>3, <2>4 DEF WithInput, InPlace
  <2>6. Indices(c) = h .. r
    BY <2>5 DEF Indices
  <2>7. p \in h .. r /\ (p = h \/ Sample(buffer, p).t <= last) /\ (p = r \/ Sample(c, p + 1).t > last)
    BY <2>1, <2>3, <2>5, <2>6 DEF FoundAcross
  <2>8. p # r
    <3>1. ~ (Sample(buffer, r).t <= last) /\ r # h
      BY <1>3, <2>4
    <3> QED
      BY <2>7, <3>1
  <2>9. p + 1 \in h .. r /\ p < r
    BY <2>4, <2>7, <2>8
  <2>10. /\ p \in Indices(buffer) /\ p < TailIndex(buffer) /\ (p = h \/ Sample(buffer, p).t <= last)
         /\ Sample(buffer, p + 1).t > last /\ p + 1 \in Indices(buffer)
    BY <2>4, <2>5, <2>7, <2>8, <2>9
  <2>11. /\ buffer'.head_index = h /\ TailIndex(buffer') = TailIndex(buffer) /\ Indices(buffer') = Indices(buffer)
         /\ Sample(buffer', p) = Sample(buffer, p) /\ Sample(buffer', p + 1) = Sample(buffer, p + 1)
    BY <1>4, <2>4, <2>10, StaysAs
  <2>12. AtEvent'
    BY <1>2, <2>2, <2>10, <2>11 DEF AtEvent
  <2>13. NextEventAsked
    BY <1>2, NextEventIsAsked
  <2> QED
    BY <1>2, <1>4, <1>8, <2>4, <2>12, <2>13, EventsStay
<1>9. Asked'
  BY <1>2, <1>6, <1>8 DEF Asked
<1> QED
  BY <1>7, <1>9 DEF IInv

(* The last evaluation of an event iteration.                              *)
Evaluates(y, d, e, p) ==
  LET c == WithCurrent(buffer, time + TimeOffset, y, TRUE)
  IN e = WithoutCurrent(c, buffer.size, TRUE) /\ p = PositionEvaluated(c, FALSE, Delayed(time, d), curr_interval)

(* From the position at the event the recorded one shows the next event.   *)
LEMMA SegmentFinished ==
  ASSUME Sound, AtEvent, TimeEvents, time = last, NEW y \in Values, NEW d \in Delays, NEW e, NEW p,
         Evaluates(y, d, e, p), NEW g, IsBuffer(g, Times, Inputs), Kept(g), g.size >= 2, Grown(e, g, time + TimeOffset, TRUE)
  PROVE  LET s == Sample(g, Clamped(g, p)).segment
         IN EarlierPast(g, s, last) /\ NextIs(g, s, NextTimeEvent(g, p, time))
<1> DEFINE c == WithCurrent(buffer, time + TimeOffset, y, TRUE)
           h == buffer.head_index
           r == TailIndex(buffer)
           k == curr_interval
           s == Sample(buffer, k).segment
<1>1. /\ h \in Nat /\ r \in Int /\ h < r /\ Indices(buffer) = h .. r /\ IsBuffer(buffer, Times, Inputs) /\ Kept(buffer)
      /\ Sample(buffer, r).t = last + MaxDelay /\ last \in Nat /\ MaxDelay \in Nat \ {0} /\ TimeOffset = MaxDelay
      /\ buffer.size > 0 /\ AreTimes(Times) /\ time \in last .. MaxTime /\ Delayed(time, d) = last
  <2>1. MaxTime \in Nat /\ MaxDelay \in Nat \ {0} /\ AreTimes(Times)
    BY ConstantsAre
  <2> QED
    BY <2>1, IndicesAre DEF Sound, TimeOffset, TimeEvents, Delayed
<1>2. /\ k \in h .. r /\ k < r /\ (k = h \/ Sample(buffer, k).t <= last) /\ Sample(buffer, k + 1).t > last
  BY <1>1 DEF AtEvent
<1>3. time + TimeOffset \in Times /\ y \in Inputs
  BY TimeToRecord, ConstantsAre
<1>4. /\ IsBuffer(c, Times, Inputs) /\ Kept(c) /\ WithInput(buffer, c, time + TimeOffset)
      /\ IsBuffer(e, Times, Inputs) /\ Stays(buffer, e) /\ SameSamples(c, e)
  <2> DEFINE f == WithoutCurrent(c, buffer.size, TRUE)
  <2>1. /\ IsBuffer(c, Times, Inputs) /\ Kept(c) /\ WithInput(buffer, c, time + TimeOffset)
        /\ IsBuffer(f, Times, Inputs) /\ Stays(buffer, f) /\ SameSamples(c, f)
    BY <1>1, <1>3, InputPut
  <2>2. e = f
    BY Zenon DEF Evaluates
  <2> QED
    BY <2>1, <2>2
<1>5. p = PositionEvaluated(c, FALSE, last, k)
  <2>1. p = PositionEvaluated(c, FALSE, Delayed(time, d), k)
    BY Zenon DEF Evaluates
  <2> QED
    BY <1>1, <2>1
<1> HIDE DEF c
<1>6. c.head_index = h /\ TailIndex(c) = r /\ \A i \in h .. r : Sample(c, i) = Sample(buffer, i)
  BY <1>1, <1>4 DEF WithInput, InPlace
<1>7. c.size > 1 /\ ~ (c.size <= 1) /\ c.size > 0 /\ Indices(c) = h .. r
  <2>1. TailIndex(c) = (c.head_index + c.size) - 1 /\ c.size \in Nat /\ Indices(c) = c.head_index .. TailIndex(c)
    BY <1>4, IndicesAre
  <2> QED
    BY <1>1, <1>6, <2>1
<1>8. k \in Indices(c) /\ k \in Int /\ k + 1 \in h .. r /\ k + 1 \in Indices(c)
  BY <1>1, <1>2, <1>7
<1>9. Clamped(c, k) = k
  <2>1. IsBuffer(c, Times, Inputs) /\ c.size > 0 /\ k \in Int
    BY <1>4, <1>7, <1>8
  <2>2. k \in Indices(c) => Clamped(c, k) = k
    BY ONLY <2>1, ClampedAt, Zenon
  <2> QED
    BY <1>8, <2>2
<1>10. p = Position(c, FALSE, last, k)
  BY <1>5, <1>7, Zenon DEF PositionEvaluated
<1>11. FoundOnSegment(c, p, last, k)
  <2>1. last \in Int
    BY <1>1
  <2> QED
    BY <1>1, <1>4, <1>7, <1>8, <1>9, <1>10, <2>1, PositionOnSegment
<1> DEFINE first == FirstOnSegment(c, k)
           final == LastOnSegment(c, k)
<1>12. /\ first \in h .. k /\ final \in k .. r
       /\ (EventRightOf(c, final) /\ Sample(c, final).segment = Sample(c, k).segment)
  <2>1. SegmentFound(c, k)
    BY <1>4, <1>8 DEF Kept
  <2> QED
    BY <1>6, <2>1 DEF SegmentFound
<1>13. /\ p \in first .. final /\ (p = first \/ Sample(c, p).t <= last)
       /\ p = final \/ p + 1 = final \/ Sample(c, p + 1).t > last
  BY <1>11 DEF FoundOnSegment
<1>14. p \in Segment(c, k)
  BY <1>13 DEF Segment
<1> HIDE DEF first, final
<1>15. first \in Int /\ final \in Int /\ p \in Int /\ p \in h .. r
  BY <1>1, <1>8, <1>12, <1>13
<1>16. \A i \in Int : /\ Sample(buffer, i).t \in Int /\ Sample(buffer, i).segment \in Int
                      /\ Sample(g, i).t \in Int /\ Sample(g, i).segment \in Int
  BY <1>1, SampleType, ConstantsAre
<1>17. Ordered(buffer) /\ Ordered(g)
  BY <1>1 DEF Kept
<1>18. p <= k
  <2> SUFFICES ASSUME k + 1 <= p
               PROVE  FALSE
    BY <1>8, <1>15
  <2>1. Sample(buffer, k + 1).t <= Sample(buffer, p).t
    BY <1>1, <1>8, <1>15, <1>17 DEF Ordered
  <2>2. p # first
    BY <1>8, <1>12, <1>15
  <2>3. Sample(buffer, p).t <= last
    BY <1>6, <1>13, <1>15, <2>2
  <2>4. Sample(buffer, p).t \in Int /\ Sample(buffer, k + 1).t \in Int /\ last \in Int
    BY <1>1, <1>8, <1>15, <1>16
  <2> QED
    BY <1>2, <2>1, <2>3, <2>4
<1>19. Sample(buffer, p).segment = s
  <2>1. Sample(c, p).segment = Sample(c, k).segment
    BY ONLY <1>1, <1>4, <1>8, <1>14, OnSegment
  <2> QED
    BY <1>2, <1>6, <1>15, <2>1
<1>20. s \in Int
  BY <1>8, <1>16
<1> HIDE DEF s
<1> DEFINE gh == g.head_index
           gr == TailIndex(g)
<1>21. e.head_index = h /\ TailIndex(e) = r /\ \A i \in h .. r : Sample(e, i) = Sample(buffer, i)
  BY <1>1, <1>4, StaysAs
<1>22. /\ gh \in h .. r /\ gh < gr
       /\ \A i \in gh .. r : Sample(g, i).t = Sample(buffer, i).t /\ Sample(g, i).segment = Sample(buffer, i).segment
       /\ h < gh => Sample(g, gh).t < (time + TimeOffset) - MaxDelay
       /\ gr = r \/ (gr = r + 1 /\ Sample(g, gr).segment = Sample(buffer, r).segment + 1)
  <2>1. ASSUME NEW i \in gh .. r, gh \in h .. r
        PROVE  i \in h .. r
    BY <1>1, <2>1
  <2>2. r \in h .. r
    BY <1>1
  <2> QED
    BY <1>21, <2>1, <2>2 DEF Grown
<1>23. gh \in Int /\ gr \in Int /\ Indices(g) = gh .. gr /\ r <= gr /\ g.size > 0 /\ ~ (g.size <= 0)
  <2>1. gh \in Int /\ gr \in Int /\ g.size \in Nat /\ Indices(g) = gh .. gr
    BY IndicesAre
  <2> QED
    BY <1>1, <1>22, <2>1
<1>24. h < gh => Sample(buffer, gh).t < last
  <2>1. Sample(buffer, gh).t = Sample(g, gh).t
    BY <1>1, <1>22, <1>23
  <2>2. Sample(g, gh).t \in Int /\ time = last
    BY <1>16, <1>23
  <2> QED
    BY <1>1, <1>22, <2>1, <2>2
<1>25. gh <= k
  <2> SUFFICES ASSUME k + 1 <= gh
               PROVE  FALSE
    BY <1>8, <1>23
  <2>1. h < gh
    BY <1>1, <1>2, <1>23
  <2>2. Sample(buffer, k + 1).t <= Sample(buffer, gh).t
    BY <1>1, <1>8, <1>17, <1>22 DEF Ordered
  <2>3. Sample(buffer, gh).t \in Int /\ Sample(buffer, k + 1).t \in Int /\ last \in Int
    BY <1>1, <1>8, <1>16, <1>23
  <2> QED
    BY <1>2, <1>24, <2>1, <2>2, <2>3
<1>26. gh <= p
  <2> SUFFICES ASSUME p < gh
               PROVE  FALSE
    BY <1>15, <1>23
  <2>1. h < gh /\ p + 1 <= gh /\ p + 1 \in h .. r
    BY <1>1, <1>15, <1>22, <1>23
  <2>2. Sample(buffer, p + 1).t <= Sample(buffer, gh).t
    BY <1>1, <1>17, <1>22, <2>1 DEF Ordered
  <2>3. Sample(buffer, gh).t \in Int /\ Sample(buffer, p + 1).t \in Int /\ last \in Int
    BY <1>1, <1>16, <1>23, <2>1
  <2>4. ~ (Sample(c, p + 1).t > last)
    BY <1>6, <1>24, <2>1, <2>2, <2>3
  <2>5. final = k /\ gh = k
    BY <1>8, <1>12, <1>13, <1>15, <1>23, <1>25, <2>1, <2>4
  <2>6. Sample(c, k + 1).t = Sample(c, k).t
    <3>1. EventRightOf(c, k) /\ k # TailIndex(c)
      BY <1>2, <1>6, <1>12, <2>5, <1>1, <1>8
    <3> QED
      BY <1>4, <1>8, <3>1, Neighbours
  <2>7. Sample(c, k + 1) = Sample(buffer, k + 1) /\ Sample(c, k) = Sample(buffer, k)
    BY <1>2, <1>6, <1>8
  <2> QED
    BY <1>2, <1>24, <2>1, <2>3, <2>5, <2>6, <2>7
<1>27. p \in gh .. r /\ p \in Indices(g) /\ k \in gh .. r /\ k \in Indices(g) /\ k + 1 \in gh .. r /\ k + 1 \in Indices(g)
  BY <1>1, <1>2, <1>8, <1>15, <1>23, <1>25, <1>26
<1>28. Clamped(g, p) = p /\ Sample(g, p).segment = s
  BY <1>15, <1>19, <1>22, <1>23, <1>27, ClampedAt
<1>29. EarlierPast(g, s, last)
  <2>1. ASSUME NEW i \in Indices(g), Sample(g, i).segment < s
        PROVE  Sample(g, i).t <= last
    <3>1. i \in Int /\ (i \in gh .. r \/ (i = gr /\ gr = r + 1))
      BY <1>1, <1>22, <1>23
    <3>2. CASE i = gr /\ gr = r + 1
      <4>1. s <= Sample(buffer, r).segment
        BY <1>1, <1>2, <1>8, <1>17 DEF Ordered, s
      <4> QED
        BY <1>1, <1>16, <1>20, <1>22, <2>1, <3>2, <4>1
    <3>3. CASE i \in gh .. r
      <4>1. Sample(g, i).t = Sample(buffer, i).t /\ Sample(g, i).segment = Sample(buffer, i).segment
        BY <1>22, <3>3
      <4>2. i \in h .. r
        BY <1>1, <1>22, <1>23, <3>3
      <4>3. i < k
        <5>1. SUFFICES ASSUME k <= i
                       PROVE  FALSE
          BY <1>8, <3>1
        <5>2. s <= Sample(buffer, i).segment
          BY <1>1, <1>2, <1>17, <4>2, <5>1 DEF Ordered, s
        <5> QED
          BY <1>16, <1>20, <2>1, <3>1, <4>1, <5>2
      <4>4. k # h
        BY <1>1, <1>8, <4>2, <4>3
      <4>5. Sample(buffer, i).t <= Sample(buffer, k).t
        BY <1>1, <1>2, <1>8, <1>17, <3>1, <4>2, <4>3 DEF Ordered
      <4>6. Sample(buffer, i).t \in Int /\ Sample(buffer, k).t \in Int /\ last \in Int
        BY <1>1, <1>8, <1>16, <3>1
      <4> QED
        BY <1>2, <4>1, <4>4, <4>5, <4>6
    <3> QED
      BY <3>1, <3>2, <3>3
  <2> QED
    BY <2>1 DEF EarlierPast
<1> DEFINE q == LastOnSegment(g, p)
           x == NextEventTime(g, p, Never)
<1>30. q \in p .. gr /\ Sample(g, q).segment = s /\ EventRightOf(g, q)
  <2>1. SegmentFound(g, p)
    BY <1>27 DEF Kept
  <2> QED
    BY <1>28, <2>1 DEF SegmentFound
<1>31. x = IF q >= gr THEN Never ELSE Sample(g, q).t
  BY <1>23 DEF NextEventTime
<1>32. NextTimeEvent(g, p, time) = IF x > time THEN x ELSE Never
  BY DEF NextTimeEvent
<1> HIDE DEF q, x
<1>33. q \in Int /\ q \in Indices(g)
  BY <1>15, <1>23, <1>26, <1>30
<1>34. NextIs(g, s, NextTimeEvent(g, p, time))
  <2>1. CASE q = gr
    <3>1. NextTimeEvent(g, p, time) = Never
      BY <1>23, <1>31, <1>32, <2>1
    <3> QED
      BY <1>30, <2>1, <3>1 DEF NextIs
  <2>2. CASE q # gr
    <3>1. q < gr /\ ~ (q >= gr)
      BY <1>23, <1>33, <2>2
    <3>2. /\ q + 1 \in Indices(g) /\ Sample(g, q + 1).segment = s + 1
          /\ Sample(g, q + 1).t = Sample(g, q).t
      BY <1>30, <1>33, <2>2, Neighbours
    <3>3. k < q + 1
      <4>1. SUFFICES ASSUME q + 1 <= k
                     PROVE  FALSE
        BY <1>8, <1>33
      <4>2. Sample(g, q + 1).segment <= Sample(g, k).segment
        BY <1>17, <1>27, <3>2, <4>1 DEF Ordered
      <4>3. Sample(g, k).segment = s
        BY <1>22, <1>27 DEF s
      <4> QED
        BY <1>20, <3>2, <4>2, <4>3
    <3>4. Sample(g, k + 1).t <= Sample(g, q + 1).t
      <4>1. k + 1 <= q + 1
        BY <1>8, <1>33, <3>3
      <4> QED
        BY <1>17, <1>27, <3>2, <4>1 DEF Ordered
    <3>5. Sample(g, k + 1).t > last
      BY <1>2, <1>22, <1>27
    <3>6. Sample(g, k + 1).t \in Int /\ Sample(g, q).t \in Int /\ last \in Int
      BY <1>1, <1>8, <1>16, <1>33
    <3>7. Sample(g, q).t > time
      BY <3>2, <3>4, <3>5, <3>6
    <3>8. NextTimeEvent(g, p, time) = Sample(g, q).t
      BY <1>31, <1>32, <3>1, <3>7
    <3> QED
      BY <1>30, <1>33, <3>1, <3>2, <3>8 DEF NextIs
  <2> QED
    BY <2>1, <2>2
<1> QED
  BY <1>28, <1>29, <1>34

(* The last pass of the event iteration: an evaluation, then the sample.   *)
LastPass(y, d, e) ==
  /\ IsBuffer(e, Times, Inputs) /\ Stays(buffer, e) /\ curr_interval' \in Nat
  /\ buffer' = RecordedRight(e, time + TimeOffset, y, TRUE, MaxDelay)
  /\ AlwaysActive /\ ~ no_event => Evaluates(y, d, e, curr_interval')

LEMMA FinishEventPasses ==
  ASSUME Sound, FinishEvent
  PROVE  \E y \in Values, d \in Delays : \E e : LastPass(y, d, e)
<1>1. PICK y \in Values, d \in Delays :
        LET b == WithCurrent(buffer, time + TimeOffset, y, TRUE)
            evaluated == WithoutCurrent(b, buffer.size, TRUE)
        IN \/ /\ curr_interval' = PositionEvaluated(b, no_event, Delayed(time, d), curr_interval)
              /\ buffer' = RecordSample(evaluated, time, y, TRUE)
           \/ /\ ~AlwaysActive
              /\ UNCHANGED curr_interval
              /\ buffer' = RecordSample(buffer, time, y, TRUE)
  BY DEF FinishEvent
<1>2. /\ IsBuffer(buffer, Times, Inputs) /\ Kept(buffer) /\ time \in last .. MaxTime /\ no_event \in BOOLEAN
      /\ curr_interval \in Nat
  BY ConstantsAre DEF Sound
<1> DEFINE u == time + TimeOffset
           c == WithCurrent(buffer, u, y, TRUE)
           f == WithoutCurrent(c, buffer.size, TRUE)
           near == PositionEvaluated(c, FALSE, Delayed(time, d), curr_interval)
           far == PositionEvaluated(c, TRUE, Delayed(time, d), curr_interval)
<1>3. IsBuffer(f, Times, Inputs) /\ Stays(buffer, f) /\ near \in Nat /\ far \in Nat
  BY <1>2, WithinSegment, AcrossEvents
<1>4. Evaluates(y, d, f, near)
  BY Zenon DEF Evaluates
<1>5. CASE /\ curr_interval' = PositionEvaluated(c, no_event, Delayed(time, d), curr_interval)
           /\ buffer' = RecordSample(f, time, y, TRUE)
  <2>1. buffer' = RecordedRight(f, u, y, TRUE, MaxDelay)
    BY <1>5, Zenon DEF RecordSample
  <2>2. CASE no_event = TRUE
    <3>1. curr_interval' = far
      BY <1>5, <2>2
    <3> HIDE DEF f, far
    <3>2. LastPass(y, d, f)
      BY <1>3, <2>1, <2>2, <3>1, Zenon DEF LastPass
    <3> QED
      BY <3>2
  <2>3. CASE no_event = FALSE
    <3>1. curr_interval' = near
      BY <1>5, <2>3
    <3> HIDE DEF f, near
    <3>2. LastPass(y, d, f)
      BY <1>3, <1>4, <2>1, <3>1, Zenon DEF LastPass
    <3> QED
      BY <3>2
  <2> QED
    BY <1>2, <2>2, <2>3
<1>6. CASE /\ ~AlwaysActive /\ UNCHANGED curr_interval
           /\ buffer' = RecordSample(buffer, time, y, TRUE)
  <2>1. buffer' = RecordedRight(buffer, u, y, TRUE, MaxDelay)
    BY <1>6, Zenon DEF RecordSample
  <2>2. Stays(buffer, buffer) /\ curr_interval' \in Nat
    BY <1>2, <1>6, NothingStays
  <2>3. LastPass(y, d, buffer)
    BY <1>2, <1>6, <2>1, <2>2, Zenon DEF LastPass
  <2> QED
    BY <2>3
<1> QED
  BY <1>1, <1>5, <1>6

LEMMA FinishEventKeeps == IInv /\ FinishEvent => IInv'
<1> SUFFICES ASSUME IInv, FinishEvent
             PROVE  IInv'
  OBVIOUS
<1> DEFINE event == TRUE
           u == time + TimeOffset
<1>1. PICK y \in Values, d \in Delays : \E e : LastPass(y, d, e)
  BY FinishEventPasses DEF IInv
<1>4. PICK e : LastPass(y, d, e)
  BY <1>1
<1>2. /\ Sound /\ Asked /\ fixed' = fixed /\ no_event' = no_event /\ last' = last /\ time' = time
      /\ phase = "event" /\ phase' = "continuous" /\ time = last
      /\ next_event' = NextTimeEvent(buffer', curr_interval', time)
  BY DEF FinishEvent, IInv, kind, Sound
<1>3. /\ IsBuffer(buffer, Times, Inputs) /\ Kept(buffer) /\ buffer.size >= 2 /\ y \in Inputs
      /\ last \in Int /\ time \in Int /\ TimeOffset \in Int /\ time \in last .. MaxTime
      /\ MaxTime \in Nat /\ MaxDelay \in Nat /\ Never = MaxTime + MaxDelay + 1 /\ time \in 0 .. MaxTime
      /\ Sample(buffer, TailIndex(buffer)).t = time + TimeOffset
  <2>1. MaxDelay \in Nat /\ MaxTime \in Nat
    BY ConstantsAre
  <2> QED
    BY <1>2, <2>1, ConstantsAre DEF Sound, TimeOffset
<1>5. /\ IsBuffer(e, Times, Inputs) /\ Stays(buffer, e) /\ curr_interval' \in Nat
      /\ buffer' = RecordedRight(e, u, y, event, MaxDelay)
  BY <1>4, Zenon DEF LastPass
<1> HIDE DEF event
<1>6. /\ Kept(e) /\ e.size >= 2 /\ Sample(e, TailIndex(e)).t = u
  <2>1. /\ Kept(e) /\ e.size = buffer.size /\ TailIndex(e) = TailIndex(buffer)
        /\ \A i \in Indices(buffer) : Sample(e, i) = Sample(buffer, i)
    BY <1>3, <1>5, StaysAs
  <2>2. TailIndex(buffer) \in Indices(buffer)
    BY <1>3, IndicesAre
  <2> QED
    BY <1>3, <2>1, <2>2
<1>7. u \in Times
  BY <1>2, TimeToRecord
<1> HIDE DEF u
<1>8. event \in BOOLEAN /\ Follows(e, u, event)
  BY <1>6 DEF Follows, event
<1>9. /\ IsBuffer(buffer', Times, Inputs) /\ Kept(buffer') /\ buffer'.size >= 2
      /\ Grown(e, buffer', u, event)
  BY ONLY <1>3, <1>5, <1>6, <1>7, <1>8, SampleRecorded, Zenon
<1>10. Grown(e, buffer', time + TimeOffset, TRUE)
  BY <1>9 DEF event, u
<1>11. BufferSound'
  BY <1>2, <1>5, <1>9, <1>10, BufferGrows
<1>12. TimeEvents' = TimeEvents
  BY <1>2 DEF TimeEvents
<1>13. next_event' \in 0 .. Never /\ (TimeEvents => time <= next_event')
  <2> DEFINE x == NextEventTime(buffer', curr_interval', Never)
  <2>1. x \in Times
    <3>1. Never \in Times
      BY ConstantsAre DEF Times
    <3>2. Sample(buffer', curr_interval').segment + 1 \in Int
      BY <1>5, <1>9, SampleType
    <3>3. LastOnSegment(buffer', curr_interval') \in Int
      BY <1>9, <3>2, SampleType DEF LastOnSegment
    <3>4. Sample(buffer', LastOnSegment(buffer', curr_interval')).t \in Times
      BY <1>9, <3>3, SampleType
    <3> QED
      BY <3>1, <3>4 DEF NextEventTime
  <2>2. next_event' = IF TimeEvents /\ x > time THEN x ELSE Never
    BY <1>2 DEF NextTimeEvent
  <2> HIDE DEF x
  <2> QED
    BY <1>3, <2>1, <2>2 DEF Times
<1>14. Sound'
  BY <1>2, <1>3, <1>5, <1>11, <1>12, <1>13 DEF Sound, BufferSound
<1>15. ASSUME TimeEvents, AlwaysActive
       PROVE  SegmentRight'
  <2> DEFINE p == curr_interval'
             g == buffer'
  <2>1. ~ no_event /\ AtEvent
    BY <1>2, <1>15 DEF TimeEvents, Asked
  <2>2. Evaluates(y, d, e, p)
    BY <1>4, <1>15, <2>1, Zenon DEF LastPass
  <2>3. IsBuffer(g, Times, Inputs) /\ Kept(g) /\ g.size >= 2 /\ Grown(e, g, time + TimeOffset, TRUE)
    BY <1>9, <1>10
  <2>4. next_event' = NextTimeEvent(g, p, time)
    BY <1>2
  <2>5. SegmentRight' <=> LET s == Sample(g, Clamped(g, p)).segment
                          IN EarlierPast(g, s, last') /\ NextIs(g, s, next_event')
    BY DEF SegmentRight
  <2> HIDE DEF p, g
  <2>6. LET s == Sample(g, Clamped(g, p)).segment
        IN EarlierPast(g, s, last) /\ NextIs(g, s, NextTimeEvent(g, p, time))
    BY <1>2, <1>15, <2>1, <2>2, <2>3, SegmentFinished
  <2> QED
    BY <1>2, <2>4, <2>5, <2>6
<1>16. Asked'
  BY <1>2, <1>12, <1>15 DEF Asked
<1> QED
  BY <1>14, <1>16 DEF IInv

(* The initial value, recorded as before and after an event.               *)
InitialSamples(b, t, y) ==
  /\ IsBuffer(b, Times, Inputs) /\ Kept(b) /\ b.size = 2 /\ b.head_index = 0
  /\ Sample(b, 0).t = t /\ Sample(b, 0).y = y /\ Sample(b, 0).segment = 0
  /\ Sample(b, 1).t = t /\ Sample(b, 1).y = y /\ Sample(b, 1).segment = 1

LEMMA InitiallyRecorded ==
  ASSUME NEW t \in Times, NEW y \in Values
  PROVE  InitialSamples(RecordedRight(RecordedRight(NewBuffer, t, y, FALSE, MaxDelay), t, y, TRUE, MaxDelay), t, y)
<1> DEFINE before == FALSE
           after == TRUE
           n == NewBuffer
           b == RecordedRight(n, t, y, before, MaxDelay)
           c == RecordedRight(b, t, y, after, MaxDelay)
<1>1. /\ AreTimes(Times) /\ 0 \in Times /\ 0 \in Inputs /\ y \in Inputs /\ t \in Int /\ MaxDelay \in Nat
      /\ before \in BOOLEAN /\ after \in BOOLEAN /\ after /\ IsBuffer(n, Times, Inputs) /\ n.size = 0 /\ n.head_index = 0
  BY ConstantsAre, NewBufferIs
<1> HIDE DEF before, after, n
<1>2. IsBuffer(b, Times, Inputs) /\ Kept(b) /\ Single(n, b, t, y)
  BY ONLY <1>1, t \in Times, FirstRecorded, Zenon
<1>3. b.size = 1 /\ b.head_index = 0 /\ Sample(b, 0) = [t |-> t, y |-> y, segment |-> 0]
  BY <1>1, <1>2 DEF Single
<1>4. TailIndex(b) = 0 /\ b.size > 0
  BY <1>3 DEF TailIndex
<1>5. Follows(b, t, after)
  BY <1>1, <1>3, <1>4 DEF Follows
<1> HIDE DEF b
<1>6. IsBuffer(c, Times, Inputs) /\ Kept(c) /\ RecordedAndShortened(Times, Inputs, b, c, t, y, after, MaxDelay)
  BY ONLY <1>1, <1>2, <1>4, <1>5, t \in Times, RecordedRightIs, Zenon
<1>7. PICK e : /\ IsBuffer(e, Times, Inputs) /\ Kept(e) /\ e.head_index = b.head_index
               /\ RecordedAtRight(b, e, t, y, after) /\ ShortenedTo(e, c, t - MaxDelay)
  BY <1>6, Zenon DEF RecordedAndShortened
<1> HIDE DEF c
<1>8. Extended(b, e, t, y, after)
  BY <1>3, <1>7 DEF RecordedAtRight
<1>9. /\ e.size = 2 /\ e.head_index = 0 /\ Sample(e, 0) = Sample(b, 0)
      /\ Sample(e, 1).t = t /\ Sample(e, 1).y = y /\ Sample(e, 1).segment = 1
  BY <1>1, <1>3, <1>4, <1>7, <1>8 DEF Extended, InPlace
<1>10. TailIndex(e) = 1 /\ Indices(e) = 0 .. 1
  BY <1>9 DEF TailIndex, Indices
<1>11. c.head_index \in 0 .. 1 /\ c.size = (1 - c.head_index) + 1
       /\ (0 < c.head_index => Sample(e, c.head_index).t < t - MaxDelay)
       /\ \A i \in Int : Sample(c, i) = Sample(e, i)
  BY <1>7, <1>9, <1>10 DEF ShortenedTo, SameSamples
<1>12. c.head_index = 0 /\ c.size = 2
  <2>1. ~ (t < t - MaxDelay)
    BY <1>1
  <2> QED
    BY <1>9, <1>11, <2>1
<1>13. InitialSamples(c, t, y)
  <2>1. /\ Sample(c, 0) = Sample(e, 0) /\ Sample(c, 1) = Sample(e, 1)
        /\ Sample(b, 0).t = t /\ Sample(b, 0).y = y /\ Sample(b, 0).segment = 0
    BY <1>3, <1>11
  <2> QED
    BY <1>6, <1>9, <1>12, <2>1 DEF InitialSamples
<1> QED
  BY <1>13, Zenon DEF c, b, n, before, after

LEMMA InitKeeps == Init => IInv
<1> SUFFICES ASSUME Init
             PROVE  IInv
  OBVIOUS
<1> DEFINE u == 0 + TimeOffset
<1>1. PICK y \in Values : buffer = RecordSample(RecordSample(NewBuffer, 0, y, FALSE), 0, y, TRUE)
  BY DEF Init
<1>2. /\ fixed \in BOOLEAN /\ no_event \in BOOLEAN /\ curr_interval = 0 /\ time = 0 /\ last = 0
      /\ next_event = NextTimeEvent(buffer, 0, 0) /\ phase = "continuous"
  BY DelayAssumption DEF Init
<1>3. /\ MaxTime \in Nat /\ MaxDelay \in Nat \ {0} /\ Never = MaxTime + MaxDelay + 1 /\ TimeOffset \in Int
      /\ u = TimeOffset /\ u \in Times /\ 0 \in 0 .. MaxTime
  BY ConstantsAre DEF TimeOffset, Times
<1>4. buffer = RecordedRight(RecordedRight(NewBuffer, u, y, FALSE, MaxDelay), u, y, TRUE, MaxDelay)
  BY <1>1, Zenon DEF RecordSample
<1> HIDE DEF u
<1>5. InitialSamples(buffer, u, y)
  BY <1>3, <1>4, InitiallyRecorded
<1>6. /\ IsBuffer(buffer, Times, Inputs) /\ Kept(buffer) /\ buffer.size = 2 /\ buffer.head_index = 0
      /\ Sample(buffer, 0).t = TimeOffset /\ Sample(buffer, 0).segment = 0
      /\ Sample(buffer, 1).t = TimeOffset /\ Sample(buffer, 1).segment = 1
  BY <1>3, <1>5 DEF InitialSamples
<1>7. TailIndex(buffer) = 1 /\ Indices(buffer) = 0 .. 1
  BY <1>6 DEF TailIndex, Indices
<1>8. Covered
  BY <1>6 DEF Covered
<1> DEFINE x == NextEventTime(buffer, 0, Never)
           l == LastOnSegment(buffer, 0)
<1>9. l = 0
  <2>1. SegmentFound(buffer, 0)
    BY <1>6, <1>7 DEF Kept
  <2>2. l \in 0 .. 1 /\ Sample(buffer, l).segment = Sample(buffer, 0).segment
    BY <1>7, <2>1 DEF SegmentFound
  <2> QED
    BY <1>6, <2>2
<1>10. x = TimeOffset
  BY <1>6, <1>7, <1>9 DEF NextEventTime
<1>11. next_event = IF TimeEvents /\ TimeOffset > 0 THEN TimeOffset ELSE Never
  BY <1>2, <1>10 DEF NextTimeEvent
<1> HIDE DEF x, l
<1>12. next_event \in 0 .. Never /\ 0 <= next_event
  BY <1>3, <1>11 DEF TimeOffset
<1>13. Sound
  BY <1>2, <1>3, <1>6, <1>7, <1>8, <1>12 DEF Sound
<1>14. ASSUME TimeEvents
       PROVE  SegmentRight
  <2>1. next_event = TimeOffset
    BY <1>3, <1>11, <1>14 DEF TimeOffset, TimeEvents
  <2>2. Clamped(buffer, 0) = 0
    BY <1>6, <1>7, ClampedAt
  <2>3. EarlierPast(buffer, 0, last)
    BY <1>6, <1>7 DEF EarlierPast
  <2>4. NextIs(buffer, 0, next_event)
    BY <1>6, <1>7, <2>1 DEF NextIs
  <2> QED
    BY <1>2, <1>6, <2>2, <2>3, <2>4 DEF SegmentRight
<1>15. Asked
  BY <1>2, <1>14 DEF Asked
<1> QED
  BY <1>13, <1>15 DEF IInv

LEMMA NothingKeeps == IInv /\ UNCHANGED vars => IInv'
BY DEF IInv, Sound, Asked, Covered, SegmentRight, EarlierPast, NextIs, AtEvent, NextEventAsked, EventTimes,
       TimeEvents, TimeOffset, vars

(* The samples and the position keep together.                             *)
THEOREM Invariance == Spec => []IInv
<1>1. IInv /\ [Next]_vars => IInv'
  BY IntegrateKeeps, CompletedStepKeeps, IterateEventKeeps, FinishEventKeeps, NothingKeeps DEF Next
<1> QED
  BY InitKeeps, <1>1, PTL DEF Spec

(* Whatever steps are accepted and tried, the ring buffer is in order and  *)
(* ends with the last step, and a delayed value is between two of its      *)
(* samples, or signalled, or the initial one.                              *)
THEOREM HistoryIsAlwaysSound == Spec => []HistorySound
<1>1. IInv => HistorySound
  BY HistoryIsSound DEF IInv
<1> QED
  BY Invariance, <1>1, PTL

(* A fixed delay asks for the earliest event in its history that is still  *)
(* to come.                                                                *)
THEOREM NextEventIsAlwaysAsked == Spec => []NextEventAsked
<1>1. IInv => NextEventAsked
  BY NextEventIsAsked DEF IInv
<1> QED
  BY Invariance, <1>1, PTL

(***************************************************************************)
(* The block implements DelayLine: the buffer holds the history.           *)
(***************************************************************************)
Point == [t : Int, y : Inputs]
At(b, i) == [t |-> Sample(b, i).t, y |-> Sample(b, i).y]
ContentOf(b) == [k \in 1 .. b.size |-> At(b, (b.head_index + k) - 1)]

LEMMA ContentIs ==
  ASSUME NEW b, IsBuffer(b, Times, Inputs)
  PROVE  /\ ContentOf(b) \in Seq(Point) /\ Len(ContentOf(b)) = b.size
         /\ \A k \in 1 .. b.size : ContentOf(b)[k] = At(b, (b.head_index + k) - 1)
<1>1. b.size \in Nat /\ b.head_index \in Int
  BY IndicesAre
<1>2. ASSUME NEW k \in 1 .. b.size
      PROVE  At(b, (b.head_index + k) - 1) \in Point
  <2>1. (b.head_index + k) - 1 \in Int
    BY <1>1
  <2> DEFINE i == (b.head_index + k) - 1
  <2>2. i \in Int
    BY <2>1
  <2> HIDE DEF i
  <2>3. Sample(b, i).t \in Int /\ Sample(b, i).y \in Inputs
    BY <2>2, SampleType, ConstantsAre
  <2> QED
    BY <2>3 DEF At, Point, i
<1> QED
  BY <1>1, <1>2 DEF ContentOf

LEMMA ContentOfBuffer ==
  ASSUME IsBuffer(buffer, Times, Inputs)
  PROVE  Content = ContentOf(buffer)
<1>1. buffer.head_index \in Int /\ buffer.size \in Nat
  BY IndicesAre
<1>2. \A k \in 1 .. buffer.size : (buffer.head_index + k) - 1 = buffer.head_index + k - 1
  BY <1>1
<1> QED
  BY <1>2 DEF Content, ContentOf, At

(* Two sequences of points that agree are equal.                           *)
LEMMA PointsEqual ==
  ASSUME NEW r \in Seq(Point), NEW s \in Seq(Point), Len(r) = Len(s), \A k \in 1 .. Len(r) : r[k] = s[k]
  PROVE  r = s
BY SeqEqual

LEMMA SameContent ==
  ASSUME NEW b, IsBuffer(b, Times, Inputs), NEW s \in Seq(Point), Len(s) = b.size,
         \A k \in 1 .. b.size : s[k] = At(b, (b.head_index + k) - 1)
  PROVE  ContentOf(b) = s
BY ContentIs, PointsEqual

LEMMA ContentStays ==
  ASSUME NEW b, IsBuffer(b, Times, Inputs), NEW e, IsBuffer(e, Times, Inputs), e.head_index = b.head_index,
         Unchanged(b, e)
  PROVE  ContentOf(e) = ContentOf(b)
<1>1. /\ TailIndex(b) = (b.head_index + b.size) - 1 /\ b.size \in Nat /\ b.head_index \in Int
  BY IndicesAre
<1>2. e.size = b.size /\ \A i \in b.head_index .. TailIndex(b) : Sample(e, i) = Sample(b, i)
  BY DEF Unchanged, InPlace
<1>3. ASSUME NEW k \in 1 .. b.size
      PROVE  At(e, (e.head_index + k) - 1) = At(b, (b.head_index + k) - 1)
  <2>1. (b.head_index + k) - 1 \in b.head_index .. TailIndex(b)
    BY <1>1
  <2> QED
    BY <1>2, <2>1 DEF At
<1> QED
  BY <1>2, <1>3 DEF ContentOf

(* The last sample is at the end.                                          *)
LEMMA LastContent ==
  ASSUME NEW b, IsBuffer(b, Times, Inputs), b.size > 0
  PROVE  /\ ContentOf(b)[b.size] = At(b, TailIndex(b))
         /\ Line!LastOf(ContentOf(b)) = At(b, TailIndex(b))
<1>1. /\ TailIndex(b) = (b.head_index + b.size) - 1 /\ b.size \in 1 .. b.size
  BY IndicesAre
<1> QED
  BY <1>1, ContentIs DEF Line!LastOf

(* The end of a sequence, from some place on.                              *)
LEMMA Ending ==
  ASSUME NEW S, NEW s \in Seq(S), NEW m \in 1 .. Len(s)
  PROVE  LET u == SubSeq(s, m, Len(s))
         IN /\ u \in Seq(S) /\ Len(u) = (Len(s) - m) + 1
            /\ \A k \in 1 .. (Len(s) - m) + 1 : u[k] = s[(m + k) - 1]
OBVIOUS

(* Discarding what is too old leaves what is needed.                       *)
LEMMA ShortenedIsNeeded ==
  ASSUME NEW b, IsBuffer(b, Times, Inputs), Kept(b), b.size > 0,
         NEW c, IsBuffer(c, Times, Inputs), NEW limit \in Int, ShortenedTo(b, c, limit)
  PROVE  ContentOf(c) = Line!Needed(ContentOf(b), limit)
<1> DEFINE s == ContentOf(b)
           h == b.head_index
           n == b.size
           m == (c.head_index - h) + 1
           N == {i \in 1 .. Len(s) : i = Len(s) \/ s[i + 1].t >= limit}
<1>1. /\ TailIndex(b) = (h + n) - 1 /\ n \in Nat /\ h \in Int /\ TailIndex(b) \in Int
      /\ Indices(b) = h .. TailIndex(b) /\ h <= TailIndex(b)
  BY IndicesAre
<1>2. /\ s \in Seq(Point) /\ Len(s) = n
      /\ \A k \in 1 .. n : s[k].t = Sample(b, (h + k) - 1).t /\ s[k] = At(b, (h + k) - 1)
  BY ContentIs DEF At
<1>3. /\ c.head_index \in h .. TailIndex(b) /\ c.size = (TailIndex(b) - c.head_index) + 1
      /\ \A i \in Int : Sample(c, i) = Sample(b, i)
      /\ c.head_index < TailIndex(b) => Sample(b, c.head_index + 1).t >= limit
      /\ h < c.head_index => Sample(b, c.head_index).t < limit
  BY <1>1 DEF ShortenedTo, SameSamples
<1>4. m \in 1 .. n /\ c.head_index \in Int /\ c.head_index = (h + m) - 1 /\ c.size = (n - m) + 1
  <2> DEFINE g == c.head_index
             r == TailIndex(b)
             size == c.size
  <2>1. g \in Int /\ h <= g /\ g <= r /\ size = (r - g) + 1
    BY <1>1, <1>3
  <2>2. r = (h + n) - 1 /\ n \in Nat /\ h \in Int /\ r \in Int /\ m = (g - h) + 1
    BY <1>1
  <2> HIDE DEF g, r, size, h, n, m
  <2>3. m \in 1 .. n /\ g \in Int /\ g = (h + m) - 1 /\ size = (n - m) + 1
    BY <2>1, <2>2
  <2> QED
    BY <2>3 DEF g, r, size
<1> HIDE DEF m, s
<1>5. m \in N
  <2>1. CASE m = n
    BY <1>2, <1>4, <2>1
  <2>2. CASE m # n
    <3>1. m + 1 \in 1 .. n /\ c.head_index < TailIndex(b) /\ (h + (m + 1)) - 1 = c.head_index + 1
      <4>1. m \in 1 .. n /\ n \in Nat /\ m # n /\ h \in Int /\ TailIndex(b) = (h + n) - 1 /\ c.head_index = (h + m) - 1
        BY <1>1, <1>4, <2>2
      <4> HIDE DEF h, n
      <4> QED
        BY ONLY <4>1
    <3>2. s[m + 1].t = Sample(b, c.head_index + 1).t
      BY <1>2, <3>1
    <3> QED
      BY <1>2, <1>3, <1>4, <3>1, <3>2
  <2> QED
    BY <2>1, <2>2
<1>6. \A i \in N : i \in Int /\ m <= i
  <2> SUFFICES ASSUME NEW i \in N, i < m
               PROVE  FALSE
    BY <1>2, <1>4
  <2>1. i \in 1 .. n /\ i + 1 \in 1 .. n /\ i # n
    BY <1>2, <1>4
  <2>2. s[i + 1].t >= limit
    BY <1>2, <2>1
  <2> DEFINE j == h + i
  <2>3. j \in Indices(b) /\ j <= c.head_index /\ h < c.head_index /\ c.head_index \in Indices(b) /\ (h + (i + 1)) - 1 = j /\ j \in Int
    <3>1. i \in Int /\ m \in Int /\ i >= 1 /\ i + 1 <= m
      BY <1>1, <1>4, <2>1
    <3>2. h <= c.head_index /\ c.head_index <= TailIndex(b)
      BY <1>1, <1>3
    <3>3. j \in Int /\ j <= c.head_index /\ h < j /\ (h + (i + 1)) - 1 = j
      <4>1. h \in Int /\ c.head_index = (h + m) - 1 /\ c.head_index \in Int
        BY <1>1, <1>4
      <4> HIDE DEF h
      <4> QED
        BY <3>1, <4>1
    <3>4. j \in Indices(b) /\ c.head_index \in Indices(b) /\ h < c.head_index
      <4>1. h \in Int /\ TailIndex(b) \in Int /\ c.head_index \in Int /\ Indices(b) = h .. TailIndex(b)
        BY <1>1, <1>4
      <4> HIDE DEF h, j
      <4> QED
        BY ONLY <3>2, <3>3, <4>1
    <3> QED
      BY <3>3, <3>4
  <2> HIDE DEF j
  <2>4. s[i + 1].t = Sample(b, j).t
    BY <1>2, <2>1, <2>3
  <2>5. Sample(b, j).t <= Sample(b, c.head_index).t
    BY <2>3 DEF Kept, Ordered
  <2>6. Sample(b, j).t \in Int /\ Sample(b, c.head_index).t \in Int
    BY <1>4, <2>3, SampleType, ConstantsAre
  <2> QED
    BY <1>3, <2>2, <2>3, <2>4, <2>5, <2>6
<1> HIDE DEF N
<1>7. Line!Min(N) = m
  <2>1. Line!Min(N) = CHOOSE x \in N : \A i \in N : x <= i
    BY DEF Line!Min
  <2>2. \A x \in N : (\A i \in N : x <= i) => x = m
    BY <1>5, <1>6
  <2> QED
    BY <1>5, <1>6, <2>1, <2>2
<1>8. Line!Needed(s, limit) = SubSeq(s, m, n)
  BY <1>2, <1>7 DEF Line!Needed, N
<1> DEFINE u == SubSeq(s, m, n)
<1>9. u \in Seq(Point) /\ Len(u) = (n - m) + 1 /\ \A k \in 1 .. (n - m) + 1 : u[k] = s[(m + k) - 1]
  <2>1. n \in Nat /\ m \in 1 .. n /\ n = Len(s) /\ s \in Seq(Point)
    BY <1>1, <1>2, <1>4
  <2> HIDE DEF n
  <2>2. u \in Seq(Point) /\ Len(u) = (Len(s) - m) + 1 /\ \A k \in 1 .. (Len(s) - m) + 1 : u[k] = s[(m + k) - 1]
    BY ONLY <2>1, Ending DEF u
  <2> QED
    BY <2>1, <2>2
<1> HIDE DEF u
<1>10. ASSUME NEW k \in 1 .. c.size
       PROVE  u[k] = At(c, (c.head_index + k) - 1)
  <2> DEFINE q == (m + k) - 1
             j == (c.head_index + k) - 1
  <2>1. q \in 1 .. n /\ (h + q) - 1 = j /\ j \in Int /\ k \in 1 .. (n - m) + 1
    <3>1. /\ n \in Nat /\ h \in Int /\ m \in 1 .. n /\ c.head_index = (h + m) - 1
          /\ c.size = (n - m) + 1 /\ k \in 1 .. c.size
      BY <1>1, <1>4, <1>10
    <3> HIDE DEF h, n
    <3> QED
      BY ONLY <3>1 DEF q, j
  <2> HIDE DEF j
  <2>2. u[k] = s[q]
    BY <1>9, <2>1
  <2> HIDE DEF q
  <2>3. u[k] = At(b, j)
    BY <1>2, <2>1, <2>2
  <2> QED
    BY <1>3, <2>1, <2>3 DEF At, j
<1>11. ContentOf(c) = u
  BY <1>4, <1>9, <1>10, SameContent
<1> QED
  BY <1>8, <1>11 DEF s, u

(* A sample put at the end, and one that takes the place of the last.      *)
LEMMA ContentExtended ==
  ASSUME NEW b, IsBuffer(b, Times, Inputs), NEW d, IsBuffer(d, Times, Inputs), d.head_index = b.head_index,
         NEW t \in Times, NEW y \in Inputs, d.size = b.size + 1, InPlace(b, d, b.head_index, TailIndex(b)),
         Sample(d, TailIndex(b) + 1).t = t, Sample(d, TailIndex(b) + 1).y = y
  PROVE  ContentOf(d) = Append(ContentOf(b), [t |-> t, y |-> y])
<1> DEFINE s == ContentOf(b)
           h == b.head_index
           n == b.size
           p == [t |-> t, y |-> y]
           a == Append(s, p)
<1>1. /\ TailIndex(b) = (h + n) - 1 /\ n \in Nat /\ h \in Int /\ TailIndex(b) \in Int
  BY IndicesAre
<1>2. s \in Seq(Point) /\ Len(s) = n /\ \A k \in 1 .. n : s[k] = At(b, (h + k) - 1)
  BY ContentIs
<1>3. p \in Point
  BY ConstantsAre DEF Point
<1> HIDE DEF s, p
<1>4. /\ a \in Seq(Point) /\ Len(a) = n + 1 /\ \A k \in 1 .. n : a[k] = s[k]
      /\ a[n + 1] = p
  BY <1>2, <1>3, AppendProperties
<1> HIDE DEF a
<1>5. ASSUME NEW k \in 1 .. d.size
      PROVE  a[k] = At(d, (d.head_index + k) - 1)
  <2>1. CASE k = n + 1
    <3>1. (h + k) - 1 = TailIndex(b) + 1
      <4> HIDE DEF h, n
      <4> QED
        BY <1>1, <2>1
    <3> QED
      BY <1>4, <2>1, <3>1 DEF At, p
  <2>2. CASE k \in 1 .. n
    <3>1. (h + k) - 1 \in h .. TailIndex(b)
      <4> HIDE DEF h, n
      <4> QED
        BY <1>1, <2>2
    <3>2. Sample(d, (h + k) - 1) = Sample(b, (h + k) - 1)
      BY <3>1 DEF InPlace
    <3> QED
      BY <1>2, <1>4, <2>2, <3>2 DEF At
  <2>3. d.size = n + 1
    OBVIOUS
  <2>4. k = n + 1 \/ k \in 1 .. n
    <3> HIDE DEF n
    <3> QED
      BY <1>1, <2>3
  <2> QED
    BY <2>1, <2>2, <2>4
<1> QED
  BY <1>4, <1>5, SameContent DEF a, p, s

LEMMA ContentReplaced ==
  ASSUME NEW b, IsBuffer(b, Times, Inputs), NEW d, IsBuffer(d, Times, Inputs), d.head_index = b.head_index,
         NEW t \in Times, NEW y \in Inputs, b.size > 0, Replaced(b, d, t, y)
  PROVE  ContentOf(d) = Append(SubSeq(ContentOf(b), 1, Len(ContentOf(b)) - 1), [t |-> t, y |-> y])
<1> DEFINE s == ContentOf(b)
           h == b.head_index
           n == b.size
           p == [t |-> t, y |-> y]
           r == SubSeq(s, 1, Len(s) - 1)
           a == Append(r, p)
<1>1. /\ TailIndex(b) = (h + n) - 1 /\ n \in Nat /\ h \in Int /\ TailIndex(b) \in Int /\ n - 1 \in Nat
  BY IndicesAre
<1>2. s \in Seq(Point) /\ Len(s) = n /\ \A k \in 1 .. n : s[k] = At(b, (h + k) - 1)
  BY ContentIs
<1>3. p \in Point
  BY ConstantsAre DEF Point
<1>4. /\ d.size = n /\ Sample(d, TailIndex(b)).t = t /\ Sample(d, TailIndex(b)).y = y
      /\ \A i \in h .. TailIndex(b) - 1 : Sample(d, i) = Sample(b, i)
  BY DEF Replaced, InPlace
<1> HIDE DEF s, p
<1>5. r \in Seq(Point) /\ Len(r) = n - 1 /\ \A k \in 1 .. n - 1 : r[k] = s[k]
  BY <1>1, <1>2
<1> HIDE DEF r
<1>6. /\ a \in Seq(Point) /\ Len(a) = n /\ \A k \in 1 .. n - 1 : a[k] = r[k]
      /\ a[n] = p
  <2>1. /\ a \in Seq(Point) /\ Len(a) = Len(r) + 1 /\ \A k \in 1 .. Len(r) : a[k] = r[k]
        /\ a[Len(r) + 1] = p
    BY <1>3, <1>5, AppendProperties
  <2> HIDE DEF a, n
  <2>2. Len(r) + 1 = n
    BY <1>1, <1>5
  <2> QED
    BY <1>5, <2>1, <2>2
<1> HIDE DEF a
<1>7. ASSUME NEW k \in 1 .. d.size
      PROVE  a[k] = At(d, (d.head_index + k) - 1)
  <2>1. CASE k = n
    BY <1>1, <1>4, <1>6, <2>1 DEF At, p
  <2>2. CASE k \in 1 .. n - 1
    <3>1. (h + k) - 1 \in h .. TailIndex(b) - 1 /\ k \in 1 .. n
      <4> HIDE DEF h, n
      <4> QED
        BY <1>1, <2>2
    <3>2. Sample(d, (h + k) - 1) = Sample(b, (h + k) - 1)
      BY <1>4, <3>1
    <3> QED
      BY <1>2, <1>5, <1>6, <2>2, <3>1, <3>2 DEF At
  <2> QED
    BY <1>1, <1>4, <2>1, <2>2
<1> QED
  BY <1>4, <1>6, <1>7, SameContent DEF a, p, r, s

(* Two samples at the end at the same time are an event.                   *)
LEMMA EventAtEnd ==
  ASSUME NEW b, IsBuffer(b, Times, Inputs), Kept(b), b.size >= 2
  PROVE  Line!HasEventAtEnd(ContentOf(b)) <=> EventLeftOf(b, TailIndex(b))
<1> DEFINE s == ContentOf(b)
           h == b.head_index
           n == b.size
           q == TailIndex(b) - 1
           r == TailIndex(b)
<1>1. /\ r = (h + n) - 1 /\ n \in Nat /\ h \in Int /\ r \in Int /\ Indices(b) = h .. r
  BY IndicesAre
<1>2. Len(s) = n /\ \A k \in 1 .. n : s[k].t = Sample(b, (h + k) - 1).t
  <2>1. Len(s) = n /\ \A k \in 1 .. n : s[k] = At(b, (h + k) - 1)
    BY ContentIs
  <2>2. \A i : At(b, i).t = Sample(b, i).t
    BY DEF At
  <2> HIDE DEF s, n, h
  <2> QED
    BY <2>1, <2>2
<1>3. n - 1 \in 1 .. n /\ (h + (n - 1)) - 1 = q /\ q \in Indices(b) /\ q # r /\ q + 1 = r /\ ~ (r <= h) /\ ~ (q >= r)
      /\ n \in 1 .. n /\ n > 1
  <2> HIDE DEF h, n, r
  <2>1. n >= 2
    BY DEF n
  <2> QED
    BY <1>1, <2>1 DEF r
<1>4. s[n - 1].t = Sample(b, q).t
  BY <1>2, <1>3
<1>5. s[n].t = Sample(b, r).t
  BY <1>1, <1>2, <1>3
<1> HIDE DEF s, q, r
<1>6. EventLeftOf(b, r) <=> EventRightOf(b, q)
  <2>1. r - 1 = q
    BY DEF q, r
  <2> QED
    BY <1>3, <2>1 DEF EventLeftOf, EventRightOf, r
<1>7. EventRightOf(b, q) <=> Sample(b, q).t = Sample(b, r).t
  <2>1. /\ EventRightOf(b, q) => Sample(b, q + 1).t = Sample(b, q).t
        /\ ~ EventRightOf(b, q) => Sample(b, q).t < Sample(b, q + 1).t
    BY <1>3, Neighbours DEF r
  <2>2. Sample(b, q).t \in Int /\ Sample(b, r).t \in Int
    <3>1. q \in Int /\ r \in Int
      BY <1>1, <1>3
    <3> QED
      BY <3>1, SampleType, ConstantsAre
  <2> QED
    BY <1>3, <2>1, <2>2
<1> QED
  BY <1>2, <1>3, <1>4, <1>5, <1>6, <1>7 DEF Line!HasEventAtEnd, Line!LastOf, s, r

(* A sample recorded at an event is what DelayLine makes of it.            *)
LEMMA EventRecorded ==
  ASSUME NEW b, IsBuffer(b, Times, Inputs), Kept(b), b.size >= 2, NEW d, IsBuffer(d, Times, Inputs),
         d.head_index = b.head_index, NEW t \in Times, NEW y \in Inputs, t = Sample(b, TailIndex(b)).t,
         NEW event \in BOOLEAN, event, RecordedAtRight(b, d, t, y, event)
  PROVE  /\ ContentOf(d) = Line!WithEvent(ContentOf(b), y)
         /\ d.size > 0 /\ Sample(d, TailIndex(d)).t = t
<1> DEFINE r == TailIndex(b)
           p == [t |-> t, y |-> y]
           s == ContentOf(b)
<1>1. /\ r = (b.head_index + b.size) - 1 /\ b.size \in Nat /\ b.head_index \in Int /\ r \in Int
      /\ TailIndex(d) = (d.head_index + d.size) - 1 /\ d.size \in Nat /\ b.size > 1 /\ b.size > 0
      /\ r \in b.head_index .. r
  BY IndicesAre
<1>2. Line!LastOf(s).t = t /\ Line!LastOf(s).y = Sample(b, r).y
  <2>1. Line!LastOf(s) = At(b, r)
    BY <1>1, LastContent
  <2> QED
    BY <2>1 DEF At
<1>3. Line!HasEventAtEnd(s) <=> EventLeftOf(b, r)
  BY EventAtEnd
<1> HIDE DEF s
<1>4. Line!WithEvent(s, y) = IF Sample(b, r).y = y THEN s
                             ELSE IF Line!HasEventAtEnd(s) THEN Append(SubSeq(s, 1, Len(s) - 1), p)
                             ELSE Append(s, p)
  BY <1>2 DEF Line!WithEvent
<1>5. CASE Sample(b, r).y = y
  <2>1. Unchanged(b, d)
    BY <1>1, <1>5 DEF RecordedAtRight
  <2>2. ContentOf(d) = s
    BY <2>1, ContentStays DEF s
  <2>3. d.size = b.size /\ Sample(d, r) = Sample(b, r)
    BY <1>1, <2>1 DEF Unchanged, InPlace
  <2> QED
    BY <1>1, <1>4, <1>5, <2>2, <2>3 DEF s
<1>6. CASE Sample(b, r).y # y /\ EventLeftOf(b, r)
  <2>1. Replaced(b, d, t, y)
    BY <1>1, <1>6 DEF RecordedAtRight
  <2>2. ContentOf(d) = Append(SubSeq(s, 1, Len(s) - 1), p)
    BY <1>1, <2>1, ContentReplaced DEF s
  <2>3. d.size = b.size /\ Sample(d, r).t = t
    BY <2>1 DEF Replaced
  <2> QED
    BY <1>1, <1>3, <1>4, <1>6, <2>2, <2>3 DEF s
<1>7. CASE Sample(b, r).y # y /\ ~ EventLeftOf(b, r)
  <2>1. Extended(b, d, t, y, event)
    BY <1>1, <1>7 DEF RecordedAtRight
  <2>2. /\ d.size = b.size + 1 /\ InPlace(b, d, b.head_index, r)
        /\ Sample(d, r + 1).t = t /\ Sample(d, r + 1).y = y
    BY <2>1 DEF Extended
  <2>3. ContentOf(d) = Append(s, p)
    BY <2>2, ContentExtended DEF s
  <2>4. TailIndex(d) = r + 1 /\ d.size > 0
    BY <1>1, <2>2
  <2> QED
    BY <1>3, <1>4, <1>7, <2>2, <2>3, <2>4 DEF s
<1> QED
  BY <1>5, <1>6, <1>7

LineStep == [Line!Next]_Content

(* An evaluation leaves the history alone.                                 *)
LEMMA EvaluateStutters ==
  ASSUME Sound, NEW t \in last .. MaxTime, NEW y \in Values, NEW d \in Delays,
         EvaluateOrNot(FALSE, t, y, d) \/ EvaluateOrNot(TRUE, t, y, d)
  PROVE  LineStep
<1>1. IsBuffer(buffer', Times, Inputs) /\ Stays(buffer, buffer')
  BY EvaluateKeeps
<1>2. IsBuffer(buffer, Times, Inputs)
  BY DEF Sound
<1>3. Content = ContentOf(buffer)
  BY <1>2, ContentOfBuffer
<1>4. Content' = ContentOf(buffer')
  <2>1. buffer'.head_index \in Int /\ buffer'.size \in Nat
    BY <1>1, IndicesAre
  <2>2. \A k \in 1 .. buffer'.size : (buffer'.head_index + k) - 1 = buffer'.head_index + k - 1
    BY <2>1
  <2> QED
    BY <2>2 DEF Content, ContentOf, At
<1>5. ContentOf(buffer') = ContentOf(buffer)
  BY <1>1, <1>2, ContentStays DEF Stays
<1> QED
  BY <1>3, <1>4, <1>5 DEF LineStep

(* A step appends a sample.                                                *)
LEMMA CompletedStepRecords ==
  ASSUME Sound, CompletedStep, IsBuffer(buffer', Times, Inputs)
  PROVE  LineStep
<1> DEFINE event == FALSE
           u == time + TimeOffset
           r == TailIndex(buffer)
<1>1. PICK y \in Values : buffer' = RecordSample(buffer, time, y, FALSE)
  BY DEF CompletedStep
<1>2. /\ IsBuffer(buffer, Times, Inputs) /\ Kept(buffer) /\ buffer.size >= 2 /\ buffer.size > 0 /\ y \in Inputs
      /\ last \in Int /\ time \in Int /\ TimeOffset \in Int /\ last < time /\ time \in 0 .. MaxTime
      /\ Sample(buffer, r).t = last + TimeOffset /\ buffer.size \in Nat
      /\ MaxDelay \in Nat /\ MaxTime \in Nat /\ AreTimes(Times) /\ 0 \in Times /\ 0 \in Inputs
  <2>1. MaxDelay \in Nat /\ MaxTime \in Nat
    BY ConstantsAre
  <2> QED
    BY <2>1, ConstantsAre, IndicesAre DEF Sound, TimeOffset, CompletedStep
<1>3. u \in Times /\ u \in Int /\ u \in 0 .. MaxTime + MaxDelay /\ Sample(buffer, r).t < u
  <2>1. u \in 0 .. MaxTime + MaxDelay
    BY <1>2 DEF TimeOffset
  <2> QED
    BY <1>2, <2>1, TimeToRecord
<1>4. event \in BOOLEAN /\ ~ event /\ buffer' = RecordedRight(buffer, u, y, event, MaxDelay)
  BY <1>1 DEF RecordSample
<1> HIDE DEF event, u
<1>5. Follows(buffer, u, event)
  BY <1>3, <1>4 DEF Follows
<1>6. RecordedAndShortened(Times, Inputs, buffer, buffer', u, y, event, MaxDelay)
  BY ONLY <1>2, <1>3, <1>4, <1>5, RecordedRightIs, Zenon
<1>7. PICK d : /\ IsBuffer(d, Times, Inputs) /\ Kept(d) /\ d.head_index = buffer.head_index
               /\ RecordedAtRight(buffer, d, u, y, event) /\ ShortenedTo(d, buffer', u - MaxDelay)
  BY <1>6, Zenon DEF RecordedAndShortened
<1>8. Extended(buffer, d, u, y, event)
  BY <1>4, <1>7 DEF RecordedAtRight
<1>9. /\ d.size = buffer.size + 1 /\ InPlace(buffer, d, buffer.head_index, r)
      /\ Sample(d, r + 1).t = u /\ Sample(d, r + 1).y = y
  BY <1>8 DEF Extended
<1> DEFINE s == ContentOf(buffer)
           a == Append(s, [t |-> u, y |-> y])
<1>10. ContentOf(d) = a
  BY <1>2, <1>3, <1>7, <1>9, ContentExtended
<1>11. ContentOf(buffer') = Line!Needed(a, u - MaxDelay)
  <2>1. d.size > 0 /\ u - MaxDelay \in Int
    BY <1>2, <1>3, <1>9
  <2>2. ContentOf(buffer') = Line!Needed(ContentOf(d), u - MaxDelay)
    BY <1>7, <2>1, ShortenedIsNeeded
  <2> QED
    BY <1>10, <2>2
<1>12. Line!LastOf(a).t = u
  <2>1. Line!LastOf(ContentOf(d)) = At(d, TailIndex(d))
    BY <1>2, <1>7, <1>9, LastContent
  <2>2. TailIndex(d) = r + 1
    <3>1. TailIndex(d) = (d.head_index + d.size) - 1 /\ r = (buffer.head_index + buffer.size) - 1 /\ buffer.head_index \in Int
      BY <1>2, <1>7, IndicesAre
    <3> QED
      BY <1>2, <1>7, <1>9, <3>1
  <2>3. At(d, r + 1).t = u
    BY <1>9 DEF At
  <2> QED
    BY <1>10, <2>1, <2>2, <2>3
<1>13. Line!LastOf(s).t < u /\ Line!LastOf(s).t \in Int
  <2>1. Line!LastOf(s) = At(buffer, r)
    BY <1>2, LastContent
  <2>2. At(buffer, r).t = Sample(buffer, r).t
    BY DEF At
  <2>3. last + TimeOffset \in Int
    BY <1>2
  <2> QED
    BY <1>2, <1>3, <2>1, <2>2, <2>3
<1>14. Content = s /\ Content' = ContentOf(buffer')
  <2>1. buffer'.head_index \in Int /\ buffer'.size \in Nat
    BY IndicesAre
  <2>2. \A k \in 1 .. buffer'.size : (buffer'.head_index + k) - 1 = buffer'.head_index + k - 1
    BY <2>1
  <2>3. Content' = ContentOf(buffer')
    BY <2>2 DEF Content, ContentOf, At
  <2> QED
    BY <1>2, <2>3, ContentOfBuffer
<1> HIDE DEF s
<1>15. Line!Record(a)
  BY <1>11, <1>12, <1>14 DEF Line!Record
<1>16. u > Line!LastOf(Content).t
  BY <1>3, <1>13, <1>14
<1>17. Line!Step
  <2>1. u > Line!LastOf(Content).t /\ Line!Record(Append(Content, [t |-> u, y |-> y]))
    BY <1>14, <1>15, <1>16
  <2> QED
    BY <1>3, <2>1 DEF Line!Step
<1> QED
  BY <1>17 DEF LineStep, Line!Next

(* An event iteration ends with a sample after the event.                  *)
LEMMA FinishEventRecords ==
  ASSUME Sound, FinishEvent, IsBuffer(buffer', Times, Inputs)
  PROVE  LineStep
<1> DEFINE event == TRUE
           u == time + TimeOffset
<1>1. PICK y \in Values, d \in Delays : \E e : LastPass(y, d, e)
  BY FinishEventPasses
<1>2. PICK e : LastPass(y, d, e)
  BY <1>1
<1>3. /\ IsBuffer(e, Times, Inputs) /\ Stays(buffer, e)
      /\ buffer' = RecordedRight(e, u, y, event, MaxDelay)
  BY <1>2, Zenon DEF LastPass
<1>4. /\ IsBuffer(buffer, Times, Inputs) /\ buffer.size >= 2 /\ time = last
      /\ Sample(buffer, TailIndex(buffer)).t = u /\ TailIndex(buffer) \in Indices(buffer)
      /\ MaxDelay \in Nat /\ AreTimes(Times) /\ 0 \in Times /\ 0 \in Inputs /\ y \in Inputs /\ u \in Times /\ u \in Int
  <2>1. /\ IsBuffer(buffer, Times, Inputs) /\ buffer.size >= 2 /\ time = last
        /\ Sample(buffer, TailIndex(buffer)).t = u
    BY DEF Sound, FinishEvent
  <2>2. /\ MaxDelay \in Nat /\ AreTimes(Times) /\ 0 \in Times /\ 0 \in Inputs /\ y \in Inputs /\ u \in Times /\ u \in Int
    BY ConstantsAre, TimeToRecord
  <2>3. TailIndex(buffer) \in Indices(buffer)
    BY <2>1, IndicesAre
  <2> QED
    BY <2>1, <2>2, <2>3
<1>5. /\ Kept(e) /\ e.size >= 2 /\ e.size > 0 /\ Sample(e, TailIndex(e)).t = u
      /\ e.head_index = buffer.head_index /\ Unchanged(buffer, e)
  <2>1. /\ Kept(e) /\ e.size = buffer.size /\ TailIndex(e) = TailIndex(buffer)
        /\ \A i \in Indices(buffer) : Sample(e, i) = Sample(buffer, i)
        /\ e.head_index = buffer.head_index
    BY <1>3, <1>4, StaysAs
  <2> QED
    BY <1>3, <1>4, <2>1, IndicesAre DEF Stays
<1> HIDE DEF event, u
<1>6. event \in BOOLEAN /\ event
  BY DEF event
<1>7. Follows(e, u, event)
  BY <1>5, <1>6 DEF Follows
<1>8. RecordedAndShortened(Times, Inputs, e, buffer', u, y, event, MaxDelay)
  BY ONLY <1>3, <1>4, <1>5, <1>6, <1>7, RecordedRightIs, Zenon
<1>9. PICK c : /\ IsBuffer(c, Times, Inputs) /\ Kept(c) /\ c.head_index = e.head_index
               /\ RecordedAtRight(e, c, u, y, event) /\ ShortenedTo(c, buffer', u - MaxDelay)
  BY <1>8, Zenon DEF RecordedAndShortened
<1> DEFINE s == ContentOf(buffer)
           w == Line!WithEvent(s, y)
<1>10. ContentOf(e) = s
  BY <1>3, <1>4, <1>5, ContentStays
<1>11. /\ ContentOf(c) = Line!WithEvent(ContentOf(e), y)
       /\ c.size > 0 /\ Sample(c, TailIndex(c)).t = u
  <2>1. u = Sample(e, TailIndex(e)).t
    BY <1>5
  <2> QED
    BY ONLY <1>3, <1>4, <1>5, <1>6, <1>9, <2>1, EventRecorded, Zenon
<1>12. ContentOf(c) = w
  BY <1>10, <1>11
<1>13. ContentOf(buffer') = Line!Needed(w, u - MaxDelay)
  <2>1. u - MaxDelay \in Int
    BY <1>4
  <2>2. ContentOf(buffer') = Line!Needed(ContentOf(c), u - MaxDelay)
    BY <1>9, <1>11, <2>1, ShortenedIsNeeded
  <2> QED
    BY <1>12, <2>2
<1>14. Line!LastOf(w).t = u
  <2>1. Line!LastOf(ContentOf(c)) = At(c, TailIndex(c))
    BY <1>9, <1>11, LastContent
  <2>2. At(c, TailIndex(c)).t = u
    BY <1>11 DEF At
  <2> QED
    BY <1>12, <2>1, <2>2
<1>15. Content = s /\ Content' = ContentOf(buffer')
  <2>1. buffer'.head_index \in Int /\ buffer'.size \in Nat
    BY IndicesAre
  <2>2. \A k \in 1 .. buffer'.size : (buffer'.head_index + k) - 1 = buffer'.head_index + k - 1
    BY <2>1
  <2>3. Content' = ContentOf(buffer')
    BY <2>2 DEF Content, ContentOf, At
  <2> QED
    BY <1>4, <2>3, ContentOfBuffer
<1> HIDE DEF s, w
<1>16. Line!Record(w)
  BY <1>13, <1>14, <1>15 DEF Line!Record
<1>17. Line!Event
  <2>1. Line!Record(Line!WithEvent(Content, y))
    BY <1>15, <1>16 DEF w
  <2> QED
    BY <2>1 DEF Line!Event
<1> QED
  BY <1>17 DEF LineStep, Line!Next

LEMMA InitiallyInLine == Init => Line!Init
<1> SUFFICES ASSUME Init
             PROVE  Line!Init
  OBVIOUS
<1> DEFINE u == 0 + TimeOffset
<1>1. PICK y \in Values : buffer = RecordSample(RecordSample(NewBuffer, 0, y, FALSE), 0, y, TRUE)
  BY DEF Init
<1>2. u \in Times /\ u \in Int /\ u \in 0 .. MaxTime + MaxDelay
  BY ConstantsAre DEF TimeOffset, Times
<1>3. buffer = RecordedRight(RecordedRight(NewBuffer, u, y, FALSE, MaxDelay), u, y, TRUE, MaxDelay)
  BY <1>1, Zenon DEF RecordSample
<1> HIDE DEF u
<1>4. InitialSamples(buffer, u, y)
  BY <1>2, <1>3, InitiallyRecorded
<1> DEFINE p == [t |-> u, y |-> y]
<1>5. IsBuffer(buffer, Times, Inputs) /\ buffer.size = 2 /\ buffer.head_index = 0 /\ At(buffer, 0) = p /\ At(buffer, 1) = p
  BY <1>4 DEF InitialSamples, At
<1>6. p \in Point
  BY <1>2, ConstantsAre DEF Point
<1> HIDE DEF p
<1>7. << p, p >> \in Seq(Point) /\ Len(<< p, p >>) = 2 /\ << p, p >>[1] = p /\ << p, p >>[2] = p
  BY <1>6
<1>8. ContentOf(buffer) = << p, p >>
  <2>1. \A k \in 1 .. 2 : << p, p >>[k] = At(buffer, (0 + k) - 1)
    BY <1>5, <1>7
  <2> QED
    BY <1>5, <1>7, <2>1, SameContent
<1>9. Content = << p, p >>
  BY <1>5, <1>8, ContentOfBuffer
<1> QED
  BY <1>2, <1>9 DEF Line!Init, p

(* No sample is lost, moved or left behind: the ring buffer, its segments  *)
(* and its events implement the plain history of the input.                *)
THEOREM ImplementsHistory == Spec => ImplementsDelayLine
<1>1. IInv /\ IInv' /\ [Next]_vars => [Line!Next]_Content
  <2> SUFFICES ASSUME IInv, IInv', [Next]_vars
               PROVE  LineStep
    BY DEF LineStep
  <2>1. Sound /\ IsBuffer(buffer', Times, Inputs)
    BY DEF IInv, Sound
  <2>2. CASE Integrate
    <3>1. PICK t \in Trial, y \in Values, d \in Delays : EvaluateOrNot(FALSE, t, y, d)
      BY <2>2 DEF Integrate
    <3>2. t \in last .. MaxTime
      BY DEF Trial
    <3> QED
      BY <2>1, <3>1, <3>2, EvaluateStutters
  <2>3. CASE IterateEvent
    <3>1. PICK y \in Values, d \in Delays : EvaluateOrNot(TRUE, time, y, d)
      BY <2>3 DEF IterateEvent
    <3>2. time \in last .. MaxTime
      BY <2>1, ConstantsAre DEF Sound
    <3> QED
      BY <2>1, <3>1, <3>2, EvaluateStutters
  <2>4. CASE UNCHANGED vars
    BY <2>4 DEF vars, Content, LineStep
  <2> QED
    BY <2>1, <2>2, <2>3, <2>4, CompletedStepRecords, FinishEventRecords DEF Next
<1> QED
  BY InitiallyInLine, <1>1, Invariance, PTL DEF Spec, ImplementsDelayLine, Line!Spec
==============================================================================
