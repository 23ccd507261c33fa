------------------------- MODULE DelayBuffer_proofs --------------------------
(***************************************************************************)
(* What the operations of a delay buffer do to its samples and events,     *)
(* wherever the two ring buffers wrap and whenever they grow.              *)
(***************************************************************************)
EXTENDS DelayBuffer, WellFoundedInduction, TLAPS

---------------------------------------------------------------------------
(* Numbers: the least element of a set, and remainders.                    *)
LEMMA LeastNumber ==
  ASSUME NEW S, S \subseteq Nat, S # {}
  PROVE  \E m \in S : \A k \in S : m <= k
<1> DEFINE Less == OpToRel(<, Nat)
<1>1. IsWellFoundedOn(Less, Nat)
  BY NatLessThanWellFounded
<1>2. \A x, z \in Nat : <<z, x>> \in Less <=> z < x
  BY DEF OpToRel
<1> HIDE DEF Less
<1>3. PICK m \in S : \A k \in S : <<k, m>> \notin Less
  <2>1. \A R, T : IsWellFoundedOn(R, T) =>
          \A U : U \subseteq T /\ U # {} => \E x \in U : \A z \in U : ~ (<<z, x>> \in R)
    BY WFMin
  <2> QED
    BY <1>1, <2>1
<1>4. ASSUME NEW k \in S
      PROVE  m <= k
  <2>1. m \in Nat /\ k \in Nat /\ <<k, m>> \notin Less
    BY <1>3
  <2> QED
    BY <1>2, <2>1
<1> QED
  BY <1>4

(* The least and the greatest of some indices.                             *)
LEMMA MinOfIndices ==
  ASSUME NEW l \in Int, NEW S, S # {}, \A i \in S : i \in Int /\ l <= i
  PROVE  Min(S) \in S /\ \A i \in S : Min(S) <= i
<1> DEFINE T == {i - l : i \in S}
<1>1. T \subseteq Nat /\ T # {}
  OBVIOUS
<1>2. \A i \in S : i - l \in T
  OBVIOUS
<1>3. \A k \in T : k + l \in S
  OBVIOUS
<1> HIDE DEF T
<1>4. PICK m \in T : \A k \in T : m <= k
  BY <1>1, LeastNumber
<1>5. m \in Nat /\ m + l \in S
  BY <1>1, <1>3, <1>4
<1>6. \A i \in S : m + l <= i
  BY <1>2, <1>4, <1>5
<1>7. \E x \in S : \A y \in S : x <= y
  BY <1>5, <1>6
<1> QED
  BY <1>7 DEF Min

LEMMA MaxOfIndices ==
  ASSUME NEW r \in Int, NEW S, S # {}, \A i \in S : i \in Int /\ i <= r
  PROVE  Max(S) \in S /\ \A i \in S : i <= Max(S)
<1> DEFINE T == {r - i : i \in S}
<1>1. T \subseteq Nat /\ T # {}
  OBVIOUS
<1>2. \A i \in S : r - i \in T
  OBVIOUS
<1>3. \A k \in T : r - k \in S
  OBVIOUS
<1> HIDE DEF T
<1>4. PICK m \in T : \A k \in T : m <= k
  BY <1>1, LeastNumber
<1>5. m \in Nat /\ r - m \in S
  BY <1>1, <1>3, <1>4
<1>6. \A i \in S : r - m >= i
  BY <1>2, <1>4, <1>5
<1>7. \E x \in S : \A y \in S : x >= y
  BY <1>5, <1>6
<1>8. Max(S) \in S /\ \A i \in S : Max(S) >= i
  BY <1>7 DEF Max
<1> QED
  BY <1>8

LEMMA MinOfTwo ==
  ASSUME NEW a \in Int, NEW b \in Int
  PROVE  Min({a, b}) = IF a <= b THEN a ELSE b
<1>1. \A x \in {a, b} : (\A y \in {a, b} : x <= y) => x = IF a <= b THEN a ELSE b
  OBVIOUS
<1>2. \E x \in {a, b} : \A y \in {a, b} : x <= y
  OBVIOUS
<1> QED
  BY <1>1, <1>2 DEF Min

(* Induction up to a bound.                                                *)
LEMMA InductionUpTo ==
  ASSUME NEW n \in Nat, NEW S, 0 \in S, \A i \in 0 .. n : i \in S /\ i < n => i + 1 \in S
  PROVE  0 .. n \subseteq S
<1> DEFINE Others == {i \in 0 .. n : i \notin S}
<1>1. ASSUME Others # {}
      PROVE  FALSE
  <2>0. Others \subseteq Nat
    OBVIOUS
  <2>1. PICK m \in Others : \A k \in Others : m <= k
    <3> HIDE DEF Others
    <3> QED
      BY <1>1, <2>0, LeastNumber
  <2>2. m \in 1 .. n /\ m \notin S
    BY <2>1
  <2>3. m - 1 \in 0 .. n /\ m - 1 < n /\ ~ (m <= m - 1)
    BY <2>2
  <2>4. m - 1 \in S
    BY <2>1, <2>3
  <2>5. (m - 1) + 1 \in S
    BY <2>3, <2>4
  <2> QED
    BY <2>2, <2>5
<1> QED
  BY <1>1

LEMMA Remainder ==
  ASSUME NEW n \in Nat \ {0}, NEW a \in Int
  PROVE  a % n \in 0 .. n - 1 /\ \E q \in Int : a = (n * q) + (a % n)
<1>1. a % n \in 0 .. n - 1
  OBVIOUS
<1>2. a \div n \in Int /\ a = (n * (a \div n)) + (a % n)
  OBVIOUS
<1> QED
  BY <1>1, <1>2

LEMMA Multiples ==
  ASSUME NEW n \in Nat \ {0}, NEW q \in Int, NEW p \in Int, q > p
  PROVE  n * q >= (n * p) + n
OBVIOUS

LEMMA RemainderIs ==
  ASSUME NEW n \in Nat \ {0}, NEW q \in Int, NEW r \in 0 .. n - 1, NEW a \in Int, a = (n * q) + r
  PROVE  a % n = r
<1>1. PICK p \in Int : a = (n * p) + (a % n)
  BY Remainder
<1> DEFINE s == a % n
<1>2. s \in 0 .. n - 1
  BY Remainder
<1>3. (n * q) + r = (n * p) + s
  BY <1>1
<1> HIDE DEF s
<1>4. ~ (q > p)
  BY <1>2, <1>3, Multiples
<1>5. ~ (p > q)
  BY <1>2, <1>3, Multiples
<1>6. r = s
  BY <1>2, <1>3, <1>4, <1>5
<1> QED
  BY <1>6 DEF s

(* Going on from an index, at most once around.                            *)
LEMMA Around ==
  ASSUME NEW n \in Nat \ {0}, NEW a \in Int, NEW d \in 0 .. n
  PROVE  (a + d) % n = IF (a % n) + d < n THEN (a % n) + d ELSE ((a % n) + d) - n
<1>1. PICK p \in Int : a = (n * p) + (a % n)
  BY Remainder
<1> DEFINE r == a % n
<1>2. r \in 0 .. n - 1 /\ a = (n * p) + r
  BY <1>1, Remainder
<1> HIDE DEF r
<1>3. CASE r + d < n
  <2>1. a + d = (n * p) + (r + d) /\ r + d \in 0 .. n - 1 /\ a + d \in Int /\ p \in Int
    BY <1>2, <1>3
  <2>2. (a + d) % n = r + d
    <3> DEFINE x == a + d
               t == r + d
    <3>1. x \in Int /\ t \in 0 .. n - 1 /\ x = (n * p) + t
      BY <2>1
    <3> HIDE DEF x, t
    <3>2. x % n = t
      BY <3>1, RemainderIs
    <3> QED
      BY <3>2 DEF x, t
  <2> QED
    BY <2>2, <1>3 DEF r
<1>4. CASE ~ (r + d < n)
  <2>1. n * (p + 1) = (n * p) + n
    OBVIOUS
  <2>2. a + d = (n * (p + 1)) + ((r + d) - n)
    BY <1>2, <2>1
  <2>3. (r + d) - n \in 0 .. n - 1 /\ a + d \in Int /\ p + 1 \in Int
    BY <1>2, <1>4
  <2>4. (a + d) % n = (r + d) - n
    <3> DEFINE x == a + d
               q == p + 1
               t == (r + d) - n
    <3>1. x \in Int /\ q \in Int /\ t \in 0 .. n - 1 /\ x = (n * q) + t
      BY <2>2, <2>3
    <3> HIDE DEF x, q, t
    <3>2. x % n = t
      BY <3>1, RemainderIs
    <3> QED
      BY <3>2 DEF x, t
  <2> QED
    BY <2>4, <1>4 DEF r
<1> QED
  BY <1>3, <1>4

(* Less than once around there are no two indices with the same slot.      *)
LEMMA SlotsDiffer ==
  ASSUME NEW n \in Nat \ {0}, NEW i \in Int, NEW j \in Int, i < j, j < i + n
  PROVE  i % n # j % n
<1>1. j - i \in 1 .. n - 1 /\ j = i + (j - i)
  OBVIOUS
<1> DEFINE d == j - i
<1>2. d \in 1 .. n - 1 /\ d \in 0 .. n /\ j = i + d
  BY <1>1
<1> HIDE DEF d
<1>3. (i + d) % n = IF (i % n) + d < n THEN (i % n) + d ELSE ((i % n) + d) - n
  BY ONLY <1>2, n \in Nat \ {0}, i \in Int, Around
<1>4. i % n \in 0 .. n - 1
  BY Remainder
<1> QED
  BY <1>2, <1>3, <1>4

LEMMA DoubleRemainder ==
  ASSUME NEW n \in Nat \ {0}, NEW a \in Int
  PROVE  a % (2 * n) = a % n \/ a % (2 * n) = (a % n) + n
<1> DEFINE m == 2 * n
<1>1. m \in Nat \ {0} /\ m = 2 * n
  OBVIOUS
<1> DEFINE s == a % m
<1>2. PICK p \in Int : a = (m * p) + s
  BY <1>1, Remainder
<1>3. s \in 0 .. m - 1
  BY <1>1, Remainder
<1> HIDE DEF s
<1>4. m * p = n * (2 * p) /\ 2 * p \in Int
  BY <1>1
<1>5. CASE s < n
  <2>1. a = (n * (2 * p)) + s /\ s \in 0 .. n - 1
    BY <1>2, <1>3, <1>4, <1>5
  <2>2. a % n = s
    BY ONLY <2>1, <1>4, n \in Nat \ {0}, a \in Int, RemainderIs
  <2> QED
    BY <2>2 DEF s
<1>6. CASE s >= n
  <2>1. n * ((2 * p) + 1) = (n * (2 * p)) + n /\ (2 * p) + 1 \in Int
    OBVIOUS
  <2>2. a = (n * ((2 * p) + 1)) + (s - n) /\ s - n \in 0 .. n - 1
    BY <1>1, <1>2, <1>3, <1>4, <1>6, <2>1
  <2>3. a % n = s - n
    <3> DEFINE q == (2 * p) + 1
               t == s - n
    <3>1. q \in Int /\ t \in 0 .. n - 1 /\ a = (n * q) + t
      BY <2>1, <2>2
    <3> HIDE DEF q, t
    <3>2. a % n = t
      BY <3>1, RemainderIs
    <3> QED
      BY <3>2 DEF t
  <2> QED
    BY <2>3, <1>3, <1>1 DEF s
<1> QED
  BY <1>3, <1>5, <1>6

---------------------------------------------------------------------------
(* A buffer with times of T and values of Y, whatever is in its slots.     *)
Fields == {"capacity", "size", "head_index", "buf", "event_capacity", "event_buf"}

AreTimes(T) == T \subseteq Int

IsBuffer(b, T, Y) ==
  /\ DOMAIN b = Fields
  /\ b.capacity \in Nat \ {0}
  /\ b.event_capacity \in Nat \ {0, 1}
  /\ b.size \in 0 .. b.capacity
  /\ b.head_index \in Int
  /\ b.buf \in [0 .. b.capacity - 1 -> [t : T, y : Y, segment : Int]]
  /\ b.event_buf \in [0 .. b.event_capacity - 1 -> Int]

(* Both rings stay as they are.                                            *)
SameRings(b, c) ==
  /\ c.capacity = b.capacity /\ c.event_capacity = b.event_capacity
  /\ c.buf = b.buf /\ c.event_buf = b.event_buf

SameSamples(b, c) == \A i \in Int : Sample(c, i) = Sample(b, i)

(* A sample is one, at every index.                                        *)
LEMMA SampleType ==
  ASSUME NEW T, NEW Y, NEW b, IsBuffer(b, T, Y), NEW i \in Int
  PROVE  /\ Sample(b, i) \in [t : T, y : Y, segment : Int]
         /\ Sample(b, i).t \in T /\ Sample(b, i).y \in Y /\ Sample(b, i).segment \in Int
         /\ SampleLeftOf(b, i) \in Int
<1>1. i % b.capacity \in 0 .. b.capacity - 1 /\ i % b.event_capacity \in 0 .. b.event_capacity - 1
  BY Remainder DEF IsBuffer
<1>2. Sample(b, i) \in [t : T, y : Y, segment : Int] /\ SampleLeftOf(b, i) \in Int
  BY <1>1 DEF IsBuffer, Sample, SampleLeftOf
<1> QED
  BY <1>2

LEMMA Resized ==
  ASSUME NEW T, NEW Y, NEW b, IsBuffer(b, T, Y), NEW n \in 0 .. b.capacity
  PROVE  LET c == [b EXCEPT !.size = n]
         IN IsBuffer(c, T, Y) /\ c.size = n /\ c.head_index = b.head_index /\ SameRings(b, c)
BY DEF IsBuffer, Fields, SameRings

LEMMA Moved ==
  ASSUME NEW T, NEW Y, NEW b, IsBuffer(b, T, Y), NEW n \in 0 .. b.capacity, NEW h \in Int
  PROVE  LET c == [b EXCEPT !.size = n, !.head_index = h]
         IN IsBuffer(c, T, Y) /\ c.size = n /\ c.head_index = h /\ SameRings(b, c)
BY DEF IsBuffer, Fields, SameRings

LEMMA SampleSet ==
  ASSUME NEW T, NEW Y, NEW b, IsBuffer(b, T, Y), NEW i \in Int,
         NEW s \in [t : T, y : Y, segment : Int]
  PROVE  LET c == SetSample(b, i, s)
         IN /\ IsBuffer(c, T, Y)
            /\ c.size = b.size /\ c.head_index = b.head_index /\ c.capacity = b.capacity
            /\ c.event_capacity = b.event_capacity /\ c.event_buf = b.event_buf
            /\ Sample(c, i) = s
            /\ \A j \in Int : (j < i /\ i < j + b.capacity) \/ (i < j /\ j < i + b.capacity)
                 => Sample(c, j) = Sample(b, j)
<1> DEFINE p == i % b.capacity
           c == SetSample(b, i, s)
<1>1. p \in 0 .. b.capacity - 1
  BY Remainder DEF IsBuffer
<1>2. /\ DOMAIN c = Fields
      /\ c.size = b.size /\ c.head_index = b.head_index /\ c.capacity = b.capacity
      /\ c.event_capacity = b.event_capacity /\ c.event_buf = b.event_buf
      /\ c.buf = [b.buf EXCEPT ![p] = s]
  BY DEF SetSample, IsBuffer, Fields
<1> HIDE DEF c
<1>3. IsBuffer(c, T, Y)
  BY <1>1, <1>2 DEF IsBuffer
<1>4. Sample(c, i) = s
  BY <1>1, <1>2 DEF Sample, IsBuffer
<1>5. ASSUME NEW j \in Int, (j < i /\ i < j + b.capacity) \/ (i < j /\ j < i + b.capacity)
      PROVE  Sample(c, j) = Sample(b, j)
  <2>1. j % b.capacity # p
    BY <1>5, SlotsDiffer DEF IsBuffer
  <2>2. j % b.capacity \in 0 .. b.capacity - 1
    BY Remainder DEF IsBuffer
  <2> HIDE DEF p
  <2> QED
    BY <1>1, <1>2, <2>1, <2>2 DEF Sample, IsBuffer
<1> QED
  BY <1>2, <1>3, <1>4, <1>5 DEF c

LEMMA EventSet ==
  ASSUME NEW T, NEW Y, NEW b, IsBuffer(b, T, Y), NEW e \in Int, NEW index \in Int
  PROVE  LET c == SetEvent(b, e, index)
         IN /\ IsBuffer(c, T, Y)
            /\ c.size = b.size /\ c.head_index = b.head_index /\ c.capacity = b.capacity
            /\ c.event_capacity = b.event_capacity /\ c.buf = b.buf
            /\ SampleLeftOf(c, e) = index
            /\ \A d \in Int : (d < e /\ e < d + b.event_capacity) \/ (e < d /\ d < e + b.event_capacity)
                 => SampleLeftOf(c, d) = SampleLeftOf(b, d)
<1> DEFINE p == e % b.event_capacity
           c == SetEvent(b, e, index)
<1>0. b.event_capacity \in Nat \ {0}
  BY DEF IsBuffer
<1>1. p \in 0 .. b.event_capacity - 1
  BY <1>0, Remainder
<1>2. /\ DOMAIN c = Fields
      /\ c.size = b.size /\ c.head_index = b.head_index /\ c.capacity = b.capacity
      /\ c.event_capacity = b.event_capacity /\ c.buf = b.buf
      /\ c.event_buf = [b.event_buf EXCEPT ![p] = index]
  BY DEF SetEvent, IsBuffer, Fields
<1> HIDE DEF c
<1>3. IsBuffer(c, T, Y)
  BY <1>1, <1>2 DEF IsBuffer
<1>4. SampleLeftOf(c, e) = index
  BY <1>1, <1>2 DEF SampleLeftOf, IsBuffer
<1>5. ASSUME NEW d \in Int,
             (d < e /\ e < d + b.event_capacity) \/ (e < d /\ d < e + b.event_capacity)
      PROVE  SampleLeftOf(c, d) = SampleLeftOf(b, d)
  <2>1. d % b.event_capacity # p
    BY <1>0, <1>5, SlotsDiffer
  <2>2. d % b.event_capacity \in 0 .. b.event_capacity - 1
    BY <1>0, Remainder
  <2> HIDE DEF p
  <2> QED
    BY <1>1, <1>2, <2>1, <2>2 DEF SampleLeftOf, IsBuffer
<1> QED
  BY <1>2, <1>3, <1>4, <1>5 DEF c

---------------------------------------------------------------------------
(* Growing: what was in the old ring is found in the new one, as many times*)
(* as both wrap.                                                           *)
Ring(capacity, V) == [0 .. capacity - 1 -> V]
SlotsKept(old, new, capacity, first, n) ==
  \A i \in first .. (first + n) - 1 : new[i % (2 * capacity)] = old[i % capacity]

LEMMA ReallocatedKeeps ==
  ASSUME NEW V, NEW capacity \in Nat \ {0}, NEW old \in Ring(capacity, V),
         NEW first \in Int, NEW n \in 0 .. capacity, NEW empty \in V
  PROVE  LET new == Reallocated(old, capacity, first, n, empty)
         IN /\ new \in Ring(2 * capacity, V)
            /\ SlotsKept(old, new, capacity, first, n)
<1> DEFINE m == 2 * capacity
           head == first % capacity
           new_head == first % m
           first_size == Min({n, capacity - head})
           wrapped == (first + first_size) % m
           new == Reallocated(old, capacity, first, n, empty)
<1>0. old \in [0 .. capacity - 1 -> V]
  BY DEF Ring
<1>1. m \in Nat \ {0} /\ m = 2 * capacity
  OBVIOUS
<1>2. head \in 0 .. capacity - 1 /\ new_head \in 0 .. m - 1
  BY <1>1, Remainder
<1>3. new_head = head \/ new_head = head + capacity
  BY DoubleRemainder
<1>4. first_size = IF n <= capacity - head THEN n ELSE capacity - head
  BY <1>2, MinOfTwo
<1>5. first_size \in 0 .. m
  BY <1>1, <1>2, <1>4
<1>6. wrapped = IF new_head + first_size < m THEN new_head + first_size
                ELSE (new_head + first_size) - m
  <2> HIDE DEF first_size, m
  <2> QED
    BY <1>1, <1>5, Around
<1>7. new = [p \in 0 .. m - 1 |->
               CASE p \in new_head .. new_head + first_size - 1 -> old[head + p - new_head]
                 [] p \in wrapped .. wrapped + n - first_size - 1 -> old[p - wrapped]
                 [] OTHER -> empty]
  BY DEF Reallocated
<1> HIDE DEF new, m, head, new_head, first_size, wrapped
<1>8. CASE n <= capacity - head
  <2>1. first_size = n /\ \A p \in 0 .. m - 1 : p \notin wrapped .. wrapped + n - first_size - 1
    BY <1>2, <1>4, <1>6, <1>8
  <2>2. \A p \in 0 .. m - 1 :
           new[p] = IF p \in new_head .. new_head + n - 1 THEN old[head + p - new_head] ELSE empty
    BY <1>7, <2>1
  <2>3. new \in [0 .. m - 1 -> V]
    <3>1. \A p \in 0 .. m - 1 : p \in new_head .. new_head + n - 1 =>
             head + p - new_head \in 0 .. capacity - 1
      BY <1>2, <1>8
    <3>2. \A p \in 0 .. m - 1 : new[p] \in V
      BY <1>0, <2>2, <3>1
    <3> QED
      BY <1>7, <3>2
  <2>4. ASSUME NEW i \in first .. (first + n) - 1
        PROVE  new[i % m] = old[i % capacity]
    <3> DEFINE d == i - first
    <3>1. d \in 0 .. n - 1 /\ i = first + d
      OBVIOUS
    <3> HIDE DEF d
    <3>2. d \in 0 .. capacity /\ d \in 0 .. m
      BY <1>1, <3>1
    <3>3. (first + d) % capacity = IF head + d < capacity THEN head + d ELSE (head + d) - capacity
      BY <3>2, Around DEF head
    <3>4. (first + d) % m = IF new_head + d < m THEN new_head + d ELSE (new_head + d) - m
      BY <1>1, <3>2, Around DEF new_head
    <3>5. head + d < capacity /\ new_head + d < m
      BY <1>1, <1>2, <1>3, <1>8, <3>1
    <3>6. new_head + d \in 0 .. m - 1 /\ new_head + d \in new_head .. new_head + n - 1
      BY <1>1, <1>2, <3>1, <3>5
    <3>7. head + ((new_head + d) - new_head) = head + d
      BY <1>2, <3>1
    <3>8. new[new_head + d] = old[head + d]
      BY <2>2, <3>6, <3>7
    <3> QED
      BY <3>1, <3>3, <3>4, <3>5, <3>8
  <2> QED
    BY <2>3, <2>4 DEF m, new, Ring, SlotsKept
<1>9. CASE ~ (n <= capacity - head)
  <2>1. first_size = capacity - head /\ wrapped = IF new_head = head THEN capacity ELSE 0
    BY <1>1, <1>2, <1>3, <1>4, <1>6, <1>9
  <2>2. \A p \in 0 .. m - 1 : p \in new_head .. new_head + first_size - 1 =>
           p \notin wrapped .. wrapped + n - first_size - 1
    BY <1>1, <1>2, <1>3, <1>9, <2>1
  <2>3. \A p \in 0 .. m - 1 :
           new[p] = IF p \in new_head .. new_head + first_size - 1 THEN old[head + p - new_head]
                    ELSE IF p \in wrapped .. wrapped + n - first_size - 1 THEN old[p - wrapped]
                    ELSE empty
    BY <1>7, <2>2
  <2>4. new \in [0 .. m - 1 -> V]
    <3>1. \A p \in 0 .. m - 1 : p \in new_head .. new_head + first_size - 1 =>
             head + p - new_head \in 0 .. capacity - 1
      BY <1>2, <2>1
    <3>2. \A p \in 0 .. m - 1 : p \in wrapped .. wrapped + n - first_size - 1 =>
             p - wrapped \in 0 .. capacity - 1
      BY <1>2, <2>1
    <3>3. \A p \in 0 .. m - 1 : new[p] \in V
      BY <1>0, <2>3, <3>1, <3>2
    <3> QED
      BY <1>7, <3>3
  <2>5. ASSUME NEW i \in first .. (first + n) - 1
        PROVE  new[i % m] = old[i % capacity]
    <3> DEFINE d == i - first
    <3>1. d \in 0 .. n - 1 /\ i = first + d
      OBVIOUS
    <3> HIDE DEF d
    <3>2. d \in 0 .. capacity /\ d \in 0 .. m
      BY <1>1, <3>1
    <3>3. (first + d) % capacity = IF head + d < capacity THEN head + d ELSE (head + d) - capacity
      BY <3>2, Around DEF head
    <3>4. (first + d) % m = IF new_head + d < m THEN new_head + d ELSE (new_head + d) - m
      BY <1>1, <3>2, Around DEF new_head
    <3>5. CASE head + d < capacity
      <4>1. new_head + d < m
        BY <1>1, <1>2, <1>3, <3>1, <3>5
      <4>2. new_head + d \in 0 .. m - 1 /\ new_head + d \in new_head .. new_head + first_size - 1
        BY <1>1, <1>2, <2>1, <3>1, <3>5, <4>1
      <4>3. head + ((new_head + d) - new_head) = head + d
        BY <1>2, <3>1
      <4>4. new[new_head + d] = old[head + d]
        BY <2>3, <4>2, <4>3
      <4> QED
        BY <3>1, <3>3, <3>4, <3>5, <4>1, <4>4
    <3>6. CASE ~ (head + d < capacity)
      <4> DEFINE e == (head + d) - capacity
                 p == wrapped + e
      <4>1. e \in 0 .. (n - first_size) - 1 /\ p - wrapped = e /\ e \in 0 .. capacity - 1
        BY <1>2, <2>1, <3>1, <3>6
      <4>2. (first + d) % m = p
        BY <1>1, <1>2, <1>3, <2>1, <3>4, <3>6, <3>1
      <4>3. p \in 0 .. m - 1 /\ p \in wrapped .. wrapped + n - first_size - 1
        BY <1>1, <2>1, <4>1
      <4>4. p \notin new_head .. new_head + first_size - 1
        BY <2>2, <4>3
      <4>5. new[p] = old[e]
        BY <2>3, <4>1, <4>3, <4>4
      <4> QED
        BY <3>1, <3>3, <3>6, <4>2, <4>5
    <3> QED
      BY <3>5, <3>6
  <2> QED
    BY <2>4, <2>5 DEF m, new, Ring, SlotsKept
<1> QED
  BY <1>8, <1>9

---------------------------------------------------------------------------
(* What holds of a buffer in use. The order holds between any two samples  *)
(* of it, and from any sample the ends of its segment are found: this is   *)
(* what a change at one end of the buffer keeps for the rest of it.        *)
Ordered(b) ==
  \A i, j \in Indices(b) :
    i <= j => Sample(b, i).t <= Sample(b, j).t /\ Sample(b, i).segment <= Sample(b, j).segment

SegmentFound(b, i) ==
  /\ FirstOnSegment(b, i) \in b.head_index .. i
  /\ Sample(b, FirstOnSegment(b, i)).segment = Sample(b, i).segment
  /\ EventLeftOf(b, FirstOnSegment(b, i))
  /\ LastOnSegment(b, i) \in i .. TailIndex(b)
  /\ Sample(b, LastOnSegment(b, i)).segment = Sample(b, i).segment
  /\ EventRightOf(b, LastOnSegment(b, i))

FirstEvent(b) == Sample(b, b.head_index).segment
LastEvent(b) == Sample(b, TailIndex(b)).segment + 1

Kept(b) ==
  /\ b.size > 0 => (LastEvent(b) - FirstEvent(b)) + 1 <= b.event_capacity
  /\ Ordered(b)
  /\ SamplesOrdered(b)
  /\ \A i \in Indices(b) : SegmentFound(b, i)

(* Samples and events are where they were.                                 *)
InPlace(b, c, from, to) == \A i \in from .. to : Sample(c, i) = Sample(b, i)
EventsInPlace(b, c, from, to) == \A e \in from .. to : SampleLeftOf(c, e) = SampleLeftOf(b, e)

(* The indices are a piece of the integers.                                *)
LEMMA IndicesAre ==
  ASSUME NEW T, NEW Y, NEW b, IsBuffer(b, T, Y)
  PROVE  /\ b.head_index \in Int /\ TailIndex(b) \in Int /\ b.size \in Nat
         /\ TailIndex(b) = (b.head_index + b.size) - 1
         /\ Indices(b) = b.head_index .. TailIndex(b)
         /\ \A i \in Indices(b) : i \in Int /\ b.head_index <= i /\ i <= TailIndex(b)
         /\ b.size > 0 => b.head_index \in Indices(b) /\ TailIndex(b) \in Indices(b)
BY DEF IsBuffer, TailIndex, Indices

(* A buffer with its samples and events in place is kept.                  *)
LEMMA KeptInPlace ==
  ASSUME NEW T, NEW Y, AreTimes(T), NEW b, IsBuffer(b, T, Y), Kept(b), NEW c, IsBuffer(c, T, Y),
         c.size = b.size, c.head_index = b.head_index, c.event_capacity >= b.event_capacity,
         InPlace(b, c, b.head_index, TailIndex(b)),
         b.size > 0 => EventsInPlace(b, c, FirstEvent(b), LastEvent(b))
  PROVE  Kept(c)
<1>a. T \subseteq Int
  BY DEF AreTimes
<1> USE <1>a
<1>1. TailIndex(c) = TailIndex(b) /\ Indices(c) = Indices(b)
  BY DEF TailIndex, Indices
<1>2. /\ b.head_index \in Int /\ TailIndex(b) \in Int /\ b.size \in Nat
      /\ TailIndex(b) = (b.head_index + b.size) - 1
      /\ Indices(b) = b.head_index .. TailIndex(b)
      /\ b.size > 0 => b.head_index \in Indices(b) /\ TailIndex(b) \in Indices(b)
  BY IndicesAre
<1>3. \A i \in Indices(b) : Sample(c, i) = Sample(b, i)
  BY <1>2 DEF InPlace
<1>4. \A i \in Indices(b) : Sample(b, i).segment \in Int
  BY <1>2, SampleType
<1>5. b.event_capacity \in Int /\ c.event_capacity \in Int
  BY DEF IsBuffer
<1>6. b.size > 0 => (LastEvent(c) - FirstEvent(c)) + 1 <= c.event_capacity
  BY <1>1, <1>2, <1>3, <1>4, <1>5, SMTT(20) DEF Kept, LastEvent, FirstEvent
<1>7. Ordered(c)
  BY <1>1, <1>3 DEF Kept, Ordered
<1>8. \A i \in Indices(b) : (EventLeftOf(c, i) <=> EventLeftOf(b, i)) /\ (EventRightOf(c, i) <=> EventRightOf(b, i))
  BY <1>1, <1>2, <1>3 DEF EventLeftOf, EventRightOf
<1>9. SamplesOrdered(c)
  <2>1. SamplesOrdered(b)
    BY DEF Kept
  <2>2. \A i \in Indices(b) \ {TailIndex(b)} : i + 1 \in Indices(b)
    BY <1>2
  <2> QED
    BY <1>1, <1>3, <1>8, <2>1, <2>2 DEF SamplesOrdered
<1>10. ASSUME NEW i \in Indices(b)
       PROVE  SegmentFound(c, i)
  <2>1. b.size > 0 /\ SegmentFound(b, i)
    BY <1>2 DEF Kept
  <2>2. Sample(b, i).segment \in FirstEvent(b) .. LastEvent(b) /\ Sample(b, i).segment + 1 \in FirstEvent(b) .. LastEvent(b)
    <3>1. b.head_index <= i /\ i <= TailIndex(b)
      BY <1>2
    <3>2. Sample(b, b.head_index).segment <= Sample(b, i).segment
          /\ Sample(b, i).segment <= Sample(b, TailIndex(b)).segment
      BY <1>2, <2>1, <3>1 DEF Kept, Ordered
    <3> QED
      BY <1>2, <1>4, <2>1, <3>2 DEF FirstEvent, LastEvent
  <2>3. FirstOnSegment(c, i) = FirstOnSegment(b, i) /\ LastOnSegment(c, i) = LastOnSegment(b, i)
    BY <1>3, <2>1, <2>2 DEF FirstOnSegment, LastOnSegment, EventsInPlace
  <2>4. FirstOnSegment(b, i) \in Indices(b) /\ LastOnSegment(b, i) \in Indices(b)
    BY <1>2, <2>1 DEF SegmentFound
  <2> QED
    BY <1>1, <1>3, <1>8, <2>1, <2>3, <2>4 DEF SegmentFound
<1> QED
  BY <1>1, <1>6, <1>7, <1>9, <1>10 DEF Kept

(* Room for one more sample and one more event.                            *)
HasRoom(b) == b.size + 1 <= b.capacity /\ (LastEvent(b) - FirstEvent(b)) + 2 <= b.event_capacity

LEMMA EventsGrown ==
  ASSUME NEW T, NEW Y, NEW b, IsBuffer(b, T, Y), NEW h \in Int, NEW n \in 1 .. b.event_capacity
  PROVE  LET g == GrownEvents(b, h, n)
         IN /\ IsBuffer(g, T, Y)
            /\ g.size = b.size /\ g.head_index = b.head_index /\ g.capacity = b.capacity /\ g.buf = b.buf
            /\ n + 1 <= g.event_capacity /\ b.event_capacity <= g.event_capacity
            /\ EventsInPlace(b, g, h, (h + n) - 1)
<1> DEFINE g == GrownEvents(b, h, n)
<1>1. CASE n + 1 <= b.event_capacity
  <2>1. g = b
    BY <1>1 DEF GrownEvents
  <2>2. b.event_capacity \in Nat
    BY DEF IsBuffer
  <2> QED
    BY <1>1, <2>1, <2>2 DEF EventsInPlace
<1>2. CASE ~ (n + 1 <= b.event_capacity)
  <2> DEFINE m == 2 * b.event_capacity
             new == Reallocated(b.event_buf, b.event_capacity, h, n, 0)
  <2>0. b.event_capacity \in Nat \ {0} /\ b.event_buf \in Ring(b.event_capacity, Int)
        /\ n \in 0 .. b.event_capacity /\ 0 \in Int
    BY DEF IsBuffer, Ring
  <2>1. /\ new \in Ring(m, Int)
        /\ \A e \in h .. (h + n) - 1 : new[e % m] = b.event_buf[e % b.event_capacity]
    <3> DEFINE k == b.event_capacity
               old == b.event_buf
    <3>1. k \in Nat \ {0} /\ old \in Ring(k, Int) /\ n \in 0 .. k /\ 0 \in Int
      BY <2>0
    <3> HIDE DEF k, old
    <3>2. /\ Reallocated(old, k, h, n, 0) \in Ring(2 * k, Int)
          /\ SlotsKept(old, Reallocated(old, k, h, n, 0), k, h, n)
      BY ONLY <3>1, h \in Int, ReallocatedKeeps
    <3> QED
      BY <3>2 DEF k, old, SlotsKept
  <2>2. m \in Nat \ {0, 1} /\ m >= b.event_capacity /\ n + 1 <= m
    BY <2>0
  <2> HIDE DEF m
  <2>3. /\ DOMAIN g = Fields
        /\ g.size = b.size /\ g.head_index = b.head_index /\ g.capacity = b.capacity /\ g.buf = b.buf
        /\ g.event_capacity = m /\ g.event_buf = new
    <3> HIDE DEF new
    <3>1. g = [b EXCEPT !.event_capacity = m, !.event_buf = new]
      BY <1>2 DEF GrownEvents, m, new
    <3> HIDE DEF g
    <3> QED
      BY <3>1 DEF IsBuffer, Fields
  <2> HIDE DEF g, new
  <2>4. IsBuffer(g, T, Y)
    BY <2>1, <2>2, <2>3 DEF IsBuffer, Ring
  <2>5. EventsInPlace(b, g, h, (h + n) - 1)
    BY <2>1, <2>3 DEF EventsInPlace, SampleLeftOf
  <2> QED
    BY <2>2, <2>3, <2>4, <2>5 DEF g
<1> QED
  BY <1>1, <1>2

LEMMA SamplesGrown ==
  ASSUME NEW T, NEW Y, 0 \in T, 0 \in Y, NEW b, IsBuffer(b, T, Y), b.size > 0
  PROVE  LET g == GrownSamples(b)
         IN /\ IsBuffer(g, T, Y)
            /\ g.size = b.size /\ g.head_index = b.head_index
            /\ g.event_capacity = b.event_capacity /\ g.event_buf = b.event_buf
            /\ b.size + 1 <= g.capacity
            /\ InPlace(b, g, b.head_index, TailIndex(b))
<1> DEFINE g == GrownSamples(b)
           V == [t : T, y : Y, segment : Int]
<1>1. CASE b.size + 1 <= b.capacity
  <2>1. g = b
    BY <1>1 DEF GrownSamples
  <2> QED
    BY <1>1, <2>1 DEF InPlace
<1>2. CASE ~ (b.size + 1 <= b.capacity)
  <2> DEFINE m == 2 * b.capacity
             new == Reallocated(b.buf, b.capacity, b.head_index, b.size, EmptySample)
  <2>0. b.capacity \in Nat \ {0} /\ b.buf \in Ring(b.capacity, V) /\ EmptySample \in V
        /\ b.head_index \in Int /\ b.size \in 0 .. b.capacity
    BY DEF IsBuffer, EmptySample, Ring
  <2> HIDE DEF V
  <2>1. /\ new \in Ring(m, V)
        /\ \A i \in b.head_index .. (b.head_index + b.size) - 1 : new[i % m] = b.buf[i % b.capacity]
    <3> DEFINE k == b.capacity
               old == b.buf
               h == b.head_index
               n == b.size
    <3>1. k \in Nat \ {0} /\ old \in Ring(k, V) /\ h \in Int /\ n \in 0 .. k /\ EmptySample \in V
      BY <2>0
    <3> HIDE DEF k, old, h, n
    <3>2. /\ Reallocated(old, k, h, n, EmptySample) \in Ring(2 * k, V)
          /\ SlotsKept(old, Reallocated(old, k, h, n, EmptySample), k, h, n)
      BY ONLY <3>1, ReallocatedKeeps
    <3> QED
      BY <3>2 DEF k, old, h, n, SlotsKept
  <2>2. m \in Nat \ {0} /\ b.size + 1 <= m /\ b.size \in 0 .. m
    BY <2>0
  <2> HIDE DEF m
  <2>3. /\ DOMAIN g = Fields
        /\ g.size = b.size /\ g.head_index = b.head_index
        /\ g.event_capacity = b.event_capacity /\ g.event_buf = b.event_buf
        /\ g.capacity = m /\ g.buf = new
    <3> HIDE DEF new
    <3>1. g = [b EXCEPT !.capacity = m, !.buf = new]
      BY <1>2 DEF GrownSamples, m, new
    <3> HIDE DEF g
    <3> QED
      BY <3>1 DEF IsBuffer, Fields
  <2> HIDE DEF g, new
  <2>4. IsBuffer(g, T, Y)
    BY <2>1, <2>2, <2>3 DEF IsBuffer, V, Ring
  <2>5. InPlace(b, g, b.head_index, TailIndex(b))
    BY <2>1, <2>3, IndicesAre DEF InPlace, Sample
  <2> QED
    BY <2>2, <2>3, <2>4, <2>5 DEF g
<1> QED
  BY <1>1, <1>2

LEMMA ReservedKeeps ==
  ASSUME NEW T, NEW Y, AreTimes(T), 0 \in T, 0 \in Y, NEW b, IsBuffer(b, T, Y), Kept(b)
  PROVE  LET r == Reserved(b)
         IN /\ IsBuffer(r, T, Y) /\ Kept(r)
            /\ r.size = b.size /\ r.head_index = b.head_index
            /\ InPlace(b, r, b.head_index, TailIndex(b))
            /\ b.size > 0 => HasRoom(r)
            /\ b.size = 0 => r = b
<1>a. T \subseteq Int
  BY DEF AreTimes
<1> USE <1>a
<1>1. CASE b.size = 0
  <2>1. Reserved(b) = b
    BY <1>1 DEF Reserved
  <2> QED
    BY <1>1, <2>1 DEF InPlace
<1>2. CASE b.size # 0
  <2> DEFINE h == FirstEvent(b)
             n == (LastEvent(b) - FirstEvent(b)) + 1
             e == GrownEvents(b, h, n)
             r == GrownSamples(e)
  <2>0. /\ b.head_index \in Int /\ TailIndex(b) \in Int /\ b.size \in Nat /\ b.size > 0
        /\ TailIndex(b) = (b.head_index + b.size) - 1
        /\ b.head_index \in Indices(b) /\ TailIndex(b) \in Indices(b) /\ b.head_index <= TailIndex(b)
    BY <1>2, IndicesAre
  <2>1. Sample(b, b.head_index).segment \in Int /\ Sample(b, TailIndex(b)).segment \in Int
    BY <2>0, SampleType
  <2>2. Sample(b, b.head_index).segment <= Sample(b, TailIndex(b)).segment
    BY <2>0 DEF Kept, Ordered
  <2>3. Reserved(b) = r
    <3>1. n = Sample(b, TailIndex(b)).segment + 2 - Sample(b, b.head_index).segment
      BY <2>1 DEF FirstEvent, LastEvent
    <3> QED
      BY <1>2, <3>1 DEF Reserved, FirstEvent
  <2>4. b.event_capacity \in Nat /\ n <= b.event_capacity
    BY <2>0 DEF IsBuffer, Kept
  <2>5. h \in Int /\ n \in 1 .. b.event_capacity /\ (h + n) - 1 = LastEvent(b)
    BY <2>1, <2>2, <2>4 DEF FirstEvent, LastEvent
  <2>6. n + 1 = (LastEvent(b) - FirstEvent(b)) + 2
    BY <2>1 DEF FirstEvent, LastEvent
  <2> HIDE DEF h, n
  <2>7. /\ IsBuffer(e, T, Y)
        /\ e.size = b.size /\ e.head_index = b.head_index /\ e.capacity = b.capacity /\ e.buf = b.buf
        /\ n + 1 <= e.event_capacity /\ b.event_capacity <= e.event_capacity
        /\ EventsInPlace(b, e, h, (h + n) - 1)
    BY <2>5, EventsGrown
  <2> HIDE DEF e
  <2>8. /\ IsBuffer(r, T, Y)
        /\ r.size = e.size /\ r.head_index = e.head_index
        /\ r.event_capacity = e.event_capacity /\ r.event_buf = e.event_buf
        /\ e.size + 1 <= r.capacity
        /\ InPlace(e, r, e.head_index, TailIndex(e))
    BY <2>0, <2>7, SamplesGrown
  <2> HIDE DEF r
  <2>9. TailIndex(e) = TailIndex(b) /\ TailIndex(r) = TailIndex(b)
    BY <2>7, <2>8 DEF TailIndex
  <2>10. InPlace(b, r, b.head_index, TailIndex(b))
    BY <2>7, <2>8, <2>9 DEF InPlace, Sample
  <2>11. EventsInPlace(b, r, FirstEvent(b), LastEvent(b))
    BY <2>5, <2>7, <2>8 DEF EventsInPlace, SampleLeftOf, h
  <2>12. Kept(r)
    BY <2>7, <2>8, <2>10, <2>11, KeptInPlace
  <2>13. LastEvent(r) = LastEvent(b) /\ FirstEvent(r) = FirstEvent(b)
    BY <2>0, <2>7, <2>8, <2>9, <2>10 DEF InPlace, LastEvent, FirstEvent
  <2>14. HasRoom(r)
    BY <2>6, <2>7, <2>8, <2>13 DEF HasRoom
  <2> QED
    BY <1>2, <2>3, <2>7, <2>8, <2>10, <2>12, <2>14
<1> QED
  BY <1>1, <1>2

---------------------------------------------------------------------------
(* What a kept buffer says of one sample and of two next to each other.    *)
LEMMA KeptAt ==
  ASSUME NEW T, NEW Y, AreTimes(T), NEW b, IsBuffer(b, T, Y), Kept(b), NEW i \in Indices(b)
  PROVE  /\ Sample(b, i).t \in Int /\ Sample(b, i).segment \in Int
         /\ Sample(b, i).segment \in FirstEvent(b) .. LastEvent(b) - 1
         /\ FirstEvent(b) \in Int /\ LastEvent(b) \in Int
         /\ (LastEvent(b) - FirstEvent(b)) + 1 <= b.event_capacity
         /\ FirstOnSegment(b, i) = SampleLeftOf(b, Sample(b, i).segment) + 1
         /\ LastOnSegment(b, i) = SampleLeftOf(b, Sample(b, i).segment + 1)
         /\ SampleLeftOf(b, Sample(b, i).segment) \in Int
<1>a. T \subseteq Int
  BY DEF AreTimes
<1> USE <1>a
<1>1. /\ b.head_index \in Int /\ TailIndex(b) \in Int /\ b.size \in Nat
      /\ TailIndex(b) = (b.head_index + b.size) - 1
      /\ i \in Int /\ b.head_index <= i /\ i <= TailIndex(b)
  BY IndicesAre
<1>2. b.size > 0 /\ b.head_index \in Indices(b) /\ TailIndex(b) \in Indices(b)
  BY <1>1, IndicesAre
<1>3. \A j \in Indices(b) : Sample(b, j).t \in Int /\ Sample(b, j).segment \in Int
  BY IndicesAre, SampleType
<1>4. Sample(b, b.head_index).segment <= Sample(b, i).segment
      /\ Sample(b, i).segment <= Sample(b, TailIndex(b)).segment
  BY <1>1, <1>2 DEF Kept, Ordered
<1>5. SampleLeftOf(b, Sample(b, i).segment) \in Int
  BY <1>3, SampleType
<1> QED
  BY <1>2, <1>3, <1>4, <1>5 DEF Kept, FirstEvent, LastEvent, FirstOnSegment, LastOnSegment

(* Before and after a sample is recorded at the right end: nothing changes,*)
(* the last sample is replaced, or there is one more.                      *)
Unchanged(b, c) == c.size = b.size /\ InPlace(b, c, b.head_index, TailIndex(b))

Replaced(b, c, t, y) ==
  /\ c.size = b.size /\ InPlace(b, c, b.head_index, TailIndex(b) - 1)
  /\ Sample(c, TailIndex(b)).t = t /\ Sample(c, TailIndex(b)).y = y
  /\ Sample(c, TailIndex(b)).segment = Sample(b, TailIndex(b)).segment

Extended(b, c, t, y, event) ==
  /\ c.size = b.size + 1 /\ InPlace(b, c, b.head_index, TailIndex(b))
  /\ Sample(c, TailIndex(b) + 1).t = t /\ Sample(c, TailIndex(b) + 1).y = y
  /\ Sample(c, TailIndex(b) + 1).segment = Sample(b, TailIndex(b)).segment + (IF event THEN 1 ELSE 0)

RecordedAtRight(b, c, t, y, event) ==
  IF event /\ b.size > 1 /\ Sample(b, TailIndex(b)).y = y THEN Unchanged(b, c)
  ELSE IF event /\ b.size > 1 /\ EventLeftOf(b, TailIndex(b)) THEN Replaced(b, c, t, y)
  ELSE Extended(b, c, t, y, event)

(* The time of the next sample: that of the last one if an event is between*)
(* them, otherwise a later one.                                            *)
Follows(b, t, event) ==
  IF event THEN t = Sample(b, TailIndex(b)).t ELSE Sample(b, TailIndex(b)).t < t

(* There are no two events without a sample between them.                  *)
MayFollow(b, event) == event /\ b.size > 1 => ~ EventLeftOf(b, TailIndex(b))

(* A sample put at the right end.                                          *)
LEMMA PutRightKeeps ==
  ASSUME NEW T, NEW Y, AreTimes(T), NEW b, IsBuffer(b, T, Y), Kept(b), b.size > 0, HasRoom(b),
         NEW t \in T, NEW y \in Y, NEW event \in BOOLEAN, Follows(b, t, event), MayFollow(b, event)
  PROVE  LET c == PutRight(b, t, y, event)
         IN /\ IsBuffer(c, T, Y) /\ Kept(c) /\ c.head_index = b.head_index
            /\ Extended(b, c, t, y, event)
<1>a. T \subseteq Int
  BY DEF AreTimes
<1> USE <1>a
<1> USE DEF Follows, MayFollow
<1> DEFINE r == TailIndex(b)
           sg == Sample(b, r).segment + (IF event THEN 1 ELSE 0)
           g == [b EXCEPT !.size = b.size + 1]
           s == [t |-> t, y |-> y, segment |-> sg]
           f == SetSample(g, r + 1, s)
           c == SetEvent(f, sg + 1, r + 1)
<1>1. /\ b.head_index \in Int /\ r \in Int /\ b.size \in Nat /\ r = (b.head_index + b.size) - 1
      /\ Indices(b) = b.head_index .. r /\ r \in Indices(b) /\ b.head_index \in Indices(b)
      /\ b.capacity \in Nat /\ b.event_capacity \in Nat
  BY IndicesAre DEF IsBuffer
<1>2. /\ sg \in Int /\ Sample(b, r).segment \in Int
      /\ FirstEvent(b) \in Int /\ LastEvent(b) = Sample(b, r).segment + 1
      /\ Sample(b, r).segment \in FirstEvent(b) .. sg
      /\ sg <= LastEvent(b) /\ LastEvent(b) - 1 <= sg
  <2>1. r \in Indices(b)
    BY <1>1
  <2>2. Sample(b, r).segment \in Int /\ FirstEvent(b) \in Int /\ Sample(b, r).segment \in FirstEvent(b) .. LastEvent(b) - 1
    BY <2>1, KeptAt
  <2>3. LastEvent(b) = Sample(b, r).segment + 1
    BY DEF LastEvent
  <2> HIDE DEF r
  <2>4. sg \in Int /\ sg >= Sample(b, r).segment /\ sg <= Sample(b, r).segment + 1
    <3>1. CASE event
      BY <2>2, <3>1
    <3>2. CASE ~ event
      BY <2>2, <3>2
    <3> QED
      BY <3>1, <3>2
  <2> HIDE DEF sg
  <2> QED
    BY <2>2, <2>3, <2>4
<1>3. b.size + 1 \in 0 .. b.capacity
  BY <1>1 DEF HasRoom
<1>4. IsBuffer(g, T, Y) /\ g.size = b.size + 1 /\ g.head_index = b.head_index /\ SameRings(b, g)
  BY <1>3, Resized
<1>5. TailIndex(g) = r + 1
  BY <1>1, <1>4 DEF TailIndex
<1>6. PutRight(b, t, y, event) = c
  BY <1>4, <1>5 DEF PutRight
<1> HIDE DEF g, sg, r
<1>7. s \in [t : T, y : Y, segment : Int]
  BY <1>2
<1> HIDE DEF s
<1>8. /\ IsBuffer(f, T, Y)
      /\ f.size = g.size /\ f.head_index = g.head_index /\ f.capacity = g.capacity
      /\ f.event_capacity = g.event_capacity /\ f.event_buf = g.event_buf
      /\ Sample(f, r + 1) = s
      /\ \A j \in Int : (j < r + 1 /\ r + 1 < j + g.capacity) => Sample(f, j) = Sample(g, j)
  BY <1>1, <1>4, <1>7, SampleSet
<1> HIDE DEF f
<1>9. /\ IsBuffer(c, T, Y)
      /\ c.size = f.size /\ c.head_index = f.head_index /\ c.capacity = f.capacity
      /\ c.event_capacity = f.event_capacity /\ c.buf = f.buf
      /\ SampleLeftOf(c, sg + 1) = r + 1
      /\ \A d \in Int : (d < sg + 1 /\ sg + 1 < d + f.event_capacity) => SampleLeftOf(c, d) = SampleLeftOf(f, d)
  <2>1. r + 1 \in Int /\ sg + 1 \in Int
    BY <1>1, <1>2
  <2> QED
    BY <1>8, <2>1, EventSet
<1> HIDE DEF c
<1>10. /\ c.size = b.size + 1 /\ c.head_index = b.head_index /\ TailIndex(c) = r + 1
       /\ c.capacity = b.capacity /\ c.event_capacity = b.event_capacity
       /\ Indices(c) = b.head_index .. r + 1
  BY <1>1, <1>4, <1>8, <1>9 DEF TailIndex, Indices, SameRings
<1>11. Sample(c, r + 1).t = t /\ Sample(c, r + 1).y = y /\ Sample(c, r + 1).segment = sg
  BY <1>8, <1>9 DEF Sample, s
<1>12. \A i \in Indices(b) : Sample(c, i) = Sample(b, i)
  <2>1. \A i \in Indices(b) : i \in Int /\ i < r + 1 /\ r + 1 < i + b.capacity
    BY <1>1, <1>3, SMTT(20)
  <2>2. \A i \in Indices(b) : Sample(f, i) = Sample(g, i)
    BY <1>4, <1>8, <2>1 DEF SameRings
  <2> QED
    BY <1>4, <1>8, <1>9, <2>2 DEF Sample, SameRings
<1>13. \A e \in FirstEvent(b) .. sg : SampleLeftOf(c, e) = SampleLeftOf(b, e)
  <2>1. FirstEvent(b) \in Int /\ LastEvent(b) \in Int /\ (LastEvent(b) - FirstEvent(b)) + 2 <= b.event_capacity
        /\ sg <= LastEvent(b)
    BY <1>2 DEF HasRoom
  <2>2. \A e \in FirstEvent(b) .. sg : e \in Int /\ e < sg + 1 /\ sg + 1 < e + b.event_capacity
    <3> DEFINE fe == FirstEvent(b)
               le == LastEvent(b)
               ec == b.event_capacity
    <3>1. fe \in Int /\ le \in Int /\ sg \in Int /\ ec \in Int /\ (le - fe) + 2 <= ec /\ sg <= le
      BY <1>1, <1>2, <2>1
    <3> HIDE DEF fe, le, ec
    <3>2. \A e \in fe .. sg : e \in Int /\ e < sg + 1 /\ sg + 1 < e + ec
      BY ONLY <3>1
    <3> QED
      BY <3>2 DEF fe, ec
  <2>3. \A e \in FirstEvent(b) .. sg : SampleLeftOf(c, e) = SampleLeftOf(f, e)
    BY <1>4, <1>8, <1>9, <2>2 DEF SameRings
  <2> QED
    BY <1>4, <1>8, <1>9, <2>3 DEF SampleLeftOf, SameRings
<1>14. \A i \in Indices(b) : Sample(b, i).t \in Int /\ Sample(b, i).segment \in Int
         /\ Sample(b, i).segment \in FirstEvent(b) .. sg
         /\ FirstOnSegment(b, i) = SampleLeftOf(b, Sample(b, i).segment) + 1
         /\ LastOnSegment(b, i) = SampleLeftOf(b, Sample(b, i).segment + 1)
  <2> SUFFICES ASSUME NEW i \in Indices(b)
               PROVE  /\ Sample(b, i).t \in Int /\ Sample(b, i).segment \in Int
                      /\ Sample(b, i).segment \in FirstEvent(b) .. sg
                      /\ FirstOnSegment(b, i) = SampleLeftOf(b, Sample(b, i).segment) + 1
                      /\ LastOnSegment(b, i) = SampleLeftOf(b, Sample(b, i).segment + 1)
    OBVIOUS
  <2>1. /\ Sample(b, i).t \in Int /\ Sample(b, i).segment \in Int
        /\ Sample(b, i).segment \in FirstEvent(b) .. LastEvent(b) - 1
        /\ FirstOnSegment(b, i) = SampleLeftOf(b, Sample(b, i).segment) + 1
        /\ LastOnSegment(b, i) = SampleLeftOf(b, Sample(b, i).segment + 1)
    BY KeptAt
  <2> QED
    BY <1>2, <2>1
<1>15. t \in Int
  OBVIOUS
<1>16. (LastEvent(c) - FirstEvent(c)) + 1 <= c.event_capacity
  <2>1. LastEvent(c) = sg + 1 /\ FirstEvent(c) = FirstEvent(b)
    BY <1>1, <1>10, <1>11, <1>12 DEF LastEvent, FirstEvent
  <2> DEFINE fe == FirstEvent(b)
             le == LastEvent(b)
             ec == b.event_capacity
  <2>2. fe \in Int /\ le \in Int /\ sg \in Int /\ ec \in Int /\ (le - fe) + 2 <= ec /\ sg <= le
    BY <1>1, <1>2 DEF HasRoom
  <2> HIDE DEF fe, le, ec
  <2>3. ((sg + 1) - fe) + 1 <= ec
    BY ONLY <2>2
  <2> QED
    BY <1>10, <2>1, <2>3 DEF fe, ec
<1>17. Ordered(c)
  <2>1. \A i \in Indices(b) : Sample(b, i).t <= Sample(b, r).t /\ Sample(b, i).segment <= Sample(b, r).segment
    BY <1>1 DEF Kept, Ordered
  <2>2. \A i \in Indices(b) : Sample(b, i).t <= t /\ Sample(b, i).segment <= sg
    BY <1>1, <1>2, <1>14, <1>15, <2>1, SMTT(20) DEF sg, r
  <2>3. \A i \in Indices(c) : i \in Indices(b) \/ i = r + 1
    BY <1>1, <1>10
  <2>4. \A i, j \in Indices(c) : i <= j => (i \in Indices(b) /\ j \in Indices(b)) \/ j = r + 1
    BY <1>1, <1>10
  <2>5. Ordered(b)
    BY DEF Kept
  <2> QED
    BY <1>2, <1>11, <1>12, <1>15, <2>2, <2>3, <2>4, <2>5 DEF Ordered
<1>18. SamplesOrdered(c)
  <2>1. SamplesOrdered(b)
    BY DEF Kept
  <2>2. ASSUME NEW i \in Indices(c) \ {r + 1}
        PROVE  \/ Sample(c, i).segment = Sample(c, i + 1).segment /\ Sample(c, i).t < Sample(c, i + 1).t
               \/ Sample(c, i).segment + 1 = Sample(c, i + 1).segment /\ Sample(c, i).t = Sample(c, i + 1).t
    <3>1. CASE i = r
      BY <1>1, <1>2, <1>11, <1>12, <3>1 DEF sg, r
    <3>2. CASE i # r
      <4>1. i \in Indices(b) \ {r} /\ i + 1 \in Indices(b)
        BY <1>1, <1>10, <3>2, SMTT(20)
      <4> QED
        BY <1>12, <2>1, <4>1 DEF SamplesOrdered, r
    <3> QED
      BY <3>1, <3>2
  <2>3. ASSUME NEW i \in Indices(c), b.head_index < i, i < r + 1, EventLeftOf(c, i), EventRightOf(c, i)
        PROVE  FALSE
    <3>1. i \in Indices(b) /\ i - 1 \in Indices(b) /\ i \in Int
      BY <1>1, <1>10, <2>3
    <3>2. EventLeftOf(b, i)
      BY <1>1, <1>10, <1>12, <2>3, <3>1 DEF EventLeftOf
    <3>3. CASE i = r
      BY <1>1, <1>2, <1>10, <1>11, <1>12, <2>3, <3>2, <3>3, SMTT(20) DEF EventRightOf, sg, r
    <3>4. CASE i # r
      <4>1. i + 1 \in Indices(b) /\ i < r
        BY <1>1, <3>1, <3>4
      <4>2. EventRightOf(b, i)
        BY <1>1, <1>10, <1>12, <2>3, <3>1, <4>1 DEF EventRightOf
      <4> QED
        BY <2>1, <2>3, <3>1, <3>2, <4>1, <4>2 DEF SamplesOrdered, r
    <3> QED
      BY <3>3, <3>4
  <2> QED
    BY <1>10, <2>2, <2>3 DEF SamplesOrdered
<1>19. ASSUME NEW i \in Indices(c)
       PROVE  SegmentFound(c, i)
  <2> DEFINE o == IF i = r + 1 THEN r ELSE i
             first == SampleLeftOf(b, Sample(c, i).segment) + 1
             last == IF Sample(c, i).segment = sg THEN r + 1 ELSE SampleLeftOf(b, Sample(c, i).segment + 1)
  <2>0. i \in Int /\ (i = r + 1 \/ i \in Indices(b)) /\ i <= r + 1 /\ b.head_index <= i
    BY <1>1, <1>10
  <2>1. Sample(c, i).segment \in FirstEvent(b) .. sg /\ Sample(c, i).segment \in Int /\ FirstEvent(b) \in Int
    <3>1. Sample(b, r).segment \in FirstEvent(b) .. sg /\ FirstEvent(b) \in Int
      BY <1>2
    <3> QED
      BY <1>1, <1>2, <1>11, <1>12, <1>14, <2>0, <3>1, SMTT(20)
  <2>2. FirstOnSegment(c, i) = first
    BY <1>13, <2>1 DEF FirstOnSegment
  <2>3. LastOnSegment(c, i) = last
    <3>1. CASE Sample(c, i).segment = sg
      BY <1>9, <3>1 DEF LastOnSegment
    <3>2. CASE Sample(c, i).segment # sg
      <4>1. Sample(c, i).segment + 1 \in FirstEvent(b) .. sg
        BY <1>2, <2>1, <3>2
      <4> QED
        BY <1>13, <3>2, <4>1 DEF LastOnSegment
    <3> QED
      BY <3>1, <3>2
  <2>4. /\ first \in b.head_index .. i
        /\ Sample(c, first).segment = Sample(c, i).segment
        /\ EventLeftOf(c, first)
    <3>1. CASE i \in Indices(b)
      <4>1. first = FirstOnSegment(b, i) /\ SegmentFound(b, i)
        BY <1>12, <1>14, <3>1 DEF Kept
      <4>2. first \in b.head_index .. i /\ Sample(b, first).segment = Sample(b, i).segment /\ EventLeftOf(b, first)
        BY <4>1 DEF SegmentFound
      <4>3. first \in Indices(b) /\ (first <= b.head_index \/ first - 1 \in Indices(b))
        BY <1>1, <2>0, <4>2, <3>1
      <4> HIDE DEF first
      <4> QED
        BY <1>10, <1>12, <3>1, <4>2, <4>3 DEF EventLeftOf
    <3>2. CASE i = r + 1 /\ ~ event
      <4>1. first = FirstOnSegment(b, r) /\ SegmentFound(b, r) /\ sg = Sample(b, r).segment
        BY <1>1, <1>2, <1>11, <1>14, <3>2 DEF Kept, sg
      <4>2. first \in b.head_index .. r /\ Sample(b, first).segment = sg /\ EventLeftOf(b, first)
        BY <4>1 DEF SegmentFound
      <4>3. first \in Indices(b) /\ (first <= b.head_index \/ first - 1 \in Indices(b)) /\ first \in b.head_index .. i
        BY <1>1, <2>0, <4>2, <3>2
      <4> HIDE DEF first
      <4> QED
        BY <1>10, <1>11, <1>12, <3>2, <4>2, <4>3 DEF EventLeftOf
    <3>3. CASE i = r + 1 /\ event
      <4>1. sg = Sample(b, r).segment + 1
        BY <1>2, <3>3 DEF sg
      <4>2. LastOnSegment(b, r) = SampleLeftOf(b, sg) /\ SegmentFound(b, r)
        BY <1>1, <1>14, <4>1 DEF Kept
      <4>3. LastOnSegment(b, r) = r
        BY <1>1, <4>2 DEF SegmentFound, r
      <4>4. first = r + 1
        BY <1>11, <3>3, <4>2, <4>3
      <4>5. Sample(c, r).segment # Sample(c, r + 1).segment
        BY <1>1, <1>2, <1>11, <1>12, <4>1
      <4>6. EventLeftOf(c, r + 1)
        BY <1>1, <4>5 DEF EventLeftOf
      <4> HIDE DEF first
      <4> QED
        BY <1>1, <3>3, <4>4, <4>6
    <3> QED
      BY <2>0, <3>1, <3>2, <3>3
  <2>5. /\ last \in i .. r + 1
        /\ Sample(c, last).segment = Sample(c, i).segment
        /\ EventRightOf(c, last)
    <3>1. CASE Sample(c, i).segment = sg
      BY <1>1, <1>10, <1>11, <2>0, <3>1 DEF EventRightOf
    <3>2. CASE Sample(c, i).segment # sg
      <4>1. i \in Indices(b)
        BY <1>11, <2>0, <3>2
      <4>2. last = LastOnSegment(b, i) /\ SegmentFound(b, i)
        BY <1>12, <1>14, <3>2, <4>1 DEF Kept
      <4>3. last \in i .. r /\ Sample(b, last).segment = Sample(b, i).segment /\ EventRightOf(b, last)
        BY <4>2 DEF SegmentFound, r
      <4>4. last \in Indices(b) /\ last \in Int
        BY <1>1, <4>1, <4>3
      <4> HIDE DEF last
      <4>5. Sample(c, last).segment = Sample(c, i).segment
        BY <1>12, <4>1, <4>3, <4>4
      <4>6. CASE last = r
        BY <1>1, <1>11, <1>12, <3>2, <4>1, <4>3, <4>4, <4>5, <4>6 DEF EventRightOf
      <4>7. CASE last # r
        <5>1. last + 1 \in Indices(b) /\ ~ (last >= r)
          BY <1>1, <4>3, <4>4, <4>7
        <5> QED
          BY <1>1, <1>12, <4>3, <4>4, <4>5, <5>1 DEF EventRightOf, r
      <4> QED
        BY <4>6, <4>7
    <3> QED
      BY <3>1, <3>2
  <2> QED
    BY <1>10, <2>2, <2>3, <2>4, <2>5 DEF SegmentFound
<1>20. Kept(c)
  BY <1>16, <1>17, <1>18, <1>19 DEF Kept
<1>21. InPlace(b, c, b.head_index, r)
  BY <1>1, <1>12 DEF InPlace
<1> QED
  BY <1>6, <1>9, <1>10, <1>11, <1>13, <1>20, <1>21 DEF Extended, r, sg

---------------------------------------------------------------------------
(* A piece of a kept buffer is in order.                                   *)
LEMMA PieceOrdered ==
  ASSUME NEW T, NEW Y, AreTimes(T), NEW b, IsBuffer(b, T, Y), Kept(b), NEW c, IsBuffer(c, T, Y),
         c.size > 0, b.head_index <= c.head_index, TailIndex(c) <= TailIndex(b),
         c.event_capacity = b.event_capacity,
         InPlace(b, c, c.head_index, TailIndex(c))
  PROVE  /\ Ordered(c) /\ SamplesOrdered(c)
         /\ (LastEvent(c) - FirstEvent(c)) + 1 <= c.event_capacity
         /\ FirstEvent(b) <= FirstEvent(c) /\ LastEvent(c) <= LastEvent(b)
         /\ FirstEvent(c) \in Int /\ LastEvent(c) \in Int /\ FirstEvent(c) <= LastEvent(c) - 1
<1>a. T \subseteq Int
  BY DEF AreTimes
<1> USE <1>a
<1> DEFINE h == c.head_index
           r == TailIndex(c)
<1>1. /\ h \in Int /\ r \in Int /\ h \in Indices(c) /\ r \in Indices(c) /\ h <= r
      /\ Indices(c) = h .. r
  BY IndicesAre
<1>2. /\ b.head_index \in Int /\ TailIndex(b) \in Int
      /\ Indices(b) = b.head_index .. TailIndex(b)
  BY IndicesAre
<1>3. Indices(c) \subseteq Indices(b) /\ b.head_index \in Indices(b) /\ TailIndex(b) \in Indices(b)
  BY <1>1, <1>2
<1>4. \A i \in Indices(c) : Sample(c, i) = Sample(b, i)
  BY <1>1 DEF InPlace
<1>5. \A i \in Indices(b) : Sample(b, i).t \in Int /\ Sample(b, i).segment \in Int
  <2>1. \A i \in Indices(b) : i \in Int
    BY <1>2
  <2> QED
    BY <2>1, SampleType
<1>6. Ordered(c)
  BY <1>3, <1>4 DEF Kept, Ordered
<1>7. SamplesOrdered(c)
  <2>1. SamplesOrdered(b)
    BY DEF Kept
  <2>2. ASSUME NEW i \in Indices(c) \ {r}
        PROVE  \/ Sample(c, i).segment = Sample(c, i + 1).segment /\ Sample(c, i).t < Sample(c, i + 1).t
               \/ Sample(c, i).segment + 1 = Sample(c, i + 1).segment /\ Sample(c, i).t = Sample(c, i + 1).t
    <3>1. i \in Indices(b) \ {TailIndex(b)} /\ i + 1 \in Indices(c)
      BY <1>1, <1>2
    <3> QED
      BY <1>4, <2>1, <3>1 DEF SamplesOrdered
  <2>3. ASSUME NEW i \in Indices(c), h < i, i < r, EventLeftOf(c, i), EventRightOf(c, i)
        PROVE  FALSE
    <3>1. i \in Indices(b) /\ i - 1 \in Indices(c) /\ i + 1 \in Indices(c) /\ i \in Int
          /\ b.head_index < i /\ i < TailIndex(b)
      BY <1>1, <1>2, <2>3
    <3>2. EventLeftOf(b, i) /\ EventRightOf(b, i)
      BY <1>1, <1>2, <1>4, <2>3, <3>1 DEF EventLeftOf, EventRightOf
    <3> QED
      BY <2>1, <3>1, <3>2 DEF SamplesOrdered
  <2> QED
    BY <2>2, <2>3 DEF SamplesOrdered
<1>8. /\ Sample(b, b.head_index).segment <= Sample(b, h).segment
      /\ Sample(b, h).segment <= Sample(b, r).segment
      /\ Sample(b, r).segment <= Sample(b, TailIndex(b)).segment
  BY <1>1, <1>2, <1>3 DEF Kept, Ordered
<1>9. FirstEvent(c) = Sample(b, h).segment /\ LastEvent(c) = Sample(b, r).segment + 1
  BY <1>1, <1>4 DEF FirstEvent, LastEvent
<1>10. /\ Sample(b, b.head_index).segment \in Int /\ Sample(b, h).segment \in Int
       /\ Sample(b, r).segment \in Int /\ Sample(b, TailIndex(b)).segment \in Int
  BY <1>1, <1>3, <1>5
<1>11. b.size > 0 /\ b.event_capacity \in Int
  <2>1. b.size \in Nat /\ TailIndex(b) = (b.head_index + b.size) - 1
    BY IndicesAre
  <2>2. b.head_index <= TailIndex(b)
    BY <1>2, <1>3
  <2> QED
    BY <1>2, <2>1, <2>2 DEF IsBuffer
<1>12. FirstEvent(b) <= FirstEvent(c) /\ LastEvent(c) <= LastEvent(b)
  BY <1>8, <1>9, <1>10 DEF FirstEvent, LastEvent
<1>13. (LastEvent(b) - FirstEvent(b)) + 1 <= b.event_capacity
  BY <1>11 DEF Kept
<1>14. FirstEvent(b) \in Int /\ LastEvent(b) \in Int
  BY <1>10 DEF FirstEvent, LastEvent
<1>15. FirstEvent(c) \in Int /\ LastEvent(c) \in Int /\ FirstEvent(c) <= LastEvent(c) - 1
  BY <1>8, <1>9, <1>10
<1>16. (LastEvent(c) - FirstEvent(c)) + 1 <= b.event_capacity
  BY ONLY <1>11, <1>12, <1>13, <1>14, <1>15
<1> QED
  BY <1>6, <1>7, <1>12, <1>15, <1>16

LEMMA DiscardRightKeeps ==
  ASSUME NEW T, NEW Y, AreTimes(T), NEW b, IsBuffer(b, T, Y), Kept(b), b.size > 1
  PROVE  LET c == DiscardRight(b)
         IN /\ IsBuffer(c, T, Y) /\ Kept(c)
            /\ c.size = b.size - 1 /\ c.head_index = b.head_index
            /\ c.capacity = b.capacity /\ c.event_capacity = b.event_capacity
            /\ SameSamples(b, c)
            /\ EventsInPlace(b, c, FirstEvent(b), Sample(b, TailIndex(b) - 1).segment)
<1>a. T \subseteq Int
  BY DEF AreTimes
<1> USE <1>a
<1> DEFINE h == b.head_index
           r == TailIndex(b)
           q == r - 1
           sg == Sample(b, q).segment
           g == [b EXCEPT !.size = b.size - 1]
           c == SetEvent(g, sg + 1, q)
<1>1. /\ h \in Int /\ r \in Int /\ b.size \in Nat /\ r = (h + b.size) - 1
      /\ Indices(b) = h .. r /\ b.capacity \in Nat /\ b.event_capacity \in Nat
  BY IndicesAre DEF IsBuffer
<1>2. q \in Int /\ q \in Indices(b) /\ h <= q /\ r \in Indices(b) /\ q < r /\ r = q + 1
  BY <1>1
<1>3. b.size - 1 \in 0 .. b.capacity
  BY <1>1 DEF IsBuffer
<1>4. IsBuffer(g, T, Y) /\ g.size = b.size - 1 /\ g.head_index = h /\ SameRings(b, g)
  BY <1>3, Resized
<1>5. SameSamples(b, g) /\ TailIndex(g) = q
  BY <1>1, <1>4 DEF SameSamples, SameRings, Sample, TailIndex
<1>6. DiscardRight(b) = c
  BY <1>1, <1>2, <1>4, <1>5 DEF DiscardRight, SameSamples
<1> HIDE DEF g
<1>7. /\ sg \in Int /\ Sample(b, r).segment \in Int /\ sg <= Sample(b, r).segment
      /\ FirstEvent(b) \in Int /\ LastEvent(b) = Sample(b, r).segment + 1
      /\ FirstEvent(b) <= sg
      /\ (LastEvent(b) - FirstEvent(b)) + 1 <= b.event_capacity
  <2>1. q \in Indices(b) /\ r \in Indices(b)
    BY <1>2
  <2>2. /\ Sample(b, r).segment \in Int /\ FirstEvent(b) \in Int
        /\ (LastEvent(b) - FirstEvent(b)) + 1 <= b.event_capacity
    BY <2>1, KeptAt
  <2>3. Sample(b, q).segment \in Int /\ Sample(b, q).segment \in FirstEvent(b) .. LastEvent(b) - 1
    BY <2>1, KeptAt
  <2>4. Sample(b, q).segment <= Sample(b, r).segment
    BY <1>2 DEF Kept, Ordered
  <2> QED
    BY <2>2, <2>3, <2>4 DEF LastEvent
<1> HIDE DEF sg, q, r, h
<1>8. /\ IsBuffer(c, T, Y)
      /\ c.size = g.size /\ c.head_index = g.head_index /\ c.capacity = g.capacity
      /\ c.event_capacity = g.event_capacity /\ c.buf = g.buf
      /\ SampleLeftOf(c, sg + 1) = q
      /\ \A d \in Int : (d < sg + 1 /\ sg + 1 < d + g.event_capacity) => SampleLeftOf(c, d) = SampleLeftOf(g, d)
  BY <1>2, <1>4, <1>7, EventSet
<1> HIDE DEF c
<1>9. /\ c.size = b.size - 1 /\ c.head_index = h /\ TailIndex(c) = q
      /\ c.capacity = b.capacity /\ c.event_capacity = b.event_capacity
      /\ Indices(c) = h .. q
  BY <1>1, <1>4, <1>8 DEF TailIndex, Indices, SameRings, q
<1>10. SameSamples(b, c)
  BY <1>4, <1>8 DEF SameSamples, SameRings, Sample
<1>11. \A e \in FirstEvent(b) .. sg : SampleLeftOf(c, e) = SampleLeftOf(b, e)
  <2> DEFINE fe == FirstEvent(b)
             le == LastEvent(b)
             ec == b.event_capacity
  <2>1. fe \in Int /\ le \in Int /\ sg \in Int /\ ec \in Int /\ (le - fe) + 1 <= ec /\ sg + 1 <= le
    BY <1>1, <1>7, SMTT(20)
  <2> HIDE DEF fe, le, ec
  <2>2. \A e \in fe .. sg : e \in Int /\ e < sg + 1 /\ sg + 1 < e + ec
    BY ONLY <2>1
  <2>3. \A e \in fe .. sg : SampleLeftOf(c, e) = SampleLeftOf(g, e)
    BY <1>4, <1>8, <2>2 DEF SameRings, ec
  <2> QED
    BY <1>4, <2>3 DEF SampleLeftOf, SameRings, fe
<1>12. c.size > 0 /\ b.head_index <= c.head_index /\ TailIndex(c) <= TailIndex(b)
       /\ InPlace(b, c, c.head_index, TailIndex(c))
  BY <1>1, <1>2, <1>9, <1>10 DEF SameSamples, InPlace, h, r
<1>13. Ordered(c) /\ SamplesOrdered(c) /\ (LastEvent(c) - FirstEvent(c)) + 1 <= c.event_capacity
  BY <1>8, <1>9, <1>12, PieceOrdered
<1>14. ASSUME NEW i \in Indices(c)
       PROVE  SegmentFound(c, i)
  <2> DEFINE k == Sample(b, i).segment
             first == FirstOnSegment(b, i)
             last == IF k = sg THEN q ELSE LastOnSegment(b, i)
  <2>1. i \in Int /\ h <= i /\ i <= q /\ i \in Indices(b) /\ SegmentFound(b, i)
    BY <1>1, <1>2, <1>9 DEF Kept
  <2>2. k \in Int /\ FirstEvent(b) <= k /\ k <= sg
        /\ first = SampleLeftOf(b, k) + 1 /\ LastOnSegment(b, i) = SampleLeftOf(b, k + 1)
    <3>1. Sample(b, i).segment <= Sample(b, q).segment
      BY <1>2, <2>1 DEF Kept, Ordered
    <3>2. /\ k \in Int /\ k \in FirstEvent(b) .. LastEvent(b) - 1
          /\ first = SampleLeftOf(b, k) + 1 /\ LastOnSegment(b, i) = SampleLeftOf(b, k + 1)
      BY <2>1, KeptAt
    <3> QED
      BY <1>7, <3>1, <3>2 DEF sg
  <2>3. Sample(c, i).segment = k
    BY <1>10, <2>1 DEF SameSamples
  <2> HIDE DEF k
  <2>4. FirstOnSegment(c, i) = first
    BY <1>7, <1>11, <2>2, <2>3 DEF FirstOnSegment
  <2>5. LastOnSegment(c, i) = last
    <3>1. CASE k = sg
      BY <1>8, <2>3, <3>1 DEF LastOnSegment
    <3>2. CASE k # sg
      <4>1. k + 1 \in FirstEvent(b) .. sg
        BY <1>7, <2>2, <3>2
      <4> QED
        BY <1>11, <2>2, <2>3, <3>2, <4>1 DEF LastOnSegment
    <3> QED
      BY <3>1, <3>2
  <2>6. first \in h .. i /\ Sample(c, first).segment = k /\ EventLeftOf(c, first)
    <3>1. first \in h .. i /\ Sample(b, first).segment = k /\ EventLeftOf(b, first)
      BY <2>1 DEF SegmentFound, k, h
    <3>2. first \in Int /\ first - 1 \in Int
      BY <2>1, <3>1
    <3> HIDE DEF first
    <3> QED
      BY <1>9, <1>10, <3>1, <3>2 DEF EventLeftOf, SameSamples, h
  <2>7. last \in i .. q /\ Sample(c, last).segment = k /\ EventRightOf(c, last)
    <3>1. CASE k = sg
      BY <1>2, <1>9, <1>10, <2>1, <3>1 DEF EventRightOf, SameSamples, sg
    <3>2. CASE k # sg
      <4>1. last \in i .. r /\ Sample(b, last).segment = k /\ EventRightOf(b, last)
        BY <2>1, <3>2 DEF SegmentFound, k, r
      <4>2. last \in Int /\ last + 1 \in Int /\ last \in Indices(b)
        BY <1>1, <2>1, <4>1
      <4> HIDE DEF last
      <4>3. last < q
        <5>1. ~ (q <= last)
          <6>1. q <= last => Sample(b, q).segment <= Sample(b, last).segment
            BY <1>2, <4>2 DEF Kept, Ordered
          <6> QED
            BY <1>7, <2>2, <3>2, <4>1, <6>1 DEF sg
        <5> QED
          BY <1>2, <4>2, <5>1
      <4>4. Sample(b, last).segment # Sample(b, last + 1).segment
        BY <1>2, <4>1, <4>2, <4>3 DEF EventRightOf, r
      <4> QED
        BY <1>2, <1>10, <2>1, <4>1, <4>2, <4>3, <4>4 DEF EventRightOf, SameSamples
    <3> QED
      BY <3>1, <3>2
  <2> QED
    BY <1>9, <2>3, <2>4, <2>5, <2>6, <2>7 DEF SegmentFound
<1>15. Kept(c)
  BY <1>13, <1>14 DEF Kept
<1> QED
  BY <1>6, <1>8, <1>9, <1>10, <1>11, <1>15 DEF EventsInPlace, sg, q, r, h

LEMMA DiscardLeftKeeps ==
  ASSUME NEW T, NEW Y, AreTimes(T), NEW b, IsBuffer(b, T, Y), Kept(b), b.size > 1
  PROVE  LET c == DiscardLeft(b)
         IN /\ IsBuffer(c, T, Y) /\ Kept(c)
            /\ c.size = b.size - 1 /\ c.head_index = b.head_index + 1
            /\ c.capacity = b.capacity /\ c.event_capacity = b.event_capacity
            /\ SameSamples(b, c)
            /\ EventsInPlace(b, c, Sample(b, b.head_index + 1).segment + 1, LastEvent(b))
<1>a. T \subseteq Int
  BY DEF AreTimes
<1> USE <1>a
<1> DEFINE h == b.head_index
           r == TailIndex(b)
           q == h + 1
           sg == Sample(b, q).segment
           g == [b EXCEPT !.size = b.size - 1, !.head_index = q]
           c == SetEvent(g, sg, h)
<1>1. /\ h \in Int /\ r \in Int /\ b.size \in Nat /\ r = (h + b.size) - 1
      /\ Indices(b) = h .. r /\ b.capacity \in Nat /\ b.event_capacity \in Nat
  BY IndicesAre DEF IsBuffer
<1>2. q \in Int /\ q \in Indices(b) /\ h < q /\ q <= r /\ h \in Indices(b) /\ h = q - 1
  BY <1>1
<1>3. b.size - 1 \in 0 .. b.capacity
  BY <1>1 DEF IsBuffer
<1>4. IsBuffer(g, T, Y) /\ g.size = b.size - 1 /\ g.head_index = q /\ SameRings(b, g)
  BY <1>2, <1>3, Moved
<1>5. SameSamples(b, g)
  BY <1>4 DEF SameSamples, SameRings, Sample
<1>6. DiscardLeft(b) = c
  BY <1>1, <1>2, <1>4, <1>5 DEF DiscardLeft, SameSamples
<1> HIDE DEF g
<1>7. /\ sg \in Int /\ Sample(b, h).segment \in Int
      /\ FirstEvent(b) \in Int /\ LastEvent(b) \in Int
      /\ FirstEvent(b) <= sg /\ sg <= LastEvent(b) - 1
      /\ (LastEvent(b) - FirstEvent(b)) + 1 <= b.event_capacity
  <2>1. q \in Indices(b) /\ h \in Indices(b)
    BY <1>2
  <2>2. Sample(b, h).segment \in Int
    BY <2>1, KeptAt
  <2>3. /\ Sample(b, q).segment \in Int /\ FirstEvent(b) \in Int /\ LastEvent(b) \in Int
        /\ Sample(b, q).segment \in FirstEvent(b) .. LastEvent(b) - 1
        /\ (LastEvent(b) - FirstEvent(b)) + 1 <= b.event_capacity
    BY <2>1, KeptAt
  <2> QED
    BY <2>2, <2>3
<1> HIDE DEF sg, q, r, h
<1>8. /\ IsBuffer(c, T, Y)
      /\ c.size = g.size /\ c.head_index = g.head_index /\ c.capacity = g.capacity
      /\ c.event_capacity = g.event_capacity /\ c.buf = g.buf
      /\ SampleLeftOf(c, sg) = h
      /\ \A d \in Int : (sg < d /\ d < sg + g.event_capacity) => SampleLeftOf(c, d) = SampleLeftOf(g, d)
  BY <1>1, <1>4, <1>7, EventSet, SMTT(20)
<1> HIDE DEF c
<1>9. /\ c.size = b.size - 1 /\ c.head_index = q /\ TailIndex(c) = r
      /\ c.capacity = b.capacity /\ c.event_capacity = b.event_capacity
      /\ Indices(c) = q .. r
  BY <1>1, <1>4, <1>8 DEF TailIndex, Indices, SameRings, q
<1>10. SameSamples(b, c)
  BY <1>4, <1>8 DEF SameSamples, SameRings, Sample
<1>11. \A e \in sg + 1 .. LastEvent(b) : SampleLeftOf(c, e) = SampleLeftOf(b, e)
  <2> DEFINE fe == FirstEvent(b)
             le == LastEvent(b)
             ec == b.event_capacity
  <2>1. fe \in Int /\ le \in Int /\ sg \in Int /\ ec \in Int /\ (le - fe) + 1 <= ec /\ fe <= sg
    BY <1>1, <1>7
  <2> HIDE DEF fe, le, ec
  <2>2. \A e \in sg + 1 .. le : e \in Int /\ sg < e /\ e < sg + ec
    BY ONLY <2>1
  <2>3. \A e \in sg + 1 .. le : SampleLeftOf(c, e) = SampleLeftOf(g, e)
    BY <1>4, <1>8, <2>2 DEF SameRings, ec
  <2> QED
    BY <1>4, <2>3 DEF SampleLeftOf, SameRings, le
<1>12. c.size > 0 /\ b.head_index <= c.head_index /\ TailIndex(c) <= TailIndex(b)
       /\ InPlace(b, c, c.head_index, TailIndex(c))
  BY <1>1, <1>2, <1>9, <1>10 DEF SameSamples, InPlace, h, r
<1>13. Ordered(c) /\ SamplesOrdered(c) /\ (LastEvent(c) - FirstEvent(c)) + 1 <= c.event_capacity
  BY <1>8, <1>9, <1>12, PieceOrdered
<1>14. ASSUME NEW i \in Indices(c)
       PROVE  SegmentFound(c, i)
  <2> DEFINE k == Sample(b, i).segment
             first == IF k = sg THEN q ELSE FirstOnSegment(b, i)
             last == LastOnSegment(b, i)
  <2>1. i \in Int /\ q <= i /\ i <= r /\ i \in Indices(b) /\ SegmentFound(b, i)
    BY <1>1, <1>2, <1>9 DEF Kept
  <2>2. k \in Int /\ sg <= k /\ k + 1 <= LastEvent(b)
        /\ FirstOnSegment(b, i) = SampleLeftOf(b, k) + 1 /\ last = SampleLeftOf(b, k + 1)
    <3>1. Sample(b, q).segment <= Sample(b, i).segment
      BY <1>2, <2>1 DEF Kept, Ordered
    <3>2. /\ k \in Int /\ LastEvent(b) \in Int /\ k \in FirstEvent(b) .. LastEvent(b) - 1
          /\ FirstOnSegment(b, i) = SampleLeftOf(b, k) + 1 /\ last = SampleLeftOf(b, k + 1)
      BY <2>1, KeptAt
    <3> QED
      BY <1>7, <3>1, <3>2 DEF sg
  <2>3. Sample(c, i).segment = k
    BY <1>10, <2>1 DEF SameSamples
  <2> HIDE DEF k
  <2>4. LastOnSegment(c, i) = last
    BY <1>7, <1>11, <2>2, <2>3 DEF LastOnSegment
  <2>5. FirstOnSegment(c, i) = first
    <3>1. CASE k = sg
      BY <1>2, <1>8, <2>3, <3>1 DEF FirstOnSegment, q
    <3>2. CASE k # sg
      <4>1. k \in sg + 1 .. LastEvent(b)
        BY <1>7, <2>2, <3>2
      <4> QED
        BY <1>11, <2>2, <2>3, <3>2, <4>1 DEF FirstOnSegment
    <3> QED
      BY <3>1, <3>2
  <2>6. last \in i .. r /\ Sample(c, last).segment = k /\ EventRightOf(c, last)
    <3>1. last \in i .. r /\ Sample(b, last).segment = k /\ EventRightOf(b, last)
      BY <2>1 DEF SegmentFound, k, r
    <3>2. last \in Int /\ last + 1 \in Int
      BY <2>1, <3>1
    <3> HIDE DEF last
    <3> QED
      BY <1>9, <1>10, <3>1, <3>2 DEF EventRightOf, SameSamples, r
  <2>7. first \in q .. i /\ Sample(c, first).segment = k /\ EventLeftOf(c, first)
    <3>1. CASE k = sg
      BY <1>2, <1>9, <1>10, <2>1, <3>1 DEF EventLeftOf, SameSamples, sg
    <3>2. CASE k # sg
      <4>1. first \in h .. i /\ Sample(b, first).segment = k /\ EventLeftOf(b, first)
        BY <2>1, <3>2 DEF SegmentFound, k, h
      <4>2. first \in Int /\ first - 1 \in Int /\ first \in Indices(b)
        BY <1>1, <2>1, <4>1
      <4> HIDE DEF first
      <4>3. q < first
        <5>1. ~ (first <= q)
          <6>1. first <= q => Sample(b, first).segment <= Sample(b, q).segment
            BY <1>2, <4>2 DEF Kept, Ordered
          <6> QED
            BY <1>7, <2>2, <3>2, <4>1, <6>1 DEF sg
        <5> QED
          BY <1>2, <4>2, <5>1
      <4>4. Sample(b, first).segment # Sample(b, first - 1).segment
        BY <1>2, <4>1, <4>2, <4>3 DEF EventLeftOf, h
      <4> QED
        BY <1>2, <1>10, <2>1, <4>1, <4>2, <4>3, <4>4 DEF EventLeftOf, SameSamples
    <3> QED
      BY <3>1, <3>2
  <2> QED
    BY <1>9, <2>3, <2>4, <2>5, <2>6, <2>7 DEF SegmentFound
<1>15. Kept(c)
  BY <1>13, <1>14 DEF Kept
<1> QED
  BY <1>6, <1>8, <1>9, <1>10, <1>11, <1>15 DEF EventsInPlace, sg, q, r, h

---------------------------------------------------------------------------
(* record at the right end, as a whole.                                    *)
(* One sample, at the head.                                                *)
Single(b, c, t, y) ==
  /\ c.size = 1 /\ c.head_index = b.head_index
  /\ Sample(c, c.head_index) = [t |-> t, y |-> y, segment |-> 0]

LEMMA PutFirstKeeps ==
  ASSUME NEW T, NEW Y, AreTimes(T), NEW b, IsBuffer(b, T, Y), b.size = 0, NEW t \in T, NEW y \in Y
  PROVE  LET c == PutFirst(b, t, y)
         IN IsBuffer(c, T, Y) /\ Kept(c) /\ Single(b, c, t, y)
<1>a. T \subseteq Int
  BY DEF AreTimes
<1> USE <1>a
<1> DEFINE h == b.head_index
           s == [t |-> t, y |-> y, segment |-> 0]
           g == [b EXCEPT !.size = 1]
           f == SetSample(g, h, s)
           e == SetEvent(f, 0, h - 1)
           c == SetEvent(e, 1, h)
<1>1. h \in Int /\ 1 \in 0 .. b.capacity /\ b.event_capacity \in Nat \ {0, 1} /\ h - 1 \in Int
  BY DEF IsBuffer
<1>2. IsBuffer(g, T, Y) /\ g.size = 1 /\ g.head_index = h /\ SameRings(b, g)
  BY <1>1, Resized
<1>3. PutFirst(b, t, y) = c
  BY DEF PutFirst
<1>4. s \in [t : T, y : Y, segment : Int] /\ s.t = t /\ s.segment = 0
  OBVIOUS
<1> HIDE DEF g, h, s
<1>5. IsBuffer(f, T, Y) /\ f.size = 1 /\ f.head_index = h /\ f.event_capacity = b.event_capacity
      /\ Sample(f, h) = s
  BY <1>1, <1>2, <1>4, SampleSet DEF SameRings
<1> HIDE DEF f
<1>6. IsBuffer(e, T, Y) /\ e.size = 1 /\ e.head_index = h /\ e.event_capacity = b.event_capacity
      /\ e.buf = f.buf /\ e.capacity = f.capacity /\ SampleLeftOf(e, 0) = h - 1
  BY <1>1, <1>5, EventSet
<1> HIDE DEF e
<1>7. /\ IsBuffer(c, T, Y) /\ c.size = 1 /\ c.head_index = h /\ c.event_capacity = b.event_capacity
      /\ c.buf = e.buf /\ c.capacity = e.capacity /\ SampleLeftOf(c, 1) = h
      /\ \A d \in Int : (d < 1 /\ 1 < d + e.event_capacity) => SampleLeftOf(c, d) = SampleLeftOf(e, d)
  BY <1>1, <1>6, EventSet
<1>8. SampleLeftOf(c, 0) = h - 1
  BY <1>1, <1>6, <1>7
<1> HIDE DEF c
<1>9. Sample(c, h) = s
  BY <1>5, <1>6, <1>7 DEF Sample
<1>10. TailIndex(c) = h /\ Indices(c) = {h}
  BY <1>1, <1>7 DEF TailIndex, Indices
<1>11. FirstOnSegment(c, h) = h /\ LastOnSegment(c, h) = h
  BY <1>1, <1>4, <1>7, <1>8, <1>9 DEF FirstOnSegment, LastOnSegment
<1>12. EventLeftOf(c, h) /\ EventRightOf(c, h)
  BY <1>1, <1>7, <1>10 DEF EventLeftOf, EventRightOf
<1>13. SegmentFound(c, h)
  BY <1>1, <1>7, <1>10, <1>11, <1>12 DEF SegmentFound
<1>14. Ordered(c) /\ SamplesOrdered(c)
  BY <1>1, <1>4, <1>7, <1>9, <1>10 DEF Ordered, SamplesOrdered
<1>15. (LastEvent(c) - FirstEvent(c)) + 1 <= c.event_capacity
  BY <1>1, <1>4, <1>7, <1>9, <1>10 DEF LastEvent, FirstEvent
<1>16. Kept(c)
  BY <1>10, <1>13, <1>14, <1>15 DEF Kept
<1> QED
  BY <1>3, <1>7, <1>9, <1>16 DEF Single, s, h

Stays(b, c) == Kept(c) /\ c.head_index = b.head_index /\ Unchanged(b, c)

LEMMA RejectedKeeps ==
  ASSUME NEW T, NEW Y, AreTimes(T), 0 \in T, 0 \in Y, NEW b, IsBuffer(b, T, Y), Kept(b), b.size > 0,
         NEW t, NEW y, NEW at_right \in BOOLEAN, NEW event \in BOOLEAN, Rejected(b, t, at_right, event)
  PROVE  LET c == Recorded(b, t, y, at_right, event)
         IN IsBuffer(c, T, Y) /\ Stays(b, c)
<1>a. T \subseteq Int
  BY DEF AreTimes
<1> USE <1>a
<1> DEFINE r == Reserved(b)
<1>1. /\ IsBuffer(r, T, Y) /\ Kept(r)
      /\ r.size = b.size /\ r.head_index = b.head_index
      /\ InPlace(b, r, b.head_index, TailIndex(b))
  BY ReservedKeeps
<1> HIDE DEF r
<1>2. /\ b.head_index \in Int /\ TailIndex(b) \in Int /\ b.head_index <= TailIndex(b)
      /\ TailIndex(r) = TailIndex(b)
  BY <1>1, IndicesAre DEF TailIndex
<1>3. Sample(r, TailIndex(b)) = Sample(b, TailIndex(b)) /\ Sample(r, b.head_index) = Sample(b, b.head_index)
  BY <1>1, <1>2 DEF InPlace
<1>4. Rejected(r, t, at_right, event)
  BY <1>1, <1>2, <1>3 DEF Rejected, EndIndex
<1>5. Recorded(b, t, y, at_right, event) = r
  BY <1>4 DEF Recorded, r
<1> QED
  BY <1>1, <1>5 DEF Stays, Unchanged

LEMMA RecordedRightKeeps ==
  ASSUME NEW T, NEW Y, AreTimes(T), 0 \in T, 0 \in Y, NEW b, IsBuffer(b, T, Y), Kept(b), b.size > 0,
         NEW t \in T, NEW y \in Y, NEW event \in BOOLEAN, Follows(b, t, event)
  PROVE  LET c == Recorded(b, t, y, TRUE, event)
         IN /\ IsBuffer(c, T, Y) /\ Kept(c) /\ c.head_index = b.head_index
            /\ RecordedAtRight(b, c, t, y, event)
<1>a. T \subseteq Int
  BY DEF AreTimes
<1> USE <1>a
<1> DEFINE r == Reserved(b)
           q == TailIndex(b)
           c == Recorded(b, t, y, TRUE, event)
<1>1. /\ IsBuffer(r, T, Y) /\ Kept(r)
      /\ r.size = b.size /\ r.head_index = b.head_index
      /\ InPlace(b, r, b.head_index, q)
      /\ HasRoom(r)
  BY ReservedKeeps
<1> HIDE DEF r
<1>2. /\ b.head_index \in Int /\ q \in Int /\ b.head_index <= q /\ b.size \in Nat
      /\ q = (b.head_index + b.size) - 1
      /\ TailIndex(r) = q
  BY <1>1, IndicesAre DEF TailIndex
<1> HIDE DEF q
<1>3. \A i \in b.head_index .. q : Sample(r, i) = Sample(b, i)
  BY <1>1 DEF InPlace
<1>4. Sample(r, q) = Sample(b, q)
  BY <1>2, <1>3
<1>5. EventLeftOf(r, q) <=> EventLeftOf(b, q)
  <2>1. q > b.head_index => Sample(r, q - 1) = Sample(b, q - 1)
    BY <1>2, <1>3
  <2> QED
    BY <1>1, <1>2, <1>4, <2>1 DEF EventLeftOf
<1>6. t \in Int /\ Sample(b, q).t \in Int
  BY <1>2, SampleType
<1>7. ~ Rejected(r, t, TRUE, event)
  BY <1>2, <1>4, <1>6 DEF Rejected, EndIndex, Follows, q
<1>8. Filtered(r, y, TRUE, event) <=> event /\ b.size > 1 /\ Sample(b, q).y = y
  BY <1>1, <1>2, <1>4 DEF Filtered, EndIndex
<1>9. ReplacesEnd(r, TRUE, event) <=> event /\ b.size > 1 /\ EventLeftOf(b, q)
  BY <1>1, <1>2, <1>5 DEF ReplacesEnd
<1> DEFINE k == IF ~ ReplacesEnd(r, TRUE, event) THEN r ELSE DiscardRight(r)
<1>13. c = IF Filtered(r, y, TRUE, event) THEN r ELSE PutRight(k, t, y, event)
  <2>1. b.size # 0
    BY <1>2
  <2> QED
    BY <1>7, <2>1 DEF Recorded, r
<1> HIDE DEF c
<1>10. CASE Filtered(r, y, TRUE, event)
  <2>1. c = r
    BY <1>10, <1>13
  <2>2. RecordedAtRight(b, c, t, y, event)
    BY <1>1, <1>8, <1>10, <2>1 DEF RecordedAtRight, Unchanged, q
  <2> QED
    BY <1>1, <2>1, <2>2 DEF c
<1>11. CASE ~ Filtered(r, y, TRUE, event) /\ ~ ReplacesEnd(r, TRUE, event)
  <2>1. c = PutRight(r, t, y, event)
    BY <1>11, <1>13
  <2>2. Follows(r, t, event)
    BY <1>2, <1>4 DEF Follows, q
  <2>3. MayFollow(r, event)
    BY <1>1, <1>2, <1>5, <1>9, <1>11 DEF MayFollow
  <2>8. r.size > 0 /\ AreTimes(T) /\ t \in T /\ y \in Y /\ event \in BOOLEAN
    BY <1>1
  <2>9. /\ IsBuffer(c, T, Y) /\ Kept(c) /\ c.head_index = r.head_index
        /\ Extended(r, c, t, y, event)
    <3> DEFINE p == PutRight(r, t, y, event)
    <3>1. IsBuffer(p, T, Y) /\ Kept(p) /\ p.head_index = r.head_index /\ Extended(r, p, t, y, event)
      BY ONLY <1>1, <2>2, <2>3, <2>8, PutRightKeeps, Zenon
    <3> QED
      BY ONLY <2>1, <3>1, Zenon
  <2>4. /\ IsBuffer(c, T, Y) /\ Kept(c)
        /\ c.size = r.size + 1 /\ c.head_index = r.head_index
        /\ InPlace(r, c, r.head_index, q)
        /\ Sample(c, q + 1).t = t /\ Sample(c, q + 1).y = y
        /\ Sample(c, q + 1).segment = Sample(r, q).segment + (IF event THEN 1 ELSE 0)
    BY <1>2, <2>9 DEF Extended
  <2>5. InPlace(b, c, b.head_index, q)
    BY <1>1, <2>4 DEF InPlace
  <2>6. Extended(b, c, t, y, event)
    BY <1>1, <1>4, <2>4, <2>5 DEF Extended, q
  <2>7. RecordedAtRight(b, c, t, y, event)
    BY <1>8, <1>9, <1>11, <2>6 DEF RecordedAtRight, q
  <2> QED
    BY <1>1, <2>4, <2>7 DEF c
<1>12. CASE ~ Filtered(r, y, TRUE, event) /\ ReplacesEnd(r, TRUE, event)
  <2> DEFINE d == DiscardRight(r)
  <2>0. event /\ b.size > 1 /\ EventLeftOf(b, q) /\ event = TRUE
    BY <1>9, <1>12
  <2>1. c = PutRight(d, t, y, event)
    BY <1>12, <1>13
  <2>2. /\ IsBuffer(d, T, Y) /\ Kept(d)
        /\ d.size = r.size - 1 /\ d.head_index = r.head_index
        /\ d.capacity = r.capacity /\ d.event_capacity = r.event_capacity
        /\ SameSamples(r, d)
    BY <1>1, <2>0, DiscardRightKeeps
  <2> HIDE DEF d
  <2>3. TailIndex(d) = q - 1 /\ q - 1 \in Int /\ q - 1 \in b.head_index .. q
    BY <1>1, <1>2, <2>0, <2>2 DEF TailIndex
  <2>4. Sample(d, q - 1) = Sample(b, q - 1) /\ Sample(d, b.head_index) = Sample(b, b.head_index)
    BY <1>2, <1>3, <2>2, <2>3 DEF SameSamples
  <2>5. SamplesOrdered(b)
    BY DEF Kept
  <2>6. q - 1 \in Indices(b) \ {q} /\ q \in Indices(b) /\ (q - 1) + 1 = q
    BY <1>2, <2>0 DEF Indices, q
  <2>7. EventRightOf(b, q - 1) /\ Sample(b, q - 1).segment # Sample(b, q).segment
    BY <1>2, <2>0, <2>6 DEF EventLeftOf, EventRightOf
  <2>8. Sample(b, q - 1).segment + 1 = Sample(b, q).segment /\ Sample(b, q - 1).t = Sample(b, q).t
    BY <2>5, <2>6, <2>7 DEF SamplesOrdered, q
  <2>9. t = Sample(d, TailIndex(d)).t
    BY <2>0, <2>3, <2>4, <2>8 DEF Follows, q
  <2>10. d.size > 1 => ~ EventLeftOf(d, TailIndex(d))
    <3> SUFFICES ASSUME d.size > 1
                 PROVE  ~ EventLeftOf(d, q - 1)
      BY <2>3
    <3>1. b.head_index < q - 1 /\ q - 1 < q /\ (q - 1) - 1 \in b.head_index .. q
      BY <1>1, <1>2, <2>2
    <3>2. ~ EventLeftOf(b, q - 1)
      BY <1>2, <2>5, <2>6, <2>7, <3>1 DEF SamplesOrdered, q
    <3>3. Sample(d, (q - 1) - 1) = Sample(b, (q - 1) - 1)
      BY <1>3, <2>2, <3>1 DEF SameSamples
    <3> QED
      BY <1>1, <2>2, <2>4, <3>2, <3>3 DEF EventLeftOf
  <2>11. HasRoom(d)
    <3>1. FirstEvent(d) = FirstEvent(r)
      BY <2>2 DEF FirstEvent, SameSamples, IsBuffer
    <3>2. /\ LastEvent(d) = Sample(r, q - 1).segment + 1 /\ LastEvent(r) = Sample(r, q).segment + 1
          /\ Sample(r, q - 1).segment \in Int /\ Sample(r, q).segment \in Int
          /\ Sample(r, q - 1).segment <= Sample(r, q).segment
      <4>1. Sample(r, q - 1) = Sample(b, q - 1)
        BY <1>3, <2>3
      <4>2. Sample(b, q - 1).segment \in Int
        BY <2>3, SampleType
      <4> QED
        BY <1>2, <1>4, <2>3, <2>4, <2>8, <4>1, <4>2 DEF LastEvent
    <3>3. FirstEvent(r) \in Int
      BY <1>1, <1>2, SampleType DEF FirstEvent
    <3>4. r.event_capacity \in Int /\ r.capacity \in Int /\ r.size \in Int
      BY <1>1 DEF IsBuffer
    <3> QED
      BY <1>1, <2>2, <3>1, <3>2, <3>3, <3>4 DEF HasRoom
  <2>12. d.size > 0
    BY <1>1, <1>2, <2>0, <2>2
  <2>18. AreTimes(T) /\ t \in T /\ y \in Y /\ event \in BOOLEAN
         /\ Follows(d, t, event) /\ MayFollow(d, event)
    BY <2>0, <2>9, <2>10 DEF Follows, MayFollow
  <2>19. /\ IsBuffer(c, T, Y) /\ Kept(c) /\ c.head_index = d.head_index
         /\ Extended(d, c, t, y, event)
    <3> DEFINE p == PutRight(d, t, y, event)
    <3>1. IsBuffer(p, T, Y) /\ Kept(p) /\ p.head_index = d.head_index /\ Extended(d, p, t, y, event)
      BY ONLY <2>2, <2>11, <2>12, <2>18, PutRightKeeps, Zenon
    <3> QED
      BY ONLY <2>1, <3>1, Zenon
  <2>13. /\ IsBuffer(c, T, Y) /\ Kept(c)
         /\ c.size = d.size + 1 /\ c.head_index = d.head_index
         /\ InPlace(d, c, d.head_index, TailIndex(d))
         /\ Sample(c, TailIndex(d) + 1).t = t /\ Sample(c, TailIndex(d) + 1).y = y
         /\ Sample(c, TailIndex(d) + 1).segment = Sample(d, TailIndex(d)).segment + 1
    BY <2>0, <2>19 DEF Extended
  <2>14. Sample(c, q).t = t /\ Sample(c, q).y = y /\ Sample(c, q).segment = Sample(b, q).segment
    BY <2>3, <2>4, <2>6, <2>8, <2>13
  <2>15. InPlace(b, c, b.head_index, q - 1)
    BY <1>1, <1>2, <1>3, <2>2, <2>3, <2>13 DEF InPlace, SameSamples
  <2>16. c.size = b.size
    BY <1>1, <1>2, <2>2, <2>13
  <2>17. RecordedAtRight(b, c, t, y, event)
    BY <1>8, <1>9, <1>12, <2>14, <2>15, <2>16 DEF RecordedAtRight, Replaced, q
  <2> QED
    BY <1>1, <2>2, <2>13, <2>17 DEF c
<1> QED
  BY <1>10, <1>11, <1>12

---------------------------------------------------------------------------
(* Samples discarded one after the other.                                  *)
AfterLeft(f, b, n) == f = [k \in 0 .. n |-> IF k = 0 THEN b ELSE DiscardLeft(f[k-1])]

LEMMA AfterLeftExists ==
  ASSUME NEW b, NEW n \in Nat
  PROVE  \E f : AfterLeft(f, b, n) /\ DiscardedLeft(b, n) = f[n]
<1> DEFINE Good == {k \in 0 .. n : \E f : AfterLeft(f, b, k)}
<1>1. 0 \in Good
  <2>1. AfterLeft([k \in 0 .. 0 |-> b], b, 0)
    BY DEF AfterLeft
  <2> QED
    BY <2>1
<1>2. ASSUME NEW m \in 0 .. n, m \in Good, m < n
      PROVE  m + 1 \in Good
  <2>1. PICK f : AfterLeft(f, b, m)
    BY <1>2
  <2> DEFINE g == [k \in 0 .. m + 1 |-> IF k <= m THEN f[k] ELSE DiscardLeft(f[m])]
  <2>2. ASSUME NEW k \in 0 .. m + 1
        PROVE  g[k] = IF k = 0 THEN b ELSE DiscardLeft(g[k-1])
    <3>1. CASE k = m + 1
      <4>1. g[k] = DiscardLeft(f[m]) /\ g[k-1] = f[m] /\ k # 0
        BY <3>1
      <4> QED
        BY <4>1
    <3>2. CASE k <= m
      <4>1. f[k] = IF k = 0 THEN b ELSE DiscardLeft(f[k-1])
        <5>1. k \in 0 .. m
          BY <3>2
        <5> QED
          BY <2>1, <5>1 DEF AfterLeft
      <4>2. g[k] = f[k] /\ (k # 0 => g[k-1] = f[k-1])
        BY <3>2
      <4> QED
        BY <4>1, <4>2
    <3> QED
      BY <3>1, <3>2
  <2>3. AfterLeft(g, b, m + 1)
    <3>1. g = [k \in 0 .. m + 1 |-> g[k]]
      OBVIOUS
    <3> HIDE DEF g
    <3> QED
      BY <2>2, <3>1 DEF AfterLeft
  <2>4. m + 1 \in 0 .. n
    BY <1>2
  <2> QED
    BY <2>3, <2>4
<1>3. n \in Good
  <2> HIDE DEF Good
  <2>1. 0 .. n \subseteq Good
    BY ONLY <1>1, <1>2, n \in Nat, InductionUpTo
  <2> QED
    BY <2>1
<1> DEFINE after == CHOOSE f : f = [k \in 0 .. n |-> IF k = 0 THEN b ELSE DiscardLeft(f[k-1])]
<1>4. AfterLeft(after, b, n)
  BY <1>3 DEF AfterLeft
<1>5. DiscardedLeft(b, n) = after[n]
  BY DEF DiscardedLeft
<1> QED
  BY <1>4, <1>5

LEMMA DiscardedLeftKeeps ==
  ASSUME NEW T, NEW Y, AreTimes(T), NEW b, IsBuffer(b, T, Y), Kept(b),
         NEW n \in 0 .. b.size - 1
  PROVE  LET c == DiscardedLeft(b, n)
         IN /\ IsBuffer(c, T, Y) /\ Kept(c)
            /\ c.size = b.size - n /\ c.head_index = b.head_index + n
            /\ SameSamples(b, c)
<1>a. T \subseteq Int
  BY DEF AreTimes
<1> USE <1>a
<1>0. n \in Nat /\ b.size \in Nat /\ b.head_index \in Int /\ n < b.size
  BY DEF IsBuffer
<1>1. PICK f : AfterLeft(f, b, n) /\ DiscardedLeft(b, n) = f[n]
  BY <1>0, AfterLeftExists
<1>2. f[0] = b /\ \A k \in 1 .. n : f[k] = DiscardLeft(f[k-1])
  BY <1>0, <1>1 DEF AfterLeft
<1> DEFINE Fine(c, k) == /\ IsBuffer(c, T, Y) /\ Kept(c)
                         /\ c.size = b.size - k /\ c.head_index = b.head_index + k
                         /\ SameSamples(b, c)
           Good == {k \in 0 .. n : Fine(f[k], k)}
<1>3. 0 \in Good
  <2>1. Fine(b, 0)
    BY <1>0 DEF SameSamples
  <2> QED
    BY <1>0, <1>2, <2>1
<1>4. ASSUME NEW k \in 0 .. n, k \in Good, k < n
      PROVE  k + 1 \in Good
  <2> DEFINE c == f[k]
             d == f[k+1]
  <2>1. Fine(c, k) /\ d = DiscardLeft(c) /\ k \in Int /\ k + 1 \in 0 .. n
    BY <1>2, <1>4
  <2> HIDE DEF c, d
  <2>2. c.size > 1
    BY <1>0, <1>4, <2>1
  <2>3. /\ IsBuffer(d, T, Y) /\ Kept(d)
        /\ d.size = c.size - 1 /\ d.head_index = c.head_index + 1
        /\ SameSamples(c, d)
    BY <2>1, <2>2, DiscardLeftKeeps
  <2>4. d.size = b.size - (k + 1) /\ d.head_index = b.head_index + (k + 1)
    BY <1>0, <2>1, <2>3
  <2>5. SameSamples(b, d)
    BY <2>1, <2>3 DEF SameSamples
  <2> QED
    BY <2>1, <2>3, <2>4, <2>5 DEF d
<1>5. n \in Good
  <2> HIDE DEF Good
  <2>1. 0 .. n \subseteq Good
    BY ONLY <1>3, <1>4, <1>0, InductionUpTo
  <2> QED
    BY <1>0, <2>1
<1> QED
  BY <1>1, <1>5

(* discard_samples_left keeps one sample before the limit, and no more.    *)
ShortenedTo(b, c, limit) ==
  /\ c.head_index \in Indices(b) /\ TailIndex(c) = TailIndex(b)
  /\ c.size = (TailIndex(b) - c.head_index) + 1
  /\ SameSamples(b, c)
  /\ c.head_index < TailIndex(b) => Sample(b, c.head_index + 1).t >= limit
  /\ b.head_index < c.head_index => Sample(b, c.head_index).t < limit

LEMMA WithoutOlderKeeps ==
  ASSUME NEW T, NEW Y, AreTimes(T), NEW b, IsBuffer(b, T, Y), Kept(b), b.size > 0,
         NEW limit \in Int
  PROVE  LET c == WithoutOlder(b, limit)
         IN IsBuffer(c, T, Y) /\ Kept(c) /\ ShortenedTo(b, c, limit)
<1>a. T \subseteq Int
  BY DEF AreTimes
<1> USE <1>a
<1> DEFINE N == {n \in 0 .. b.size - 1 : n = b.size - 1 \/ Sample(b, b.head_index + n + 1).t >= limit}
           m == Min(N)
           c == DiscardedLeft(b, m)
<1>1. b.size \in Nat /\ b.head_index \in Int /\ TailIndex(b) = (b.head_index + b.size) - 1
      /\ Indices(b) = b.head_index .. TailIndex(b)
  BY IndicesAre
<1>9. b.size - 1 \in N
  BY <1>1
<1>2. m \in N /\ \A i \in N : m <= i
  <2>1. N # {} /\ \A i \in N : i \in Int /\ 0 <= i
    BY <1>1, <1>9
  <2>2. 0 \in Int
    OBVIOUS
  <2> HIDE DEF N
  <2> QED
    BY ONLY <2>1, <2>2, MinOfIndices
<1>3. WithoutOlder(b, limit) = c
  BY DEF WithoutOlder
<1>4. m \in 0 .. b.size - 1 /\ (m = b.size - 1 \/ Sample(b, b.head_index + m + 1).t >= limit)
  BY <1>2
<1>5. m > 0 => ~ (Sample(b, b.head_index + m).t >= limit)
  <2>1. SUFFICES ASSUME m > 0, Sample(b, b.head_index + m).t >= limit
                 PROVE  FALSE
    OBVIOUS
  <2> HIDE DEF m
  <2>2. b.head_index + (m - 1) + 1 = b.head_index + m /\ m - 1 \in 0 .. b.size - 1
    BY <1>1, <1>4, <2>1
  <2>3. m - 1 \in N
    BY <2>1, <2>2
  <2> QED
    BY <1>1, <1>2, <1>4, <2>3
<1> HIDE DEF m, N
<1>6. /\ IsBuffer(c, T, Y) /\ Kept(c)
      /\ c.size = b.size - m /\ c.head_index = b.head_index + m
      /\ SameSamples(b, c)
  BY <1>4, DiscardedLeftKeeps
<1> HIDE DEF c
<1>7. Sample(b, b.head_index + m).t \in Int
  <2>1. b.head_index + m \in Int
    BY <1>1, <1>4
  <2> QED
    BY <2>1, SampleType
<1>8. ShortenedTo(b, c, limit)
  <2>1. TailIndex(c) = TailIndex(b) /\ c.head_index \in Indices(b) /\ c.size = (TailIndex(b) - c.head_index) + 1
    <3>1. TailIndex(c) = (c.head_index + c.size) - 1
      BY <1>6, IndicesAre
    <3> QED
      BY ONLY <1>1, <1>4, <1>6, <3>1
  <2>2. c.head_index < TailIndex(b) => Sample(b, c.head_index + 1).t >= limit
    BY <1>1, <1>4, <1>6
  <2>3. b.head_index < c.head_index => Sample(b, c.head_index).t < limit
    BY <1>1, <1>4, <1>5, <1>6, <1>7
  <2> QED
    BY <1>6, <2>1, <2>2, <2>3 DEF ShortenedTo
<1> QED
  BY <1>3, <1>6, <1>8

---------------------------------------------------------------------------
(* What an operation leaves: the buffer with one sample more or less.      *)
RecordedAndShortened(T, Y, b, c, t, y, event, max_delay) ==
  \E d : /\ IsBuffer(d, T, Y) /\ Kept(d) /\ d.head_index = b.head_index
         /\ RecordedAtRight(b, d, t, y, event)
         /\ ShortenedTo(d, c, t - max_delay)

LEMMA RecordedRightIs ==
  ASSUME NEW T, NEW Y, AreTimes(T), 0 \in T, 0 \in Y, NEW b, IsBuffer(b, T, Y), Kept(b), b.size > 0,
         NEW t \in T, NEW y \in Y, NEW event \in BOOLEAN, Follows(b, t, event), NEW max_delay \in Nat
  PROVE  LET c == RecordedRight(b, t, y, event, max_delay)
         IN IsBuffer(c, T, Y) /\ Kept(c) /\ RecordedAndShortened(T, Y, b, c, t, y, event, max_delay)
<1>a. T \subseteq Int
  BY DEF AreTimes
<1> USE <1>a
<1> DEFINE d == Recorded(b, t, y, TRUE, event)
           e == WithoutOlder(d, t - max_delay)
           c == RecordedRight(b, t, y, event, max_delay)
<1>1. ~ Rejected(b, t, TRUE, event)
  <2>1. Sample(b, TailIndex(b)).t \in Int /\ t \in Int
    BY IndicesAre, SampleType
  <2> QED
    BY <2>1 DEF Rejected, EndIndex, Follows
<1>2. c = e
  <2> HIDE DEF e
  <2> QED
    BY <1>1 DEF RecordedRight, e, d
<1> HIDE DEF c
<1>3. IsBuffer(d, T, Y) /\ Kept(d) /\ d.head_index = b.head_index /\ RecordedAtRight(b, d, t, y, event)
  BY RecordedRightKeeps, ZenonT(30)
<1> HIDE DEF d
<1>4. d.size > 0
  <2>1. d.size = b.size \/ d.size = b.size + 1
    BY <1>3 DEF RecordedAtRight, Unchanged, Replaced, Extended
  <2> QED
    BY <2>1, IndicesAre
<1>5. t - max_delay \in Int
  OBVIOUS
<1>6. IsBuffer(e, T, Y) /\ Kept(e) /\ ShortenedTo(d, e, t - max_delay)
  <2> DEFINE limit == t - max_delay
  <2> HIDE DEF limit
  <2> QED
    BY <1>3, <1>4, <1>5, WithoutOlderKeeps DEF limit
<1> HIDE DEF e
<1> QED
  BY <1>2, <1>3, <1>6 DEF RecordedAndShortened, c

(* The first sample of a buffer.                                           *)
LEMMA FirstRecorded ==
  ASSUME NEW T, NEW Y, AreTimes(T), 0 \in T, 0 \in Y, NEW b, IsBuffer(b, T, Y), b.size = 0,
         NEW t \in T, NEW y \in Y, NEW event \in BOOLEAN, NEW max_delay \in Nat
  PROVE  LET c == RecordedRight(b, t, y, event, max_delay)
         IN IsBuffer(c, T, Y) /\ Kept(c) /\ Single(b, c, t, y)
<1>a. T \subseteq Int
  BY DEF AreTimes
<1> USE <1>a
<1> DEFINE d == PutFirst(b, t, y)
           e == WithoutOlder(d, t - max_delay)
           c == RecordedRight(b, t, y, event, max_delay)
<1>1. ~ Rejected(b, t, TRUE, event)
  BY DEF Rejected
<1>2. Recorded(b, t, y, TRUE, event) = d
  <2>1. Reserved(b) = b
    BY DEF Reserved
  <2> QED
    BY <2>1 DEF Recorded
<1>3. c = e
  <2> HIDE DEF d, e
  <2> QED
    BY <1>1, <1>2 DEF RecordedRight, e
<1> HIDE DEF c
<1>10. IsBuffer(d, T, Y) /\ Kept(d) /\ Single(b, d, t, y)
  BY ONLY AreTimes(T), IsBuffer(b, T, Y), b.size = 0, t \in T, y \in Y, PutFirstKeeps
<1> HIDE DEF d
<1>4. /\ IsBuffer(d, T, Y) /\ Kept(d)
      /\ d.size = 1 /\ d.head_index = b.head_index
      /\ Sample(d, d.head_index) = [t |-> t, y |-> y, segment |-> 0]
  BY <1>10 DEF Single
<1>5. IsBuffer(e, T, Y) /\ Kept(e) /\ ShortenedTo(d, e, t - max_delay)
  <2> DEFINE limit == t - max_delay
  <2>1. limit \in Int
    OBVIOUS
  <2>2. d.size > 0
    BY <1>4
  <2> HIDE DEF limit
  <2>3. IsBuffer(WithoutOlder(d, limit), T, Y) /\ Kept(WithoutOlder(d, limit)) /\ ShortenedTo(d, WithoutOlder(d, limit), limit)
    BY ONLY <1>4, <2>1, <2>2, AreTimes(T), WithoutOlderKeeps, Zenon
  <2> QED
    BY <2>3 DEF limit
<1> HIDE DEF e
<1>6. d.head_index \in Int /\ TailIndex(d) = d.head_index /\ Indices(d) = d.head_index .. d.head_index
  BY <1>4, IndicesAre
<1>7. e.head_index = d.head_index /\ e.size = 1
  BY <1>5, <1>6 DEF ShortenedTo
<1>8. Sample(e, d.head_index) = Sample(d, d.head_index)
  BY <1>5, <1>6 DEF ShortenedTo, SameSamples
<1> QED
  BY <1>3, <1>4, <1>5, <1>7, <1>8 DEF Single, c

(* The present input is put at the end and taken away again.               *)
LEMMA CurrentKeeps ==
  ASSUME NEW T, NEW Y, AreTimes(T), 0 \in T, 0 \in Y, NEW b, IsBuffer(b, T, Y), Kept(b), b.size > 0,
         NEW t \in T, NEW y \in Y
  PROVE  LET c == WithCurrent(b, t, y, TRUE)
             e == WithoutCurrent(c, b.size, TRUE)
         IN /\ IsBuffer(c, T, Y) /\ Kept(c) /\ c.head_index = b.head_index
            /\ IF Sample(b, TailIndex(b)).t < t THEN Extended(b, c, t, y, FALSE) ELSE Unchanged(b, c)
            /\ IsBuffer(e, T, Y) /\ Kept(e) /\ e.head_index = b.head_index /\ Unchanged(b, e)
            /\ SameSamples(c, e)
<1>a. T \subseteq Int
  BY DEF AreTimes
<1> USE <1>a
<1> DEFINE c == WithCurrent(b, t, y, TRUE)
           e == WithoutCurrent(c, b.size, TRUE)
<1>0. /\ b.size \in Nat /\ b.head_index \in Int /\ TailIndex(b) \in Int
      /\ Sample(b, TailIndex(b)).t \in Int /\ t \in Int
  BY IndicesAre, SampleType
<1>1. CASE Sample(b, TailIndex(b)).t < t
  <2>1. Follows(b, t, FALSE) /\ FALSE \in BOOLEAN
    BY <1>1 DEF Follows
  <2>4. IsBuffer(c, T, Y) /\ Kept(c) /\ c.head_index = b.head_index /\ RecordedAtRight(b, c, t, y, FALSE)
    <3> DEFINE event == FALSE
               d == Recorded(b, t, y, TRUE, event)
    <3>1. event \in BOOLEAN /\ Follows(b, t, event)
      BY <2>1
    <3>2. c = d
      BY DEF WithCurrent
    <3> HIDE DEF event, c
    <3>3. IsBuffer(d, T, Y) /\ Kept(d) /\ d.head_index = b.head_index /\ RecordedAtRight(b, d, t, y, event)
      BY <3>1, RecordedRightKeeps, Zenon
    <3>4. IsBuffer(c, T, Y) /\ Kept(c) /\ c.head_index = b.head_index /\ RecordedAtRight(b, c, t, y, event)
      BY ONLY <3>2, <3>3, Zenon
    <3> QED
      BY <3>4 DEF event
  <2> HIDE DEF c
  <2>5. Extended(b, c, t, y, FALSE)
    BY <2>4 DEF RecordedAtRight
  <2>6. c.size = b.size + 1 /\ c.size > 1 /\ c.size # b.size
    BY <1>0, <2>5 DEF Extended
  <2>7. e = DiscardRight(c)
    BY <2>6 DEF WithoutCurrent
  <2> HIDE DEF e
  <2>8. /\ IsBuffer(e, T, Y) /\ Kept(e)
        /\ e.size = c.size - 1 /\ e.head_index = c.head_index
        /\ SameSamples(c, e)
    BY <2>4, <2>6, <2>7, DiscardRightKeeps
  <2>9. e.size = b.size /\ InPlace(b, e, b.head_index, TailIndex(b))
    BY <1>0, <2>5, <2>6, <2>8 DEF Extended, InPlace, SameSamples
  <2> QED
    BY <1>1, <2>4, <2>5, <2>8, <2>9 DEF c, e, Unchanged
<1>2. CASE ~ (Sample(b, TailIndex(b)).t < t)
  <2>1. Rejected(b, t, TRUE, FALSE) /\ FALSE \in BOOLEAN /\ TRUE \in BOOLEAN
    BY <1>0, <1>2 DEF Rejected, EndIndex
  <2>4. IsBuffer(c, T, Y) /\ Kept(c) /\ c.head_index = b.head_index /\ Unchanged(b, c)
    <3> DEFINE event == FALSE
               at_right == TRUE
               d == Recorded(b, t, y, at_right, event)
    <3>1. event \in BOOLEAN /\ at_right \in BOOLEAN /\ Rejected(b, t, at_right, event)
      BY <2>1
    <3>2. c = d
      BY DEF WithCurrent
    <3> HIDE DEF event, at_right, c
    <3>3. IsBuffer(d, T, Y) /\ Stays(b, d)
      BY <3>1, RejectedKeeps, Zenon
    <3> QED
      BY ONLY <3>2, <3>3 DEF Stays
  <2> HIDE DEF c
  <2>5. e = c
    BY <2>4 DEF WithoutCurrent, Unchanged
  <2> HIDE DEF e
  <2> QED
    BY <1>2, <2>4, <2>5 DEF c, e, SameSamples
<1> QED
  BY <1>1, <1>2

---------------------------------------------------------------------------
(* A segment is found as a whole, from any sample on it.                   *)
Segment(b, i) == FirstOnSegment(b, i) .. LastOnSegment(b, i)

LEMMA OnSegment ==
  ASSUME NEW T, NEW Y, AreTimes(T), NEW b, IsBuffer(b, T, Y), Kept(b), NEW i \in Indices(b),
         NEW j \in Segment(b, i)
  PROVE  /\ j \in Indices(b) /\ Sample(b, j).segment = Sample(b, i).segment
         /\ FirstOnSegment(b, j) = FirstOnSegment(b, i) /\ LastOnSegment(b, j) = LastOnSegment(b, i)
         /\ FirstOnSegment(b, i) < j => ~ EventLeftOf(b, j)
         /\ j < LastOnSegment(b, i) => ~ EventRightOf(b, j)
<1>a. T \subseteq Int
  BY DEF AreTimes
<1> USE <1>a
<1> DEFINE first == FirstOnSegment(b, i)
           last == LastOnSegment(b, i)
<1>1. /\ b.head_index \in Int /\ TailIndex(b) \in Int
      /\ Indices(b) = b.head_index .. TailIndex(b) /\ i \in Int /\ b.head_index <= i /\ i <= TailIndex(b)
  BY IndicesAre
<1>2. SegmentFound(b, i) /\ Ordered(b)
  BY DEF Kept
<1>3. /\ first \in b.head_index .. i /\ Sample(b, first).segment = Sample(b, i).segment
      /\ last \in i .. TailIndex(b) /\ Sample(b, last).segment = Sample(b, i).segment
  BY <1>2 DEF SegmentFound
<1> HIDE DEF first, last
<1>4. ASSUME NEW k \in first .. last
      PROVE  k \in Indices(b) /\ Sample(b, k).segment = Sample(b, i).segment
  <2>1. k \in Indices(b) /\ first \in Indices(b) /\ last \in Indices(b) /\ first <= k /\ k <= last
    BY <1>1, <1>3
  <2>2. Sample(b, first).segment <= Sample(b, k).segment /\ Sample(b, k).segment <= Sample(b, last).segment
    BY <1>2, <2>1 DEF Ordered
  <2>3. Sample(b, k).segment \in Int /\ Sample(b, i).segment \in Int
    BY <1>1, <2>1, SampleType
  <2> QED
    BY <1>3, <2>1, <2>2, <2>3
<1>5. j \in first .. last
  BY DEF Segment, first, last
<1>6. j \in Indices(b) /\ Sample(b, j).segment = Sample(b, i).segment
  BY <1>4, <1>5
<1>7. FirstOnSegment(b, j) = first /\ LastOnSegment(b, j) = last
  BY <1>6 DEF FirstOnSegment, LastOnSegment, first, last
<1>8. first < j => ~ EventLeftOf(b, j)
  <2>1. SUFFICES ASSUME first < j
                 PROVE  ~ EventLeftOf(b, j)
    OBVIOUS
  <2>2. j - 1 \in first .. last /\ ~ (j <= b.head_index)
    BY <1>1, <1>3, <1>5, <2>1
  <2>3. Sample(b, j - 1).segment = Sample(b, i).segment
    BY <1>4, <2>2
  <2> QED
    BY <1>6, <2>2, <2>3 DEF EventLeftOf
<1>9. j < last => ~ EventRightOf(b, j)
  <2>1. SUFFICES ASSUME j < last
                 PROVE  ~ EventRightOf(b, j)
    OBVIOUS
  <2>2. j + 1 \in first .. last /\ ~ (j >= TailIndex(b))
    BY <1>1, <1>3, <1>5, <2>1
  <2>3. Sample(b, j + 1).segment = Sample(b, i).segment
    BY <1>4, <2>2
  <2> QED
    BY <1>6, <2>2, <2>3 DEF EventRightOf
<1> QED
  BY <1>6, <1>7, <1>8, <1>9 DEF first, last

LEMMA ClampedIs ==
  ASSUME NEW T, NEW Y, NEW b, IsBuffer(b, T, Y), b.size > 0, NEW index \in Int
  PROVE  /\ Clamped(b, index) \in Indices(b)
         /\ index \in Indices(b) => Clamped(b, index) = index
         /\ index < b.head_index => Clamped(b, index) = b.head_index
         /\ index > TailIndex(b) => Clamped(b, index) = TailIndex(b)
<1> DEFINE m == Min({index, TailIndex(b)})
<1>1. /\ b.head_index \in Int /\ TailIndex(b) \in Int /\ b.head_index <= TailIndex(b)
      /\ Indices(b) = b.head_index .. TailIndex(b)
  BY IndicesAre
<1>2. m = IF index <= TailIndex(b) THEN index ELSE TailIndex(b)
  BY <1>1, MinOfTwo
<1> HIDE DEF m
<1>3. m \in Int
  BY <1>1, <1>2
<1>4. Clamped(b, index) = IF b.head_index <= m THEN m ELSE b.head_index
  <2> DEFINE S == {b.head_index, m}
             r == IF b.head_index <= m THEN m ELSE b.head_index
  <2>1. \A x \in S : (\A y \in S : x >= y) => x = r
    BY <1>1, <1>3
  <2>2. \E x \in S : \A y \in S : x >= y
    BY <1>1, <1>3
  <2>3. Clamped(b, index) = Max(S)
    BY DEF Clamped, m
  <2> HIDE DEF S, r
  <2>4. Max(S) = r
    BY <2>1, <2>2 DEF Max
  <2> QED
    BY <2>3, <2>4 DEF r
<1> QED
  BY <1>1, <1>2, <1>3, <1>4

(* update_position: the interval found is around the time, as far as it can*)
(* be reached without crossing an event, or wherever it is.                *)
FoundOnSegment(b, p, tr, i) ==
  /\ p \in FirstOnSegment(b, i) .. LastOnSegment(b, i)
  /\ p = FirstOnSegment(b, i) \/ Sample(b, p).t <= tr
  /\ p = LastOnSegment(b, i) \/ p + 1 = LastOnSegment(b, i) \/ Sample(b, p + 1).t > tr

FoundAcross(b, p, tr) ==
  /\ p \in Indices(b)
  /\ p = b.head_index \/ Sample(b, p).t <= tr
  /\ p = TailIndex(b) \/ Sample(b, p + 1).t > tr

LEMMA PositionOnSegment ==
  ASSUME NEW T, NEW Y, AreTimes(T), NEW b, IsBuffer(b, T, Y), Kept(b), b.size > 1,
         NEW tr \in Int, NEW index \in Int
  PROVE  FoundOnSegment(b, Position(b, FALSE, tr, index), tr, Clamped(b, index))
<1>a. T \subseteq Int
  BY DEF AreTimes
<1> USE <1>a
<1> DEFINE c == Clamped(b, index)
           first == FirstOnSegment(b, c)
           last == LastOnSegment(b, c)
           left == {i \in b.head_index .. c : i = b.head_index \/ EventLeftOf(b, i) \/ Sample(b, i).t <= tr}
           l == Max(left)
           right == {i \in l .. TailIndex(b) : i = TailIndex(b) \/ EventRightOf(b, i + 1) \/ Sample(b, i + 1).t > tr}
           p == Position(b, FALSE, tr, index)
<1>1. /\ b.head_index \in Int /\ TailIndex(b) \in Int /\ b.head_index <= TailIndex(b) /\ b.size # 1
      /\ Indices(b) = b.head_index .. TailIndex(b)
  BY IndicesAre
<1>2. c \in Indices(b)
  <2>1. b.size > 0
    BY IndicesAre
  <2> QED
    BY <2>1, ClampedIs
<1>3. p = IF EventRightOf(b, l) THEN l ELSE Min(right)
  BY <1>1 DEF Position
<1> HIDE DEF p, c
<1>4. SegmentFound(b, c)
  BY <1>2 DEF Kept
<1>5. /\ first \in b.head_index .. c /\ EventLeftOf(b, first)
      /\ last \in c .. TailIndex(b) /\ EventRightOf(b, last)
      /\ c \in b.head_index .. TailIndex(b)
  BY <1>1, <1>2, <1>4 DEF SegmentFound
<1>6. \A i \in first .. last : (first < i => ~ EventLeftOf(b, i)) /\ (i < last => ~ EventRightOf(b, i))
  <2> SUFFICES ASSUME NEW i \in first .. last
               PROVE  (first < i => ~ EventLeftOf(b, i)) /\ (i < last => ~ EventRightOf(b, i))
    OBVIOUS
  <2> QED
    <3>1. i \in Segment(b, c)
      BY DEF Segment
    <3> QED
      BY ONLY AreTimes(T), IsBuffer(b, T, Y), Kept(b), <1>2, <3>1, OnSegment
<1>7. ASSUME NEW i \in first .. last
      PROVE  Sample(b, i).t \in Int
  <2>1. i \in Int
    BY <1>1, <1>5
  <2> QED
    BY <2>1, SampleType
<1> HIDE DEF first, last
<1>8. l \in left /\ \A i \in left : i <= l
  <2>1. first \in left /\ \A i \in left : i \in Int /\ i <= TailIndex(b)
    BY <1>1, <1>5
  <2> HIDE DEF left
  <2> QED
    BY ONLY <1>1, <2>1, MaxOfIndices
<1>9. l \in first .. c /\ (l = first \/ Sample(b, l).t <= tr)
  <2>1. first \in left /\ first \in Int /\ l \in b.head_index .. c
    BY <1>1, <1>5, <1>8
  <2>2. first <= l
    BY <1>8, <2>1
  <2>3. l \in first .. c /\ l \in first .. last
    BY <1>1, <1>5, <2>1, <2>2
  <2>4. l = b.head_index \/ EventLeftOf(b, l) \/ Sample(b, l).t <= tr
    BY <1>8
  <2> HIDE DEF l, left
  <2>5. l = b.head_index => l = first
    BY <1>1, <1>5, <2>3
  <2>6. EventLeftOf(b, l) => l = first
    BY <1>1, <1>5, <1>6, <2>3
  <2> QED
    BY <2>3, <2>4, <2>5, <2>6
<1>10. l \in Int /\ first \in Int /\ last \in Int /\ c \in Int
  BY <1>1, <1>5, <1>9
<1> HIDE DEF l, left
<1>11. CASE EventRightOf(b, l)
  <2>1. l = last
    BY <1>5, <1>6, <1>9, <1>10, <1>11
  <2>2. p = last /\ p \in first .. last /\ (p = first \/ Sample(b, p).t <= tr)
    BY <1>3, <1>5, <1>9, <1>10, <1>11, <2>1
  <2>3. FoundOnSegment(b, p, tr, c)
    BY <2>2 DEF FoundOnSegment, first, last
  <2> QED
    BY <2>3 DEF p, c
<1>12. CASE ~ EventRightOf(b, l)
  <2>1. l < last
    BY <1>5, <1>9, <1>10, <1>12
  <2>2. last - 1 \in right
    BY <1>1, <1>5, <1>9, <1>10, <2>1
  <2>3. p = Min(right)
    BY <1>3, <1>12
  <2>4. p \in right /\ \A i \in right : p <= i
    <3>1. right # {} /\ \A i \in right : i \in Int /\ l <= i
      BY <1>1, <1>10, <2>2
    <3> HIDE DEF right
    <3> QED
      BY ONLY <1>10, <2>3, <3>1, MinOfIndices
  <2>5. p \in l .. last - 1
    BY <1>1, <1>10, <2>2, <2>4
  <2>6. p + 1 = last \/ Sample(b, p + 1).t > tr
    <3>1. p = TailIndex(b) \/ EventRightOf(b, p + 1) \/ Sample(b, p + 1).t > tr
      BY <2>4
    <3>2. p # TailIndex(b) /\ p + 1 \in first .. last
      BY <1>1, <1>5, <1>9, <1>10, <2>5
    <3> HIDE DEF right
    <3>3. EventRightOf(b, p + 1) => p + 1 = last
      BY <1>6, <1>10, <3>2
    <3> QED
      BY <3>1, <3>2, <3>3
  <2>7. p = first \/ Sample(b, p).t <= tr
    <3>1. CASE p = l
      BY <1>9, <3>1
    <3>2. CASE p # l
      <4>1. p - 1 \in l .. TailIndex(b) /\ ~ (p <= p - 1) /\ (p - 1) + 1 = p /\ p \in first .. last
        BY <1>1, <1>5, <1>9, <1>10, <2>5, <3>2
      <4>2. p - 1 \notin right
        <5> HIDE DEF right
        <5> QED
          BY <2>4, <4>1
      <4>3. ~ (Sample(b, p).t > tr)
        BY <4>1, <4>2
      <4> QED
        BY <1>7, <4>1, <4>3
    <3> QED
      BY <3>1, <3>2
  <2>8. p \in first .. last
    BY <1>9, <1>10, <2>5
  <2> QED
    BY <2>6, <2>7, <2>8 DEF FoundOnSegment, first, last, p, c
<1> QED
  BY <1>11, <1>12

LEMMA PositionAcross ==
  ASSUME NEW T, NEW Y, AreTimes(T), NEW b, IsBuffer(b, T, Y), b.size > 1,
         NEW tr \in Int, NEW index \in Int
  PROVE  FoundAcross(b, Position(b, TRUE, tr, index), tr)
<1>a. T \subseteq Int
  BY DEF AreTimes
<1> USE <1>a
<1> DEFINE c == Clamped(b, index)
           left == {i \in b.head_index .. c : i = b.head_index \/ Sample(b, i).t <= tr}
           l == Max(left)
           right == {i \in l .. TailIndex(b) : i = TailIndex(b) \/ Sample(b, i + 1).t > tr}
           p == Position(b, TRUE, tr, index)
<1>1. /\ b.head_index \in Int /\ TailIndex(b) \in Int /\ b.head_index <= TailIndex(b) /\ b.size # 1
      /\ Indices(b) = b.head_index .. TailIndex(b)
  BY IndicesAre
<1>2. c \in b.head_index .. TailIndex(b)
  <2>1. b.size > 0
    BY IndicesAre
  <2> QED
    BY <1>1, <2>1, ClampedIs
<1>3. p = Min(right)
  BY <1>1 DEF Position
<1> HIDE DEF p, c
<1>4. l \in left
  <2>1. b.head_index \in left /\ \A i \in left : i \in Int /\ i <= TailIndex(b)
    BY <1>1, <1>2
  <2> HIDE DEF left
  <2> QED
    BY ONLY <1>1, <2>1, MaxOfIndices
<1>5. l \in b.head_index .. TailIndex(b) /\ (l = b.head_index \/ Sample(b, l).t <= tr)
  <2> HIDE DEF l
  <2> QED
    BY <1>1, <1>2, <1>4
<1> HIDE DEF l, left
<1>6. p \in right /\ \A i \in right : p <= i
  <2>1. TailIndex(b) \in right /\ l \in Int /\ \A i \in right : i \in Int /\ l <= i
    BY <1>1, <1>5
  <2> HIDE DEF right
  <2> QED
    BY ONLY <1>3, <2>1, MinOfIndices
<1>7. p \in l .. TailIndex(b) /\ (p = TailIndex(b) \/ Sample(b, p + 1).t > tr)
  BY <1>6
<1>8. p = b.head_index \/ Sample(b, p).t <= tr
  <2>1. CASE p = l
    BY <1>5, <2>1
  <2>2. CASE p # l
    <3>1. p - 1 \in l .. TailIndex(b) /\ ~ (p <= p - 1) /\ (p - 1) + 1 = p /\ p \in Int
      BY <1>1, <1>5, <1>7, <2>2
    <3>2. p - 1 \notin right
      <4> HIDE DEF right
      <4> QED
        BY <1>6, <3>1
    <3>3. ~ (Sample(b, p).t > tr)
      BY <3>1, <3>2
    <3>4. Sample(b, p).t \in Int
      BY <3>1, SampleType
    <3> QED
      BY <3>3, <3>4
  <2> QED
    BY <2>1, <2>2
<1> HIDE DEF right
<1>9. p \in Indices(b)
  BY <1>1, <1>5, <1>7
<1> QED
  BY <1>7, <1>8, <1>9 DEF FoundAcross, p

(* From two samples on a segment the same ends are found; an event left of *)
(* a sample makes it the first one, an event right of it the last.         *)
LEMMA SameSegment ==
  ASSUME NEW T, NEW Y, AreTimes(T), NEW b, IsBuffer(b, T, Y), Kept(b), NEW i \in Indices(b),
         NEW j \in Indices(b), Sample(b, j).segment = Sample(b, i).segment
  PROVE  /\ FirstOnSegment(b, j) = FirstOnSegment(b, i) /\ LastOnSegment(b, j) = LastOnSegment(b, i)
         /\ FirstOnSegment(b, i) \in b.head_index .. j /\ LastOnSegment(b, i) \in j .. TailIndex(b)
         /\ EventLeftOf(b, j) <=> j = FirstOnSegment(b, i)
         /\ EventRightOf(b, j) <=> j = LastOnSegment(b, i)
<1>a. T \subseteq Int
  BY DEF AreTimes
<1> USE <1>a
<1>1. FirstOnSegment(b, j) = FirstOnSegment(b, i) /\ LastOnSegment(b, j) = LastOnSegment(b, i)
  BY DEF FirstOnSegment, LastOnSegment
<1>2. SegmentFound(b, j)
  BY DEF Kept
<1>3. /\ FirstOnSegment(b, i) \in b.head_index .. j /\ LastOnSegment(b, i) \in j .. TailIndex(b)
      /\ EventLeftOf(b, FirstOnSegment(b, i)) /\ EventRightOf(b, LastOnSegment(b, i))
  BY <1>1, <1>2 DEF SegmentFound
<1>4. b.head_index \in Int /\ TailIndex(b) \in Int /\ j \in Int
  BY IndicesAre
<1>5. j \in Segment(b, i)
  BY <1>3, <1>4 DEF Segment
<1>6. /\ FirstOnSegment(b, i) < j => ~ EventLeftOf(b, j)
      /\ j < LastOnSegment(b, i) => ~ EventRightOf(b, j)
  BY ONLY AreTimes(T), IsBuffer(b, T, Y), Kept(b), i \in Indices(b), <1>5, OnSegment
<1>7. FirstOnSegment(b, i) \in Int /\ LastOnSegment(b, i) \in Int
  BY <1>3, <1>4
<1>8. EventLeftOf(b, j) <=> j = FirstOnSegment(b, i)
  BY <1>3, <1>4, <1>6, <1>7
<1>9. EventRightOf(b, j) <=> j = LastOnSegment(b, i)
  BY <1>3, <1>4, <1>6, <1>7
<1> QED
  BY <1>1, <1>3, <1>8, <1>9

(* An event is between two samples at the same time on consecutive         *)
(* segments; other neighbours are at different times on one segment.       *)
LEMMA Neighbours ==
  ASSUME NEW T, NEW Y, NEW b, IsBuffer(b, T, Y), Kept(b), NEW i \in Indices(b), i # TailIndex(b)
  PROVE  /\ i + 1 \in Indices(b)
         /\ EventRightOf(b, i) => /\ Sample(b, i + 1).segment = Sample(b, i).segment + 1
                                  /\ Sample(b, i + 1).t = Sample(b, i).t
         /\ ~ EventRightOf(b, i) => /\ Sample(b, i + 1).segment = Sample(b, i).segment
                                    /\ Sample(b, i).t < Sample(b, i + 1).t
<1>1. i \in Int /\ i + 1 \in Indices(b) /\ ~ (i >= TailIndex(b)) /\ TailIndex(b) \in Int
  BY IndicesAre
<1>2. SamplesOrdered(b)
  BY DEF Kept
<1>3. \/ Sample(b, i).segment = Sample(b, i + 1).segment /\ Sample(b, i).t < Sample(b, i + 1).t
      \/ Sample(b, i).segment + 1 = Sample(b, i + 1).segment /\ Sample(b, i).t = Sample(b, i + 1).t
  BY <1>2 DEF SamplesOrdered
<1>4. EventRightOf(b, i) <=> Sample(b, i).segment # Sample(b, i + 1).segment
  BY <1>1 DEF EventRightOf
<1>5. Sample(b, i).segment \in Int
  BY <1>1, SampleType
<1>6. Sample(b, i).segment # Sample(b, i).segment + 1
  BY <1>5
<1> QED
  BY <1>1, <1>3, <1>4, <1>6

(* The same at the left end.                                               *)
ReplacedFirst(b, c, t, y) ==
  /\ c.size = b.size /\ c.head_index = b.head_index /\ InPlace(b, c, b.head_index + 1, TailIndex(b))
  /\ Sample(c, b.head_index).t = t /\ Sample(c, b.head_index).y = y
  /\ Sample(c, b.head_index).segment = Sample(b, b.head_index).segment

Prepended(b, c, t, y, event) ==
  /\ c.size = b.size + 1 /\ c.head_index = b.head_index - 1 /\ InPlace(b, c, b.head_index, TailIndex(b))
  /\ Sample(c, b.head_index - 1).t = t /\ Sample(c, b.head_index - 1).y = y
  /\ Sample(c, b.head_index - 1).segment = Sample(b, b.head_index).segment - (IF event THEN 1 ELSE 0)

RecordedAtLeft(b, c, t, y, event) ==
  IF event /\ b.size > 1 /\ Sample(b, b.head_index).y = y THEN Unchanged(b, c) /\ c.head_index = b.head_index
  ELSE IF event /\ b.size > 1 /\ EventRightOf(b, b.head_index) THEN ReplacedFirst(b, c, t, y)
  ELSE Prepended(b, c, t, y, event)

Precedes(b, t, event) ==
  IF event THEN t = Sample(b, b.head_index).t ELSE t < Sample(b, b.head_index).t

MayPrecede(b, event) == event /\ b.size > 1 => ~ EventRightOf(b, b.head_index)

(* A sample put at the left end.                                           *)
LEMMA PutLeftKeeps ==
  ASSUME NEW T, NEW Y, AreTimes(T), NEW b, IsBuffer(b, T, Y), Kept(b), b.size > 0, HasRoom(b),
         NEW t \in T, NEW y \in Y, NEW event \in BOOLEAN, Precedes(b, t, event), MayPrecede(b, event)
  PROVE  LET c == PutLeft(b, t, y, event)
         IN /\ IsBuffer(c, T, Y) /\ Kept(c) /\ TailIndex(c) = TailIndex(b)
            /\ Prepended(b, c, t, y, event)
<1>a. T \subseteq Int
  BY DEF AreTimes
<1> USE <1>a
<1> USE DEF Precedes, MayPrecede
<1> DEFINE h == b.head_index
           r == TailIndex(b)
           sg == Sample(b, h).segment - (IF event THEN 1 ELSE 0)
           g == [b EXCEPT !.size = b.size + 1, !.head_index = h - 1]
           s == [t |-> t, y |-> y, segment |-> sg]
           f == SetSample(g, h - 1, s)
           c == SetEvent(f, sg, h - 2)
<1>1. /\ h \in Int /\ r \in Int /\ b.size \in Nat /\ r = (h + b.size) - 1
      /\ Indices(b) = h .. r /\ r \in Indices(b) /\ h \in Indices(b)
      /\ b.capacity \in Nat /\ b.event_capacity \in Nat
  BY IndicesAre DEF IsBuffer
<1>2. /\ sg \in Int /\ Sample(b, h).segment \in Int
      /\ LastEvent(b) \in Int /\ FirstEvent(b) = Sample(b, h).segment
      /\ Sample(b, h).segment \in sg .. LastEvent(b) - 1
      /\ sg <= FirstEvent(b) /\ FirstEvent(b) <= sg + 1
  <2>1. h \in Indices(b)
    BY <1>1
  <2>2. Sample(b, h).segment \in Int /\ LastEvent(b) \in Int /\ Sample(b, h).segment \in FirstEvent(b) .. LastEvent(b) - 1
    BY <2>1, KeptAt
  <2>3. FirstEvent(b) = Sample(b, h).segment
    BY DEF FirstEvent
  <2> HIDE DEF h
  <2>4. sg \in Int /\ sg <= Sample(b, h).segment /\ sg >= Sample(b, h).segment - 1
    <3>1. CASE event
      BY <2>2, <3>1
    <3>2. CASE ~ event
      BY <2>2, <3>2
    <3> QED
      BY <3>1, <3>2
  <2> HIDE DEF sg
  <2> QED
    BY <2>2, <2>3, <2>4
<1>3. b.size + 1 \in 0 .. b.capacity
  BY <1>1 DEF HasRoom
<1>4. IsBuffer(g, T, Y) /\ g.size = b.size + 1 /\ g.head_index = h - 1 /\ SameRings(b, g)
  <2>1. h - 1 \in Int
    BY <1>1
  <2> HIDE DEF h
  <2> QED
    BY <1>3, <2>1, Moved
<1>5. (h - 1) - 1 = h - 2
  BY <1>1
<1>6. PutLeft(b, t, y, event) = c
  BY <1>4, <1>5 DEF PutLeft
<1> HIDE DEF g, sg, r, h
<1>7. s \in [t : T, y : Y, segment : Int]
  BY <1>2
<1> HIDE DEF s
<1>8. /\ IsBuffer(f, T, Y)
      /\ f.size = g.size /\ f.head_index = g.head_index /\ f.capacity = g.capacity
      /\ f.event_capacity = g.event_capacity /\ f.event_buf = g.event_buf
      /\ Sample(f, h - 1) = s
      /\ \A j \in Int : (h - 1 < j /\ j < (h - 1) + g.capacity) => Sample(f, j) = Sample(g, j)
  <2>1. h - 1 \in Int
    BY <1>1
  <2> QED
    BY <1>4, <1>7, <2>1, SampleSet
<1> HIDE DEF f
<1>9. /\ IsBuffer(c, T, Y)
      /\ c.size = f.size /\ c.head_index = f.head_index /\ c.capacity = f.capacity
      /\ c.event_capacity = f.event_capacity /\ c.buf = f.buf
      /\ SampleLeftOf(c, sg) = h - 2
      /\ \A d \in Int : (sg < d /\ d < sg + f.event_capacity) => SampleLeftOf(c, d) = SampleLeftOf(f, d)
  <2>1. h - 2 \in Int
    BY <1>1
  <2> QED
    BY <1>2, <1>8, <2>1, EventSet, SMTT(20)
<1> HIDE DEF c
<1>10. /\ c.size = b.size + 1 /\ c.head_index = h - 1 /\ TailIndex(c) = r
       /\ c.capacity = b.capacity /\ c.event_capacity = b.event_capacity
       /\ Indices(c) = h - 1 .. r
  <2>1. c.size = b.size + 1 /\ c.head_index = h - 1 /\ c.capacity = b.capacity /\ c.event_capacity = b.event_capacity
    BY <1>4, <1>8, <1>9 DEF SameRings
  <2> QED
    BY <1>1, <2>1, SMTT(20) DEF TailIndex, Indices
<1>11. Sample(c, h - 1).t = t /\ Sample(c, h - 1).y = y /\ Sample(c, h - 1).segment = sg
  BY <1>8, <1>9 DEF Sample, s
<1>12. \A i \in Indices(b) : Sample(c, i) = Sample(b, i)
  <2>1. \A i \in Indices(b) : i \in Int /\ h - 1 < i /\ i < (h - 1) + b.capacity
    <3> DEFINE n == b.size
               m == b.capacity
    <3>1. h \in Int /\ r = (h + n) - 1 /\ n \in Nat /\ m \in Nat /\ n + 1 \in 0 .. m
      BY <1>1, <1>3
    <3> HIDE DEF n, m
    <3>2. \A i \in h .. r : i \in Int /\ h - 1 < i /\ i < (h - 1) + m
      BY ONLY <3>1
    <3> QED
      BY <1>1, <3>2 DEF m
  <2>2. \A i \in Indices(b) : Sample(f, i) = Sample(g, i)
    BY <1>4, <1>8, <2>1 DEF SameRings
  <2> QED
    BY <1>4, <1>8, <1>9, <2>2 DEF Sample, SameRings
<1>13. \A e \in sg + 1 .. LastEvent(b) : SampleLeftOf(c, e) = SampleLeftOf(b, e)
  <2>1. FirstEvent(b) \in Int /\ LastEvent(b) \in Int /\ (LastEvent(b) - FirstEvent(b)) + 2 <= b.event_capacity
        /\ FirstEvent(b) <= sg + 1
    BY <1>2 DEF HasRoom
  <2>2. \A e \in sg + 1 .. LastEvent(b) : e \in Int /\ sg < e /\ e < sg + b.event_capacity
    <3> DEFINE fe == FirstEvent(b)
               le == LastEvent(b)
               ec == b.event_capacity
    <3>1. fe \in Int /\ le \in Int /\ sg \in Int /\ ec \in Int /\ (le - fe) + 2 <= ec /\ fe <= sg + 1
      BY <1>1, <1>2, <2>1
    <3> HIDE DEF fe, le, ec
    <3>2. \A e \in sg + 1 .. le : e \in Int /\ sg < e /\ e < sg + ec
      BY ONLY <3>1
    <3> QED
      BY <3>2 DEF le, ec
  <2>3. \A e \in sg + 1 .. LastEvent(b) : SampleLeftOf(c, e) = SampleLeftOf(f, e)
    BY <1>4, <1>8, <1>9, <2>2 DEF SameRings
  <2> QED
    BY <1>4, <1>8, <1>9, <2>3 DEF SampleLeftOf, SameRings
<1>14. \A i \in Indices(b) : Sample(b, i).t \in Int /\ Sample(b, i).segment \in Int
         /\ Sample(b, i).segment \in sg .. LastEvent(b) - 1
         /\ FirstOnSegment(b, i) = SampleLeftOf(b, Sample(b, i).segment) + 1
         /\ LastOnSegment(b, i) = SampleLeftOf(b, Sample(b, i).segment + 1)
  <2> SUFFICES ASSUME NEW i \in Indices(b)
               PROVE  /\ Sample(b, i).t \in Int /\ Sample(b, i).segment \in Int
                      /\ Sample(b, i).segment \in sg .. LastEvent(b) - 1
                      /\ FirstOnSegment(b, i) = SampleLeftOf(b, Sample(b, i).segment) + 1
                      /\ LastOnSegment(b, i) = SampleLeftOf(b, Sample(b, i).segment + 1)
    OBVIOUS
  <2>1. /\ Sample(b, i).t \in Int /\ Sample(b, i).segment \in Int
        /\ Sample(b, i).segment \in FirstEvent(b) .. LastEvent(b) - 1
        /\ FirstOnSegment(b, i) = SampleLeftOf(b, Sample(b, i).segment) + 1
        /\ LastOnSegment(b, i) = SampleLeftOf(b, Sample(b, i).segment + 1)
    BY KeptAt
  <2> QED
    BY <1>2, <2>1
<1>15. t \in Int
  OBVIOUS
<1>16. (LastEvent(c) - FirstEvent(c)) + 1 <= c.event_capacity
  <2>1. FirstEvent(c) = sg /\ LastEvent(c) = LastEvent(b)
    BY <1>1, <1>10, <1>11, <1>12 DEF LastEvent, FirstEvent, r
  <2> DEFINE fe == FirstEvent(b)
             le == LastEvent(b)
             ec == b.event_capacity
  <2>2. fe \in Int /\ le \in Int /\ sg \in Int /\ ec \in Int /\ (le - fe) + 2 <= ec /\ fe <= sg + 1
    BY <1>1, <1>2 DEF HasRoom
  <2> HIDE DEF fe, le, ec
  <2>3. (le - sg) + 1 <= ec
    BY ONLY <2>2
  <2> QED
    BY <1>10, <2>1, <2>3 DEF le, ec
<1>17. Ordered(c)
  <2>1. \A i \in Indices(b) : Sample(b, h).t <= Sample(b, i).t /\ Sample(b, h).segment <= Sample(b, i).segment
    BY <1>1 DEF Kept, Ordered
  <2>2. \A i \in Indices(b) : t <= Sample(b, i).t /\ sg <= Sample(b, i).segment
    BY <1>1, <1>2, <1>14, <1>15, <2>1, SMTT(20) DEF sg, h
  <2>3. \A i \in Indices(c) : i \in Indices(b) \/ i = h - 1
    BY <1>1, <1>10
  <2>4. \A i, j \in Indices(c) : i <= j => (i \in Indices(b) /\ j \in Indices(b)) \/ i = h - 1
    BY <1>1, <1>10
  <2>5. Ordered(b)
    BY DEF Kept
  <2> QED
    BY <1>2, <1>11, <1>12, <1>15, <2>2, <2>3, <2>4, <2>5 DEF Ordered
<1>18. SamplesOrdered(c)
  <2>1. SamplesOrdered(b)
    BY DEF Kept
  <2>2. ASSUME NEW i \in Indices(c) \ {r}
        PROVE  \/ Sample(c, i).segment = Sample(c, i + 1).segment /\ Sample(c, i).t < Sample(c, i + 1).t
               \/ Sample(c, i).segment + 1 = Sample(c, i + 1).segment /\ Sample(c, i).t = Sample(c, i + 1).t
    <3>1. CASE i = h - 1
      <4>1. i + 1 = h /\ h \in Indices(b)
        BY <1>1, <3>1
      <4> QED
        BY <1>1, <1>2, <1>11, <1>12, <3>1, <4>1, SMTT(20) DEF sg, h
    <3>2. CASE i # h - 1
      <4>1. i \in Indices(b) \ {r} /\ i + 1 \in Indices(b)
        BY <1>1, <1>10, <3>2
      <4> QED
        BY <1>12, <2>1, <4>1 DEF SamplesOrdered, r
    <3> QED
      BY <3>1, <3>2
  <2>3. ASSUME NEW i \in Indices(c), h - 1 < i, i < r, EventLeftOf(c, i), EventRightOf(c, i)
        PROVE  FALSE
    <3>1. i \in Indices(b) /\ i + 1 \in Indices(b) /\ i \in Int /\ ~ (i >= r)
      BY <1>1, <1>10, <2>3
    <3>2. EventRightOf(b, i)
      BY <1>1, <1>10, <1>12, <2>3, <3>1 DEF EventRightOf
    <3>3. CASE i = h
      <4>1. i - 1 = h - 1 /\ ~ (i <= h - 1)
        BY <1>1, <3>3
      <4> QED
        BY <1>1, <1>2, <1>10, <1>11, <1>12, <2>3, <3>2, <3>3, <4>1, SMTT(20) DEF EventLeftOf, EventRightOf, sg, h, r
    <3>4. CASE i # h
      <4>1. i - 1 \in Indices(b) /\ h < i
        BY <1>1, <3>1, <3>4
      <4>2. EventLeftOf(b, i)
        BY <1>1, <1>10, <1>12, <2>3, <3>1, <4>1 DEF EventLeftOf
      <4> QED
        BY <2>1, <2>3, <3>1, <3>2, <4>1, <4>2 DEF SamplesOrdered, h, r
    <3> QED
      BY <3>3, <3>4
  <2> QED
    BY <1>10, <2>2, <2>3 DEF SamplesOrdered
<1>19. ASSUME NEW i \in Indices(c)
       PROVE  SegmentFound(c, i)
  <2> DEFINE first == IF Sample(c, i).segment = sg THEN h - 1 ELSE SampleLeftOf(b, Sample(c, i).segment) + 1
             last == SampleLeftOf(b, Sample(c, i).segment + 1)
  <2>0. i \in Int /\ (i = h - 1 \/ i \in Indices(b)) /\ h - 1 <= i /\ i <= r
    BY <1>1, <1>10
  <2>1. Sample(c, i).segment \in sg .. LastEvent(b) - 1 /\ Sample(c, i).segment \in Int /\ LastEvent(b) \in Int
    <3>1. sg \in sg .. LastEvent(b) - 1 /\ LastEvent(b) \in Int
      BY <1>2
    <3>2. CASE i = h - 1
      BY ONLY <1>11, <3>1, <3>2
    <3>3. CASE i \in Indices(b)
      BY ONLY <1>12, <1>14, <3>1, <3>3
    <3> QED
      BY <2>0, <3>2, <3>3
  <2>2. LastOnSegment(c, i) = last
    <3>1. Sample(c, i).segment + 1 \in sg + 1 .. LastEvent(b)
      BY <1>2, <2>1
    <3> QED
      BY <1>13, <3>1 DEF LastOnSegment
  <2>3. FirstOnSegment(c, i) = first
    <3>1. CASE Sample(c, i).segment = sg
      <4>1. (h - 2) + 1 = h - 1
        BY <1>1
      <4> QED
        BY <1>9, <3>1, <4>1 DEF FirstOnSegment
    <3>2. CASE Sample(c, i).segment # sg
      <4>1. Sample(c, i).segment \in sg + 1 .. LastEvent(b)
        BY <1>2, <2>1, <3>2
      <4> QED
        BY <1>13, <3>2, <4>1 DEF FirstOnSegment
    <3> QED
      BY <3>1, <3>2
  <2>4. /\ last \in i .. r
        /\ Sample(c, last).segment = Sample(c, i).segment
        /\ EventRightOf(c, last)
    <3>1. CASE i \in Indices(b)
      <4>1. last = LastOnSegment(b, i) /\ SegmentFound(b, i)
        BY <1>12, <1>14, <3>1 DEF Kept
      <4>2. last \in i .. r /\ Sample(b, last).segment = Sample(b, i).segment /\ EventRightOf(b, last)
        BY <4>1 DEF SegmentFound, r
      <4>3. last \in Indices(b) /\ (last >= r \/ last + 1 \in Indices(b))
        BY <1>1, <2>0, <4>2, <3>1
      <4> HIDE DEF last
      <4> QED
        BY <1>10, <1>12, <3>1, <4>2, <4>3 DEF EventRightOf, r
    <3>2. CASE i = h - 1 /\ ~ event
      <4>1. last = LastOnSegment(b, h) /\ SegmentFound(b, h) /\ sg = Sample(b, h).segment
        BY <1>1, <1>2, <1>11, <1>14, <3>2 DEF Kept, sg
      <4>2. last \in h .. r /\ Sample(b, last).segment = sg /\ EventRightOf(b, last)
        BY <4>1 DEF SegmentFound, r
      <4>3. last \in Indices(b) /\ (last >= r \/ last + 1 \in Indices(b)) /\ last \in i .. r
        BY <1>1, <2>0, <4>2, <3>2
      <4> HIDE DEF last
      <4> QED
        BY <1>10, <1>11, <1>12, <3>2, <4>2, <4>3 DEF EventRightOf, r
    <3>3. CASE i = h - 1 /\ event
      <4>1. sg + 1 = Sample(b, h).segment
        BY <1>2, <3>3 DEF sg
      <4>2. FirstOnSegment(b, h) = SampleLeftOf(b, sg + 1) + 1 /\ SegmentFound(b, h)
        BY <1>1, <1>14, <4>1 DEF Kept
      <4>3. FirstOnSegment(b, h) = h
        BY <1>1, <4>2 DEF SegmentFound, h
      <4>4. last = h - 1
        <5>1. SampleLeftOf(b, sg + 1) \in Int /\ last = SampleLeftOf(b, sg + 1)
          BY <1>2, <1>11, <3>3, SampleType
        <5> QED
          BY <1>1, <4>2, <4>3, <5>1
      <4>5. Sample(c, h).segment # Sample(c, h - 1).segment /\ (h - 1) + 1 = h
        BY <1>1, <1>2, <1>11, <1>12, <4>1
      <4>6. EventRightOf(c, h - 1)
        BY <4>5 DEF EventRightOf
      <4> HIDE DEF last
      <4> QED
        BY <1>1, <3>3, <4>4, <4>6
    <3> QED
      BY <2>0, <3>1, <3>2, <3>3
  <2>5. /\ first \in h - 1 .. i
        /\ Sample(c, first).segment = Sample(c, i).segment
        /\ EventLeftOf(c, first)
    <3>1. CASE Sample(c, i).segment = sg
      BY <1>1, <1>10, <1>11, <2>0, <3>1 DEF EventLeftOf
    <3>2. CASE Sample(c, i).segment # sg
      <4>1. i \in Indices(b)
        BY <1>11, <2>0, <3>2
      <4>2. first = FirstOnSegment(b, i) /\ SegmentFound(b, i)
        BY <1>12, <1>14, <3>2, <4>1 DEF Kept
      <4>3. first \in h .. i /\ Sample(b, first).segment = Sample(b, i).segment /\ EventLeftOf(b, first)
        BY <4>2 DEF SegmentFound, h
      <4>4. first \in Indices(b) /\ first \in Int
        BY <1>1, <4>1, <4>3
      <4> HIDE DEF first
      <4>5. Sample(c, first).segment = Sample(c, i).segment
        BY <1>12, <4>1, <4>3, <4>4
      <4>6. CASE first = h
        BY <1>1, <1>11, <1>12, <3>2, <4>1, <4>3, <4>4, <4>5, <4>6 DEF EventLeftOf
      <4>7. CASE first # h
        <5>1. first - 1 \in Indices(b) /\ ~ (first <= h)
          BY <1>1, <4>3, <4>4, <4>7
        <5> QED
          BY <1>1, <1>12, <4>3, <4>4, <4>5, <5>1 DEF EventLeftOf, h
      <4> QED
        BY <1>1, <4>3, <4>5, <4>6, <4>7
    <3> QED
      BY <3>1, <3>2
  <2> QED
    BY <1>10, <2>2, <2>3, <2>4, <2>5 DEF SegmentFound
<1>20. Kept(c)
  BY <1>16, <1>17, <1>18, <1>19 DEF Kept
<1>21. InPlace(b, c, h, r)
  BY <1>1, <1>12 DEF InPlace
<1> QED
  BY <1>6, <1>9, <1>10, <1>11, <1>13, <1>20, <1>21 DEF Prepended, r, sg, h

LEMMA RecordedLeftKeeps ==
  ASSUME NEW T, NEW Y, AreTimes(T), 0 \in T, 0 \in Y, NEW b, IsBuffer(b, T, Y), Kept(b), b.size > 0,
         NEW t \in T, NEW y \in Y, NEW event \in BOOLEAN, Precedes(b, t, event)
  PROVE  LET c == Recorded(b, t, y, FALSE, event)
         IN /\ IsBuffer(c, T, Y) /\ Kept(c) /\ TailIndex(c) = TailIndex(b)
            /\ RecordedAtLeft(b, c, t, y, event)
<1>a. T \subseteq Int
  BY DEF AreTimes
<1> USE <1>a
<1> DEFINE r == Reserved(b)
           h == b.head_index
           q == TailIndex(b)
           c == Recorded(b, t, y, FALSE, event)
<1>1. /\ IsBuffer(r, T, Y) /\ Kept(r)
      /\ r.size = b.size /\ r.head_index = h
      /\ InPlace(b, r, h, q)
      /\ HasRoom(r)
  BY ReservedKeeps
<1> HIDE DEF r
<1>2. /\ h \in Int /\ q \in Int /\ h <= q /\ b.size \in Nat
      /\ q = (h + b.size) - 1
      /\ TailIndex(r) = q
  BY <1>1, IndicesAre DEF TailIndex
<1> HIDE DEF q, h
<1>3. \A i \in h .. q : Sample(r, i) = Sample(b, i)
  BY <1>1 DEF InPlace
<1>4. Sample(r, h) = Sample(b, h)
  BY <1>2, <1>3
<1>5. EventRightOf(r, h) <=> EventRightOf(b, h)
  <2>1. h < q => Sample(r, h + 1) = Sample(b, h + 1)
    BY <1>2, <1>3
  <2> QED
    BY <1>1, <1>2, <1>4, <2>1 DEF EventRightOf, q
<1>6. t \in Int /\ Sample(b, h).t \in Int
  BY <1>2, SampleType
<1>7. ~ Rejected(r, t, FALSE, event)
  BY <1>1, <1>2, <1>4, <1>6 DEF Rejected, EndIndex, Precedes, h
<1>8. Filtered(r, y, FALSE, event) <=> event /\ b.size > 1 /\ Sample(b, h).y = y
  BY <1>1, <1>2, <1>4 DEF Filtered, EndIndex
<1>9. ReplacesEnd(r, FALSE, event) <=> event /\ b.size > 1 /\ EventRightOf(b, h)
  BY <1>1, <1>2, <1>5 DEF ReplacesEnd
<1> DEFINE k == IF ~ ReplacesEnd(r, FALSE, event) THEN r ELSE DiscardLeft(r)
<1>13. c = IF Filtered(r, y, FALSE, event) THEN r ELSE PutLeft(k, t, y, event)
  <2>1. b.size # 0
    BY <1>2
  <2> QED
    BY <1>7, <2>1 DEF Recorded, r
<1> HIDE DEF c
<1>10. CASE Filtered(r, y, FALSE, event)
  <2>1. c = r
    BY <1>10, <1>13
  <2>2. RecordedAtLeft(b, c, t, y, event)
    BY <1>1, <1>8, <1>10, <2>1 DEF RecordedAtLeft, Unchanged, q, h
  <2> QED
    BY <1>1, <1>2, <2>1, <2>2 DEF c, q
<1>11. CASE ~ Filtered(r, y, FALSE, event) /\ ~ ReplacesEnd(r, FALSE, event)
  <2>1. c = PutLeft(r, t, y, event)
    BY <1>11, <1>13
  <2>2. Precedes(r, t, event)
    BY <1>1, <1>2, <1>4 DEF Precedes, h
  <2>3. MayPrecede(r, event)
    BY <1>1, <1>2, <1>5, <1>9, <1>11 DEF MayPrecede
  <2>8. r.size > 0 /\ AreTimes(T) /\ t \in T /\ y \in Y /\ event \in BOOLEAN
    BY <1>1
  <2>9. /\ IsBuffer(c, T, Y) /\ Kept(c) /\ TailIndex(c) = TailIndex(r)
        /\ Prepended(r, c, t, y, event)
    <3> DEFINE p == PutLeft(r, t, y, event)
    <3>1. IsBuffer(p, T, Y) /\ Kept(p) /\ TailIndex(p) = TailIndex(r) /\ Prepended(r, p, t, y, event)
      BY ONLY <1>1, <2>2, <2>3, <2>8, PutLeftKeeps, Zenon
    <3> QED
      BY ONLY <2>1, <3>1, Zenon
  <2>4. /\ IsBuffer(c, T, Y) /\ Kept(c) /\ TailIndex(c) = q
        /\ c.size = r.size + 1 /\ c.head_index = h - 1
        /\ InPlace(r, c, h, q)
        /\ Sample(c, h - 1).t = t /\ Sample(c, h - 1).y = y
        /\ Sample(c, h - 1).segment = Sample(r, h).segment - (IF event THEN 1 ELSE 0)
    BY <1>1, <1>2, <2>9 DEF Prepended
  <2>5. InPlace(b, c, h, q)
    BY <1>1, <2>4 DEF InPlace
  <2>6. Prepended(b, c, t, y, event)
    BY <1>1, <1>4, <2>4, <2>5 DEF Prepended, q, h
  <2>7. RecordedAtLeft(b, c, t, y, event)
    BY <1>8, <1>9, <1>11, <2>6 DEF RecordedAtLeft, h
  <2> QED
    BY <1>1, <2>4, <2>7 DEF c, q
<1>12. CASE ~ Filtered(r, y, FALSE, event) /\ ReplacesEnd(r, FALSE, event)
  <2> DEFINE d == DiscardLeft(r)
  <2>0. event /\ b.size > 1 /\ EventRightOf(b, h) /\ event = TRUE
    BY <1>9, <1>12
  <2>1. c = PutLeft(d, t, y, event)
    BY <1>12, <1>13
  <2>2. /\ IsBuffer(d, T, Y) /\ Kept(d)
        /\ d.size = r.size - 1 /\ d.head_index = h + 1
        /\ d.capacity = r.capacity /\ d.event_capacity = r.event_capacity
        /\ SameSamples(r, d)
    BY <1>1, <2>0, DiscardLeftKeeps
  <2> HIDE DEF d
  <2>3. TailIndex(d) = q /\ h + 1 \in Int /\ h + 1 \in h .. q
    BY <1>1, <1>2, <2>0, <2>2 DEF TailIndex
  <2>4. Sample(d, h + 1) = Sample(b, h + 1) /\ Sample(d, q) = Sample(b, q)
    BY <1>2, <1>3, <2>2, <2>3 DEF SameSamples
  <2>5. SamplesOrdered(b)
    BY DEF Kept
  <2>6. h \in Indices(b) \ {q} /\ h + 1 \in Indices(b) /\ q \in Indices(b)
    BY <1>2, <2>0 DEF Indices, q, h
  <2>7. EventLeftOf(b, h + 1) /\ Sample(b, h).segment # Sample(b, h + 1).segment
    <3>1. ~ (h >= q) /\ (h + 1) - 1 = h
      BY <1>2, <2>0
    <3> QED
      BY <1>2, <2>0, <2>6, <3>1 DEF EventLeftOf, EventRightOf, q
  <2>8. Sample(b, h).segment + 1 = Sample(b, h + 1).segment /\ Sample(b, h).t = Sample(b, h + 1).t
    BY <2>5, <2>6, <2>7 DEF SamplesOrdered, q
  <2>9. t = Sample(d, h + 1).t
    BY <2>0, <2>3, <2>4, <2>8 DEF Precedes, h
  <2>10. d.size > 1 => ~ EventRightOf(d, h + 1)
    <3> SUFFICES ASSUME d.size > 1
                 PROVE  ~ EventRightOf(d, h + 1)
      OBVIOUS
    <3>1. h < h + 1 /\ h + 1 < q /\ (h + 1) + 1 \in h .. q
      BY <1>1, <1>2, <2>2
    <3>2. ~ EventRightOf(b, h + 1)
      BY <1>2, <2>5, <2>6, <2>7, <3>1 DEF SamplesOrdered, q, h
    <3>3. Sample(d, (h + 1) + 1) = Sample(b, (h + 1) + 1)
      BY <1>3, <2>2, <3>1 DEF SameSamples
    <3> QED
      BY <1>1, <2>2, <2>3, <2>4, <3>1, <3>2, <3>3 DEF EventRightOf, q
  <2>11. HasRoom(d)
    <3>1. LastEvent(d) = LastEvent(r)
      BY <1>2, <2>2, <2>3 DEF LastEvent, SameSamples
    <3>2. /\ FirstEvent(d) = Sample(r, h + 1).segment /\ FirstEvent(r) = Sample(r, h).segment
          /\ Sample(r, h + 1).segment \in Int /\ Sample(r, h).segment \in Int
          /\ Sample(r, h).segment <= Sample(r, h + 1).segment
      <4>1. Sample(r, h + 1) = Sample(b, h + 1)
        BY <1>3, <2>3
      <4>2. Sample(b, h + 1).segment \in Int /\ Sample(b, h).segment \in Int
        BY <1>2, <2>3, SampleType
      <4> QED
        BY <1>1, <1>2, <1>4, <2>2, <2>3, <2>4, <2>8, <4>1, <4>2 DEF FirstEvent
    <3>3. LastEvent(r) \in Int
      <4>1. Sample(r, q).segment \in Int
        BY <1>1, <1>2, SampleType
      <4> QED
        BY <1>2, <4>1 DEF LastEvent
    <3>4. r.event_capacity \in Int /\ r.capacity \in Int /\ r.size \in Int
      BY <1>1 DEF IsBuffer
    <3> QED
      BY <1>1, <2>2, <3>1, <3>2, <3>3, <3>4 DEF HasRoom
  <2>12. d.size > 0
    BY <1>1, <1>2, <2>0, <2>2
  <2>18. AreTimes(T) /\ t \in T /\ y \in Y /\ event \in BOOLEAN
         /\ Precedes(d, t, event) /\ MayPrecede(d, event)
    BY <2>0, <2>2, <2>9, <2>10 DEF Precedes, MayPrecede
  <2>19. /\ IsBuffer(c, T, Y) /\ Kept(c) /\ TailIndex(c) = TailIndex(d)
         /\ Prepended(d, c, t, y, event)
    <3> DEFINE p == PutLeft(d, t, y, event)
    <3>1. IsBuffer(p, T, Y) /\ Kept(p) /\ TailIndex(p) = TailIndex(d) /\ Prepended(d, p, t, y, event)
      BY ONLY <2>2, <2>11, <2>12, <2>18, PutLeftKeeps, Zenon
    <3> QED
      BY ONLY <2>1, <3>1, Zenon
  <2>13. /\ IsBuffer(c, T, Y) /\ Kept(c) /\ TailIndex(c) = q
         /\ c.size = d.size + 1 /\ c.head_index = h
         /\ InPlace(d, c, h + 1, q)
         /\ Sample(c, h).t = t /\ Sample(c, h).y = y
         /\ Sample(c, h).segment = Sample(d, h + 1).segment - 1
    <3>1. (h + 1) - 1 = h
      BY <1>2
    <3> QED
      BY <2>0, <2>2, <2>3, <2>19, <3>1 DEF Prepended
  <2>14. Sample(c, h).t = t /\ Sample(c, h).y = y /\ Sample(c, h).segment = Sample(b, h).segment
    <3>1. Sample(b, h).segment \in Int
      BY <1>2, SampleType
    <3> QED
      BY <2>4, <2>8, <2>13, <3>1
  <2>15. InPlace(b, c, h + 1, q)
    BY <1>1, <1>2, <1>3, <2>2, <2>3, <2>13 DEF InPlace, SameSamples
  <2>16. c.size = b.size
    BY <1>1, <1>2, <2>2, <2>13
  <2>17. RecordedAtLeft(b, c, t, y, event)
    BY <1>8, <1>9, <1>12, <2>13, <2>14, <2>15, <2>16 DEF RecordedAtLeft, ReplacedFirst, q, h
  <2> QED
    BY <1>1, <2>2, <2>13, <2>17 DEF c, q
<1> QED
  BY <1>10, <1>11, <1>12

AfterRight(f, b, n) == f = [k \in 0 .. n |-> IF k = 0 THEN b ELSE DiscardRight(f[k-1])]

LEMMA AfterRightExists ==
  ASSUME NEW b, NEW n \in Nat
  PROVE  \E f : AfterRight(f, b, n) /\ DiscardedRight(b, n) = f[n]
<1> DEFINE Good == {k \in 0 .. n : \E f : AfterRight(f, b, k)}
<1>1. 0 \in Good
  <2>1. AfterRight([k \in 0 .. 0 |-> b], b, 0)
    BY DEF AfterRight
  <2> QED
    BY <2>1
<1>2. ASSUME NEW m \in 0 .. n, m \in Good, m < n
      PROVE  m + 1 \in Good
  <2>1. PICK f : AfterRight(f, b, m)
    BY <1>2
  <2> DEFINE g == [k \in 0 .. m + 1 |-> IF k <= m THEN f[k] ELSE DiscardRight(f[m])]
  <2>2. ASSUME NEW k \in 0 .. m + 1
        PROVE  g[k] = IF k = 0 THEN b ELSE DiscardRight(g[k-1])
    <3>1. CASE k = m + 1
      <4>1. g[k] = DiscardRight(f[m]) /\ g[k-1] = f[m] /\ k # 0
        BY <3>1
      <4> QED
        BY <4>1
    <3>2. CASE k <= m
      <4>1. f[k] = IF k = 0 THEN b ELSE DiscardRight(f[k-1])
        <5>1. k \in 0 .. m
          BY <3>2
        <5> QED
          BY <2>1, <5>1 DEF AfterRight
      <4>2. g[k] = f[k] /\ (k # 0 => g[k-1] = f[k-1])
        BY <3>2
      <4> QED
        BY <4>1, <4>2
    <3> QED
      BY <3>1, <3>2
  <2>3. AfterRight(g, b, m + 1)
    <3>1. g = [k \in 0 .. m + 1 |-> g[k]]
      OBVIOUS
    <3> HIDE DEF g
    <3> QED
      BY <2>2, <3>1 DEF AfterRight
  <2>4. m + 1 \in 0 .. n
    BY <1>2
  <2> QED
    BY <2>3, <2>4
<1>3. n \in Good
  <2> HIDE DEF Good
  <2>1. 0 .. n \subseteq Good
    BY ONLY <1>1, <1>2, n \in Nat, InductionUpTo
  <2> QED
    BY <2>1
<1> DEFINE after == CHOOSE f : f = [k \in 0 .. n |-> IF k = 0 THEN b ELSE DiscardRight(f[k-1])]
<1>4. AfterRight(after, b, n)
  BY <1>3 DEF AfterRight
<1>5. DiscardedRight(b, n) = after[n]
  BY DEF DiscardedRight
<1> QED
  BY <1>4, <1>5

LEMMA DiscardedRightKeeps ==
  ASSUME NEW T, NEW Y, AreTimes(T), NEW b, IsBuffer(b, T, Y), Kept(b),
         NEW n \in 0 .. b.size - 1
  PROVE  LET c == DiscardedRight(b, n)
         IN /\ IsBuffer(c, T, Y) /\ Kept(c)
            /\ c.size = b.size - n /\ c.head_index = b.head_index
            /\ SameSamples(b, c)
<1>a. T \subseteq Int
  BY DEF AreTimes
<1> USE <1>a
<1>0. n \in Nat /\ b.size \in Nat /\ b.head_index \in Int /\ n < b.size
  BY DEF IsBuffer
<1>1. PICK f : AfterRight(f, b, n) /\ DiscardedRight(b, n) = f[n]
  BY <1>0, AfterRightExists
<1>2. f[0] = b /\ \A k \in 1 .. n : f[k] = DiscardRight(f[k-1])
  BY <1>0, <1>1 DEF AfterRight
<1> DEFINE Fine(c, k) == /\ IsBuffer(c, T, Y) /\ Kept(c)
                         /\ c.size = b.size - k /\ c.head_index = b.head_index
                         /\ SameSamples(b, c)
           Good == {k \in 0 .. n : Fine(f[k], k)}
<1>3. 0 \in Good
  <2>1. Fine(b, 0)
    BY <1>0 DEF SameSamples
  <2> QED
    BY <1>0, <1>2, <2>1
<1>4. ASSUME NEW k \in 0 .. n, k \in Good, k < n
      PROVE  k + 1 \in Good
  <2> DEFINE c == f[k]
             d == f[k+1]
  <2>1. Fine(c, k) /\ d = DiscardRight(c) /\ k \in Int /\ k + 1 \in 0 .. n
    BY <1>2, <1>4
  <2> HIDE DEF c, d
  <2>2. c.size > 1
    BY <1>0, <1>4, <2>1
  <2>3. /\ IsBuffer(d, T, Y) /\ Kept(d)
        /\ d.size = c.size - 1 /\ d.head_index = c.head_index
        /\ SameSamples(c, d)
    BY <2>1, <2>2, DiscardRightKeeps
  <2>4. d.size = b.size - (k + 1) /\ d.head_index = b.head_index
    BY <1>0, <2>1, <2>3
  <2>5. SameSamples(b, d)
    BY <2>1, <2>3 DEF SameSamples
  <2> QED
    BY <2>1, <2>3, <2>4, <2>5 DEF d
<1>5. n \in Good
  <2> HIDE DEF Good
  <2>1. 0 .. n \subseteq Good
    BY ONLY <1>3, <1>4, <1>0, InductionUpTo
  <2> QED
    BY <1>0, <2>1
<1> QED
  BY <1>1, <1>5

(* discard_samples_right keeps one sample beyond the limit, and no more.   *)
ShortenedRight(b, c, limit) ==
  /\ TailIndex(c) \in Indices(b) /\ c.head_index = b.head_index
  /\ SameSamples(b, c)
  /\ c.head_index < TailIndex(c) => Sample(b, TailIndex(c) - 1).t <= limit
  /\ TailIndex(c) < TailIndex(b) => Sample(b, TailIndex(c)).t > limit

LEMMA WithoutNewerKeeps ==
  ASSUME NEW T, NEW Y, AreTimes(T), NEW b, IsBuffer(b, T, Y), Kept(b), b.size > 0,
         NEW limit \in Int
  PROVE  LET c == WithoutNewer(b, limit)
         IN IsBuffer(c, T, Y) /\ Kept(c) /\ c.size > 0 /\ ShortenedRight(b, c, limit)
<1>a. T \subseteq Int
  BY DEF AreTimes
<1> USE <1>a
<1> DEFINE q == TailIndex(b)
           N == {n \in 0 .. b.size - 1 : n = b.size - 1 \/ Sample(b, q - n - 1).t <= limit}
           m == Min(N)
           c == DiscardedRight(b, m)
<1>1. b.size \in Nat /\ b.head_index \in Int /\ q = (b.head_index + b.size) - 1 /\ q \in Int
      /\ Indices(b) = b.head_index .. q
  BY IndicesAre
<1>9. b.size - 1 \in N
  BY <1>1
<1>2. m \in N /\ \A i \in N : m <= i
  <2>1. N # {} /\ \A i \in N : i \in Int /\ 0 <= i
    BY <1>1, <1>9
  <2>2. 0 \in Int
    OBVIOUS
  <2> HIDE DEF N
  <2> QED
    BY ONLY <2>1, <2>2, MinOfIndices
<1>3. WithoutNewer(b, limit) = c
  BY DEF WithoutNewer
<1>4. m \in 0 .. b.size - 1 /\ (m = b.size - 1 \/ Sample(b, q - m - 1).t <= limit)
  BY <1>2
<1>5. m > 0 => ~ (Sample(b, q - m).t <= limit)
  <2>1. SUFFICES ASSUME m > 0, Sample(b, q - m).t <= limit
                 PROVE  FALSE
    OBVIOUS
  <2> HIDE DEF m, q
  <2>2. q - (m - 1) - 1 = q - m /\ m - 1 \in 0 .. b.size - 1
    BY <1>1, <1>4, <2>1
  <2>3. m - 1 \in N
    BY <2>1, <2>2
  <2> QED
    BY <1>1, <1>2, <1>4, <2>3
<1> HIDE DEF m, N
<1>6. /\ IsBuffer(c, T, Y) /\ Kept(c)
      /\ c.size = b.size - m /\ c.head_index = b.head_index
      /\ SameSamples(b, c)
  BY <1>4, DiscardedRightKeeps
<1> HIDE DEF c
<1>7. TailIndex(c) = q - m /\ q - m \in Int /\ m \in Int /\ c.size > 0
  <2>1. TailIndex(c) = (c.head_index + c.size) - 1
    BY <1>6, IndicesAre
  <2> QED
    BY ONLY <1>1, <1>4, <1>6, <2>1, SMTT(20)
<1> HIDE DEF q
<1>8. Sample(b, q - m).t \in Int
  BY <1>7, SampleType
<1>10. ShortenedRight(b, c, limit)
  <2>1. TailIndex(c) \in Indices(b)
    <3>1. b.head_index <= q - m /\ q - m <= q
      <4> DEFINE n == b.size
                 h == b.head_index
      <4>1. m \in 0 .. n - 1 /\ n \in Nat /\ h \in Int /\ q = (h + n) - 1
        BY <1>1, <1>4
      <4> HIDE DEF n, h
      <4>2. h <= q - m /\ q - m <= q
        BY ONLY <4>1
      <4> QED
        BY <4>2 DEF h
    <3> QED
      BY ONLY <1>1, <1>7, <3>1
  <2>2. c.head_index < TailIndex(c) => Sample(b, TailIndex(c) - 1).t <= limit
    BY <1>1, <1>4, <1>6, <1>7, SMTT(20)
  <2>3. TailIndex(c) < q => Sample(b, TailIndex(c)).t > limit
    BY <1>1, <1>4, <1>5, <1>7, <1>8
  <2> QED
    BY <1>6, <2>1, <2>2, <2>3 DEF ShortenedRight, q
<1> QED
  BY <1>3, <1>6, <1>7, <1>10

---------------------------------------------------------------------------
RecordedLeftAndShortened(T, Y, b, c, t, y, event, max_delay) ==
  \E d : /\ IsBuffer(d, T, Y) /\ Kept(d) /\ TailIndex(d) = TailIndex(b)
         /\ RecordedAtLeft(b, d, t, y, event)
         /\ ShortenedRight(d, c, t + max_delay)

LEMMA RecordedLeftIs ==
  ASSUME NEW T, NEW Y, AreTimes(T), 0 \in T, 0 \in Y, NEW b, IsBuffer(b, T, Y), Kept(b), b.size > 0,
         NEW t \in T, NEW y \in Y, NEW event \in BOOLEAN, Precedes(b, t, event), NEW max_delay \in Nat
  PROVE  LET c == RecordedLeft(b, t, y, event, max_delay)
         IN /\ IsBuffer(c, T, Y) /\ Kept(c) /\ c.size > 0
            /\ RecordedLeftAndShortened(T, Y, b, c, t, y, event, max_delay)
<1>a. T \subseteq Int
  BY DEF AreTimes
<1> USE <1>a
<1> DEFINE d == Recorded(b, t, y, FALSE, event)
           e == WithoutNewer(d, t + max_delay)
           c == RecordedLeft(b, t, y, event, max_delay)
<1>1. ~ Rejected(b, t, FALSE, event)
  <2>1. Sample(b, b.head_index).t \in Int /\ t \in Int
    BY IndicesAre, SampleType
  <2> QED
    BY <2>1 DEF Rejected, EndIndex, Precedes
<1>2. c = e
  <2> HIDE DEF e
  <2> QED
    BY <1>1 DEF RecordedLeft, e, d
<1> HIDE DEF c
<1>3. IsBuffer(d, T, Y) /\ Kept(d) /\ TailIndex(d) = TailIndex(b) /\ RecordedAtLeft(b, d, t, y, event)
  BY RecordedLeftKeeps, ZenonT(30)
<1> HIDE DEF d
<1>4. d.size > 0
  <2>1. d.size = b.size \/ d.size = b.size + 1
    BY <1>3 DEF RecordedAtLeft, Unchanged, ReplacedFirst, Prepended
  <2> QED
    BY <2>1, IndicesAre
<1>5. t + max_delay \in Int
  OBVIOUS
<1>6. IsBuffer(e, T, Y) /\ Kept(e) /\ e.size > 0 /\ ShortenedRight(d, e, t + max_delay)
  <2> DEFINE limit == t + max_delay
  <2> HIDE DEF limit
  <2> QED
    BY <1>3, <1>4, <1>5, WithoutNewerKeeps DEF limit
<1> HIDE DEF e
<1> QED
  BY <1>2, <1>3, <1>6 DEF RecordedLeftAndShortened, c

(* The present input is put at the left end and taken away again.          *)
LEMMA CurrentLeftKeeps ==
  ASSUME NEW T, NEW Y, AreTimes(T), 0 \in T, 0 \in Y, NEW b, IsBuffer(b, T, Y), Kept(b), b.size > 0,
         NEW t \in T, NEW y \in Y
  PROVE  LET c == WithCurrent(b, t, y, FALSE)
             e == WithoutCurrent(c, b.size, FALSE)
         IN /\ IsBuffer(c, T, Y) /\ Kept(c) /\ TailIndex(c) = TailIndex(b)
            /\ IF t < Sample(b, b.head_index).t THEN Prepended(b, c, t, y, FALSE) ELSE Stays(b, c)
            /\ IsBuffer(e, T, Y) /\ Kept(e) /\ e.head_index = b.head_index /\ Unchanged(b, e)
            /\ SameSamples(c, e)
<1>a. T \subseteq Int
  BY DEF AreTimes
<1> USE <1>a
<1> DEFINE c == WithCurrent(b, t, y, FALSE)
           e == WithoutCurrent(c, b.size, FALSE)
<1>0. /\ b.size \in Nat /\ b.head_index \in Int /\ TailIndex(b) \in Int
      /\ Sample(b, b.head_index).t \in Int /\ t \in Int
  BY IndicesAre, SampleType
<1>1. CASE t < Sample(b, b.head_index).t
  <2>1. Precedes(b, t, FALSE) /\ FALSE \in BOOLEAN
    BY <1>1 DEF Precedes
  <2>4. IsBuffer(c, T, Y) /\ Kept(c) /\ TailIndex(c) = TailIndex(b) /\ RecordedAtLeft(b, c, t, y, FALSE)
    <3> DEFINE event == FALSE
               d == Recorded(b, t, y, FALSE, event)
    <3>1. event \in BOOLEAN /\ Precedes(b, t, event)
      BY <2>1
    <3>2. c = d
      BY DEF WithCurrent
    <3> HIDE DEF event, c
    <3>3. IsBuffer(d, T, Y) /\ Kept(d) /\ TailIndex(d) = TailIndex(b) /\ RecordedAtLeft(b, d, t, y, event)
      BY <3>1, RecordedLeftKeeps, Zenon
    <3>4. IsBuffer(c, T, Y) /\ Kept(c) /\ TailIndex(c) = TailIndex(b) /\ RecordedAtLeft(b, c, t, y, event)
      BY ONLY <3>2, <3>3, Zenon
    <3> QED
      BY <3>4 DEF event
  <2> HIDE DEF c
  <2>5. Prepended(b, c, t, y, FALSE)
    BY <2>4 DEF RecordedAtLeft
  <2>6. c.size = b.size + 1 /\ c.size > 1 /\ c.size # b.size
    BY <1>0, <2>5 DEF Prepended
  <2>7. e = DiscardLeft(c)
    BY <2>6 DEF WithoutCurrent
  <2> HIDE DEF e
  <2>8. /\ IsBuffer(e, T, Y) /\ Kept(e)
        /\ e.size = c.size - 1 /\ e.head_index = c.head_index + 1
        /\ SameSamples(c, e)
    BY <2>4, <2>6, <2>7, DiscardLeftKeeps
  <2>9. e.size = b.size /\ e.head_index = b.head_index /\ InPlace(b, e, b.head_index, TailIndex(b))
    BY <1>0, <2>5, <2>6, <2>8 DEF Prepended, InPlace, SameSamples
  <2> QED
    BY <1>1, <2>4, <2>5, <2>8, <2>9 DEF c, e, Unchanged
<1>2. CASE ~ (t < Sample(b, b.head_index).t)
  <2>1. Rejected(b, t, FALSE, FALSE) /\ FALSE \in BOOLEAN /\ TRUE \in BOOLEAN
    BY <1>0, <1>2 DEF Rejected, EndIndex
  <2>4. IsBuffer(c, T, Y) /\ Stays(b, c)
    <3> DEFINE event == FALSE
               at_right == FALSE
               d == Recorded(b, t, y, at_right, event)
    <3>1. event \in BOOLEAN /\ at_right \in BOOLEAN /\ Rejected(b, t, at_right, event)
      BY <2>1
    <3>2. c = d
      BY DEF WithCurrent
    <3> HIDE DEF event, at_right, c
    <3>3. IsBuffer(d, T, Y) /\ Stays(b, d)
      BY <3>1, RejectedKeeps, Zenon
    <3> QED
      BY ONLY <3>2, <3>3 DEF Stays
  <2> HIDE DEF c
  <2>5. e = c /\ TailIndex(c) = TailIndex(b)
    BY <2>4 DEF WithoutCurrent, Stays, Unchanged, TailIndex
  <2> HIDE DEF e
  <2> QED
    BY <1>2, <2>4, <2>5 DEF c, e, SameSamples, Stays
<1> QED
  BY <1>1, <1>2


---------------------------------------------------------------------------
(* A new buffer.                                                           *)
LEMMA CapacityIs == InitialCapacity \in Nat \ {0, 1}
<1>1. PICK k \in 1 .. 8 : InitialCapacity = 2^k
  BY CapacityAssumption
<1>2. k = 1 \/ k = 2 \/ k = 3 \/ k = 4 \/ k = 5 \/ k = 6 \/ k = 7 \/ k = 8
  BY <1>1
<1>3. 2^1 = 2 /\ 2^2 = 4 /\ 2^3 = 8 /\ 2^4 = 16
  OBVIOUS
<1>4. 2^5 = 32 /\ 2^6 = 64 /\ 2^7 = 128 /\ 2^8 = 256
  OBVIOUS
<1>5. \/ InitialCapacity = 2^1 \/ InitialCapacity = 2^2 \/ InitialCapacity = 2^3 \/ InitialCapacity = 2^4
      \/ InitialCapacity = 2^5 \/ InitialCapacity = 2^6 \/ InitialCapacity = 2^7 \/ InitialCapacity = 2^8
  BY <1>1, <1>2, Zenon
<1> QED
  BY ONLY <1>3, <1>4, <1>5

LEMMA NewBufferIs ==
  ASSUME NEW T, NEW Y, 0 \in T, 0 \in Y
  PROVE  IsBuffer(NewBuffer, T, Y) /\ NewBuffer.size = 0 /\ NewBuffer.head_index = 0
<1>1. InitialCapacity \in Nat \ {0, 1}
  BY CapacityIs
<1>2. EmptySample \in [t : T, y : Y, segment : Int]
  BY DEF EmptySample
<1>3. [q \in 0 .. InitialCapacity - 1 |-> EmptySample] \in [0 .. InitialCapacity - 1 -> [t : T, y : Y, segment : Int]]
  BY <1>2
<1>4. [q \in 0 .. InitialCapacity - 1 |-> 0] \in [0 .. InitialCapacity - 1 -> Int]
  OBVIOUS
<1> QED
  BY <1>1, <1>3, <1>4 DEF NewBuffer, IsBuffer, Fields

(* A buffer with the same samples at the same indices is the same.         *)
LEMMA StaysSame ==
  ASSUME NEW T, NEW Y, NEW b, IsBuffer(b, T, Y), NEW c, IsBuffer(c, T, Y), Stays(b, c)
  PROVE  /\ c.size = b.size /\ c.head_index = b.head_index /\ TailIndex(c) = TailIndex(b)
         /\ Indices(c) = Indices(b)
         /\ \A i \in Indices(b) : Sample(c, i) = Sample(b, i)
<1>1. c.size = b.size /\ c.head_index = b.head_index /\ InPlace(b, c, b.head_index, TailIndex(b))
  BY DEF Stays, Unchanged
<1>2. TailIndex(c) = TailIndex(b)
  BY <1>1 DEF TailIndex
<1>3. Indices(c) = Indices(b)
  BY <1>1, <1>2 DEF Indices
<1> QED
  BY <1>1, <1>2, <1>3 DEF InPlace, Indices

==============================================================================
