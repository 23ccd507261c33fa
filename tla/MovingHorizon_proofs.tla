------------------------ MODULE MovingHorizon_proofs -------------------------
(***************************************************************************)
(* The estimator gives the optimizer and the filter each variable's own    *)
(* values, keeps the arrival cost at the beginning of its window, weighs   *)
(* alike in both, and linearizes with no outdated parameters: for every    *)
(* model, all options, any horizon and any number of calls.                *)
(***************************************************************************)
EXTENDS MovingHorizon, FiniteSetTheorems, WellFoundedInduction, TLAPS

---------------------------------------------------------------------------
(* A set of natural numbers that is not empty has a least element.         *)
LEMMA LeastNumber ==
  ASSUME NEW S, S \subseteq Nat, S # {}
  PROVE  \E m \in S : \A k \in S : m <= k
<1> DEFINE Less == OpToRel(<, Nat)
<1>1. IsWellFoundedOn(Less, Nat)
  BY NatLessThanWellFounded
<1>2. \A x, z \in Nat : <<z, x>> \in Less <=> z < x
  BY DEF OpToRel
<1> HIDE DEF Less
<1>3. PICK m \in S : \A k \in S : <<k, m>> \notin Less
  <2>1. \A R, T : IsWellFoundedOn(R, T) =>
          \A U : U \subseteq T /\ U # {} => \E x \in U : \A z \in U : ~ (<<z, x>> \in R)
    BY WFMin
  <2> QED
    BY <1>1, <2>1
<1>4. ASSUME NEW k \in S
      PROVE  m <= k
  <2>1. m \in Nat /\ k \in Nat /\ <<k, m>> \notin Less
    BY <1>3
  <2>2. ~ (k < m)
    BY <1>2, <2>1
  <2> QED
    BY <2>1, <2>2
<1> QED
  BY <1>4

(* Induction, over the numbers that have a property.                       *)
LEMMA InductionOverNumbers ==
  ASSUME NEW S, 0 \in S, \A n \in Nat : n \in S => n + 1 \in S
  PROVE  Nat \subseteq S
<1> DEFINE Others == {n \in Nat : n \notin S}
<1> SUFFICES ASSUME Others # {}
             PROVE  FALSE
  OBVIOUS
<1>1. PICK m \in Others : \A k \in Others : m <= k
  BY LeastNumber
<1>2. m \in Nat /\ m \notin S /\ m # 0
  BY <1>1
<1>3. m - 1 \in Nat /\ m - 1 \notin Others
  BY <1>1, <1>2
<1> QED
  BY <1>2, <1>3

(* Induction up to a bound.                                                *)
LEMMA InductionUpTo ==
  ASSUME NEW n \in Nat, NEW S, 0 \in S, \A i \in 0 .. n : i \in S /\ i < n => i + 1 \in S
  PROVE  0 .. n \subseteq S
<1> DEFINE T == {i \in Nat : i <= n => i \in S}
<1>1. 0 \in T
  OBVIOUS
<1>2. \A i \in Nat : i \in T => i + 1 \in T
  OBVIOUS
<1>3. Nat \subseteq T
  <2> HIDE DEF T
  <2> QED
    BY <1>1, <1>2, InductionOverNumbers
<1> QED
  BY <1>3

---------------------------------------------------------------------------
(* What Only is computed from: one entry for each part of the list.        *)
Parts(f, list, names, n) ==
  f = [i \in 0 .. n |->
         IF i = 0 THEN <<>>
         ELSE IF list[i] \in names THEN Append(f[i-1], list[i]) ELSE f[i-1]]

(* The entries, one by one.                                                *)
LEMMA PartAt ==
  ASSUME NEW f, NEW list, NEW names, NEW n \in Nat, Parts(f, list, names, n)
  PROVE  /\ f[0] = <<>>
         /\ \A i \in 1 .. n : f[i] = IF list[i] \in names THEN Append(f[i-1], list[i]) ELSE f[i-1]
<1> DEFINE e(j) == IF j = 0 THEN <<>> ELSE IF list[j] \in names THEN Append(f[j-1], list[j]) ELSE f[j-1]
<1>1. f = [j \in 0 .. n |-> e(j)]
  BY DEF Parts
<1>2. \A i \in 0 .. n : f[i] = e(i)
  <2> HIDE DEF e
  <2> QED
    BY <1>1
<1> QED
  BY <1>2

(* There is such a function, and Only is its last value.                   *)
LEMMA OnlyParts ==
  ASSUME NEW S, NEW list \in Seq(S), NEW names
  PROVE  \E f : Parts(f, list, names, Len(list)) /\ Only(list, names) = f[Len(list)]
<1> DEFINE Good == {n \in Nat : \E f : Parts(f, list, names, n)}
<1>1. 0 \in Good
  <2>1. Parts([i \in 0 .. 0 |-> <<>>], list, names, 0)
    BY DEF Parts
  <2> QED
    BY <2>1
<1>2. ASSUME NEW n \in Nat, n \in Good
      PROVE  n + 1 \in Good
  <2>1. PICK f : Parts(f, list, names, n)
    BY <1>2
  <2> DEFINE last == IF list[n+1] \in names THEN Append(f[n], list[n+1]) ELSE f[n]
             g == [i \in 0 .. n + 1 |-> IF i <= n THEN f[i] ELSE last]
  <2>2. \A i \in 0 .. n + 1 :
          g[i] = IF i = 0 THEN <<>>
                 ELSE IF list[i] \in names THEN Append(g[i-1], list[i]) ELSE g[i-1]
    <3> SUFFICES ASSUME NEW i \in 0 .. n + 1
                 PROVE  g[i] = IF i = 0 THEN <<>>
                               ELSE IF list[i] \in names THEN Append(g[i-1], list[i]) ELSE g[i-1]
      OBVIOUS
    <3>1. CASE i = n + 1
      BY <3>1
    <3>2. CASE i <= n
      <4>1. f[i] = IF i = 0 THEN <<>>
                   ELSE IF list[i] \in names THEN Append(f[i-1], list[i]) ELSE f[i-1]
        BY <2>1, <3>2, PartAt
      <4>2. g[i] = f[i] /\ (i # 0 => g[i-1] = f[i-1])
        BY <3>2
      <4> QED
        BY <4>1, <4>2
    <3> QED
      BY <3>1, <3>2
  <2>3. Parts(g, list, names, n + 1)
    <3>1. g = [i \in 0 .. n + 1 |-> g[i]]
      OBVIOUS
    <3> HIDE DEF g
    <3> QED
      BY <2>2, <3>1 DEF Parts
  <2> QED
    BY <2>3
<1>3. Len(list) \in Good
  <2> HIDE DEF Good
  <2> QED
    BY <1>1, <1>2, InductionOverNumbers
<1> DEFINE only == CHOOSE f : f = [i \in 0 .. Len(list) |->
                      IF i = 0 THEN <<>>
                      ELSE IF list[i] \in names THEN Append(f[i-1], list[i]) ELSE f[i-1]]
<1>4. Parts(only, list, names, Len(list))
  BY <1>3 DEF Parts
<1>5. Only(list, names) = only[Len(list)]
  BY DEF Only
<1> QED
  BY <1>4, <1>5

(* Only keeps the names of the list that are in the set, and each once if  *)
(* the list has each once.                                                 *)
LEMMA OnlyKeeps ==
  ASSUME NEW S, NEW list \in Seq(S), NEW names
  PROVE  /\ Only(list, names) \in Seq(S)
         /\ ToSet(Only(list, names)) = ToSet(list) \cap names
         /\ IsInjective(list) => IsInjective(Only(list, names))
<1>0. Len(list) \in Nat
  OBVIOUS
<1>1. PICK f : Parts(f, list, names, Len(list)) /\ Only(list, names) = f[Len(list)]
  BY OnlyParts
<1>a. /\ f[0] = <<>>
      /\ \A i \in 1 .. Len(list) : f[i] = IF list[i] \in names THEN Append(f[i-1], list[i]) ELSE f[i-1]
  BY <1>0, <1>1, PartAt
<1> DEFINE Seen(i) == {list[j] : j \in 1 .. i} \cap names
           Good == {i \in 0 .. Len(list) :
                      /\ f[i] \in Seq(S) /\ {f[i][k] : k \in 1 .. Len(f[i])} = Seen(i)
                      /\ IsInjective(list) => \A a, b \in 1 .. Len(f[i]) : f[i][a] = f[i][b] => a = b}
<1>2. 0 \in Good
  <2>1. f[0] = <<>>
    BY <1>a
  <2>2. Seen(0) = {} /\ {f[0][k] : k \in 1 .. Len(f[0])} = {}
    BY <2>1
  <2>3. <<>> \in Seq(S) /\ Len(<<>>) = 0
    OBVIOUS
  <2>4. 0 \in 0 .. Len(list)
    BY <1>0
  <2> HIDE DEF Seen
  <2> QED
    BY <2>1, <2>2, <2>3, <2>4
<1>3. ASSUME NEW i \in 0 .. Len(list), i \in Good, i < Len(list)
      PROVE  i + 1 \in Good
  <2>1. f[i+1] = IF list[i+1] \in names THEN Append(f[i], list[i+1]) ELSE f[i]
    BY <1>0, <1>a, <1>3
  <2>2. Seen(i+1) = IF list[i+1] \in names THEN Seen(i) \cup {list[i+1]} ELSE Seen(i)
    BY <1>3
  <2>3. list[i+1] \in S
    BY <1>3
  <2>4. CASE list[i+1] \notin names
    BY <1>3, <2>1, <2>2, <2>4
  <2>5. CASE list[i+1] \in names
    <3> DEFINE old == f[i]
               new == Append(old, list[i+1])
    <3>1. old \in Seq(S) /\ {old[k] : k \in 1 .. Len(old)} = Seen(i)
      BY <1>3
    <3>2. new \in Seq(S) /\ Len(new) = Len(old) + 1 /\ new[Len(old) + 1] = list[i+1]
          /\ \A k \in 1 .. Len(old) : new[k] = old[k]
      BY <2>3, <3>1
    <3>3. {new[k] : k \in 1 .. Len(new)} = {old[k] : k \in 1 .. Len(old)} \cup {list[i+1]}
      <4> HIDE DEF new, old
      <4>1. 1 .. Len(new) = (1 .. Len(old)) \cup {Len(old) + 1}
        BY <3>1, <3>2
      <4> QED
        BY <3>2, <4>1
    <3>4. ASSUME IsInjective(list), NEW a \in 1 .. Len(new), NEW b \in 1 .. Len(new), new[a] = new[b]
          PROVE  a = b
      <4>1. \A k \in 1 .. Len(old) : old[k] # list[i+1]
        <5>1. \A k \in 1 .. Len(old) : \E j \in 1 .. i : old[k] = list[j]
          BY <3>1
        <5>2. \A j \in 1 .. i : list[j] # list[i+1]
          BY <1>3, <3>4 DEF IsInjective
        <5> QED
          BY <5>1, <5>2
      <4>2. \A k, l \in 1 .. Len(old) : old[k] = old[l] => k = l
        BY <1>3, <3>4
      <4> HIDE DEF new, old
      <4> QED
        BY <3>1, <3>2, <3>4, <4>1, <4>2
    <3>5. f[i+1] = new /\ Seen(i+1) = {new[k] : k \in 1 .. Len(new)} /\ i + 1 \in 0 .. Len(list)
      <4> HIDE DEF new, Seen
      <4>1. Seen(i+1) = {new[k] : k \in 1 .. Len(new)}
        BY <2>2, <2>5, <3>1, <3>3
      <4> QED
        BY <1>0, <1>3, <2>1, <2>5, <4>1 DEF new
    <3> HIDE DEF new, Seen
    <3>6. f[i+1] \in Seq(S) /\ {f[i+1][k] : k \in 1 .. Len(f[i+1])} = Seen(i+1)
      BY <3>2, <3>5
    <3>7. ASSUME IsInjective(list)
          PROVE  \A a, b \in 1 .. Len(f[i+1]) : f[i+1][a] = f[i+1][b] => a = b
      BY <3>4, <3>5, <3>7
    <3> QED
      BY <3>5, <3>6, <3>7
  <2> QED
    BY <2>4, <2>5
<1>4. Len(list) \in Good
  <2> HIDE DEF Good
  <2>1. \A i \in 0 .. Len(list) : i \in Good /\ i < Len(list) => i + 1 \in Good
    BY <1>3
  <2>2. 0 .. Len(list) \subseteq Good
    BY <1>0, <1>2, <2>1, InductionUpTo
  <2> QED
    BY <1>0, <2>2
<1>5. f[Len(list)] \in Seq(S) /\ {f[Len(list)][k] : k \in 1 .. Len(f[Len(list)])} = ToSet(list) \cap names
  BY <1>4 DEF ToSet
<1>6. IsInjective(list) => \A a, b \in 1 .. Len(f[Len(list)]) : f[Len(list)][a] = f[Len(list)][b] => a = b
  BY <1>4
<1> HIDE DEF Good
<1> DEFINE only == f[Len(list)]
<1>7. DOMAIN only = 1 .. Len(only)
  BY <1>5
<1>8. ToSet(only) = ToSet(list) \cap names
  <2> HIDE DEF only
  <2>1. ToSet(only) = {only[k] : k \in 1 .. Len(only)}
    BY <1>7 DEF ToSet
  <2> QED
    BY <1>5, <2>1 DEF only
<1>9. IsInjective(list) => IsInjective(only)
  BY <1>6, <1>7 DEF IsInjective
<1> QED
  BY <1>1, <1>5, <1>8, <1>9

(* Of two lists in a row Only keeps the first, if that has all the names.  *)
LEMMA OnlyFirst ==
  ASSUME NEW S, NEW s \in Seq(S), NEW t \in Seq(S), NEW names,
         ToSet(s) \subseteq names, ToSet(t) \cap names = {}
  PROVE  Only(s \o t, names) = s
<1> DEFINE list == s \o t
<1>1. /\ list \in Seq(S) /\ Len(list) = Len(s) + Len(t) /\ Len(s) \in Nat /\ Len(t) \in Nat
      /\ \A k \in 1 .. Len(s) : list[k] = s[k]
      /\ \A k \in Len(s) + 1 .. Len(list) : list[k] = t[k - Len(s)]
  OBVIOUS
<1>2. \A k \in 1 .. Len(s) : list[k] \in names
  <2>1. \A k \in 1 .. Len(s) : s[k] \in ToSet(s)
    BY DEF ToSet
  <2> HIDE DEF list
  <2> QED
    BY <1>1, <2>1
<1>3. \A k \in Len(s) + 1 .. Len(list) : list[k] \notin names
  <2>1. \A k \in 1 .. Len(t) : t[k] \notin names
    BY DEF ToSet
  <2>2. \A k \in Len(s) + 1 .. Len(list) : k - Len(s) \in 1 .. Len(t)
    <3> HIDE DEF list
    <3> QED
      BY <1>1
  <2> HIDE DEF list
  <2> QED
    BY <1>1, <2>1, <2>2
<1> HIDE DEF list
<1>4. PICK f : Parts(f, list, names, Len(list)) /\ Only(list, names) = f[Len(list)]
  BY <1>1, OnlyParts
<1>5. Len(list) \in Nat
  BY <1>1
<1>6. /\ f[0] = <<>>
      /\ \A i \in 1 .. Len(list) : f[i] = IF list[i] \in names THEN Append(f[i-1], list[i]) ELSE f[i-1]
  BY <1>4, <1>5, PartAt
<1> DEFINE Kept(i) == IF i <= Len(s) THEN i ELSE Len(s)
           Good == {i \in 0 .. Len(list) :
                      /\ f[i] \in Seq(S) /\ Len(f[i]) = Kept(i)
                      /\ \A k \in 1 .. Kept(i) : f[i][k] = s[k]}
<1>7. 0 \in Good
  <2>1. <<>> \in Seq(S) /\ Len(<<>>) = 0
    OBVIOUS
  <2>2. Kept(0) = 0 /\ 0 \in 0 .. Len(list)
    BY <1>1, <1>5
  <2>3. f[0] \in Seq(S) /\ Len(f[0]) = 0
    BY <1>6, <2>1
  <2> HIDE DEF Kept
  <2> QED
    BY <2>2, <2>3
<1>8. ASSUME NEW i \in 0 .. Len(list), i \in Good, i < Len(list)
      PROVE  i + 1 \in Good
  <2>1. f[i+1] = IF list[i+1] \in names THEN Append(f[i], list[i+1]) ELSE f[i]
    BY <1>5, <1>6, <1>8
  <2>2. i + 1 \in 0 .. Len(list) /\ list[i+1] \in S
    BY <1>1, <1>8
  <2>3. CASE i < Len(s)
    <3>1. list[i+1] \in names /\ list[i+1] = s[i+1]
      BY <1>1, <1>2, <2>3
    <3> DEFINE old == f[i]
               new == Append(old, s[i+1])
    <3>2. old \in Seq(S) /\ Len(old) = i /\ \A k \in 1 .. i : old[k] = s[k]
      BY <1>1, <1>8, <2>3
    <3>3. s[i+1] \in S
      BY <2>2, <3>1
    <3>4. new \in Seq(S) /\ Len(new) = i + 1 /\ \A k \in 1 .. i + 1 : new[k] = s[k]
      <4> HIDE DEF old
      <4> QED
        BY <3>2, <3>3
    <3>5. f[i+1] = new
      BY <2>1, <3>1
    <3>6. Kept(i + 1) = i + 1
      BY <1>1, <1>8, <2>3
    <3> HIDE DEF new, Kept
    <3> QED
      BY <2>2, <3>4, <3>5, <3>6
  <2>4. CASE Len(s) <= i
    <3>1. list[i+1] \notin names
      BY <1>1, <1>3, <1>8, <2>4
    <3>2. Kept(i) = Len(s) /\ Kept(i + 1) = Len(s)
      BY <1>1, <1>8, <2>4
    <3> HIDE DEF Kept
    <3> QED
      BY <1>8, <2>1, <2>2, <3>1, <3>2
  <2> QED
    BY <1>1, <1>8, <2>3, <2>4
<1>9. Len(list) \in Good
  <2> HIDE DEF Good
  <2>1. \A i \in 0 .. Len(list) : i \in Good /\ i < Len(list) => i + 1 \in Good
    BY <1>8
  <2>2. 0 .. Len(list) \subseteq Good
    BY <1>5, <1>7, <2>1, InductionUpTo
  <2> QED
    BY <1>5, <2>2
<1> DEFINE last == f[Len(list)]
<1>10. last \in Seq(S) /\ Len(last) = Len(s) /\ \A k \in 1 .. Len(s) : last[k] = s[k]
  <2>1. Kept(Len(list)) = Len(s)
    BY <1>1
  <2> HIDE DEF Kept
  <2> QED
    BY <1>9, <2>1
<1>11. last = s
  <2> HIDE DEF last
  <2> QED
    BY <1>10
<1> QED
  BY <1>4, <1>11 DEF list

(* Only keeps a list all of whose names are in the set.                    *)
LEMMA OnlyAll ==
  ASSUME NEW S, NEW s \in Seq(S), NEW names, ToSet(s) \subseteq names
  PROVE  Only(s, names) = s
<1>1. <<>> \in Seq(S) /\ ToSet(<<>>) = {} /\ s \o <<>> = s
  BY DEF ToSet
<1>2. ToSet(<<>>) \cap names = {}
  BY <1>1
<1>3. Only(s \o <<>>, names) = s
  BY <1>1, <1>2, OnlyFirst
<1> QED
  BY <1>1, <1>3

(* Without drops the names that are in the set.                            *)
LEMMA WithoutKeeps ==
  ASSUME NEW S, NEW list \in Seq(S), NEW names
  PROVE  /\ Without(list, names) \in Seq(S)
         /\ ToSet(Without(list, names)) = ToSet(list) \ names
         /\ IsInjective(list) => IsInjective(Without(list, names))
<1>1. ToSet(list) \cap (ToSet(list) \ names) = ToSet(list) \ names
  OBVIOUS
<1> QED
  BY <1>1, OnlyKeeps DEF Without

---------------------------------------------------------------------------
(* A sequence put together from others has all their elements.             *)
LEMMA FlattenHolds ==
  ASSUME NEW S, NEW seqs \in Seq(Seq(S))
  PROVE  FlattenSeq(seqs) \in Seq(S) /\ \A b \in DOMAIN seqs : ToSet(seqs[b]) \subseteq ToSet(FlattenSeq(seqs))
<1> DEFINE N == Len(seqs)
           e(f, i) == IF i = 1 THEN seqs[i] ELSE f[i-1] \o seqs[i]
           flat == CHOOSE f : f = [i \in 1 .. N |-> e(f, i)]
<1>1. N \in Nat /\ DOMAIN seqs = 1 .. N /\ \A i \in 1 .. N : seqs[i] \in Seq(S)
  OBVIOUS
<1>2. CASE N = 0
  <2>1. seqs = <<>>
    BY <1>2
  <2>2. FlattenSeq(seqs) = <<>>
    BY <1>2, <2>1 DEF FlattenSeq
  <2> QED
    BY <1>1, <1>2, <2>2
<1>3. CASE N # 0
  <2> DEFINE Built(n) == \E f : f = [i \in 1 .. n |-> e(f, i)]
             Good == {n \in Nat : Built(n)}
  <2>1. 0 \in Good
    <3>1. <<>> = [i \in 1 .. 0 |-> e(<<>>, i)]
      OBVIOUS
    <3> QED
      BY <3>1
  <2>2. ASSUME NEW n \in Nat, n \in Good
        PROVE  n + 1 \in Good
    <3>1. PICK f : f = [i \in 1 .. n |-> e(f, i)]
      BY <2>2
    <3>2. \A i \in 1 .. n : f[i] = e(f, i)
      <4> HIDE DEF e
      <4> QED
        BY <3>1
    <3> DEFINE last == e(f, n + 1)
               g == [i \in 1 .. n + 1 |-> IF i <= n THEN f[i] ELSE last]
    <3>3. \A i \in 1 .. n + 1 : g[i] = e(g, i)
      <4> SUFFICES ASSUME NEW i \in 1 .. n + 1
                   PROVE  g[i] = e(g, i)
        OBVIOUS
      <4>1. i # 1 => g[i-1] = f[i-1]
        OBVIOUS
      <4>2. e(g, i) = e(f, i)
        <5> HIDE DEF g
        <5> QED
          BY <4>1
      <4>3. g[i] = e(f, i)
        <5>1. CASE i = n + 1
          BY <5>1
        <5>2. CASE i <= n
          <6>1. g[i] = f[i]
            BY <5>2
          <6> HIDE DEF g, e
          <6> QED
            BY <3>2, <5>2, <6>1
        <5> QED
          BY <5>1, <5>2
      <4> QED
        BY <4>2, <4>3
    <3>4. g = [i \in 1 .. n + 1 |-> e(g, i)]
      <4>1. g = [i \in 1 .. n + 1 |-> g[i]]
        OBVIOUS
      <4> HIDE DEF g, e
      <4> QED
        BY <3>3, <4>1
    <3> HIDE DEF g, e
    <3> QED
      BY <3>4
  <2>3. N \in Good
    <3> HIDE DEF Good
    <3> QED
      BY <1>1, <2>1, <2>2, InductionOverNumbers
  <2>4. flat = [i \in 1 .. N |-> e(flat, i)]
    <3> HIDE DEF e
    <3> QED
      BY <2>3
  <2>5. FlattenSeq(seqs) = flat[N]
    BY <1>3 DEF FlattenSeq
  <2> HIDE DEF flat, Good
  <2>6. \A i \in 1 .. N : flat[i] = e(flat, i)
    <3> HIDE DEF e
    <3> QED
      BY <2>4
  <2> DEFINE Whole == {n \in 0 .. N :
                n # 0 => /\ flat[n] \in Seq(S)
                         /\ \A b \in 1 .. n : ToSet(seqs[b]) \subseteq ToSet(flat[n])}
  <2>7. 0 \in Whole
    BY <1>1
  <2>8. ASSUME NEW n \in 0 .. N, n \in Whole, n < N
        PROVE  n + 1 \in Whole
    <3>0. n + 1 \in 1 .. N /\ seqs[n+1] \in Seq(S)
      BY <1>1, <2>8
    <3>1. CASE n = 0
      <4>1. flat[1] = seqs[1]
        BY <2>6, <3>0, <3>1
      <4> QED
        BY <3>0, <3>1, <4>1
    <3>2. CASE n # 0
      <4>1. flat[n+1] = flat[n] \o seqs[n+1]
        <5>1. flat[n+1] = e(flat, n + 1)
          BY <2>6, <3>0
        <5>2. n + 1 # 1 /\ (n + 1) - 1 = n
          BY <1>1, <2>8, <3>2
        <5> QED
          BY <5>1, <5>2
      <4>2. flat[n] \in Seq(S) /\ \A b \in 1 .. n : ToSet(seqs[b]) \subseteq ToSet(flat[n])
        BY <2>8, <3>2
      <4>3. ASSUME NEW s \in Seq(S), NEW t \in Seq(S)
            PROVE  ToSet(s) \subseteq ToSet(s \o t) /\ ToSet(t) \subseteq ToSet(s \o t)
        <5>1. \A k \in 1 .. Len(s) : (s \o t)[k] = s[k]
          OBVIOUS
        <5>2. \A k \in 1 .. Len(t) : (s \o t)[Len(s) + k] = t[k]
          OBVIOUS
        <5>3. /\ DOMAIN (s \o t) = 1 .. Len(s) + Len(t)
              /\ DOMAIN s = 1 .. Len(s) /\ DOMAIN t = 1 .. Len(t) /\ Len(s) \in Nat /\ Len(t) \in Nat
          OBVIOUS
        <5>4. \A k \in 1 .. Len(s) : k \in 1 .. Len(s) + Len(t)
          BY <5>3
        <5>5. \A k \in 1 .. Len(t) : Len(s) + k \in 1 .. Len(s) + Len(t)
          BY <5>3
        <5> DEFINE both == s \o t
        <5>6. DOMAIN both = 1 .. Len(s) + Len(t) /\ \A k \in 1 .. Len(s) : both[k] = s[k]
          BY <5>1, <5>3
        <5>7. \A k \in 1 .. Len(t) : both[Len(s) + k] = t[k]
          BY <5>2
        <5> HIDE DEF both
        <5>8. ToSet(s) \subseteq ToSet(both)
          BY <5>3, <5>4, <5>6 DEF ToSet
        <5>9. ToSet(t) \subseteq ToSet(both)
          BY <5>3, <5>5, <5>6, <5>7 DEF ToSet
        <5> QED
          BY <5>8, <5>9 DEF both
      <4>4. ToSet(flat[n]) \subseteq ToSet(flat[n+1]) /\ ToSet(seqs[n+1]) \subseteq ToSet(flat[n+1])
        BY <3>0, <4>1, <4>2, <4>3
      <4>5. flat[n+1] \in Seq(S)
        BY <3>0, <4>1, <4>2
      <4>6. \A b \in 1 .. n + 1 : b \in 1 .. n \/ b = n + 1
        BY <1>1, <2>8
      <4>7. \A b \in 1 .. n + 1 : ToSet(seqs[b]) \subseteq ToSet(flat[n+1])
        BY <4>2, <4>4, <4>6
      <4>8. n + 1 \in 0 .. N
        BY <1>1, <2>8
      <4> HIDE DEF N
      <4> QED
        BY <4>5, <4>7, <4>8
    <3> QED
      BY <3>1, <3>2
  <2>9. N \in Whole
    <3> HIDE DEF Whole
    <3>1. \A n \in 0 .. N : n \in Whole /\ n < N => n + 1 \in Whole
      BY <2>8
    <3>2. 0 .. N \subseteq Whole
      BY <1>1, <2>7, <3>1, InductionUpTo
    <3> QED
      BY <1>1, <3>2
  <2> QED
    BY <1>1, <1>3, <2>5, <2>9
<1> QED
  BY <1>2, <1>3

---------------------------------------------------------------------------
(* What the proofs are about.                                              *)

OptionFields == {"input_names", "process_noise_cov", "measurement_cov", "P0_cov"}

\* The caller's options, which may have had aliases replaced before.
CallerInv ==
  /\ DOMAIN caller = OptionFields /\ caller.input_names \in Seq(STRING)
  /\ ToSet(Replaced(caller.input_names)) \subseteq ToSet(RealInputs)
  /\ \E o \in Options : \A f \in OptionFields \ {"input_names"} : caller[f] = o[f]

\* Before the object is there its window is empty.
NewInv ==
  phase = "new" =>
    /\ clean /\ next_time_index = 1 /\ time_vector = <<0>> /\ u = <<>> /\ y = <<>>
    /\ est = [x |-> <<0>>, dx |-> <<0>>, c |-> <<0>>]
    /\ guess = 0 /\ P = 0 /\ lin = None /\ data = None

\* The names: each once, of the right kind, and in rows of their own.
NamesRight(c) ==
  /\ c.opts.input_names \in Seq(STRING) /\ IsInjective(c.opts.input_names)
  /\ ToSet(c.opts.input_names) \subseteq ToSet(RealInputs)
  /\ c.process_noise \in Seq(STRING) /\ IsInjective(c.process_noise)
  /\ ToSet(c.process_noise) \subseteq ToSet(RealInputs)
  /\ c.measured \in Seq(STRING) /\ IsInjective(c.measured)
  /\ ToSet(c.measured) \subseteq ToSet(States) \cup ToSet(Algebraics)
  /\ c.undefined \in Seq(STRING) /\ IsInjective(c.undefined)
  /\ ToSet(c.undefined) = ToSet(RealInputs) \ (ToSet(c.opts.input_names) \cup ToSet(c.process_noise))

InputsInOrder(c) ==
  /\ DOMAIN InputVars(c) = DOMAIN c.opts.input_names
  /\ \A i \in DOMAIN c.opts.input_names : InputVars(c)[i][2] = c.opts.input_names[i]

ConfInv ==
  clean /\ phase = "ready" =>
    /\ DOMAIN conf = {"opts", "process_noise", "measured", "undefined", "rows"}
    /\ DOMAIN conf.opts = OptionFields
    /\ NamesRight(conf) /\ InputsInOrder(conf) /\ conf.rows = RowMap(conf)

\* The samples in the window follow each other, and everything in it is of them.
TimesInv ==
  clean =>
    /\ next_time_index \in Nat /\ time_vector \in Seq(Nat)
    /\ Len(time_vector) \in 1 .. next_time_index
    /\ \A j \in 1 .. Len(time_vector) : time_vector[j] = next_time_index - Len(time_vector) + j - 1
    /\ est = [x |-> time_vector, dx |-> time_vector, c |-> time_vector]

Columns(names) == [j \in 1 .. Len(time_vector) - 1 |-> [at |-> time_vector[j], rows |-> names]]

ColumnsInv ==
  clean /\ phase = "ready" => u = Columns(conf.opts.input_names) /\ y = Columns(conf.measured)

ArrivalInv ==
  clean =>
    LET first == time_vector[1]
    IN /\ P = first /\ guess = first
       /\ phase = "ready" => arrival = [e \in ToSet(States) \X ToSet(States) |-> first]

FilterInv ==
  clean /\ lin # None =>
    /\ \A f \in {"t", "x", "dx", "c", "u", "P"} : lin[f] = time_vector[1] - 1
    /\ lin.inputs = conf.opts.input_names \o conf.undefined \o ZeroNoise(conf)
    /\ lin.G = NoiseColumns(conf) /\ lin.C = MeasurementRows(conf)

DataInv ==
  clean /\ data # None => Len(time_vector) > 1 /\ data = CreateExternalData(time_vector, u, y)

WeightsInv ==
  phase = "ready" => DOMAIN weights = Kinds /\ \A k \in Kinds : DOMAIN weights[k] = {"pars", "cost", "ekf"}

\* Whatever was marked as outdated is compiled, or will be before it is used.
ModelInv ==
  /\ params \in Nat /\ marked \in 0 .. params /\ compiled \in 0 .. params
  /\ dirty \/ marked <= compiled

WindowInv == TimesInv /\ ColumnsInv /\ ArrivalInv /\ FilterInv /\ DataInv

EstimatorInv ==
  /\ phase \in {"new", "ready"}
  /\ CallerInv /\ NewInv /\ ConfInv /\ WindowInv /\ WeightsInv /\ SameWeights /\ ModelInv

---------------------------------------------------------------------------
(* Names.                                                                  *)

(* A list has no more names than places, and as many if each is there once.*)
LEMMA CountNames ==
  ASSUME NEW S, NEW s \in Seq(S)
  PROVE  Cardinality(ToSet(s)) = Len(s) <=> IsInjective(s)
<1>1. Len(s) \in Nat /\ DOMAIN s = 1 .. Len(s) /\ s \in [1 .. Len(s) -> ToSet(s)]
  BY DEF ToSet
<1>2. s \in Surjection(1 .. Len(s), ToSet(s))
  BY <1>1 DEF Surjection, ToSet
<1>3. IsFiniteSet(1 .. Len(s)) /\ Cardinality(1 .. Len(s)) = Len(s)
  BY <1>1, FS_Interval
<1>4. Cardinality(ToSet(s)) = Cardinality(1 .. Len(s)) <=> s \in Injection(1 .. Len(s), ToSet(s))
  BY <1>2, <1>3, FS_Surjection
<1>5. s \in Injection(1 .. Len(s), ToSet(s)) <=> IsInjective(s)
  BY <1>1 DEF Injection
<1> QED
  BY <1>3, <1>4, <1>5

(* A list has at least as many places as names.                            *)
LEMMA CountBound ==
  ASSUME NEW S, NEW s \in Seq(S)
  PROVE  Cardinality(ToSet(s)) \in Nat /\ Cardinality(ToSet(s)) <= Len(s)
<1>1. Len(s) \in Nat /\ DOMAIN s = 1 .. Len(s) /\ s \in [1 .. Len(s) -> ToSet(s)]
  BY DEF ToSet
<1>2. s \in Surjection(1 .. Len(s), ToSet(s))
  BY <1>1 DEF Surjection, ToSet
<1>3. IsFiniteSet(1 .. Len(s)) /\ Cardinality(1 .. Len(s)) = Len(s)
  BY <1>1, FS_Interval
<1>4. IsFiniteSet(ToSet(s)) /\ Cardinality(ToSet(s)) <= Cardinality(1 .. Len(s))
  BY <1>2, <1>3, FS_Surjection
<1> QED
  BY <1>3, <1>4, FS_CardinalityType

(* Two lists in a row have the names of both, and each once if they share  *)
(* none.                                                                   *)
LEMMA JoinNames ==
  ASSUME NEW S, NEW s \in Seq(S), NEW t \in Seq(S)
  PROVE  /\ s \o t \in Seq(S)
         /\ ToSet(s \o t) = ToSet(s) \cup ToSet(t)
         /\ IsInjective(s) /\ IsInjective(t) /\ ToSet(s) \cap ToSet(t) = {} => IsInjective(s \o t)
<1> DEFINE both == s \o t
<1>1. /\ Len(s) \in Nat /\ Len(t) \in Nat
      /\ DOMAIN s = 1 .. Len(s) /\ DOMAIN t = 1 .. Len(t)
      /\ both \in Seq(S) /\ DOMAIN both = 1 .. Len(s) + Len(t)
  OBVIOUS
<1>2. \A k \in 1 .. Len(s) : both[k] = s[k]
  OBVIOUS
<1>3. \A k \in Len(s) + 1 .. Len(s) + Len(t) : both[k] = t[k - Len(s)]
  OBVIOUS
<1> HIDE DEF both
<1>4. ASSUME NEW k \in 1 .. Len(s) + Len(t)
      PROVE  both[k] \in ToSet(s) \cup ToSet(t)
  <2>1. CASE k \in 1 .. Len(s)
    BY <1>1, <1>2, <2>1 DEF ToSet
  <2>2. CASE k \in Len(s) + 1 .. Len(s) + Len(t)
    <3>1. k - Len(s) \in 1 .. Len(t)
      BY <1>1, <2>2
    <3> QED
      BY <1>1, <1>3, <2>2, <3>1 DEF ToSet
  <2> QED
    BY <1>1, <2>1, <2>2
<1>5. ToSet(s) \subseteq ToSet(both)
  <2>1. \A k \in 1 .. Len(s) : k \in 1 .. Len(s) + Len(t)
    BY <1>1
  <2> QED
    BY <1>1, <1>2, <2>1 DEF ToSet
<1>6. ToSet(t) \subseteq ToSet(both)
  <2>1. \A k \in 1 .. Len(t) : Len(s) + k \in Len(s) + 1 .. Len(s) + Len(t) /\ (Len(s) + k) - Len(s) = k
    BY <1>1
  <2>2. \A k \in 1 .. Len(t) : Len(s) + k \in DOMAIN both /\ both[Len(s) + k] = t[k]
    BY <1>1, <1>3, <2>1
  <2> QED
    BY <1>1, <2>2 DEF ToSet
<1>7. ToSet(both) = ToSet(s) \cup ToSet(t)
  <2>1. ToSet(both) \subseteq ToSet(s) \cup ToSet(t)
    BY <1>1, <1>4 DEF ToSet
  <2> QED
    BY <1>5, <1>6, <2>1
<1>8. ASSUME IsInjective(s), IsInjective(t), ToSet(s) \cap ToSet(t) = {},
             NEW a \in DOMAIN both, NEW b \in DOMAIN both, both[a] = both[b]
      PROVE  a = b
  <2> DEFINE InS(k) == k \in 1 .. Len(s)
             InT(k) == k \in Len(s) + 1 .. Len(s) + Len(t)
  <2>1. \A k \in DOMAIN both : InS(k) \/ InT(k)
    BY <1>1
  <2>2. \A k \in DOMAIN both : InS(k) => both[k] = s[k] /\ both[k] \in ToSet(s)
    BY <1>1, <1>2 DEF ToSet
  <2>3. \A k \in DOMAIN both : InT(k) => k - Len(s) \in DOMAIN t /\ both[k] = t[k - Len(s)] /\ both[k] \in ToSet(t)
    <3>1. \A k \in DOMAIN both : InT(k) => k - Len(s) \in DOMAIN t
      BY <1>1
    <3> QED
      BY <1>1, <1>3, <3>1 DEF ToSet
  <2>4. CASE InS(a) /\ InS(b)
    BY <1>1, <1>8, <2>2, <2>4 DEF IsInjective
  <2>5. CASE InT(a) /\ InT(b)
    <3>1. a - Len(s) = b - Len(s)
      <4> HIDE DEF InS, InT
      <4> QED
        BY <1>8, <2>3, <2>5 DEF IsInjective
    <3> QED
      BY <1>1, <3>1
  <2>6. ~ (InS(a) /\ InT(b)) /\ ~ (InT(a) /\ InS(b))
    <3> HIDE DEF InS, InT
    <3> QED
      BY <1>8, <2>2, <2>3
  <2> HIDE DEF InS, InT
  <2> QED
    BY <1>8, <2>1, <2>4, <2>5, <2>6
<1> QED
  BY <1>1, <1>7, <1>8 DEF both, IsInjective

(* Aliases stand for variables, and variables for themselves.              *)
LEMMA ModelNames ==
  /\ ModelVariables \subseteq STRING
  /\ \A n \in Known : ModelName(n) \in ModelVariables
  /\ \A n \in Known \ DOMAIN Alias : ModelName(n) = n
  /\ \A n \in ModelVariables : n \in Known /\ ModelName(n) = n
<1>1. ModelVariables \subseteq STRING
  BY ModelAssumption DEF ModelVariables, ToSet
<1> QED
  BY <1>1, AliasAssumption DEF Known, ModelName

(* Replaced gives the variables the names stand for, in their order.       *)
LEMMA ReplacedHolds ==
  ASSUME NEW list \in Seq(STRING)
  PROVE  /\ Replaced(list) \in Seq(STRING)
         /\ ToSet(Replaced(list)) = {ModelName(n) : n \in ToSet(list) \cap Known}
<1> DEFINE found == Only(list, Known)
<1>1. found \in Seq(STRING) /\ ToSet(found) = ToSet(list) \cap Known
  BY OnlyKeeps
<1>2. Replaced(list) = [i \in DOMAIN found |-> ModelName(found[i])]
  BY DEF Replaced
<1> HIDE DEF found
<1>3. DOMAIN found = 1 .. Len(found) /\ Len(found) \in Nat /\ \A i \in DOMAIN found : found[i] \in ToSet(found)
  BY <1>1 DEF ToSet
<1>4. \A i \in DOMAIN found : ModelName(found[i]) \in STRING
  BY <1>1, <1>3, ModelNames
<1>5. Replaced(list) \in Seq(STRING)
  BY <1>2, <1>3, <1>4
<1>6. ToSet(Replaced(list)) = {ModelName(found[i]) : i \in DOMAIN found}
  BY <1>2, <1>3 DEF ToSet
<1>7. {ModelName(found[i]) : i \in DOMAIN found} = {ModelName(n) : n \in ToSet(found)}
  BY DEF ToSet
<1> QED
  BY <1>1, <1>5, <1>6, <1>7

(* A list of known names without aliases stays as it is.                   *)
LEMMA ReplacedSame ==
  ASSUME NEW list \in Seq(STRING), ToSet(list) \subseteq Known, ToSet(list) \cap DOMAIN Alias = {}
  PROVE  Replaced(list) = list
<1>1. Only(list, Known) = list
  BY OnlyAll
<1>2. \A i \in DOMAIN list : list[i] \in Known \ DOMAIN Alias
  BY DEF ToSet
<1>3. \A i \in DOMAIN list : ModelName(list[i]) = list[i]
  BY <1>2, ModelNames
<1>4. Replaced(list) = [i \in DOMAIN list |-> ModelName(list[i])]
  BY <1>1 DEF Replaced
<1>5. list = [i \in DOMAIN list |-> list[i]]
  OBVIOUS
<1> QED
  BY <1>3, <1>4, <1>5

(* The check for duplicates finds them all.                                *)
LEMMA NoDuplicates ==
  ASSUME NEW list \in Seq(STRING), ~ Duplicates(list)
  PROVE  IsInjective(Replaced(list))
<1> DEFINE s == Replaced(list)
<1>1. s \in Seq(STRING)
  BY ReplacedHolds
<1>2. ~ (Cardinality(ToSet(s)) < Len(s))
  BY DEF Duplicates
<1> HIDE DEF s
<1>3. Cardinality(ToSet(s)) \in Nat /\ Cardinality(ToSet(s)) <= Len(s) /\ Len(s) \in Nat
  BY <1>1, CountBound
<1>4. Cardinality(ToSet(s)) = Len(s)
  BY <1>2, <1>3
<1> QED
  BY <1>1, <1>4, CountNames DEF s

---------------------------------------------------------------------------
(* The object's names.                                                     *)

(* The inputs are sorted with the disturbed ones last, the noises with them*)
(* first; the names stay the same, and the data are asked for in the order *)
(* of the rows.                                                            *)
LEMMA SortedHolds ==
  ASSUME NEW c, "opts" \in DOMAIN c, "process_noise" \in DOMAIN c, "input_names" \in DOMAIN c.opts,
         c.opts.input_names \in Seq(STRING), c.process_noise \in Seq(STRING)
  PROVE  LET s == SortedNames(c)
         IN /\ DOMAIN s = DOMAIN c /\ DOMAIN s.opts = DOMAIN c.opts
            /\ \A f \in DOMAIN c \ {"opts", "process_noise"} : s[f] = c[f]
            /\ \A f \in DOMAIN c.opts \ {"input_names"} : s.opts[f] = c.opts[f]
            /\ s.opts.input_names \in Seq(STRING) /\ s.process_noise \in Seq(STRING)
            /\ ToSet(s.opts.input_names) = ToSet(c.opts.input_names)
            /\ ToSet(s.process_noise) = ToSet(c.process_noise)
            /\ IsInjective(c.opts.input_names) /\ IsInjective(c.process_noise) =>
                 IsInjective(s.opts.input_names) /\ IsInjective(s.process_noise)
            /\ InputsInOrder(s)
<1> DEFINE ins == c.opts.input_names
           noise == c.process_noise
           disturbed == Only(ins, ToSet(noise))
           clear == Without(ins, ToSet(noise))
           others == Without(noise, ToSet(disturbed))
           s == SortedNames(c)
<1>1. ins \in Seq(STRING) /\ noise \in Seq(STRING)
  OBVIOUS
<1>2. s = [c EXCEPT !.opts.input_names = clear \o disturbed, !.process_noise = disturbed \o others]
  BY DEF SortedNames
<1>3. /\ disturbed \in Seq(STRING) /\ ToSet(disturbed) = ToSet(ins) \cap ToSet(noise)
      /\ IsInjective(ins) => IsInjective(disturbed)
  BY <1>1, OnlyKeeps
<1>4. /\ clear \in Seq(STRING) /\ ToSet(clear) = ToSet(ins) \ ToSet(noise)
      /\ IsInjective(ins) => IsInjective(clear)
  BY <1>1, WithoutKeeps
<1>5. /\ others \in Seq(STRING) /\ ToSet(others) = ToSet(noise) \ ToSet(disturbed)
      /\ IsInjective(noise) => IsInjective(others)
  BY <1>1, WithoutKeeps
<1> HIDE DEF s
<1> DEFINE newIns == clear \o disturbed
           newNoise == disturbed \o others
<1>6. /\ newIns \in Seq(STRING) /\ ToSet(newIns) = ToSet(ins)
      /\ IsInjective(ins) => IsInjective(newIns)
  <2> HIDE DEF clear, disturbed
  <2>1. /\ newIns \in Seq(STRING) /\ ToSet(newIns) = ToSet(clear) \cup ToSet(disturbed)
        /\ IsInjective(clear) /\ IsInjective(disturbed) /\ ToSet(clear) \cap ToSet(disturbed) = {} =>
             IsInjective(newIns)
    BY <1>3, <1>4, JoinNames
  <2> HIDE DEF newIns, ins, noise
  <2> QED
    BY <1>3, <1>4, <2>1
<1>7. /\ newNoise \in Seq(STRING) /\ ToSet(newNoise) = ToSet(noise)
      /\ IsInjective(ins) /\ IsInjective(noise) => IsInjective(newNoise)
  <2> HIDE DEF others, disturbed
  <2>1. /\ newNoise \in Seq(STRING) /\ ToSet(newNoise) = ToSet(disturbed) \cup ToSet(others)
        /\ IsInjective(disturbed) /\ IsInjective(others) /\ ToSet(disturbed) \cap ToSet(others) = {} =>
             IsInjective(newNoise)
    BY <1>3, <1>5, JoinNames
  <2> HIDE DEF newNoise, ins, noise
  <2> QED
    BY <1>3, <1>5, <2>1
<1>8. /\ DOMAIN s = DOMAIN c /\ DOMAIN s.opts = DOMAIN c.opts
      /\ \A f \in DOMAIN c \ {"opts", "process_noise"} : s[f] = c[f]
      /\ \A f \in DOMAIN c.opts \ {"input_names"} : s.opts[f] = c.opts[f]
      /\ s.opts.input_names = newIns /\ s.process_noise = newNoise
  <2> HIDE DEF clear, disturbed, others
  <2> QED
    BY <1>2
<1>9. Without(newIns, ToSet(newNoise)) = clear
  <2>1. Without(newIns, ToSet(newNoise)) = Only(newIns, ToSet(ins) \ ToSet(noise))
    <3> HIDE DEF newIns, newNoise, ins, noise
    <3> QED
      BY <1>6, <1>7 DEF Without
  <2> DEFINE kept == ToSet(ins) \ ToSet(noise)
  <2>2. ToSet(clear) \subseteq kept /\ ToSet(disturbed) \cap kept = {}
    <3> HIDE DEF clear, disturbed, ins, noise
    <3> QED
      BY <1>3, <1>4
  <2> HIDE DEF clear, disturbed, kept
  <2>3. Only(clear \o disturbed, kept) = clear
    BY <1>3, <1>4, <2>2, OnlyFirst
  <2> QED
    BY <2>1, <2>3 DEF kept
<1>10. Only(newNoise, ToSet(newIns)) = disturbed
  <2>1. ToSet(disturbed) \subseteq ToSet(ins) /\ ToSet(others) \cap ToSet(ins) = {}
    <3> HIDE DEF others, disturbed, ins, noise
    <3> QED
      BY <1>3, <1>5
  <2> HIDE DEF disturbed, others
  <2>2. Only(disturbed \o others, ToSet(ins)) = disturbed
    BY <1>3, <1>5, <2>1, OnlyFirst
  <2> QED
    BY <1>6, <2>2
<1>11. InputsInOrder(s)
  <2> HIDE DEF clear, disturbed, newIns, newNoise
  <2> DEFINE A == [i \in DOMAIN clear |-> <<"u", clear[i]>>]
             B == [i \in DOMAIN disturbed |-> <<"u0", disturbed[i]>>]
  <2>1. InputVars(s) = A \o B
    BY <1>8, <1>9, <1>10 DEF InputVars
  <2>2. /\ DOMAIN clear = 1 .. Len(clear) /\ DOMAIN disturbed = 1 .. Len(disturbed)
        /\ Len(clear) \in Nat /\ Len(disturbed) \in Nat
        /\ \A i \in DOMAIN clear : clear[i] \in STRING
        /\ \A i \in DOMAIN disturbed : disturbed[i] \in STRING
    BY <1>3, <1>4
  <2> DEFINE Pairs == {"u", "u0"} \X STRING
  <2>3. /\ A \in Seq(Pairs) /\ B \in Seq(Pairs)
        /\ Len(A) = Len(clear) /\ Len(B) = Len(disturbed)
    <3>1. \A i \in DOMAIN clear : <<"u", clear[i]>> \in Pairs
      BY <2>2
    <3>2. \A i \in DOMAIN disturbed : <<"u0", disturbed[i]>> \in Pairs
      BY <2>2
    <3> HIDE DEF Pairs
    <3>3. A \in Seq(Pairs) /\ Len(A) = Len(clear)
      BY <2>2, <3>1
    <3>4. B \in Seq(Pairs) /\ Len(B) = Len(disturbed)
      BY <2>2, <3>2
    <3> QED
      BY <3>3, <3>4
  <2>4. /\ DOMAIN newIns = 1 .. Len(clear) + Len(disturbed)
        /\ \A i \in 1 .. Len(clear) : newIns[i] = clear[i]
        /\ \A i \in Len(clear) + 1 .. Len(clear) + Len(disturbed) : newIns[i] = disturbed[i - Len(clear)]
    BY <1>3, <1>4 DEF newIns
  <2>5. /\ \A i \in 1 .. Len(clear) : A[i][2] = clear[i]
        /\ \A i \in 1 .. Len(disturbed) : B[i][2] = disturbed[i]
    BY <2>2
  <2> HIDE DEF A, B
  <2> DEFINE AB == A \o B
  <2>6. /\ DOMAIN AB = 1 .. Len(clear) + Len(disturbed)
        /\ \A i \in 1 .. Len(clear) : AB[i] = A[i]
        /\ \A i \in Len(clear) + 1 .. Len(clear) + Len(disturbed) : AB[i] = B[i - Len(clear)]
    <3> HIDE DEF Pairs
    <3>1. Len(A) \in Nat /\ Len(B) \in Nat
      BY <2>2, <2>3
    <3>2. DOMAIN AB = 1 .. Len(A) + Len(B)
      BY <2>3
    <3>3. \A i \in 1 .. Len(A) : AB[i] = A[i]
      BY <2>3
    <3>4. \A i \in Len(A) + 1 .. Len(A) + Len(B) : AB[i] = B[i - Len(A)]
      BY <2>3
    <3> HIDE DEF AB
    <3> QED
      BY <2>3, <3>2, <3>3, <3>4
  <2> HIDE DEF AB
  <2>7. ASSUME NEW i \in DOMAIN newIns
        PROVE  AB[i][2] = newIns[i]
    <3>1. CASE i \in 1 .. Len(clear)
      BY <2>4, <2>5, <2>6, <3>1
    <3>2. CASE i \in Len(clear) + 1 .. Len(clear) + Len(disturbed)
      <4>1. i - Len(clear) \in 1 .. Len(disturbed)
        BY <2>2, <3>2
      <4>2. AB[i] = B[i - Len(clear)] /\ newIns[i] = disturbed[i - Len(clear)]
        BY <2>4, <2>6, <3>2
      <4> QED
        BY <2>5, <4>1, <4>2
    <3> QED
      BY <2>2, <2>4, <3>1, <3>2
  <2> QED
    BY <1>8, <2>1, <2>4, <2>6, <2>7 DEF AB, InputsInOrder
<1> HIDE DEF clear, disturbed, others, newIns, newNoise
<1>12. IsInjective(ins) /\ IsInjective(noise) => IsInjective(newIns) /\ IsInjective(newNoise)
  BY <1>6, <1>7
<1> QED
  BY <1>6, <1>7, <1>8, <1>11, <1>12 DEF s

---------------------------------------------------------------------------
(* The caller's options.                                                   *)

CovFields == OptionFields \ {"input_names"}

(* The caller's covariance lists are lists of lists of names.              *)
LEMMA CallerTypes ==
  ASSUME CallerInv
  PROVE  \A f \in CovFields : caller[f] \in Seq(Seq(STRING)) /\ CovNames(caller[f]) \in Seq(STRING)
<1>1. PICK o \in Options : \A f \in CovFields : caller[f] = o[f]
  BY DEF CallerInv, CovFields
<1>2. \A f \in CovFields : caller[f] \in Seq(Seq(STRING))
  BY <1>1, OptionsAssumption DEF CovFields, OptionFields
<1>3. ASSUME NEW f \in CovFields
      PROVE  CovNames(caller[f]) \in Seq(STRING)
  BY <1>2, FlattenHolds DEF CovNames
<1> QED
  BY <1>2, <1>3

(* The caller's lists name variables of the kind they are for.             *)
LEMMA CallerKinds ==
  ASSUME CallerInv
  PROVE  /\ ToSet(Replaced(CovNames(caller.process_noise_cov))) \subseteq ToSet(RealInputs)
         /\ ToSet(Replaced(CovNames(caller.measurement_cov))) \subseteq ToSet(States) \cup ToSet(Algebraics)
         /\ ToSet(Replaced(CovNames(caller.P0_cov))) \subseteq ToSet(States)
<1>1. PICK o \in Options : \A f \in CovFields : caller[f] = o[f]
  BY DEF CallerInv, CovFields
<1>2. caller.process_noise_cov = o.process_noise_cov /\ caller.measurement_cov = o.measurement_cov
      /\ caller.P0_cov = o.P0_cov
  BY <1>1 DEF CovFields, OptionFields
<1> QED
  BY <1>2, KindsAssumption

(* What the checked options are.                                           *)
LEMMA CheckedOptions ==
  ASSUME CallerInv
  PROVE  LET c == CheckOptions(caller)
         IN /\ DOMAIN c = {"status", "opts", "caller", "process_noise", "measured", "undefined"}
            /\ DOMAIN c.opts = OptionFields /\ c.opts.input_names = caller.input_names
            /\ \A f \in CovFields : c.opts[f] = ReplacedBlocks(caller[f])
            /\ c.caller = [caller EXCEPT !.input_names = Replaced(caller.input_names)]
            /\ c.process_noise = Replaced(CovNames(caller.process_noise_cov))
            /\ c.measured = Replaced(CovNames(caller.measurement_cov))
            /\ c.undefined = Without(RealInputs, ToSet(Replaced(caller.input_names)) \cup ToSet(c.process_noise))
<1>1. DOMAIN caller = OptionFields
  BY DEF CallerInv
<1>2. \A a, b, d, e, f, g :
        LET c == [status |-> a, opts |-> b, caller |-> d, process_noise |-> e, measured |-> f, undefined |-> g]
        IN /\ DOMAIN c = {"status", "opts", "caller", "process_noise", "measured", "undefined"}
           /\ c.opts = b /\ c.caller = d /\ c.process_noise = e /\ c.measured = f /\ c.undefined = g
  OBVIOUS
<1> DEFINE opts == [caller EXCEPT !.process_noise_cov = ReplacedBlocks(@),
                                  !.measurement_cov = ReplacedBlocks(@),
                                  !.P0_cov = ReplacedBlocks(@)]
           c == CheckOptions(caller)
<1>3. /\ DOMAIN c = {"status", "opts", "caller", "process_noise", "measured", "undefined"}
      /\ c.opts = opts
      /\ c.caller = [caller EXCEPT !.input_names = Replaced(caller.input_names)]
      /\ c.process_noise = Replaced(CovNames(caller.process_noise_cov))
      /\ c.measured = Replaced(CovNames(caller.measurement_cov))
      /\ c.undefined = Without(RealInputs, ToSet(Replaced(caller.input_names))
                                             \cup ToSet(Replaced(CovNames(caller.process_noise_cov))))
  BY <1>2 DEF CheckOptions
<1>4. /\ DOMAIN opts = OptionFields /\ opts.input_names = caller.input_names
      /\ \A f \in CovFields : opts[f] = ReplacedBlocks(caller[f])
  BY <1>1 DEF OptionFields, CovFields
<1> HIDE DEF c, opts
<1> QED
  BY <1>3, <1>4 DEF c

(* Options that pass have known names only, and each once.                 *)
LEMMA PassedOptions ==
  ASSUME CheckOptions(caller).status = "ok"
  PROVE  /\ NotInModel(caller.input_names) = {} /\ ~ Duplicates(caller.input_names)
         /\ ~ Duplicates(CovNames(caller.process_noise_cov))
         /\ ~ Duplicates(CovNames(caller.measurement_cov))
<1> DEFINE lists == <<CovNames(caller.process_noise_cov), CovNames(caller.measurement_cov),
                      CovNames(caller.P0_cov), caller.input_names>>
           status == CASE \E l \in DOMAIN lists : NotInModel(lists[l]) # {} -> "not in model"
                       [] \A l \in DOMAIN lists : NotInModel(lists[l]) = {} ->
                            IF \E l \in DOMAIN lists : Duplicates(lists[l]) THEN "duplicate" ELSE "ok"
<1>1. CheckOptions(caller).status = status
  BY DEF CheckOptions
<1>2. DOMAIN lists = 1 .. 4 /\ lists[1] = CovNames(caller.process_noise_cov)
      /\ lists[2] = CovNames(caller.measurement_cov) /\ lists[4] = caller.input_names
  OBVIOUS
<1> HIDE DEF lists
<1>3. (\A l \in DOMAIN lists : NotInModel(lists[l]) = {}) /\ ~ \E l \in DOMAIN lists : Duplicates(lists[l])
  BY <1>1
<1> QED
  BY <1>2, <1>3

(* The names replaced in the caller's object are the variables they stand  *)
(* for.                                                                    *)
LEMMA CallerKept ==
  ASSUME CallerInv, caller' = CheckOptions(caller).caller
  PROVE  CallerInv'
<1> DEFINE ins == caller.input_names
<1>1. caller' = [caller EXCEPT !.input_names = Replaced(ins)]
  BY CheckedOptions
<1>2. DOMAIN caller = OptionFields /\ ins \in Seq(STRING) /\ ToSet(Replaced(ins)) \subseteq ToSet(RealInputs)
  BY DEF CallerInv
<1>3. Replaced(ins) \in Seq(STRING)
  BY <1>2, ReplacedHolds
<1>4. ToSet(Replaced(Replaced(ins))) \subseteq ToSet(RealInputs)
  <2>1. ToSet(RealInputs) \subseteq ModelVariables
    BY DEF ModelVariables
  <2>2. \A n \in ToSet(Replaced(ins)) : ModelName(n) = n
    BY <1>2, <2>1, ModelNames
  <2>3. ToSet(Replaced(Replaced(ins))) = {ModelName(n) : n \in ToSet(Replaced(ins)) \cap Known}
    BY <1>3, ReplacedHolds
  <2> QED
    BY <1>2, <2>2, <2>3
<1>5. /\ DOMAIN caller' = OptionFields /\ caller'.input_names = Replaced(ins)
      /\ \A f \in CovFields : caller'[f] = caller[f]
  BY <1>1, <1>2 DEF OptionFields, CovFields
<1>6. PICK o \in Options : \A f \in CovFields : caller[f] = o[f]
  BY DEF CallerInv, CovFields
<1> QED
  BY <1>3, <1>4, <1>5, <1>6 DEF CallerInv, CovFields

(* The object's names are right when the inputs were given without aliases.*)
LEMMA CreatedNames ==
  ASSUME CallerInv, CheckOptions(caller).status = "ok",
         ToSet(caller.input_names) \cap DOMAIN Alias = {}
  PROVE  LET s == SortedNames(CheckOptions(caller))
         IN NamesRight(s) /\ InputsInOrder(s)
<1> DEFINE c == CheckOptions(caller)
           s == SortedNames(c)
           ins == caller.input_names
           noise == Replaced(CovNames(caller.process_noise_cov))
           meas == Replaced(CovNames(caller.measurement_cov))
<1>1. /\ DOMAIN c = {"status", "opts", "caller", "process_noise", "measured", "undefined"}
      /\ DOMAIN c.opts = OptionFields /\ c.opts.input_names = ins
      /\ c.process_noise = noise /\ c.measured = meas
      /\ c.undefined = Without(RealInputs, ToSet(Replaced(ins)) \cup ToSet(noise))
  BY CheckedOptions
<1>2. /\ NotInModel(ins) = {} /\ ~ Duplicates(ins)
      /\ ~ Duplicates(CovNames(caller.process_noise_cov))
      /\ ~ Duplicates(CovNames(caller.measurement_cov))
  BY PassedOptions
<1>3. /\ CovNames(caller.process_noise_cov) \in Seq(STRING)
      /\ CovNames(caller.measurement_cov) \in Seq(STRING)
  BY CallerTypes DEF CovFields, OptionFields
<1>4. ins \in Seq(STRING)
  BY DEF CallerInv
<1>5. /\ noise \in Seq(STRING) /\ IsInjective(noise) /\ ToSet(noise) \subseteq ToSet(RealInputs)
      /\ meas \in Seq(STRING) /\ IsInjective(meas) /\ ToSet(meas) \subseteq ToSet(States) \cup ToSet(Algebraics)
  BY <1>2, <1>3, NoDuplicates, ReplacedHolds, CallerKinds
<1>6. Replaced(ins) = ins
  <2>1. ToSet(ins) \subseteq Known
    BY <1>2 DEF NotInModel, InModel
  <2> QED
    BY <1>4, <2>1, ReplacedSame
<1>7. IsInjective(ins) /\ ToSet(ins) \subseteq ToSet(RealInputs)
  BY <1>2, <1>4, <1>6, NoDuplicates DEF CallerInv
<1> HIDE DEF c, ins, noise, meas
<1>8. /\ DOMAIN s = DOMAIN c
      /\ s.measured = meas /\ s.undefined = c.undefined
      /\ s.opts.input_names \in Seq(STRING) /\ s.process_noise \in Seq(STRING)
      /\ ToSet(s.opts.input_names) = ToSet(ins) /\ ToSet(s.process_noise) = ToSet(noise)
      /\ IsInjective(s.opts.input_names) /\ IsInjective(s.process_noise)
      /\ InputsInOrder(s)
  <2>1. /\ "opts" \in DOMAIN c /\ "process_noise" \in DOMAIN c /\ "input_names" \in DOMAIN c.opts
        /\ c.opts.input_names \in Seq(STRING) /\ c.process_noise \in Seq(STRING)
    BY <1>1, <1>4, <1>5 DEF OptionFields, ins
  <2>2. /\ DOMAIN s = DOMAIN c
        /\ \A f \in DOMAIN c \ {"opts", "process_noise"} : s[f] = c[f]
        /\ s.opts.input_names \in Seq(STRING) /\ s.process_noise \in Seq(STRING)
        /\ ToSet(s.opts.input_names) = ToSet(c.opts.input_names)
        /\ ToSet(s.process_noise) = ToSet(c.process_noise)
        /\ IsInjective(c.opts.input_names) /\ IsInjective(c.process_noise) =>
             IsInjective(s.opts.input_names) /\ IsInjective(s.process_noise)
        /\ InputsInOrder(s)
    BY <2>1, SortedHolds
  <2> HIDE DEF s
  <2> QED
    BY <1>1, <1>5, <1>7, <2>2
<1>9. /\ c.undefined \in Seq(STRING) /\ IsInjective(c.undefined)
      /\ ToSet(c.undefined) = ToSet(RealInputs) \ (ToSet(ins) \cup ToSet(noise))
  <2>1. c.undefined = Without(RealInputs, ToSet(ins) \cup ToSet(noise))
    BY <1>1, <1>6
  <2> QED
    BY <2>1, WithoutKeeps, ModelAssumption
<1> HIDE DEF s
<1>10. NamesRight(s)
  BY <1>5, <1>7, <1>8, <1>9 DEF NamesRight
<1> QED
  BY <1>8, <1>10 DEF s, c

---------------------------------------------------------------------------
(* The weights.                                                            *)

(* The blocks of a list have names of the list.                            *)
LEMMA BlocksNamed ==
  ASSUME NEW cov \in Seq(Seq(STRING))
  PROVE  \A b \in DOMAIN ReplacedBlocks(cov) :
           ToSet(ReplacedBlocks(cov)[b]) \subseteq ToSet(Replaced(CovNames(cov)))
<1> SUFFICES ASSUME NEW b \in DOMAIN ReplacedBlocks(cov)
             PROVE  ToSet(ReplacedBlocks(cov)[b]) \subseteq ToSet(Replaced(CovNames(cov)))
  OBVIOUS
<1>1. b \in DOMAIN cov /\ ReplacedBlocks(cov)[b] = Replaced(cov[b])
  BY DEF ReplacedBlocks
<1>2. cov[b] \in Seq(STRING) /\ CovNames(cov) \in Seq(STRING) /\ ToSet(cov[b]) \subseteq ToSet(CovNames(cov))
  BY <1>1, FlattenHolds DEF CovNames
<1>3. /\ ToSet(Replaced(cov[b])) = {ModelName(n) : n \in ToSet(cov[b]) \cap Known}
      /\ ToSet(Replaced(CovNames(cov))) = {ModelName(n) : n \in ToSet(CovNames(cov)) \cap Known}
  BY <1>2, ReplacedHolds
<1> QED
  BY <1>1, <1>2, <1>3

(* When no block has a foreign name every parameter is set, and the filter *)
(* has what the parameters are.                                            *)
LEMMA AllSet ==
  ASSUME NEW c, NEW kind, NEW cov, NEW pars, NEW version, GoodBlocks(c, kind, cov) = DOMAIN cov
  PROVE  /\ \A e \in CostTerms(cov) : SetParameters(pars, c, kind, cov, version)[e] = version
         /\ FilterMatrix(cov, version) = [e \in CostTerms(cov) |-> version]
<1> DEFINE done == UNION {Block(cov[b]) : b \in GoodBlocks(c, kind, cov)}
           new == SetParameters(pars, c, kind, cov, version)
<1>1. new = [e \in DOMAIN pars \cup done |-> IF e \in done THEN version ELSE pars[e]]
  BY DEF SetParameters
<1>2. Entries(cov) = done
  BY DEF Entries
<1> HIDE DEF new, done
<1>3. \A e \in Entries(cov) : new[e] = version
  BY <1>1, <1>2
<1>4. FilterMatrix(cov, version) = [e \in Entries(cov) |-> version]
  BY DEF FilterMatrix
<1> QED
  BY <1>3, <1>4 DEF CostTerms, new

(* The weights of a new object agree.                                      *)
LEMMA NewWeightsAgree ==
  ASSUME CallerInv
  PROVE  LET s == SortedNames(CheckOptions(caller))
         IN /\ DOMAIN s = {"status", "opts", "caller", "process_noise", "measured", "undefined"}
            /\ DOMAIN s.opts = OptionFields
            /\ P0Entries(s) = ToSet(States) \X ToSet(States)
            /\ GoodBlocks(s, "Q", s.opts.process_noise_cov) = DOMAIN s.opts.process_noise_cov
            /\ GoodBlocks(s, "R", s.opts.measurement_cov) = DOMAIN s.opts.measurement_cov
<1> DEFINE c == CheckOptions(caller)
           s == SortedNames(c)
           Q == ReplacedBlocks(caller.process_noise_cov)
           R == ReplacedBlocks(caller.measurement_cov)
           P0 == ReplacedBlocks(caller.P0_cov)
           noise == Replaced(CovNames(caller.process_noise_cov))
           meas == Replaced(CovNames(caller.measurement_cov))
<1>1. /\ DOMAIN c = {"status", "opts", "caller", "process_noise", "measured", "undefined"}
      /\ DOMAIN c.opts = OptionFields /\ c.opts.input_names = caller.input_names
      /\ \A f \in CovFields : c.opts[f] = ReplacedBlocks(caller[f])
      /\ c.process_noise = noise /\ c.measured = meas
  BY CheckedOptions
<1>2. \A f \in CovFields : caller[f] \in Seq(Seq(STRING)) /\ CovNames(caller[f]) \in Seq(STRING)
  BY CallerTypes
<1>3. /\ caller.process_noise_cov \in Seq(Seq(STRING)) /\ caller.measurement_cov \in Seq(Seq(STRING))
      /\ caller.P0_cov \in Seq(Seq(STRING)) /\ CovNames(caller.process_noise_cov) \in Seq(STRING)
  BY <1>2 DEF CovFields, OptionFields
<1>4. /\ \A b \in DOMAIN Q : ToSet(Q[b]) \subseteq ToSet(noise)
      /\ \A b \in DOMAIN R : ToSet(R[b]) \subseteq ToSet(meas)
      /\ \A b \in DOMAIN P0 : ToSet(P0[b]) \subseteq ToSet(States)
  BY <1>3, BlocksNamed, CallerKinds
<1>5. caller.input_names \in Seq(STRING) /\ noise \in Seq(STRING)
  BY <1>3, ReplacedHolds DEF CallerInv
<1>6. c.opts.process_noise_cov = Q /\ c.opts.measurement_cov = R /\ c.opts.P0_cov = P0
  BY <1>1 DEF CovFields, OptionFields
<1> HIDE DEF c, Q, R, P0, noise, meas
<1>7. /\ DOMAIN s = DOMAIN c /\ DOMAIN s.opts = DOMAIN c.opts
      /\ \A f \in DOMAIN c \ {"opts", "process_noise"} : s[f] = c[f]
      /\ \A f \in DOMAIN c.opts \ {"input_names"} : s.opts[f] = c.opts[f]
      /\ ToSet(s.process_noise) = ToSet(c.process_noise)
  <2>1. /\ "opts" \in DOMAIN c /\ "process_noise" \in DOMAIN c /\ "input_names" \in DOMAIN c.opts
        /\ c.opts.input_names \in Seq(STRING) /\ c.process_noise \in Seq(STRING)
    BY <1>1, <1>5 DEF OptionFields
  <2> QED
    BY <2>1, SortedHolds
<1> HIDE DEF s
<1>8. /\ s.opts.process_noise_cov = Q /\ s.opts.measurement_cov = R /\ s.opts.P0_cov = P0
      /\ s.measured = meas /\ ToSet(s.process_noise) = ToSet(noise)
  BY <1>1, <1>6, <1>7 DEF OptionFields
<1>9. P0Entries(s) = ToSet(States) \X ToSet(States)
  <2>1. Entries(P0) \subseteq ToSet(States) \X ToSet(States)
    BY <1>4 DEF Entries, Block
  <2> QED
    BY <1>8, <2>1 DEF P0Entries
<1>10. GoodBlocks(s, "Q", Q) = DOMAIN Q
  <2>1. ASSUME NEW b \in DOMAIN Q
        PROVE  \A a \in 1 .. b : ToSet(Q[a]) \subseteq ToSet(NameList(s, "Q"))
    <3>1. DOMAIN Q = 1 .. Len(caller.process_noise_cov) /\ Len(caller.process_noise_cov) \in Nat
      BY <1>3 DEF Q, ReplacedBlocks
    <3>2. \A a \in 1 .. b : a \in DOMAIN Q
      BY <2>1, <3>1
    <3> QED
      BY <1>4, <1>8, <3>2 DEF NameList
  <2> QED
    BY <2>1 DEF GoodBlocks
<1>11. GoodBlocks(s, "R", R) = DOMAIN R
  <2>1. ASSUME NEW b \in DOMAIN R
        PROVE  \A a \in 1 .. b : ToSet(R[a]) \subseteq ToSet(NameList(s, "R"))
    <3>1. DOMAIN R = 1 .. Len(caller.measurement_cov) /\ Len(caller.measurement_cov) \in Nat
      BY <1>3 DEF R, ReplacedBlocks
    <3>2. \A a \in 1 .. b : a \in DOMAIN R
      BY <2>1, <3>1
    <3> QED
      BY <1>4, <1>8, <3>2 DEF NameList
  <2> QED
    BY <2>1 DEF GoodBlocks
<1> QED
  BY <1>1, <1>7, <1>8, <1>9, <1>10, <1>11 DEF s, c

---------------------------------------------------------------------------
(* The calls that leave the window as it is.                               *)

(* It holds before anything is called.                                     *)
LEMMA InitInv == Init => EstimatorInv
<1> SUFFICES ASSUME Init
             PROVE  EstimatorInv
  OBVIOUS
<1>1. caller \in Options
  BY DEF Init
<1>2. CallerInv
  BY <1>1, OptionsAssumption, KindsAssumption DEF CallerInv, OptionFields
<1>3. NewInv
  BY DEF Init, NewInv
<1>4. TimesInv
  BY DEF Init, TimesInv
<1>5. ConfInv /\ ColumnsInv /\ FilterInv /\ DataInv /\ WeightsInv /\ SameWeights
  BY DEF Init, ConfInv, ColumnsInv, FilterInv, DataInv, WeightsInv, SameWeights
<1>6. ArrivalInv
  BY DEF Init, ArrivalInv
<1>7. ModelInv
  BY DEF Init, ModelInv
<1> QED
  BY <1>2, <1>3, <1>4, <1>5, <1>6, <1>7 DEF EstimatorInv, WindowInv, Init

(* What depends on the names only.                                         *)
LEMMA SameNames ==
  ASSUME NEW c, NEW d, c.opts.input_names = d.opts.input_names, c.process_noise = d.process_noise,
         c.measured = d.measured, c.undefined = d.undefined
  PROVE  /\ NamesRight(c) => NamesRight(d)
         /\ InputVars(c) = InputVars(d) /\ RowMap(c) = RowMap(d)
         /\ InputsInOrder(c) => InputsInOrder(d)
         /\ ZeroNoise(c) = ZeroNoise(d) /\ AllInputs(c) = AllInputs(d)
         /\ NoiseColumns(c) = NoiseColumns(d) /\ MeasurementRows(c) = MeasurementRows(d)
<1>1. NamesRight(c) => NamesRight(d)
  BY DEF NamesRight
<1>2. InputVars(c) = InputVars(d)
  BY DEF InputVars
<1>3. RowMap(c) = RowMap(d)
  BY DEF RowMap
<1>4. ZeroNoise(c) = ZeroNoise(d) /\ AllInputs(c) = AllInputs(d)
  BY DEF ZeroNoise, AllInputs
<1>5. NameMap(c) = NameMap(d)
  BY <1>4 DEF NameMap
<1>6. NoiseColumns(c) = NoiseColumns(d)
  BY <1>5 DEF NoiseColumns
<1>7. MeasurementRows(c) = MeasurementRows(d)
  BY DEF MeasurementRows
<1> QED
  BY <1>1, <1>2, <1>3, <1>4, <1>6, <1>7 DEF InputsInOrder

(* The window stays right when it does not change.                         *)
LEMMA WindowKept ==
  ASSUME WindowInv, UNCHANGED <<phase, conf, window, clean>>
  PROVE  WindowInv'
<1>1. TimesInv'
  BY DEF WindowInv, TimesInv, window
<1>2. ColumnsInv'
  BY DEF WindowInv, ColumnsInv, Columns, window
<1>3. ArrivalInv'
  BY DEF WindowInv, ArrivalInv, window
<1>4. FilterInv'
  <2>1. ZeroNoise(conf)' = ZeroNoise(conf)
    BY DEF ZeroNoise
  <2>2. NoiseColumns(conf)' = NoiseColumns(conf)
    BY DEF NoiseColumns, NameMap, AllInputs
  <2>3. MeasurementRows(conf)' = MeasurementRows(conf)
    BY DEF MeasurementRows
  <2> QED
    BY <2>1, <2>2, <2>3 DEF WindowInv, FilterInv, window
<1>5. DataInv'
  BY DEF WindowInv, DataInv, window, CreateExternalData, InputVars
<1> QED
  BY <1>1, <1>2, <1>3, <1>4, <1>5 DEF WindowInv

(* The names stay right when they do not change.                           *)
LEMMA ConfKept ==
  ASSUME ConfInv, UNCHANGED <<phase, conf>>, clean' => clean
  PROVE  ConfInv'
<1>1. NamesRight(conf)' <=> NamesRight(conf)
  BY DEF NamesRight
<1>2. InputVars(conf)' = InputVars(conf)
  BY DEF InputVars
<1>3. InputsInOrder(conf)' <=> InputsInOrder(conf)
  BY <1>2 DEF InputsInOrder
<1>4. RowMap(conf)' = RowMap(conf)
  BY DEF RowMap
<1> QED
  BY <1>1, <1>3, <1>4 DEF ConfInv

(* Only the model's parameters change.                                     *)
LEMMA ModelAside ==
  ASSUME EstimatorInv, UNCHANGED <<phase, caller, conf, window, weights, clean>>, ModelInv'
  PROVE  EstimatorInv'
<1>1. WindowInv'
  BY WindowKept DEF EstimatorInv
<1>2. NewInv' /\ WeightsInv' /\ SameWeights' /\ CallerInv' /\ phase' \in {"new", "ready"}
  BY DEF EstimatorInv, NewInv, WeightsInv, SameWeights, CallerInv, window
<1>3. ConfInv'
  BY ConfKept DEF EstimatorInv
<1> QED
  BY <1>1, <1>2, <1>3 DEF EstimatorInv

(* Only the caller's options change.                                       *)
LEMMA RestKept ==
  ASSUME EstimatorInv, UNCHANGED <<phase, conf, window, weights, model, clean>>, CallerInv'
  PROVE  EstimatorInv'
<1>1. ModelInv' /\ SameWeights' /\ WeightsInv' /\ NewInv' /\ phase' \in {"new", "ready"}
  BY DEF EstimatorInv, ModelInv, SameWeights, WeightsInv, NewInv, window, model
<1>2. WindowInv'
  BY WindowKept DEF EstimatorInv
<1>3. ConfInv'
  BY ConfKept DEF EstimatorInv
<1> QED
  BY <1>1, <1>2, <1>3 DEF EstimatorInv

(* The optimization for initial values changes the options only.           *)
LEMMA OptimizeStep ==
  ASSUME EstimatorInv, OptimizeForInitialValues
  PROVE  EstimatorInv'
<1>1. caller' = CheckOptions(caller).caller /\ UNCHANGED <<phase, conf, window, weights, model, clean>>
  BY DEF OptimizeForInitialValues
<1>2. CallerInv'
  BY <1>1, CallerKept DEF EstimatorInv
<1> QED
  BY <1>1, <1>2, RestKept

(* So does a constructor that raises.                                      *)
LEMMA CreateRejectedStep ==
  ASSUME EstimatorInv, CreateRejected
  PROVE  EstimatorInv'
<1>1. caller' = CheckOptions(caller).caller /\ UNCHANGED <<phase, conf, window, weights, model, clean>>
  BY DEF CreateRejected
<1>2. CallerInv'
  BY <1>1, CallerKept DEF EstimatorInv
<1> QED
  BY <1>1, <1>2, RestKept

(* A new object: its window is empty and its names are right.              *)
LEMMA CreateStep ==
  ASSUME EstimatorInv, Create
  PROVE  EstimatorInv'
<1> DEFINE c == CheckOptions(caller)
           s == SortedNames(c)
           ins == caller.input_names
<1>1. /\ phase = "new" /\ c.status = "ok"
      /\ caller' = c.caller
      /\ clean' = (ToSet(c.opts.input_names) \cap DOMAIN Alias = {})
      /\ phase' = "ready"
      /\ conf' = [opts |-> s.opts, process_noise |-> s.process_noise, measured |-> s.measured,
                  undefined |-> s.undefined, rows |-> RowMap(s)]
      /\ weights' = [kind \in Kinds |->
           NewWeights(s, kind, IF kind = "Q" THEN s.opts.process_noise_cov ELSE s.opts.measurement_cov)]
      /\ arrival' = [e \in P0Entries(s) |-> 0]
      /\ compiled' = params
      /\ UNCHANGED <<next_time_index, time_vector, u, y, est, guess, P, lin, params, marked, dirty, data>>
  BY DEF Create, CreationChecks, Formulation
<1>2. CallerInv /\ NewInv /\ TimesInv /\ ModelInv
  BY DEF EstimatorInv, WindowInv
<1>3. CallerInv'
  BY <1>1, <1>2, CallerKept
<1>4. c.opts.input_names = ins
  BY <1>2, CheckedOptions
<1>5. /\ DOMAIN s = {"status", "opts", "caller", "process_noise", "measured", "undefined"}
      /\ DOMAIN s.opts = OptionFields
      /\ P0Entries(s) = ToSet(States) \X ToSet(States)
      /\ GoodBlocks(s, "Q", s.opts.process_noise_cov) = DOMAIN s.opts.process_noise_cov
      /\ GoodBlocks(s, "R", s.opts.measurement_cov) = DOMAIN s.opts.measurement_cov
  BY <1>2, NewWeightsAgree
<1>6. clean' => NamesRight(s) /\ InputsInOrder(s)
  BY <1>1, <1>2, <1>4, CreatedNames
<1> HIDE DEF s, c
<1>7. /\ DOMAIN conf' = {"opts", "process_noise", "measured", "undefined", "rows"}
      /\ conf'.opts = s.opts /\ conf'.process_noise = s.process_noise /\ conf'.measured = s.measured
      /\ conf'.undefined = s.undefined /\ conf'.rows = RowMap(s)
  BY <1>1
<1>8. ConfInv'
  <2>1. ASSUME NEW d, d = conf', clean'
        PROVE  NamesRight(d) /\ InputsInOrder(d) /\ d.rows = RowMap(d)
    BY <1>6, <1>7, <2>1, SameNames
  <2>2. clean' => NamesRight(conf)' /\ InputsInOrder(conf)' /\ conf'.rows = RowMap(conf)'
    BY <2>1 DEF NamesRight, InputsInOrder, InputVars, RowMap
  <2> QED
    BY <1>5, <1>7, <2>2 DEF ConfInv
<1>9. TimesInv'
  BY <1>1, <1>2 DEF TimesInv, NewInv
<1>10. /\ next_time_index = 1 /\ time_vector = <<0>> /\ u = <<>> /\ y = <<>>
       /\ guess = 0 /\ P = 0 /\ lin = None /\ data = None
  BY <1>1, <1>2 DEF NewInv
<1>11. ColumnsInv'
  <2>1. time_vector' = <<0>> /\ u' = <<>> /\ y' = <<>>
    BY <1>1, <1>10
  <2>2. \A names : [j \in 1 .. Len(<<0>>) - 1 |-> [at |-> (<<0>>)[j], rows |-> names]] = <<>>
    OBVIOUS
  <2>3. Columns(conf.opts.input_names)' = <<>> /\ Columns(conf.measured)' = <<>>
    BY <2>1, <2>2 DEF Columns
  <2> QED
    BY <2>1, <2>3 DEF ColumnsInv
<1>12. ArrivalInv'
  BY <1>1, <1>5, <1>10 DEF ArrivalInv
<1>13. FilterInv' /\ DataInv' /\ NewInv'
  BY <1>1, <1>10 DEF FilterInv, DataInv, NewInv
<1>14. WeightsInv'
  BY <1>1 DEF WeightsInv, NewWeights, Kinds
<1>15. SameWeights'
  <2> DEFINE cov(k) == IF k = "Q" THEN s.opts.process_noise_cov ELSE s.opts.measurement_cov
  <2>1. ASSUME NEW k \in Kinds
        PROVE  weights'[k].ekf = [e \in weights'[k].cost |-> weights'[k].pars[e]]
    <3>1. weights'[k] = NewWeights(s, k, cov(k))
      BY <1>1
    <3>2. /\ weights'[k].ekf = FilterMatrix(cov(k), 0) /\ weights'[k].cost = CostTerms(cov(k))
          /\ weights'[k].pars = SetParameters(<<>>, s, k, cov(k), 0)
      BY <3>1 DEF NewWeights
    <3>3. GoodBlocks(s, k, cov(k)) = DOMAIN cov(k)
      BY <1>5 DEF Kinds
    <3> HIDE DEF cov
    <3> DEFINE pars == SetParameters(<<>>, s, k, cov(k), 0)
    <3>4. \A e \in CostTerms(cov(k)) : pars[e] = 0
      BY <3>3, AllSet
    <3>5. FilterMatrix(cov(k), 0) = [e \in CostTerms(cov(k)) |-> 0]
      BY <3>3, AllSet
    <3>6. weights'[k].pars = pars
      BY <3>2
    <3> HIDE DEF pars
    <3> QED
      BY <3>2, <3>4, <3>5, <3>6
  <2> QED
    BY <2>1 DEF SameWeights
<1>16. ModelInv'
  BY <1>1, <1>2 DEF ModelInv
<1> QED
  BY <1>1, <1>3, <1>8, <1>9, <1>11, <1>12, <1>13, <1>14, <1>15, <1>16 DEF EstimatorInv, WindowInv

(* New covariances leave the names as they are; they reach the cost and the*)
(* filter, or the call fails.                                              *)
LEMMA SetCovarianceStep ==
  ASSUME EstimatorInv, NEW kind \in Kinds, SetCovariance(kind)
  PROVE  EstimatorInv'
<1>1. PICK cov \in CovLists[kind] :
        LET new == ReplacedBlocks(cov)
            pars == SetParameters(weights[kind].pars, conf, kind, new, 1)
        IN /\ phase = "ready"
           /\ conf' = IF kind = "Q" THEN [conf EXCEPT !.opts.process_noise_cov = new]
                                    ELSE [conf EXCEPT !.opts.measurement_cov = new]
           /\ IF GoodBlocks(conf, kind, new) = DOMAIN new
              THEN /\ weights' = [weights EXCEPT ![kind] =
                        [pars |-> pars, cost |-> CostTerms(new), ekf |-> UpdatedFilter(new, 1)]]
                   /\ UNCHANGED clean
              ELSE /\ weights' = [weights EXCEPT ![kind].pars = pars]
                   /\ clean' = FALSE
           /\ UNCHANGED <<phase, caller, window, model>>
  BY DEF SetCovariance
<1> DEFINE new == ReplacedBlocks(cov)
           pars == SetParameters(weights[kind].pars, conf, kind, new, 1)
           good == GoodBlocks(conf, kind, new) = DOMAIN new
           w == [pars |-> pars, cost |-> CostTerms(new), ekf |-> UpdatedFilter(new, 1)]
<1>2. /\ phase = "ready" /\ phase' = "ready" /\ caller' = caller /\ UNCHANGED window /\ UNCHANGED model
      /\ conf' = [conf EXCEPT !.opts.process_noise_cov = new] \/ conf' = [conf EXCEPT !.opts.measurement_cov = new]
      /\ good => weights' = [weights EXCEPT ![kind] = w] /\ clean' = clean
      /\ ~ good => weights' = [weights EXCEPT ![kind].pars = pars] /\ clean' = FALSE
  BY <1>1
<1> HIDE DEF new, good
<1>3. /\ CallerInv /\ ConfInv /\ WindowInv /\ WeightsInv /\ SameWeights /\ ModelInv
  BY DEF EstimatorInv
<1>4. clean' => clean
  BY <1>2
<1>5. ASSUME clean'
      PROVE  /\ DOMAIN conf' = DOMAIN conf /\ DOMAIN conf'.opts = DOMAIN conf.opts
             /\ conf'.opts.input_names = conf.opts.input_names /\ conf'.process_noise = conf.process_noise
             /\ conf'.measured = conf.measured /\ conf'.undefined = conf.undefined /\ conf'.rows = conf.rows
  <2>1. DOMAIN conf = {"opts", "process_noise", "measured", "undefined", "rows"} /\ DOMAIN conf.opts = OptionFields
    BY <1>2, <1>3, <1>4, <1>5 DEF ConfInv
  <2> QED
    BY <1>2, <2>1 DEF OptionFields
<1>6. ASSUME clean'
      PROVE  /\ NamesRight(conf') /\ InputsInOrder(conf') /\ conf'.rows = RowMap(conf')
             /\ InputVars(conf') = InputVars(conf) /\ ZeroNoise(conf') = ZeroNoise(conf)
             /\ NoiseColumns(conf') = NoiseColumns(conf) /\ MeasurementRows(conf') = MeasurementRows(conf)
  <2>1. NamesRight(conf) /\ InputsInOrder(conf) /\ conf.rows = RowMap(conf)
    BY <1>2, <1>3, <1>4, <1>6 DEF ConfInv
  <2> DEFINE d == conf'
  <2>2. /\ d.opts.input_names = conf.opts.input_names /\ d.process_noise = conf.process_noise
        /\ d.measured = conf.measured /\ d.undefined = conf.undefined /\ d.rows = conf.rows
    BY <1>5, <1>6
  <2> HIDE DEF d
  <2>3. /\ NamesRight(d) /\ InputsInOrder(d) /\ d.rows = RowMap(d)
        /\ InputVars(d) = InputVars(conf) /\ ZeroNoise(d) = ZeroNoise(conf)
        /\ NoiseColumns(d) = NoiseColumns(conf) /\ MeasurementRows(d) = MeasurementRows(conf)
    BY <2>1, <2>2, SameNames
  <2> QED
    BY <2>3 DEF d
<1>7. ConfInv'
  BY <1>2, <1>3, <1>4, <1>5, <1>6 DEF ConfInv
<1>8. TimesInv' /\ ArrivalInv'
  BY <1>2, <1>3, <1>4 DEF WindowInv, TimesInv, ArrivalInv, window
<1>9. ColumnsInv'
  BY <1>2, <1>3, <1>4, <1>5 DEF WindowInv, ColumnsInv, Columns, window
<1>10. FilterInv'
  <2>1. ASSUME clean', lin' # None
        PROVE  /\ \A f \in {"t", "x", "dx", "c", "u", "P"} : lin'[f] = time_vector'[1] - 1
               /\ lin'.inputs = conf'.opts.input_names \o conf'.undefined \o ZeroNoise(conf')
               /\ lin'.G = NoiseColumns(conf') /\ lin'.C = MeasurementRows(conf')
    BY <1>2, <1>3, <1>4, <1>5, <1>6, <2>1 DEF WindowInv, FilterInv, window
  <2> QED
    BY <2>1 DEF FilterInv
<1>11. DataInv'
  <2>1. ASSUME clean', data' # None
        PROVE  Len(time_vector') > 1 /\ data' = CreateExternalData(time_vector, u, y)
    BY <1>2, <1>3, <1>4, <2>1 DEF WindowInv, DataInv, window
  <2>2. clean' => CreateExternalData(time_vector, u, y)' = CreateExternalData(time_vector, u, y)
    <3>1. ASSUME clean'
          PROVE  InputVars(conf)' = InputVars(conf)
      BY <1>6, <3>1
    <3> QED
      BY <1>2, <1>5, <3>1 DEF CreateExternalData, window
  <2> QED
    BY <2>1, <2>2 DEF DataInv
<1>12. WeightsInv' /\ SameWeights'
  <2>1. DOMAIN weights = Kinds /\ \A k \in Kinds : DOMAIN weights[k] = {"pars", "cost", "ekf"}
    BY <1>2, <1>3 DEF WeightsInv
  <2>2. CASE good
    <3>1. weights' = [weights EXCEPT ![kind] = w]
      BY <1>2, <2>2
    <3>2. DOMAIN w = {"pars", "cost", "ekf"} /\ w.ekf = [e \in w.cost |-> w.pars[e]]
      <4>1. FilterMatrix(new, 1) = [e \in CostTerms(new) |-> pars[e]]
        <5>1. GoodBlocks(conf, kind, new) = DOMAIN new
          BY <2>2 DEF good
        <5>2. \A e \in CostTerms(new) : pars[e] = 1
          BY <5>1, AllSet
        <5>3. FilterMatrix(new, 1) = [e \in CostTerms(new) |-> 1]
          BY <5>1, AllSet
        <5> HIDE DEF pars
        <5> QED
          BY <5>2, <5>3
      <4> HIDE DEF pars
      <4> QED
        BY <4>1 DEF UpdatedFilter
    <3> HIDE DEF w
    <3>3. DOMAIN weights' = Kinds /\ weights'[kind] = w /\ \A k \in Kinds \ {kind} : weights'[k] = weights[k]
      BY <2>1, <3>1
    <3>4. \A k \in Kinds : DOMAIN weights'[k] = {"pars", "cost", "ekf"}
      BY <2>1, <3>2, <3>3
    <3>5. clean' => \A k \in Kinds : weights'[k].ekf = [e \in weights'[k].cost |-> weights'[k].pars[e]]
      BY <1>2, <1>3, <1>4, <3>2, <3>3 DEF SameWeights
    <3> QED
      BY <3>3, <3>4, <3>5 DEF WeightsInv, SameWeights
  <2>3. CASE ~ good
    <3>1. weights' = [weights EXCEPT ![kind].pars = pars] /\ clean' = FALSE
      BY <1>2, <2>3
    <3> HIDE DEF pars
    <3>2. DOMAIN weights' = Kinds /\ \A k \in Kinds : DOMAIN weights'[k] = {"pars", "cost", "ekf"}
      BY <2>1, <3>1
    <3> QED
      BY <3>1, <3>2 DEF WeightsInv, SameWeights
  <2> QED
    BY <2>2, <2>3
<1>13. CallerInv' /\ NewInv' /\ ModelInv'
  BY <1>2, <1>3 DEF CallerInv, NewInv, ModelInv, model
<1> QED
  BY <1>2, <1>7, <1>8, <1>9, <1>10, <1>11, <1>12, <1>13 DEF EstimatorInv, WindowInv

(* A parameter may be newer than what is compiled, until it is marked.     *)
LEMMA SetModelParameterStep ==
  ASSUME EstimatorInv, SetModelParameter
  PROVE  EstimatorInv'
<1>1. /\ params' = params + 1
      /\ UNCHANGED <<phase, caller, conf, window, weights, marked, compiled, dirty, clean>>
  BY DEF SetModelParameter
<1>2. ModelInv'
  BY <1>1 DEF EstimatorInv, ModelInv
<1> QED
  BY <1>1, <1>2, ModelAside

(* A mark stays until the parameters are compiled.                         *)
LEMMA SetDirtyStep ==
  ASSUME EstimatorInv, SetDirty
  PROVE  EstimatorInv'
<1>1. /\ dirty' = TRUE /\ marked' = params
      /\ UNCHANGED <<phase, caller, conf, window, weights, params, compiled, clean>>
  BY DEF SetDirty
<1>2. ModelInv'
  BY <1>1 DEF EstimatorInv, ModelInv
<1> QED
  BY <1>1, <1>2, ModelAside

---------------------------------------------------------------------------
(* A step.                                                                 *)

(* A parameter that was marked is compiled when the window slides.         *)
LEMMA CompiledInTime ==
  ASSUME ModelInv, compiled' = CompiledNow, dirty' = (dirty /\ ~Sliding), UNCHANGED <<params, marked>>
  PROVE  ModelInv' /\ (Sliding => marked <= compiled')
<1>1. CASE Sliding /\ dirty
  BY <1>1 DEF ModelInv, CompiledNow
<1>2. CASE Sliding /\ ~ dirty
  BY <1>2 DEF ModelInv, CompiledNow
<1>3. CASE ~ Sliding
  BY <1>3 DEF ModelInv, CompiledNow
<1> QED
  BY <1>1, <1>2, <1>3

(* After a step that failed nothing is promised but the types.             *)
LEMMA FailedStep ==
  ASSUME EstimatorInv, ModelInv', clean' = FALSE, phase = "ready",
         UNCHANGED <<phase, caller, conf, weights>>
  PROVE  EstimatorInv'
<1>1. ConfInv' /\ SameWeights'
  BY DEF ConfInv, SameWeights
<1>2. TimesInv' /\ ColumnsInv' /\ ArrivalInv' /\ FilterInv' /\ DataInv'
  BY DEF TimesInv, ColumnsInv, ArrivalInv, FilterInv, DataInv
<1>3. CallerInv' /\ NewInv' /\ WeightsInv'
  BY DEF EstimatorInv, CallerInv, NewInv, WeightsInv
<1> QED
  BY <1>1, <1>2, <1>3 DEF EstimatorInv, WindowInv

(* The time of a sample that was rejected stays.                           *)
LEMMA StepRejectedStep ==
  ASSUME EstimatorInv, StepRejected
  PROVE  EstimatorInv'
<1>1. phase = "ready" /\ clean' = FALSE /\ UNCHANGED <<phase, caller, conf, weights, model>>
  BY DEF StepRejected, CanStep
<1>2. ModelInv'
  BY <1>1 DEF EstimatorInv, ModelInv, model
<1> QED
  BY <1>1, <1>2, FailedStep

(* A step that fails late has used the compiled parameters.                *)
LEMMA StepFailsStep ==
  ASSUME EstimatorInv, StepFails
  PROVE  EstimatorInv' /\ (lin' # lin => marked <= compiled')
<1>1. PICK us \in InputLists, ys \in MeasLists :
        /\ CanStep /\ Slide(AppendNewData(us, ys)) /\ clean' = FALSE
        /\ UNCHANGED <<phase, caller, conf, next_time_index, weights, params, marked>>
  BY DEF StepFails
<1>2. /\ compiled' = CompiledNow /\ dirty' = (dirty /\ ~Sliding)
      /\ lin' # lin => Sliding
  BY <1>1 DEF Slide
<1>3. ModelInv' /\ (Sliding => marked <= compiled')
  BY <1>1, <1>2, CompiledInTime DEF EstimatorInv
<1>4. phase = "ready"
  BY <1>1 DEF CanStep
<1> QED
  BY <1>1, <1>2, <1>3, <1>4, FailedStep

(* A name of a list without repetitions is found at its place.             *)
LEMMA PlaceOf ==
  ASSUME NEW S, NEW list \in Seq(S), IsInjective(list), NEW r \in DOMAIN list
  PROVE  (CHOOSE k \in DOMAIN list : list[k] = list[r]) = r
<1>1. \A k \in DOMAIN list : list[k] = list[r] => k = r
  BY DEF IsInjective
<1> QED
  BY <1>1

(* Each input and each measurement has the row of its place.               *)
LEMMA RowsInOrder ==
  ASSUME NEW c, NamesRight(c)
  PROVE  /\ \A r \in DOMAIN c.opts.input_names : RowMap(c)[c.opts.input_names[r]] = r
         /\ \A r \in DOMAIN c.measured : RowMap(c)[c.measured[r]] = r
<1> DEFINE ins == c.opts.input_names
           meas == c.measured
           row(list, n) == CHOOSE k \in DOMAIN list : list[k] = n
<1>1. RowMap(c) = [n \in ToSet(ins) \cup ToSet(meas) |-> IF n \in ToSet(meas) THEN row(meas, n) ELSE row(ins, n)]
  BY DEF RowMap
<1>2. /\ ins \in Seq(STRING) /\ IsInjective(ins) /\ meas \in Seq(STRING) /\ IsInjective(meas)
      /\ ToSet(ins) \cap ToSet(meas) = {}
  BY ModelAssumption DEF NamesRight
<1>3. \A r \in DOMAIN ins : row(ins, ins[r]) = r
  BY <1>2, PlaceOf
<1>4. \A r \in DOMAIN meas : row(meas, meas[r]) = r
  BY <1>2, PlaceOf
<1>5. (\A r \in DOMAIN ins : ins[r] \in ToSet(ins)) /\ \A r \in DOMAIN meas : meas[r] \in ToSet(meas)
  BY DEF ToSet
<1> HIDE DEF row, ins, meas
<1>6. \A r \in DOMAIN ins : RowMap(c)[ins[r]] = r
  BY <1>1, <1>2, <1>3, <1>5
<1>7. \A r \in DOMAIN meas : RowMap(c)[meas[r]] = r
  BY <1>1, <1>2, <1>4, <1>5
<1> QED
  BY <1>6, <1>7 DEF ins, meas

(* A column for the right names has each at its place, whatever order they *)
(* were given in.                                                          *)
LEMMA ColumnFilled ==
  ASSUME NEW list, NEW names \in Seq(STRING), NEW k, ToSet(Replaced(list)) = ToSet(names),
         \A r \in DOMAIN names : conf.rows[names[r]] = r
  PROVE  Column(list, Len(names), k) = [at |-> k, rows |-> names]
<1> DEFINE at(r) == {n \in ToSet(names) : conf.rows[n] = r}
<1>1. DOMAIN names = 1 .. Len(names)
  OBVIOUS
<1>2. ASSUME NEW r \in 1 .. Len(names)
      PROVE  at(r) = {names[r]}
  BY <1>1 DEF ToSet
<1>3. \A r \in 1 .. Len(names) : (IF at(r) = {} THEN "zero" ELSE CHOOSE n \in at(r) : TRUE) = names[r]
  <2> HIDE DEF at
  <2> QED
    BY <1>2
<1>4. Column(list, Len(names), k) =
        [at |-> k, rows |-> [r \in 1 .. Len(names) |-> IF at(r) = {} THEN "zero" ELSE CHOOSE n \in at(r) : TRUE]]
  BY DEF Column
<1>5. names = [r \in 1 .. Len(names) |-> names[r]]
  OBVIOUS
<1> HIDE DEF at
<1>6. [r \in 1 .. Len(names) |-> IF at(r) = {} THEN "zero" ELSE CHOOSE n \in at(r) : TRUE] = names
  BY <1>3, <1>5
<1> QED
  BY <1>4, <1>6

\* A column for each of the first n times, with the names in their rows.
ColumnsAt(times, names, n) == [j \in 1 .. n |-> [at |-> times[j], rows |-> names]]

(* One more column.                                                        *)
LEMMA ColumnsGrow ==
  ASSUME NEW times \in Seq(Nat), NEW n \in Nat, n >= 1, NEW names
  PROVE  Append(ColumnsAt(times, names, n - 1), [at |-> times[n], rows |-> names]) = ColumnsAt(times, names, n)
<1> DEFINE C == ColumnsAt(times, names, n - 1)
           S == {[at |-> a, rows |-> names] : a \in {times[j] : j \in 1 .. n}}
<1>1. C = [j \in 1 .. n - 1 |-> [at |-> times[j], rows |-> names]] /\ n - 1 \in Nat
  BY DEF ColumnsAt
<1>2. \A j \in 1 .. n : [at |-> times[j], rows |-> names] \in S
  OBVIOUS
<1> HIDE DEF S, C
<1>3. C \in Seq(S) /\ Len(C) = n - 1
  BY <1>1, <1>2
<1> DEFINE c == [at |-> times[n], rows |-> names]
<1>4. c \in S
  BY <1>2
<1>5. \A j \in 1 .. n - 1 : C[j] = [at |-> times[j], rows |-> names]
  BY <1>1
<1> DEFINE D == Append(C, c)
<1>6. D \in Seq(S) /\ Len(D) = n /\ D[n] = c /\ \A j \in 1 .. n - 1 : D[j] = C[j]
  <2> HIDE DEF c
  <2> QED
    BY <1>3, <1>4
<1> HIDE DEF D
<1>7. D = [j \in 1 .. n |-> D[j]]
  BY <1>6
<1>8. ASSUME NEW j \in 1 .. n
      PROVE  D[j] = [at |-> times[j], rows |-> names]
  <2>1. CASE j = n
    BY <1>6, <2>1
  <2>2. CASE j # n
    <3>1. j \in 1 .. n - 1
      BY <2>2
    <3> QED
      BY <1>5, <1>6, <3>1
  <2> QED
    BY <2>1, <2>2
<1>9. D = ColumnsAt(times, names, n)
  BY <1>7, <1>8 DEF ColumnsAt
<1> QED
  BY <1>9 DEF D, C

(* The window slides by one column.                                        *)
LEMMA ColumnsSlide ==
  ASSUME NEW times \in Seq(Nat), Len(times) >= 1, NEW n \in Nat, n >= 1, n <= Len(times), NEW names
  PROVE  Tail(ColumnsAt(times, names, n)) = ColumnsAt(Tail(times), names, n - 1)
<1> DEFINE C == ColumnsAt(times, names, n)
           S == {[at |-> a, rows |-> names] : a \in {times[j] : j \in 1 .. n}}
<1>1. C = [j \in 1 .. n |-> [at |-> times[j], rows |-> names]]
  BY DEF ColumnsAt
<1>2. \A j \in 1 .. n : [at |-> times[j], rows |-> names] \in S
  OBVIOUS
<1> HIDE DEF S, C
<1>3. C \in Seq(S) /\ Len(C) = n
  BY <1>1, <1>2
<1> DEFINE D == Tail(C)
<1>4. D \in Seq(S) /\ Len(D) = n - 1 /\ \A j \in 1 .. n - 1 : D[j] = C[j + 1]
  BY <1>3
<1>5. \A j \in 1 .. n - 1 : Tail(times)[j] = times[j + 1]
  OBVIOUS
<1> HIDE DEF D
<1>6. D = [j \in 1 .. n - 1 |-> D[j]]
  BY <1>4
<1>7. ASSUME NEW j \in 1 .. n - 1
      PROVE  D[j] = [at |-> Tail(times)[j], rows |-> names]
  <2>1. j + 1 \in 1 .. n
    OBVIOUS
  <2>2. C[j + 1] = [at |-> times[j + 1], rows |-> names]
    BY <1>1, <2>1
  <2> QED
    BY <1>4, <1>5, <2>2
<1>8. D = ColumnsAt(Tail(times), names, n - 1)
  BY <1>6, <1>7 DEF ColumnsAt
<1> QED
  BY <1>8 DEF D, C

(* Rows and times move on in the same way.                                 *)
LEMMA TailOfAppend ==
  ASSUME NEW s \in Seq(Nat), Len(s) >= 1, NEW e \in Nat
  PROVE  /\ Append(s, e) \in Seq(Nat) /\ Len(Append(s, e)) = Len(s) + 1
         /\ \A j \in 1 .. Len(s) : Append(s, e)[j] = s[j]
         /\ Append(s, e)[Len(s) + 1] = e
         /\ Tail(Append(s, e)) \in Seq(Nat) /\ Len(Tail(Append(s, e))) = Len(s)
         /\ \A j \in 1 .. Len(s) : Tail(Append(s, e))[j] = Append(s, e)[j + 1]
         /\ Tail(Append(s, e)) = Append(Tail(s), e)
         /\ Len(s) >= 2 => Tail(s)[1] = s[2] /\ Tail(s) \in Seq(Nat) /\ Len(Tail(s)) = Len(s) - 1
<1> DEFINE a == Append(s, e)
<1>1. /\ a \in Seq(Nat) /\ Len(a) = Len(s) + 1 /\ a[Len(s) + 1] = e
      /\ \A j \in 1 .. Len(s) : a[j] = s[j]
  OBVIOUS
<1> HIDE DEF a
<1>2. /\ Tail(a) \in Seq(Nat) /\ Len(Tail(a)) = Len(s)
      /\ \A j \in 1 .. Len(s) : Tail(a)[j] = a[j + 1]
  BY <1>1
<1>3. Tail(s) \in Seq(Nat) /\ Len(Tail(s)) = Len(s) - 1 /\ \A j \in 1 .. Len(s) - 1 : Tail(s)[j] = s[j + 1]
  OBVIOUS
<1> DEFINE b == Append(Tail(s), e)
<1>4. b \in Seq(Nat) /\ Len(b) = Len(s) /\ b[Len(s)] = e /\ \A j \in 1 .. Len(s) - 1 : b[j] = Tail(s)[j]
  BY <1>3
<1> HIDE DEF b
<1>5. ASSUME NEW j \in 1 .. Len(s)
      PROVE  Tail(a)[j] = b[j]
  <2>1. CASE j = Len(s)
    BY <1>1, <1>2, <1>4, <2>1
  <2>2. CASE j # Len(s)
    <3>1. j \in 1 .. Len(s) - 1 /\ j + 1 \in 1 .. Len(s)
      BY <2>2
    <3> QED
      BY <1>1, <1>2, <1>3, <1>4, <3>1
  <2> QED
    BY <2>1, <2>2
<1>6. Tail(a) = b
  <2> DEFINE t == Tail(a)
  <2>1. t \in Seq(Nat) /\ Len(t) = Len(b) /\ \A j \in 1 .. Len(b) : t[j] = b[j]
    BY <1>2, <1>4, <1>5
  <2> HIDE DEF t
  <2>2. t = [j \in 1 .. Len(b) |-> t[j]] /\ b = [j \in 1 .. Len(b) |-> b[j]]
    BY <1>4, <2>1
  <2>3. t = b
    BY <2>1, <2>2
  <2> QED
    BY <2>3 DEF t
<1> QED
  BY <1>1, <1>2, <1>3, <1>6 DEF a, b

(* The values of a sample are appended in the rows of their names.         *)
LEMMA SampleAppended ==
  ASSUME EstimatorInv, clean, phase = "ready", NEW us, NEW ys, RightNames(us, ys)
  PROVE  /\ AppendNewData(us, ys).u = ColumnsAt(time_vector, conf.opts.input_names, Len(time_vector))
         /\ AppendNewData(us, ys).y = ColumnsAt(time_vector, conf.measured, Len(time_vector))
<1> DEFINE ins == conf.opts.input_names
           meas == conf.measured
           n == Len(time_vector)
<1>1. /\ NamesRight(conf) /\ conf.rows = RowMap(conf)
      /\ next_time_index \in Nat /\ time_vector \in Seq(Nat) /\ n \in 1 .. next_time_index
      /\ \A j \in 1 .. n : time_vector[j] = next_time_index - n + j - 1
      /\ u = Columns(ins) /\ y = Columns(meas)
  BY DEF EstimatorInv, ConfInv, WindowInv, TimesInv, ColumnsInv
<1>2. ins \in Seq(STRING) /\ meas \in Seq(STRING)
  BY <1>1 DEF NamesRight
<1>3. time_vector[n] = next_time_index - 1 /\ n \in Nat /\ n >= 1
  BY <1>1
<1>4. Column(us, Len(ins), next_time_index - 1) = [at |-> time_vector[n], rows |-> ins]
  <2>1. ToSet(Replaced(us)) = ToSet(ins)
    BY DEF RightNames
  <2>2. \A r \in DOMAIN ins : conf.rows[ins[r]] = r
    BY <1>1, RowsInOrder
  <2> HIDE DEF ins, n
  <2> QED
    BY <1>2, <1>3, <2>1, <2>2, ColumnFilled
<1>5. Column(ys, Len(meas), next_time_index - 1) = [at |-> time_vector[n], rows |-> meas]
  <2>1. ToSet(Replaced(ys)) = ToSet(meas)
    BY DEF RightNames
  <2>2. \A r \in DOMAIN meas : conf.rows[meas[r]] = r
    BY <1>1, RowsInOrder
  <2> HIDE DEF meas, n
  <2> QED
    BY <1>2, <1>3, <2>1, <2>2, ColumnFilled
<1> DEFINE uk == [at |-> time_vector[n], rows |-> ins]
           yk == [at |-> time_vector[n], rows |-> meas]
<1>6. AppendNewData(us, ys) = IF next_time_index = 1 THEN [u |-> <<uk>>, y |-> <<yk>>]
                              ELSE [u |-> Append(u, uk), y |-> Append(y, yk)]
  BY <1>4, <1>5 DEF AppendNewData
<1>7. u = ColumnsAt(time_vector, ins, n - 1) /\ y = ColumnsAt(time_vector, meas, n - 1)
  BY <1>1 DEF Columns, ColumnsAt
<1>8. Append(u, uk) = ColumnsAt(time_vector, ins, n) /\ Append(y, yk) = ColumnsAt(time_vector, meas, n)
  BY <1>1, <1>3, <1>7, ColumnsGrow
<1>9. ASSUME next_time_index = 1
      PROVE  <<uk>> = ColumnsAt(time_vector, ins, n) /\ <<yk>> = ColumnsAt(time_vector, meas, n)
  <2>1. n = 1
    BY <1>1, <1>9
  <2> HIDE DEF ins, meas, n
  <2> QED
    BY <2>1 DEF ColumnsAt
<1> HIDE DEF ins, meas, n, uk, yk
<1>10. CASE next_time_index = 1
  <2>1. AppendNewData(us, ys) = [u |-> <<uk>>, y |-> <<yk>>]
    BY <1>6, <1>10
  <2> QED
    BY <1>9, <1>10, <2>1 DEF ins, meas, n
<1>11. CASE next_time_index # 1
  <2>1. AppendNewData(us, ys) = [u |-> Append(u, uk), y |-> Append(y, yk)]
    BY <1>6, <1>11
  <2> QED
    BY <1>8, <2>1 DEF ins, meas, n
<1> QED
  BY <1>10, <1>11

(* The window moves on by one sample, with everything that is in it.       *)
LEMMA WindowMoves ==
  ASSUME EstimatorInv, clean, phase = "ready", NEW us, NEW ys, RightNames(us, ys),
         Sliding => Len(est.x) > 1,
         Slide(AppendNewData(us, ys)), data' = CreateExternalData(time_vector', u', y'),
         est' = AppendResults(Slid), next_time_index' = next_time_index + 1,
         UNCHANGED <<phase, conf>>
  PROVE  WindowInv'
<1> DEFINE n == Len(time_vector)
           longer == Append(time_vector, next_time_index)
           d == AppendNewData(us, ys)
           ins == conf.opts.input_names
           meas == conf.measured
<1>1. /\ next_time_index \in Nat /\ time_vector \in Seq(Nat) /\ n \in 1 .. next_time_index
      /\ \A j \in 1 .. n : time_vector[j] = next_time_index - n + j - 1
      /\ est = [x |-> time_vector, dx |-> time_vector, c |-> time_vector]
      /\ P = time_vector[1] /\ guess = time_vector[1]
      /\ arrival = [e \in ToSet(States) \X ToSet(States) |-> time_vector[1]]
  BY DEF EstimatorInv, WindowInv, TimesInv, ArrivalInv
<1>2. /\ longer \in Seq(Nat) /\ Len(longer) = n + 1
      /\ \A j \in 1 .. n : longer[j] = time_vector[j]
      /\ longer[n + 1] = next_time_index
      /\ Tail(longer) \in Seq(Nat) /\ Len(Tail(longer)) = n
      /\ \A j \in 1 .. n : Tail(longer)[j] = longer[j + 1]
      /\ Tail(longer) = Append(Tail(time_vector), next_time_index)
      /\ n >= 2 => Tail(time_vector)[1] = time_vector[2]
  <2>1. n >= 1
    BY <1>1
  <2> QED
    BY <1>1, <2>1, TailOfAppend
<1>3. d.u = ColumnsAt(time_vector, ins, n) /\ d.y = ColumnsAt(time_vector, meas, n)
  BY SampleAppended
<1>4. /\ Sliding => /\ lin' = LinearizationPoint(d) /\ P' = NextP /\ arrival' = [e \in DOMAIN arrival |-> NextP]
                    /\ time_vector' = Tail(longer) /\ u' = Tail(d.u) /\ y' = Tail(d.y)
                    /\ guess' = Tails(est).x[1]
      /\ ~ Sliding => /\ time_vector' = longer /\ u' = d.u /\ y' = d.y
                      /\ UNCHANGED <<lin, P, arrival, guess>>
  BY DEF Slide
<1>5. Sliding => n >= 2
  BY <1>1
<1>6. \A j \in 1 .. n + 1 : longer[j] = next_time_index - n + j - 1
  <2> SUFFICES ASSUME NEW j \in 1 .. n + 1
               PROVE  longer[j] = next_time_index - n + j - 1
    OBVIOUS
  <2>1. CASE j = n + 1
    BY <1>1, <1>2, <2>1
  <2>2. CASE j \in 1 .. n
    BY <1>1, <1>2, <2>2
  <2> QED
    BY <1>1, <2>1, <2>2
<1>7. n \in Nat /\ n >= 1 /\ next_time_index \in Nat /\ n <= next_time_index
  BY <1>1
<1> HIDE DEF longer, d, n
<1>8. /\ time_vector' \in Seq(Nat) /\ Len(time_vector') \in 2 .. next_time_index + 1
      /\ \A j \in 1 .. Len(time_vector') : time_vector'[j] = next_time_index + 1 - Len(time_vector') + j - 1
  <2>1. CASE Sliding
    <3>1. time_vector' = Tail(longer) /\ Len(Tail(longer)) = n
      BY <1>2, <1>4, <2>1
    <3>2. \A j \in 1 .. n : Tail(longer)[j] = next_time_index + 1 - n + j - 1
      <4> SUFFICES ASSUME NEW j \in 1 .. n
                   PROVE  Tail(longer)[j] = next_time_index + 1 - n + j - 1
        OBVIOUS
      <4>1. j + 1 \in 1 .. n + 1 /\ Tail(longer)[j] = longer[j + 1]
        BY <1>2, <1>7
      <4>2. longer[j + 1] = next_time_index - n + (j + 1) - 1
        BY <1>6, <4>1
      <4>3. next_time_index - n + (j + 1) - 1 = next_time_index + 1 - n + j - 1
        BY <1>7
      <4> QED
        BY <4>1, <4>2, <4>3
    <3>3. n \in 2 .. next_time_index + 1
      BY <1>5, <1>7, <2>1
    <3> QED
      BY <1>2, <3>1, <3>2, <3>3
  <2>2. CASE ~ Sliding
    <3>1. time_vector' = longer /\ Len(longer) = n + 1
      BY <1>2, <1>4, <2>2
    <3>2. \A j \in 1 .. n + 1 : next_time_index - n + j - 1 = next_time_index + 1 - (n + 1) + j - 1
      BY <1>7
    <3>3. n + 1 \in 2 .. next_time_index + 1
      BY <1>7
    <3>4. \A j \in 1 .. n + 1 : longer[j] = next_time_index + 1 - (n + 1) + j - 1
      BY <1>6, <3>2
    <3> QED
      BY <1>2, <3>1, <3>3, <3>4
  <2> QED
    BY <2>1, <2>2
<1>9. est' = [x |-> time_vector', dx |-> time_vector', c |-> time_vector']
  <2>1. CASE Sliding
    <3>1. /\ Slid = [x |-> Tail(time_vector), dx |-> Tail(time_vector), c |-> Tail(time_vector)]
      BY <1>1, <2>1 DEF Slid, Tails
    <3>2. time_vector' = Append(Tail(time_vector), next_time_index)
      BY <1>2, <1>4, <2>1
    <3> QED
      BY <3>1, <3>2 DEF AppendResults
  <2>2. CASE ~ Sliding
    <3>1. Slid = est
      BY <2>2 DEF Slid
    <3>2. time_vector' = Append(time_vector, next_time_index)
      BY <1>4, <2>2 DEF longer
    <3> QED
      BY <1>1, <3>1, <3>2 DEF AppendResults
  <2> QED
    BY <2>1, <2>2
<1>10. TimesInv'
  BY <1>1, <1>8, <1>9 DEF TimesInv
<1>11. /\ u' = ColumnsAt(time_vector', ins, Len(time_vector') - 1)
       /\ y' = ColumnsAt(time_vector', meas, Len(time_vector') - 1)
  <2>1. ASSUME NEW names
        PROVE  ColumnsAt(time_vector, names, n) = ColumnsAt(longer, names, n)
    BY <1>2 DEF ColumnsAt
  <2>2. CASE ~ Sliding
    <3>1. time_vector' = longer /\ Len(time_vector') - 1 = n
      BY <1>2, <1>4, <1>7, <2>2
    <3> QED
      BY <1>3, <1>4, <2>1, <2>2, <3>1
  <2>3. CASE Sliding
    <3>1. time_vector' = Tail(longer) /\ Len(time_vector') = n
      BY <1>2, <1>4, <2>3
    <3>2. ASSUME NEW names
          PROVE  Tail(ColumnsAt(longer, names, n)) = ColumnsAt(Tail(longer), names, n - 1)
      <4>1. Len(longer) >= 1 /\ n <= Len(longer)
        BY <1>2, <1>7
      <4> QED
        BY <1>2, <1>7, <4>1, ColumnsSlide
    <3>3. Tail(d.u) = Tail(ColumnsAt(longer, ins, n)) /\ Tail(d.y) = Tail(ColumnsAt(longer, meas, n))
      BY <1>3, <2>1
    <3> QED
      BY <1>4, <2>3, <3>1, <3>2, <3>3
  <2> QED
    BY <2>2, <2>3
<1>12. ColumnsInv'
  BY <1>11 DEF ColumnsInv, Columns, ColumnsAt
<1>13. /\ Sliding => time_vector'[1] = time_vector[1] + 1
       /\ ~ Sliding => time_vector'[1] = time_vector[1]
  <2>1. time_vector[1] = next_time_index - n
    BY <1>1, <1>7 DEF n
  <2>2. Sliding => Len(time_vector') = n
    BY <1>2, <1>4
  <2>3. ~ Sliding => Len(time_vector') = n + 1
    BY <1>2, <1>4
  <2>4. 1 \in 1 .. Len(time_vector')
    BY <1>7, <1>8
  <2>5. time_vector'[1] = next_time_index + 1 - Len(time_vector') + 1 - 1
    BY <1>8, <2>4
  <2>6. /\ next_time_index + 1 - n + 1 - 1 = (next_time_index - n) + 1
        /\ next_time_index + 1 - (n + 1) + 1 - 1 = next_time_index - n
    BY <1>7
  <2> QED
    BY <2>1, <2>2, <2>3, <2>5, <2>6
<1>14. ArrivalInv'
  <2>1. CASE Sliding
    <3>1. P' = time_vector'[1] /\ arrival' = [e \in ToSet(States) \X ToSet(States) |-> time_vector'[1]]
      BY <1>1, <1>4, <1>13, <2>1 DEF NextP
    <3>2. guess' = Tail(time_vector)[1]
      BY <1>1, <1>4, <2>1 DEF Tails
    <3>3. Tail(time_vector)[1] = time_vector[2]
      BY <1>2, <1>5, <2>1
    <3>4. time_vector[2] = next_time_index - n + 1 /\ time_vector[1] = next_time_index - n
      BY <1>1, <1>5, <1>7, <2>1 DEF n
    <3>5. guess' = time_vector'[1]
      BY <1>1, <1>7, <1>13, <2>1, <3>2, <3>3, <3>4
    <3> QED
      BY <3>1, <3>5 DEF ArrivalInv
  <2>2. CASE ~ Sliding
    BY <1>1, <1>4, <1>13, <2>2 DEF ArrivalInv
  <2> QED
    BY <2>1, <2>2
<1>15. FilterInv'
  <2>1. /\ ZeroNoise(conf)' = ZeroNoise(conf) /\ NoiseColumns(conf)' = NoiseColumns(conf)
        /\ MeasurementRows(conf)' = MeasurementRows(conf)
    BY DEF ZeroNoise, NoiseColumns, NameMap, AllInputs, MeasurementRows
  <2>2. CASE Sliding
    <3>1. lin' = LinearizationPoint(d)
      BY <1>4, <2>2
    <3>2. d.u[1].at = time_vector[1]
      BY <1>3, <1>7 DEF ColumnsAt
    <3>3. \A f \in {"t", "x", "dx", "c", "u", "P"} : lin'[f] = time_vector[1]
      BY <1>1, <3>1, <3>2 DEF LinearizationPoint
    <3>4. /\ lin'.inputs = ins \o conf.undefined \o ZeroNoise(conf)
          /\ lin'.G = NoiseColumns(conf) /\ lin'.C = MeasurementRows(conf)
      BY <3>1 DEF LinearizationPoint
    <3>5. time_vector[1] = time_vector'[1] - 1
      BY <1>1, <1>7, <1>13, <2>2 DEF n
    <3> QED
      BY <2>1, <3>3, <3>4, <3>5 DEF FilterInv
  <2>3. CASE ~ Sliding
    <3>1. lin' = lin /\ time_vector'[1] = time_vector[1]
      BY <1>4, <1>13, <2>3
    <3>2. FilterInv
      BY DEF EstimatorInv, WindowInv
    <3> QED
      BY <2>1, <3>1, <3>2 DEF FilterInv
  <2> QED
    BY <2>2, <2>3
<1>16. DataInv'
  <2>1. Len(time_vector') > 1
    BY <1>1, <1>8
  <2>2. CreateExternalData(time_vector, u, y)' = CreateExternalData(time_vector', u', y')
    BY DEF CreateExternalData, InputVars
  <2> QED
    BY <2>1, <2>2 DEF DataInv
<1> QED
  BY <1>10, <1>12, <1>14, <1>15, <1>16 DEF WindowInv

(* A step that succeeds.                                                   *)
LEMMA StepStep ==
  ASSUME EstimatorInv, Step
  PROVE  EstimatorInv' /\ (lin' # lin => marked <= compiled')
<1>1. PICK us \in InputLists, ys \in MeasLists :
        /\ CanStep
        /\ Sliding => Len(est.x) > 1
        /\ Slide(AppendNewData(us, ys)) /\ data' = CreateExternalData(time_vector', u', y')
        /\ est' = AppendResults(Slid) /\ next_time_index' = next_time_index + 1
        /\ clean' = (clean /\ RightNames(us, ys))
        /\ UNCHANGED <<phase, caller, conf, weights, params, marked>>
  BY DEF Step
<1>2. /\ compiled' = CompiledNow /\ dirty' = (dirty /\ ~Sliding)
      /\ lin' # lin => Sliding
  BY <1>1 DEF Slide
<1>3. ModelInv' /\ (Sliding => marked <= compiled')
  BY <1>1, <1>2, CompiledInTime DEF EstimatorInv
<1>4. phase = "ready"
  BY <1>1 DEF CanStep
<1>5. CASE clean /\ RightNames(us, ys)
  <2>1. WindowInv'
    BY <1>1, <1>4, <1>5, WindowMoves
  <2>2. CallerInv' /\ NewInv' /\ WeightsInv'
    BY <1>1, <1>4 DEF EstimatorInv, CallerInv, NewInv, WeightsInv
  <2>3. ConfInv'
    BY <1>1, <1>5, ConfKept DEF EstimatorInv
  <2>4. SameWeights'
    BY <1>1, <1>4, <1>5 DEF EstimatorInv, SameWeights
  <2> QED
    BY <1>1, <1>2, <1>3, <1>4, <2>1, <2>2, <2>3, <2>4 DEF EstimatorInv
<1>6. CASE ~ (clean /\ RightNames(us, ys))
  <2>1. clean' = FALSE
    BY <1>1, <1>6
  <2> QED
    BY <1>1, <1>2, <1>3, <1>4, <2>1, FailedStep
<1> QED
  BY <1>5, <1>6

---------------------------------------------------------------------------
(* The invariant holds in every state the estimator can be in.             *)
LEMMA NextKeeps ==
  ASSUME EstimatorInv, [Next]_vars
  PROVE  EstimatorInv' /\ (lin' # lin => marked <= compiled')
<1>1. CASE OptimizeForInitialValues
  BY <1>1, OptimizeStep DEF OptimizeForInitialValues, window
<1>2. CASE Create
  BY <1>2, CreateStep DEF Create
<1>3. CASE CreateRejected
  BY <1>3, CreateRejectedStep DEF CreateRejected, window
<1>4. CASE StepRejected
  BY <1>4, StepRejectedStep DEF StepRejected
<1>5. CASE StepFails
  BY <1>5, StepFailsStep
<1>6. CASE Step
  BY <1>6, StepStep
<1>7. CASE SetCovariance("Q") \/ SetCovariance("R")
  <2>1. PICK kind \in Kinds : SetCovariance(kind)
    BY <1>7 DEF Kinds
  <2>2. lin' = lin
    BY <2>1 DEF SetCovariance, window
  <2> QED
    BY <2>1, <2>2, SetCovarianceStep
<1>8. CASE SetModelParameter
  BY <1>8, SetModelParameterStep DEF SetModelParameter, window
<1>9. CASE SetDirty
  BY <1>9, SetDirtyStep DEF SetDirty, window
<1>10. CASE UNCHANGED vars
  <2>1. UNCHANGED <<phase, caller, conf, window, weights, model, clean>> /\ lin' = lin
    BY <1>10 DEF vars, window, model
  <2>2. CallerInv' /\ ModelInv'
    BY <2>1 DEF EstimatorInv, CallerInv, ModelInv, model
  <2> QED
    BY <2>1, <2>2, RestKept
<1> QED
  BY <1>1, <1>2, <1>3, <1>4, <1>5, <1>6, <1>7, <1>8, <1>9, <1>10 DEF Next

(* In every state the estimator can be in, the samples in its window follow*)
(* each other and everything in it is of them, and its names are in rows of*)
(* their own (MHE.step and _remove_old_data).                              *)
THEOREM EstimatorInvariant == Spec => []EstimatorInv
<1>1. Init => EstimatorInv
  BY InitInv
<1>2. EstimatorInv /\ [Next]_vars => EstimatorInv'
  BY NextKeeps
<1> QED
  BY <1>1, <1>2, PTL DEF Spec

(* The filter never linearizes with parameters that the user marked as     *)
(* outdated before, whatever was done in between (set_dirty, and           *)
(* update_jacobian_functions as the window slides).                        *)
THEOREM LinearizesRight == Spec => LinearizesFresh
<1>1. EstimatorInv /\ [Next]_vars => [lin' # lin => compiled' >= marked]_vars
  <2> SUFFICES ASSUME EstimatorInv, [Next]_vars
               PROVE  lin' # lin => compiled' >= marked
    OBVIOUS
  <2>1. lin' # lin => marked <= compiled'
    BY NextKeeps
  <2> QED
    BY <2>1
<1> QED
  BY <1>1, EstimatorInvariant, PTL DEF Spec, LinearizesFresh

(* As long as no call failed, the cost and the filter weigh the noises     *)
(* alike, whatever covariances were set                                    *)
(* (set_process_noise_covariance_matrix).                                  *)
THEOREM WeighsAlike == Spec => []SameWeights
<1>1. EstimatorInv => SameWeights
  BY DEF EstimatorInv
<1> QED
  BY <1>1, EstimatorInvariant, PTL

---------------------------------------------------------------------------
(* Each start value is compared with the guess of the same state.          *)
LEMMA TermsMatch == \A pair \in ArrivalTerms : pair[1] = pair[2]
<1>1. ASSUME NEW k \in DOMAIN States
      PROVE  ModelName(InitialValues[k]) = States[k]
  <2>1. \E p \in ToSet(StartParameters) : ModelName(p) = States[k]
    BY StartAssumption DEF ToSet
  <2>2. InitialValues[k] = CHOOSE p \in ToSet(StartParameters) : ModelName(p) = States[k]
    BY DEF InitialValues
  <2> QED
    BY <2>1, <2>2
<1> QED
  BY <1>1 DEF ArrivalTerms

(* As long as no call failed, the arrival cost describes the sample the    *)
(* window begins with, however far it has moved (_remove_old_data and      *)
(* EKF.update).                                                            *)
THEOREM ArrivalAtFirst == Spec => []ArrivalCost
<1>1. EstimatorInv => ArrivalCost
  <2> SUFFICES ASSUME EstimatorInv, clean, phase = "ready"
               PROVE  LET first == time_vector[1]
                      IN /\ P = first /\ guess = first
                         /\ est.x[1] = first /\ est.dx[1] = first /\ est.c[1] = first
                         /\ DOMAIN arrival = ToSet(States) \X ToSet(States)
                         /\ \A e \in DOMAIN arrival : arrival[e] = first
                         /\ \A pair \in ArrivalTerms : pair[1] = pair[2]
                         /\ lin # None => \A at \in {lin.t, lin.x, lin.dx, lin.c, lin.u, lin.P} : at = first - 1
    BY DEF ArrivalCost
  <2>1. est = [x |-> time_vector, dx |-> time_vector, c |-> time_vector]
    BY DEF EstimatorInv, WindowInv, TimesInv
  <2>2. /\ P = time_vector[1] /\ guess = time_vector[1]
        /\ arrival = [e \in ToSet(States) \X ToSet(States) |-> time_vector[1]]
    BY DEF EstimatorInv, WindowInv, ArrivalInv
  <2>3. lin # None => \A at \in {lin.t, lin.x, lin.dx, lin.c, lin.u, lin.P} : at = time_vector[1] - 1
    BY DEF EstimatorInv, WindowInv, FilterInv
  <2> QED
    BY <2>1, <2>2, <2>3, TermsMatch
<1> QED
  BY <1>1, EstimatorInvariant, PTL

(* Up to the repeated one, the columns of the external data are those of   *)
(* the window.                                                             *)
LEMMA RowRight ==
  ASSUME NEW times \in Seq(Nat), NEW n \in Nat, n >= 1, NEW names, NEW i, NEW j \in 1 .. n
  PROVE  LET cell == Row(Extended(ColumnsAt(times, names, n)), i)[j]
         IN cell.at = times[j] /\ cell.name = names[i]
<1> DEFINE C == ColumnsAt(times, names, n)
           S == {[at |-> a, rows |-> names] : a \in {times[k] : k \in 1 .. n}}
<1>1. C = [k \in 1 .. n |-> [at |-> times[k], rows |-> names]]
  BY DEF ColumnsAt
<1>2. \A k \in 1 .. n : [at |-> times[k], rows |-> names] \in S
  OBVIOUS
<1> HIDE DEF S, C
<1>3. C \in Seq(S) /\ Len(C) = n
  BY <1>1, <1>2
<1>4. C[n] \in S
  BY <1>3
<1> DEFINE D == Append(C, C[n])
<1>5. D \in Seq(S) /\ Len(D) = n + 1 /\ \A k \in 1 .. n : D[k] = C[k]
  BY <1>3, <1>4
<1>6. Extended(C) = D
  BY <1>3 DEF Extended
<1> HIDE DEF D
<1>7. j \in DOMAIN D /\ D[j] = [at |-> times[j], rows |-> names]
  BY <1>1, <1>5
<1>8. Row(D, i)[j] = [at |-> D[j].at, name |-> D[j].rows[i]]
  BY <1>7 DEF Row
<1> QED
  BY <1>6, <1>7, <1>8 DEF C

(* Every noise is in the cost once, and every measurement but the repeated *)
(* one.                                                                    *)
LEMMA TermsCounted ==
  ASSUME NEW n \in Nat, n > 1, NEW j \in 1 .. n
  PROVE  NoiseTerms(n)[j] = 1 /\ MeasurementTerms(n)[j] = IF j < n THEN 1 ELSE 0
<1>1. /\ IntegrandTerms(n)[j] = IF j > 1 THEN 1 ELSE 0
      /\ StartTerms(n)[j] = IF j = 1 THEN 1 ELSE 0
  BY DEF IntegrandTerms, StartTerms
<1>2. Mask(n - 1)[j] = IF j <= n - 1 THEN 1 ELSE 0
  <2>1. j \in 1 .. (n - 1) + 1
    OBVIOUS
  <2> QED
    BY <2>1 DEF Mask, OnesUpTo
<1>3. /\ NoiseTerms(n)[j] = IntegrandTerms(n)[j] + StartTerms(n)[j]
      /\ MeasurementTerms(n)[j] = IntegrandTerms(n)[j] * Mask(n - 1)[j] + StartTerms(n)[j]
  BY DEF NoiseTerms, MeasurementTerms
<1>4. CASE j = 1
  BY <1>1, <1>2, <1>3, <1>4
<1>5. CASE j > 1 /\ j < n
  BY <1>1, <1>2, <1>3, <1>5
<1>6. CASE j = n
  BY <1>1, <1>2, <1>3, <1>6
<1> QED
  BY <1>4, <1>5, <1>6

(* The external data are the window's.                                     *)
LEMMA DataRight == EstimatorInv => RightData
<1> DEFINE n == Len(time_vector)
           ins == conf.opts.input_names
           meas == conf.measured
<1> SUFFICES ASSUME EstimatorInv, clean, data # None
             PROVE  LET m == Len(data.times)
                    IN /\ m > 1 /\ data.times = [j \in 1 .. m |-> next_time_index - 1 - m + j]
                       /\ \A i \in DOMAIN data.inputs, j \in 1 .. m - 1 :
                            RightValue(data.inputs[i].row, data.inputs[i].var[2], j)
                       /\ \A i \in DOMAIN data.meas, j \in 1 .. m - 1 :
                            RightValue(data.meas[i].row, data.meas[i].var, j)
                       /\ \A j \in 1 .. m : data.w[j] = 1 /\ data.v[j] = IF j < m THEN 1 ELSE 0
  BY DEF RightData
<1>1. phase = "ready"
  BY DEF EstimatorInv, NewInv
<1>2. /\ next_time_index \in Nat /\ time_vector \in Seq(Nat) /\ n \in Nat
      /\ \A j \in 1 .. n : time_vector[j] = next_time_index - n + j - 1
      /\ n > 1 /\ data = CreateExternalData(time_vector, u, y)
      /\ u = ColumnsAt(time_vector, ins, n - 1) /\ y = ColumnsAt(time_vector, meas, n - 1)
      /\ NamesRight(conf) /\ InputsInOrder(conf)
  BY <1>1 DEF EstimatorInv, WindowInv, TimesInv, DataInv, ColumnsInv, Columns, ColumnsAt, ConfInv
<1>3. /\ data.times = time_vector /\ data.w = NoiseTerms(n) /\ data.v = MeasurementTerms(n)
      /\ data.inputs = [i \in DOMAIN InputVars(conf) |-> [var |-> InputVars(conf)[i], row |-> Row(Extended(u), i)]]
      /\ data.meas = [i \in DOMAIN meas |-> [var |-> meas[i], row |-> Row(Extended(y), i)]]
  BY <1>2 DEF CreateExternalData
<1>4. ASSUME NEW names, NEW i, NEW j \in 1 .. n - 1
      PROVE  LET cell == Row(Extended(ColumnsAt(time_vector, names, n - 1)), i)[j]
             IN cell.at = time_vector[j] /\ cell.name = names[i]
  <2> DEFINE m == n - 1
  <2>1. m \in Nat /\ m >= 1 /\ j \in 1 .. m /\ time_vector \in Seq(Nat)
    BY <1>2
  <2> HIDE DEF m, n
  <2>2. LET cell == Row(Extended(ColumnsAt(time_vector, names, m)), i)[j]
        IN cell.at = time_vector[j] /\ cell.name = names[i]
    BY <2>1, RowRight
  <2> QED
    BY <2>2 DEF m
<1>5. time_vector = [j \in 1 .. n |-> next_time_index - 1 - n + j]
  <2>1. time_vector = [j \in 1 .. n |-> time_vector[j]]
    BY <1>2
  <2>2. \A j \in 1 .. n : time_vector[j] = next_time_index - 1 - n + j
    BY <1>2
  <2> HIDE DEF n
  <2> QED
    BY <2>1, <2>2
<1> HIDE DEF n
<1>6. ASSUME NEW i \in DOMAIN data.inputs, NEW j \in 1 .. n - 1
      PROVE  RightValue(data.inputs[i].row, data.inputs[i].var[2], j)
  <2>1. /\ i \in DOMAIN ins /\ data.inputs[i].row = Row(Extended(u), i) /\ data.inputs[i].var = InputVars(conf)[i]
        /\ InputVars(conf)[i][2] = ins[i]
    BY <1>2, <1>3 DEF InputsInOrder
  <2>2. Row(Extended(u), i)[j].at = time_vector[j] /\ Row(Extended(u), i)[j].name = ins[i]
    BY <1>2, <1>4
  <2> QED
    BY <1>3, <2>1, <2>2 DEF RightValue
<1>7. ASSUME NEW i \in DOMAIN data.meas, NEW j \in 1 .. n - 1
      PROVE  RightValue(data.meas[i].row, data.meas[i].var, j)
  <2>1. data.meas[i].row = Row(Extended(y), i) /\ data.meas[i].var = meas[i]
    BY <1>3
  <2>2. Row(Extended(y), i)[j].at = time_vector[j] /\ Row(Extended(y), i)[j].name = meas[i]
    BY <1>2, <1>4
  <2> QED
    BY <1>3, <2>1, <2>2 DEF RightValue
<1>8. \A j \in 1 .. n : data.w[j] = 1 /\ data.v[j] = IF j < n THEN 1 ELSE 0
  BY <1>2, <1>3, TermsCounted
<1>9. Len(data.times) = n
  BY <1>3 DEF n
<1>10. data.times = [j \in 1 .. Len(data.times) |-> next_time_index - 1 - Len(data.times) + j]
  BY <1>3, <1>5, <1>9
<1> QED
  BY <1>2, <1>6, <1>7, <1>8, <1>9, <1>10

(* The inputs of the filter are the model's, each once, and the noises are *)
(* found among them.                                                       *)
LEMMA FilterRight == EstimatorInv => FilterColumns
<1> SUFFICES ASSUME EstimatorInv, clean, lin # None
             PROVE  /\ ToSet(lin.inputs) = ToSet(RealInputs) /\ Len(lin.inputs) = Len(RealInputs)
                    /\ \A i \in DOMAIN lin.C :
                         conf.measured[i] = (IF lin.C[i][1] = "x" THEN States ELSE Algebraics)[lin.C[i][2]]
                    /\ \A i \in DOMAIN lin.G :
                         lin.G[i] \in DOMAIN AllInputs(conf) /\ AllInputs(conf)[lin.G[i]] = conf.process_noise[i]
  BY DEF FilterColumns
<1> DEFINE ins == conf.opts.input_names
           noise == conf.process_noise
           rest == conf.undefined
           zero == ZeroNoise(conf)
<1>1. phase = "ready"
  BY DEF EstimatorInv, NewInv
<1>2. /\ lin.inputs = ins \o rest \o zero
      /\ lin.G = NoiseColumns(conf) /\ lin.C = MeasurementRows(conf)
  BY DEF EstimatorInv, WindowInv, FilterInv
<1>3. NamesRight(conf)
  BY <1>1 DEF EstimatorInv, ConfInv
<1>4. /\ ins \in Seq(STRING) /\ IsInjective(ins) /\ ToSet(ins) \subseteq ToSet(RealInputs)
      /\ noise \in Seq(STRING) /\ IsInjective(noise) /\ ToSet(noise) \subseteq ToSet(RealInputs)
      /\ rest \in Seq(STRING) /\ IsInjective(rest) /\ ToSet(rest) = ToSet(RealInputs) \ (ToSet(ins) \cup ToSet(noise))
      /\ conf.measured \in Seq(STRING) /\ ToSet(conf.measured) \subseteq ToSet(States) \cup ToSet(Algebraics)
  BY <1>3 DEF NamesRight
<1>5. zero \in Seq(STRING) /\ IsInjective(zero) /\ ToSet(zero) = ToSet(noise) \ ToSet(ins)
  BY <1>4, WithoutKeeps DEF ZeroNoise
<1>a. AllInputs(conf) = ins \o zero \o rest
  BY DEF AllInputs, ZeroNoise
<1> HIDE DEF ins, noise, rest, zero
<1>6. ToSet(lin.inputs) = ToSet(RealInputs) /\ lin.inputs \in Seq(STRING) /\ IsInjective(lin.inputs)
  <2>1. /\ ins \o rest \in Seq(STRING) /\ ToSet(ins \o rest) = ToSet(ins) \cup ToSet(rest)
        /\ IsInjective(ins \o rest)
    <3>1. ToSet(ins) \cap ToSet(rest) = {}
      BY <1>4
    <3> QED
      BY <1>4, <3>1, JoinNames
  <2> DEFINE both == ins \o rest
  <2>2. /\ both \in Seq(STRING) /\ ToSet(both) = ToSet(ins) \cup ToSet(rest) /\ IsInjective(both)
        /\ lin.inputs = both \o zero
    BY <1>2, <2>1 DEF ins, rest, zero
  <2> HIDE DEF both
  <2>3. ToSet(both) \cap ToSet(zero) = {} /\ ToSet(both) \cup ToSet(zero) = ToSet(RealInputs)
    BY <1>4, <1>5, <2>2
  <2> DEFINE all == both \o zero
  <2>4. all \in Seq(STRING) /\ ToSet(all) = ToSet(both) \cup ToSet(zero) /\ IsInjective(all)
    BY <1>5, <2>2, <2>3, JoinNames
  <2>5. lin.inputs = all
    BY <2>2
  <2> HIDE DEF all
  <2> QED
    BY <2>3, <2>4, <2>5
<1>7. Len(lin.inputs) = Len(RealInputs)
  <2>1. RealInputs \in Seq(STRING) /\ IsInjective(RealInputs)
    BY ModelAssumption
  <2>2. Cardinality(ToSet(lin.inputs)) = Len(lin.inputs)
    BY <1>6, CountNames
  <2>3. Cardinality(ToSet(RealInputs)) = Len(RealInputs)
    BY <2>1, CountNames
  <2> QED
    BY <1>6, <2>2, <2>3
<1>8. ASSUME NEW i \in DOMAIN lin.C
      PROVE  conf.measured[i] = (IF lin.C[i][1] = "x" THEN States ELSE Algebraics)[lin.C[i][2]]
  <2> DEFINE name == conf.measured[i]
             kind == IF name \in ToSet(States) THEN "x" ELSE "c"
             names == IF kind = "x" THEN States ELSE Algebraics
  <2>1. i \in DOMAIN conf.measured /\ lin.C[i] = <<kind, CHOOSE k \in DOMAIN names : names[k] = name>>
    BY <1>2 DEF MeasurementRows
  <2>2. name \in ToSet(States) \cup ToSet(Algebraics)
    BY <1>4, <2>1 DEF ToSet
  <2>3. name \in ToSet(names)
    BY <2>2
  <2> HIDE DEF names, name
  <2>4. names[CHOOSE k \in DOMAIN names : names[k] = name] = name
    BY <2>3 DEF ToSet
  <2> QED
    BY <2>1, <2>4 DEF names, name
<1>9. ASSUME NEW i \in DOMAIN lin.G
      PROVE  lin.G[i] \in DOMAIN AllInputs(conf) /\ AllInputs(conf)[lin.G[i]] = conf.process_noise[i]
  <2> DEFINE all == AllInputs(conf)
  <2>1. i \in DOMAIN noise /\ lin.G[i] = NameMap(conf)[noise[i]]
    BY <1>2 DEF NoiseColumns, noise
  <2>2. ToSet(all) = ToSet(ins) \cup ToSet(zero) \cup ToSet(rest)
    <3> DEFINE both == ins \o zero
    <3>1. both \in Seq(STRING) /\ ToSet(both) = ToSet(ins) \cup ToSet(zero)
      BY <1>4, <1>5, JoinNames
    <3> HIDE DEF both
    <3>2. ToSet(both \o rest) = ToSet(both) \cup ToSet(rest)
      BY <1>4, <3>1, JoinNames
    <3>3. all = both \o rest
      BY <1>a DEF both
    <3> QED
      BY <3>1, <3>2, <3>3
  <2>3. noise[i] \in ToSet(noise)
    BY <2>1 DEF ToSet
  <2>4. noise[i] \in ToSet(all)
    BY <1>5, <2>2, <2>3
  <2>5. NameMap(conf)[noise[i]] = CHOOSE k \in DOMAIN all : all[k] = noise[i]
    BY <2>4 DEF NameMap
  <2> HIDE DEF all
  <2>6. \E k \in DOMAIN all : all[k] = noise[i]
    BY <2>4 DEF ToSet
  <2> QED
    BY <2>1, <2>5, <2>6 DEF all, noise
<1> QED
  BY <1>6, <1>7, <1>8, <1>9

(* As long as no call failed, optimizer and filter are given each          *)
(* variable's own values, whatever order the names came in                 *)
(* (create_external_data, get_total_input_names and EKF.update).           *)
THEOREM DataRightlyPlaced == Spec => []DataInPlace
<1>1. EstimatorInv => DataInPlace
  BY DataRight, FilterRight DEF DataInPlace
<1> QED
  BY <1>1, EstimatorInvariant, PTL
=============================================================================
