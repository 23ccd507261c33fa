------------------------ MODULE DerivativeFree_proofs ------------------------
(***************************************************************************)
(* The simplex methods stay inside of the bounds and replace a vertex only *)
(* by a better one: for all bounds, side lengths, tolerances, limits,      *)
(* numbers of cores and functions.                                         *)
(***************************************************************************)
EXTENDS DerivativeFree, TLAPS

Vertex == [x : Int, f : Fvals]

\* A search has begun, and has not been given to a global solver.
Searching == {"iterate", "move", "stop", "test", "barrier", "finish"}

Typed ==
  /\ call \in AllCalls
  /\ pc \in Searching => X \in [Vertices -> Vertex]
  /\ X = <<>> \/ X \in [Vertices -> Vertex]
  /\ barrier = [iters |-> barrier.iters, fevals |-> barrier.fevals, h |-> barrier.h]
  /\ barrier.h \in Nat

\* A search is not one that is rejected, and the barrier method has its states
\* for itself; its next simplex starts from a result inside of the bounds.
StartInv ==
  /\ pc \in Searching => ~Rejected(call) /\ call.alg \in {1, 2, 5}
  /\ pc \in {"test", "barrier", "finish"} => call.alg = 2
  /\ pc \in {"called", "barrier"} =>
       result = <<>> \/ (result[1].x \in Int /\ Inside(result[1].x))
  /\ pc = "test" => result[1].x \in Int /\ Inside(result[1].x)

\* A step starts from vertices in order.
SortedInv == pc = "move" => Sorted(X)

SimplexInv == Typed /\ StartInv /\ SortedInv /\ InsideBounds

-----------------------------------------------------------------------------
(* A point that is clipped lies between the bounds that are given.         *)
LEMMA ClippedInside ==
  ASSUME NEW x \in Int
  PROVE  Clipped(x) \in Int /\ Inside(Clipped(x))
BY BoundsAssumption DEF Clipped, Inside

(* The first simplex is inside, though only its right side is checked.     *)
LEMMA FirstSimplexInside ==
  ASSUME NEW x \in Int, Inside(x), NEW h \in Nat, NEW S \in FirstSimplexes(x, h)
  PROVE  S \in [Vertices -> Vertex] /\ \A i \in Vertices : Inside(S[i].x)
<1>1. PICK j \in 2 .. n + 1, fs \in [Vertices -> Fvals] :
        S = [i \in Vertices |-> [x |-> BelowUpper(IF i = j THEN x + h ELSE x), f |-> fs[i]]]
  BY DEF FirstSimplexes
<1>2. \A y \in {x, x + h} : BelowUpper(y) \in Int /\ Inside(BelowUpper(y))
  BY BoundsAssumption DEF BelowUpper, Inside
<1>3. \A i \in Vertices :
        /\ S[i] = [x |-> BelowUpper(IF i = j THEN x + h ELSE x), f |-> fs[i]]
        /\ BelowUpper(IF i = j THEN x + h ELSE x) \in Int
        /\ Inside(BelowUpper(IF i = j THEN x + h ELSE x))
  BY <1>1, <1>2
<1> QED
  BY <1>1, <1>3 DEF Vertex

(* The reflection, the expansion and the outside contraction are clipped;  *)
(* the inside contraction and the points of a shrink are averages.         *)
LEMMA TrialPointsInside ==
  ASSUME NEW S \in [Vertices -> Vertex], \A i \in Vertices : Inside(S[i].x)
  PROVE  /\ \A choice \in {"xr", "xe", "xc1", "xc2"} :
              TrialPoints(S)[choice] \in Int /\ Inside(TrialPoints(S)[choice])
         /\ \A i \in Vertices : Halfway(S, i) \in Int /\ Inside(Halfway(S, i))
<1> DEFINE c2 == S[1].x + S[2].x
           xr == Reflected(S)
<1>1. /\ S[1].x \in Int /\ S[2].x \in Int /\ S[3].x \in Int
      /\ Inside(S[1].x) /\ Inside(S[2].x) /\ Inside(S[3].x)
  BY DEF Vertices, n, Vertex
<1>2. xr \in Int /\ c2 \in Int
  BY <1>1 DEF Reflected
<1>3. (4 * xr - c2) \div 2 \in Int /\ (c2 + 2 * xr) \div 4 \in Int
  BY <1>2
<1>4. (c2 + 2 * S[3].x) \div 4 \in Int /\ Inside((c2 + 2 * S[3].x) \div 4)
  BY <1>1, BoundsAssumption DEF Inside
<1>5. /\ TrialPoints(S).xr = Clipped(xr)
      /\ TrialPoints(S).xe = Clipped((4 * xr - c2) \div 2)
      /\ TrialPoints(S).xc1 = Clipped((c2 + 2 * xr) \div 4)
      /\ TrialPoints(S).xc2 = (c2 + 2 * S[3].x) \div 4
  BY DEF TrialPoints
<1> HIDE DEF c2, xr
<1>6. ASSUME NEW i \in Vertices PROVE Halfway(S, i) \in Int /\ Inside(Halfway(S, i))
  <2>1. S[i].x \in Int /\ Inside(S[i].x)
    BY DEF Vertex
  <2> QED
    BY <1>1, <2>1, BoundsAssumption DEF Halfway, Inside
<1> QED
  BY <1>2, <1>3, <1>4, <1>5, <1>6, ClippedInside

(* The point that a branch compares is evaluated in the same step: with    *)
(* each number of cores, the batch and the tests of the branches agree.    *)
LEMMA OwnPointEvaluated ==
  ASSUME Typed, ~Rejected(call), call.alg \in {1, 2, 5}, NEW S, NEW fr
  PROVE  Own(Branch(S, fr)) \in Batch \cup Late(Branch(S, fr))
<1> DEFINE branch == Branch(S, fr)
<1>1. branch \in {"reflection", "expansion", "outside", "inside", "none"}
  BY DEF Branch
<1> HIDE DEF branch
<1>2. AllAtOnce \/ call.cores \in {1, 2, 3, 4}
  BY DEF AllAtOnce, Typed, AllCalls, Rejected, NoCores
<1>3. CASE AllAtOnce
  BY <1>1, <1>3 DEF Own, Batch
<1>4. CASE ~AllAtOnce
  BY <1>1, <1>2, <1>4 DEF Own, Batch, Late
<1> QED
  BY <1>3, <1>4 DEF branch

\* What a step does to the simplex: fr and f are the values of the reflection and of
\* the point that the branch compares.
Replaced(fr, f) ==
  \/ step' = "shrink"  /\ \E fs \in [2 .. n + 1 -> Fvals] : X' = Shrunk(X, fs)
  \/ step' = "nothing" /\ X' = X
  \/ /\ step' \in Replacements
     /\ X' = [X EXCEPT ![n + 1] =
                [x |-> TrialPoints(X)[step'], f |-> IF step' = "xr" THEN fr ELSE f]]

(* A step decides by values of its own iteration.                          *)
LEMMA MoveDecides ==
  ASSUME SimplexInv, Move
  PROVE  \E fr, f \in Fvals :
           /\ step' = Accepts(X, Branch(X, fr), fr, f)
           /\ Own(Branch(X, fr)) = "xr" => f = fr
           /\ Replaced(fr, f)
<1>1. \A fr : Own(Branch(X, fr)) \in Batch \cup Late(Branch(X, fr))
  BY OwnPointEvaluated DEF SimplexInv, StartInv, Searching, Move
<1>2. \E fr \in Fvals :
        \E f \in IF Own(Branch(X, fr)) = "xr" THEN {fr} ELSE Fvals :
        \E held \in IF Own(Branch(X, fr)) \in Batch \cup Late(Branch(X, fr)) THEN {f} ELSE Fvals :
          step' = Accepts(X, Branch(X, fr), fr, held) /\ Replaced(fr, f)
  BY DEF Move, Replaced
<1>3. PICK fr \in Fvals :
        \E f \in IF Own(Branch(X, fr)) = "xr" THEN {fr} ELSE Fvals :
        \E held \in {f} : step' = Accepts(X, Branch(X, fr), fr, held) /\ Replaced(fr, f)
  BY <1>1, <1>2
<1>4. \E f \in Fvals : /\ step' = Accepts(X, Branch(X, fr), fr, f)
                     /\ Own(Branch(X, fr)) = "xr" => f = fr
                     /\ Replaced(fr, f)
  <2>1. CASE Own(Branch(X, fr)) = "xr"
    BY <1>3, <2>1
  <2>2. CASE Own(Branch(X, fr)) # "xr"
    BY <1>3, <2>2
  <2> QED
    BY <2>1, <2>2
<1> QED
  BY <1>3, <1>4

(* Among vertices in order, each branch accepts only a point that is       *)
(* better than the last vertex.                                            *)
LEMMA AcceptsBetter ==
  ASSUME NEW S \in [Vertices -> Vertex], Sorted(S), NEW fr \in Fvals, NEW f \in Fvals,
         Own(Branch(S, fr)) = "xr" => f = fr,
         Accepts(S, Branch(S, fr), fr, f) \in Replacements
  PROVE  Better(IF Accepts(S, Branch(S, fr), fr, f) = "xr" THEN fr ELSE f, S[n + 1].f)
<1> DEFINE a == S[1].f
           b == S[2].f
           c == S[3].f
<1>1. /\ a \in Int \/ a = NaN
      /\ b \in Int \/ b = NaN
      /\ c \in Int \/ c = NaN
      /\ f \in Int \/ f = NaN
      /\ fr \in Int \/ fr = NaN
      /\ n + 1 = 3 /\ n = 2
  <2>1. S[1] \in Vertex /\ S[2] \in Vertex /\ S[3] \in Vertex
    BY DEF Vertices, n
  <2>2. \A v \in Fvals : v \in Int \/ v = NaN
    BY ValuesAssumption DEF Fvals
  <2>3. a \in Fvals /\ b \in Fvals /\ c \in Fvals
    BY <2>1 DEF Vertex
  <2> QED
    BY <2>2, <2>3 DEF n
<1>2. (AtMost(a, b) \/ b = NaN) /\ (AtMost(b, c) \/ c = NaN)
  BY DEF Sorted, n
<1>3. Branch(S, fr) = CASE AtMost(a, fr) /\ Less(fr, b) -> "reflection"
                        [] Less(fr, a) -> "expansion"
                        [] AtMost(b, fr) -> IF Less(fr, c) THEN "outside" ELSE "inside"
                        [] OTHER -> "none"
  BY <1>1 DEF Branch
<1>4. \A branch : Accepts(S, branch, fr, f) =
        CASE branch = "reflection" -> "xr"
          [] branch = "expansion"  -> IF Less(f, fr) THEN "xe" ELSE "xr"
          [] branch = "outside"    -> IF AtMost(f, fr) THEN "xc1" ELSE "shrink"
          [] branch = "inside"     -> IF Less(f, c) THEN "xc2" ELSE "shrink"
          [] OTHER -> "nothing"
  BY <1>1 DEF Accepts
<1> HIDE DEF a, b, c
<1>5. CASE Branch(S, fr) = "reflection"
  <2>1. AtMost(a, fr) /\ Less(fr, b)
    BY <1>3, <1>5
  <2>2. Accepts(S, Branch(S, fr), fr, f) = "xr"
    BY <1>4, <1>5
  <2> QED
    BY <1>1, <1>2, <2>1, <2>2 DEF AtMost, Less, Better, c
<1>6. CASE Branch(S, fr) = "expansion"
  <2>1. Less(fr, a)
    BY <1>3, <1>6
  <2>2. Accepts(S, Branch(S, fr), fr, f) = IF Less(f, fr) THEN "xe" ELSE "xr"
    BY <1>4, <1>6
  <2> QED
    BY <1>1, <1>2, <2>1, <2>2 DEF AtMost, Less, Better, c
<1>7. CASE Branch(S, fr) = "outside"
  <2>1. AtMost(b, fr) /\ Less(fr, c)
    BY <1>3, <1>7
  <2>2. Accepts(S, Branch(S, fr), fr, f) = IF AtMost(f, fr) THEN "xc1" ELSE "shrink"
    BY <1>4, <1>7
  <2> QED
    BY <1>1, <2>1, <2>2 DEF AtMost, Less, Better, Replacements, c
<1>8. CASE Branch(S, fr) = "inside"
  <2>1. Accepts(S, Branch(S, fr), fr, f) = IF Less(f, c) THEN "xc2" ELSE "shrink"
    BY <1>4, <1>8
  <2> QED
    BY <1>1, <2>1 DEF Less, Better, Replacements, c
<1>9. CASE Branch(S, fr) = "none"
  BY <1>4, <1>9 DEF Replacements
<1> QED
  BY <1>3, <1>5, <1>6, <1>7, <1>8, <1>9

(* A step of the loop head permutes the vertices.                          *)
LEMMA PermutedInside ==
  ASSUME NEW S \in [Vertices -> Vertex], \A i \in Vertices : Inside(S[i].x),
         NEW p \in Orders
  PROVE  LET T == [i \in Vertices |-> S[p[i]]]
         IN T \in [Vertices -> Vertex] /\ \A i \in Vertices : Inside(T[i].x)
BY DEF Orders

-----------------------------------------------------------------------------
(* At first there is no vertex.                                            *)
LEMMA SimplexInitInv == Init => SimplexInv
<1> SUFFICES ASSUME Init PROVE SimplexInv
  OBVIOUS
<1>1. call \in AllCalls
  BY CallsAssumption DEF Init
<1>2. Side \in Nat
  BY BoundsAssumption
<1>3. Typed
  BY <1>1, <1>2 DEF Init, Typed, NoBarrier, Searching
<1>4. StartInv /\ SortedInv
  <2>1. pc = "called" /\ result = <<>>
    BY DEF Init
  <2> QED
    BY <2>1 DEF StartInv, SortedInv, Searching
<1>5. InsideBounds
  BY DEF Init, InsideBounds
<1> QED
  BY <1>3, <1>4, <1>5 DEF SimplexInv

(* A new simplex, of nelme or of a round of the barrier method.            *)
LEMMA SimplexStarts ==
  ASSUME SimplexInv, NEW x \in Int, Inside(x), NEW h \in Nat, Simplex(x, h),
         ~Rejected(call), call.alg \in {1, 2, 5},
         UNCHANGED <<call, step, result>>,
         barrier' = [iters |-> barrier'.iters, fevals |-> barrier'.fevals,
                     h |-> barrier'.h],
         barrier'.h \in Nat
  PROVE  SimplexInv'
<1>1. X' \in [Vertices -> Vertex] /\ \A i \in Vertices : Inside(X'[i].x)
  BY FirstSimplexInside DEF Simplex
<1> QED
  BY <1>1 DEF SimplexInv, Typed, StartInv, SortedInv, InsideBounds, Inside,
     Simplex, Searching, Rejected, OutOfBounds

(* Every step of a search keeps the invariant.                             *)
LEMMA SimplexNextInv == ASSUME SimplexInv, [Next]_vars PROVE SimplexInv'
<1> USE DEF SimplexInv, Searching
<1>1. CASE Reject
  BY <1>1 DEF Reject, Typed, StartInv, SortedInv, InsideBounds, Inside
<1>2. CASE NelderMead
  <2>1. call.start \in Int /\ Inside(call.start)
    BY <1>2, BoundsAssumption
       DEF NelderMead, Typed, AllCalls, Rejected, OutOfBounds, Inside
  <2> QED
    BY <1>2, <2>1, BoundsAssumption, SimplexStarts DEF NelderMead, Typed
<1>3. CASE GlobalSearch
  BY <1>3 DEF GlobalSearch, Typed, StartInv, SortedInv, InsideBounds, Inside
<1>4. CASE Iterate
  <2>1. X \in [Vertices -> Vertex] /\ \A i \in Vertices : Inside(X[i].x)
    BY <1>4 DEF Iterate, Typed, InsideBounds
  <2>2. X' \in [Vertices -> Vertex] /\ (\A i \in Vertices : Inside(X'[i].x)) /\ Sorted(X')
    BY <1>4, <2>1, PermutedInside DEF Iterate
  <2>3. pc' \in {"stop", "move"} /\ UNCHANGED <<call, barrier, result>>
    BY <1>4 DEF Iterate
  <2> QED
    BY <1>4, <2>2, <2>3
       DEF Iterate, Typed, StartInv, SortedInv, InsideBounds, Inside,
           Rejected, OutOfBounds
<1>5. CASE LimitReached
  BY <1>5 DEF LimitReached, Typed, StartInv, SortedInv, InsideBounds, Inside,
              Rejected, OutOfBounds
<1>6. CASE Move
  <2>1. PICK fr \in Fvals, f \in Fvals :
          \/ step' = "shrink"  /\ \E fs \in [2 .. n + 1 -> Fvals] : X' = Shrunk(X, fs)
          \/ step' = "nothing" /\ X' = X
          \/ /\ step' \in Replacements
             /\ X' = [X EXCEPT ![n + 1] =
                        [x |-> TrialPoints(X)[step'], f |-> IF step' = "xr" THEN fr ELSE f]]
    BY <1>6, MoveDecides DEF Replaced
  <2>3. X \in [Vertices -> Vertex] /\ \A i \in Vertices : Inside(X[i].x)
    BY <1>6 DEF Move, Typed, InsideBounds
  <2>4. X' \in [Vertices -> Vertex] /\ \A i \in Vertices : Inside(X'[i].x)
    <3>1. CASE step' = "shrink"
      <4>1. PICK fs \in [2 .. n + 1 -> Fvals] : X' = Shrunk(X, fs)
        BY <2>1, <3>1 DEF Replacements
      <4>2. \A i \in Vertices : X'[i] = IF i = 1 THEN X[1] ELSE [x |-> Halfway(X, i), f |-> fs[i]]
        BY <4>1 DEF Shrunk
      <4>3. ASSUME NEW i \in Vertices PROVE X'[i] \in Vertex /\ Inside(X'[i].x)
        <5>1. Halfway(X, i) \in Int /\ Inside(Halfway(X, i))
          BY <2>3, TrialPointsInside
        <5>2. CASE i = 1
          BY <2>3, <4>2, <5>2
        <5>3. CASE i # 1
          <6>1. i \in 2 .. n + 1 /\ fs[i] \in Fvals
            BY <5>3 DEF Vertices, n
          <6>2. X'[i] = [x |-> Halfway(X, i), f |-> fs[i]]
            BY <4>2, <5>3
          <6>3. X'[i].x = Halfway(X, i)
            BY <6>2
          <6> QED
            BY <5>1, <6>1, <6>2, <6>3 DEF Vertex
        <5> QED
          BY <5>2, <5>3
      <4> QED
        BY <4>1, <4>3 DEF Shrunk
    <3>2. CASE step' = "nothing"
      BY <2>1, <2>3, <3>2 DEF Replacements
    <3>3. CASE step' \in Replacements
      <4> DEFINE v == [x |-> TrialPoints(X)[step'], f |-> IF step' = "xr" THEN fr ELSE f]
      <4>1. X' = [X EXCEPT ![n + 1] = v]
        BY <2>1, <3>3 DEF Replacements
      <4>2. v \in Vertex /\ Inside(v.x)
        BY <2>3, <3>3, TrialPointsInside DEF Vertex, Replacements
      <4> HIDE DEF v
      <4> QED
        BY <2>3, <4>1, <4>2
    <3> QED
      BY <2>1, <3>1, <3>2, <3>3
  <2>5. /\ pc = "move" /\ pc' = "iterate" /\ UNCHANGED <<call, converged, barrier, result>>
    BY <1>6 DEF Move
  <2> QED
    BY <2>4, <2>5 DEF Typed, StartInv, SortedInv, InsideBounds, Inside,
                            Rejected, OutOfBounds
<1>7. CASE Stop
  <2>1. /\ X \in [Vertices -> Vertex] /\ X[1].x \in Int /\ Inside(X[1].x)
    BY <1>7 DEF Stop, Typed, InsideBounds, Vertices, Vertex, n
  <2>2. /\ result'[1] = X[1] /\ pc' = (IF call.alg = 2 THEN "test" ELSE "done")
        /\ UNCHANGED <<call, X, k, step, converged, barrier>>
    BY <1>7 DEF Stop
  <2>3. ~Rejected(call) /\ call.alg \in {1, 2, 5} /\ pc = "stop"
    BY <1>7 DEF Stop, StartInv
  <2>4. Typed'
    BY <2>1, <2>2 DEF Typed
  <2>5. StartInv'
    BY <2>1, <2>2, <2>3 DEF StartInv, Inside, Rejected, OutOfBounds
  <2>6. SortedInv'
    BY <2>2 DEF SortedInv
  <2>7. InsideBounds'
    BY <2>2 DEF InsideBounds, Inside
  <2> QED
    BY <2>4, <2>5, <2>6, <2>7
<1>8. CASE BarrierRound
  <2> DEFINE x == IF result = <<>> THEN call.start ELSE result[1].x
  <2>1. ~Rejected(call) /\ call.alg = 2
    BY <1>8 DEF BarrierRound, StartInv
  <2>2. call.start \in Int /\ Inside(call.start)
    BY <2>1, BoundsAssumption DEF Typed, AllCalls, Rejected, OutOfBounds, Inside
  <2>3. x \in Int /\ Inside(x)
    BY <1>8, <2>2 DEF BarrierRound, StartInv
  <2>4. /\ Simplex(x, barrier.h) /\ barrier.h \in Nat
        /\ UNCHANGED <<call, step, result>>
        /\ barrier' = [barrier EXCEPT !.fevals = Plus(@, 1, MaxFevals)]
    BY <1>8 DEF BarrierRound, Typed
  <2>5. /\ barrier' = [iters |-> barrier'.iters, fevals |-> barrier'.fevals, h |-> barrier'.h]
        /\ barrier'.h \in Nat
    BY <2>4 DEF Typed
  <2> QED
    BY <2>1, <2>3, <2>4, <2>5, SimplexStarts
<1>9. CASE BarrierTest
  <2>1. PICK term \in BOOLEAN :
          /\ pc' = (IF term THEN "finish" ELSE "barrier")
          /\ barrier' = [barrier EXCEPT !.iters = Plus(@, k, MaxIters),
                                        !.fevals = Plus(@, nbr_fevals, MaxFevals),
                                        !.h = IF term THEN @ ELSE @ \div 2]
    BY <1>9 DEF BarrierTest
  <2>6. barrier.h \in Nat /\ barrier.h \div 2 \in Nat
    BY DEF Typed
  <2>2. /\ barrier' = [iters |-> barrier'.iters, fevals |-> barrier'.fevals, h |-> barrier'.h]
        /\ barrier'.h \in Nat
    <3>1. /\ barrier' = [iters |-> barrier'.iters, fevals |-> barrier'.fevals,
                         h |-> barrier'.h]
          /\ barrier'.h = IF term THEN barrier.h ELSE barrier.h \div 2
      BY <2>1 DEF Typed
    <3> QED
      BY <2>6, <3>1
  <2>3. pc = "test" /\ UNCHANGED <<call, X, k, nbr_fevals, step, converged, result>>
    BY <1>9 DEF BarrierTest
  <2>4. Typed'
    BY <2>1, <2>2, <2>3 DEF Typed
  <2>5. StartInv'
    BY <2>1, <2>3 DEF StartInv, Inside, Rejected, OutOfBounds
  <2> QED
    BY <2>1, <2>3, <2>4, <2>5 DEF SortedInv, InsideBounds, Inside
<1>10. CASE BarrierEnd
  BY <1>10 DEF BarrierEnd, Typed, StartInv, SortedInv, InsideBounds, Inside
<1>11. CASE UNCHANGED vars
  BY <1>11 DEF vars, Typed, StartInv, SortedInv, InsideBounds, Inside,
               Rejected, OutOfBounds
<1> QED
  BY <1>1, <1>2, <1>3, <1>4, <1>5, <1>6, <1>7, <1>8, <1>9, <1>10, <1>11 DEF Next

-----------------------------------------------------------------------------
(* The inductive invariant of a search.                                    *)
THEOREM SimplexInvariant == Spec => []SimplexInv
<1>1. Init => SimplexInv
  BY SimplexInitInv
<1>2. SimplexInv /\ [Next]_vars => SimplexInv'
  BY SimplexNextInv
<1> QED
  BY <1>1, <1>2, PTL DEF Spec

(* "Handles box bound constraints": no vertex ever lies on or outside of a *)
(* given bound, for all bounds, starts and functions.                      *)
THEOREM StaysInside == Spec => []InsideBounds
<1>1. SimplexInv => InsideBounds
  BY DEF SimplexInv
<1> QED
  BY <1>1, SimplexInvariant, PTL

(* A vertex is only ever replaced by a better one: whatever the number of  *)
(* cores, each branch of the step decides by values of its own iteration,  *)
(* and the vertices it compares with are in order, NaN last.               *)
THEOREM StepsAlwaysImprove == Spec => StepsImprove
<1> DEFINE Improves == pc = "move" /\ step' \in Replacements => Better(X'[n + 1].f, X[n + 1].f)
<1>1. ASSUME SimplexInv, [Next]_vars PROVE [Improves]_vars
  <2>1. CASE UNCHANGED vars
    BY <2>1
  <2>2. CASE pc = "move" /\ Next
    <3>1. Move
      BY <2>2 DEF Next, Reject, NelderMead, GlobalSearch, Iterate, LimitReached, Stop,
                  BarrierRound, BarrierTest, BarrierEnd
    <3>2. X \in [Vertices -> Vertex] /\ Sorted(X) /\ n + 1 \in Vertices
      BY <1>1, <2>2 DEF SimplexInv, Typed, SortedInv, Searching, Vertices, n
    <3>3. ASSUME step' \in Replacements PROVE Better(X'[n + 1].f, X[n + 1].f)
      <4>1. PICK fr \in Fvals, f \in Fvals :
              /\ step' = Accepts(X, Branch(X, fr), fr, f)
              /\ Own(Branch(X, fr)) = "xr" => f = fr
              /\ X' = [X EXCEPT ![n + 1] =
                         [x |-> TrialPoints(X)[step'], f |-> IF step' = "xr" THEN fr ELSE f]]
        BY <1>1, <3>1, <3>3, MoveDecides DEF Replaced, Replacements
      <4>2. X'[n + 1].f = IF step' = "xr" THEN fr ELSE f
        BY <3>2, <4>1
      <4>3. Better(IF step' = "xr" THEN fr ELSE f, X[n + 1].f)
        BY <3>2, <3>3, <4>1, AcceptsBetter
      <4> QED
        BY <4>2, <4>3
    <3> QED
      BY <3>3
  <2>3. CASE pc # "move"
    BY <2>3
  <2> QED
    BY <1>1, <2>1, <2>2, <2>3
<1>2. SimplexInv /\ [Next]_vars => [Improves]_vars
  BY <1>1
<1> QED
  BY <1>2, SimplexInvariant, PTL DEF Spec, StepsImprove
=============================================================================
