--------------------------- MODULE DerivativeFree ---------------------------
(***************************************************************************)
(* Derivative-free optimization (pyjmi/optimization/dfo.py): the simplex   *)
(* method of Nelder and Mead in its two versions (nelme, nelme_modified),  *)
(* the sequential barrier method around it (seqbar) and the choice between *)
(* them (fmin).                                                            *)
(*                                                                         *)
(* The problem has two dimensions, so a simplex has three vertices.  The   *)
(* transformations treat the coordinates alike and one by one: a vertex    *)
(* carries one coordinate x, an integer (1e-6 is 1 and results are rounded *)
(* down), and the value f of the function, which is arbitrary but fixed    *)
(* for the vertex.  NaN compares false with everything.                    *)
(***************************************************************************)
EXTENDS Integers, FiniteSets, Sequences

CONSTANTS
  Lower, Upper,          \* the bounds
  Values,                \* values of the function, integers
  NaN,
  Start, Side,           \* xstart and the side length of the first simplex
  XTol, One,             \* the tolerance, and the coordinate 1
  MaxIters, MaxFevals,   \* the limits of a call, and of a call that seqbar makes
  Calls                  \* the calls made

ASSUME BoundsAssumption ==
  /\ Lower \in Int /\ Upper \in Int /\ Start \in Int /\ Side \in Nat
  /\ Lower < Start /\ Start < Upper
  /\ XTol \in Nat /\ One \in Nat \ {0}

ASSUME ValuesAssumption == Values \subseteq Int /\ NaN \notin Values

VARIABLES call,          \* the arguments of fmin, or of nelme_modified
          pc, X, k, nbr_fevals,
          step,          \* history: what the last iteration put in the simplex
          converged,     \* term_x or term_f
          barrier,       \* the iterations, evaluations and side length of seqbar
          result

vars == <<call, pc, X, k, nbr_fevals, step, converged, barrier, result>>

n == 2
Vertices == 1 .. n + 1
Fvals == Values \cup {NaN}

Less(a, b)   == a # NaN /\ b # NaN /\ a < b
AtMost(a, b) == a # NaN /\ b # NaN /\ a <= b

\* Counts beyond their limits are not told apart.
Plus(a, b, limit) == IF a + b < limit THEN a + b ELSE limit

WithinIters(iters, fevals) == iters < MaxIters   \* mutant: only iterations are limited

WithinLimits(iters, fevals) == iters < MaxIters /\ fevals < MaxFevals

---------------------------------------------------------------------------
(***************************************************************************)
(* The arguments: alg 1 to 4 (Nelder-Mead, barrier, de, galileo) or 5 for  *)
(* nelme_modified; bounds, which of the two are given; xstart or None;     *)
(* cores, 0 if func is a function and else the number of processes; start, *)
(* where xstart is.                                                        *)
(***************************************************************************)
NoCores == 5   \* func is a file and nbr_cores is None

AllCalls ==
  [alg : 1 .. 5, bounds : SUBSET {"lb", "ub"}, xstart : {"given", "none"}, cores : 0 .. NoCores,
   start : {Lower, Start, Upper}]

ASSUME CallsAssumption == Calls \subseteq AllCalls

OutOfBounds(c) ==
  \/ "lb" \in c.bounds /\ c.start <= Lower
  \/ "ub" \in c.bounds /\ c.start >= Upper

Rejected(c) ==
  \/ c.alg \in {2, 3, 4} /\ c.bounds = {}
  \/ c.alg \in {3, 4} /\ c.bounds # {"lb", "ub"}
  \/ c.alg \in {1, 2} /\ c.xstart = "none"
  \/ c.alg \in {2, 3, 4} /\ c.cores # 0
  \/ c.alg \in {1, 2, 5} /\ OutOfBounds(c)
  \/ c.alg = 1 /\ c.cores = NoCores

Clipped(x) ==
  LET y == IF "ub" \in call.bounds /\ x >= Upper THEN Upper - 1 ELSE x
  IN IF "lb" \in call.bounds /\ y <= Lower THEN Lower + 1 ELSE y

\* Only the upper bound is checked: the first simplex extends to the right.
BelowUpper(x) == IF "ub" \in call.bounds /\ x >= Upper THEN Upper - 1 ELSE x

FirstSimplexes(x, h) ==
  {[i \in Vertices |-> [x |-> BelowUpper(IF i = j THEN x + h ELSE x), f |-> fs[i]]] :
     j \in 2 .. n + 1, fs \in [Vertices -> Fvals]}

---------------------------------------------------------------------------
\* argsort puts NaN last and leaves the order of equal values open.
Unsorted(S) == TRUE   \* mutant: the values are sorted, the vertices are not

Sorted(S) == \A i \in 1 .. n : AtMost(S[i].f, S[i + 1].f) \/ S[i + 1].f = NaN

Orders == {p \in [Vertices -> Vertices] : {p[i] : i \in Vertices} = Vertices}

TermF(S) == S[1].f # NaN /\ S[1].f = S[n + 1].f

Distance(a, b) == IF a < b THEN b - a ELSE a - b

\* nelme compares lengths, nelme_modified lengths relative to the best vertex.
Small(S) ==
  \A i \in 2 .. n + 1 :
    IF call.alg = 5 THEN Distance(S[i].x, S[1].x) * One < XTol * Distance(S[1].x, -One)
    ELSE Distance(S[i].x, S[1].x) < XTol

Reflected(S) == S[1].x + S[2].x - S[3].x

TrialPointsFree(S) ==   \* mutant: the expansion point is not clipped
  LET xr == Reflected(S)
  IN [xr |-> Clipped(xr), xe |-> (4 * xr - S[1].x - S[2].x) \div 2,
      xc1 |-> Clipped(xr), xc2 |-> S[3].x]

\* Twice the centroid is an integer.
TrialPoints(S) ==
  LET c2 == S[1].x + S[2].x
      xr == Reflected(S)
  IN [xr  |-> Clipped(xr),                    xe  |-> Clipped((4 * xr - c2) \div 2),
      xc1 |-> Clipped((c2 + 2 * xr) \div 4), xc2 |-> (c2 + 2 * S[3].x) \div 4]

\* func is a function, called in this process, or nelme_modified calls it in four.
AllAtOnce == call.cores = 0 \/ call.alg = 5

\* The points evaluated at once, in as many processes as there are cores.
Batch ==
  IF AllAtOnce \/ call.cores >= 4 THEN {"xr", "xe", "xc1", "xc2"}
  ELSE CASE call.cores = 3 -> {"xr", "xe", "xc1"}
         [] call.cores = 2 -> {"xr", "xe"}
         [] OTHER -> {"xr"}

Branch(S, fr) ==
  CASE AtMost(S[1].f, fr) /\ Less(fr, S[n].f) -> "reflection"
    [] Less(fr, S[1].f) -> "expansion"
    [] AtMost(S[n].f, fr) -> IF Less(fr, S[n + 1].f) THEN "outside" ELSE "inside"
    [] OTHER -> "none"

\* The trial point whose value a branch compares.
Own(branch) ==
  CASE branch = "expansion" -> "xe" [] branch = "outside" -> "xc1"
    [] branch = "inside" -> "xc2" [] OTHER -> "xr"

LateExceptTwo(branch) ==   \* mutant: with two cores the outside contraction is forgotten
  IF AllAtOnce THEN {}
  ELSE CASE branch = "expansion" /\ call.cores = 1 -> {"xe"}
         [] branch = "outside" /\ call.cores = 1 -> {"xc1"}
         [] branch = "inside" /\ call.cores \in {1, 2, 3} -> {"xc2"}
         [] OTHER -> {}

\* The evaluations that each branch makes itself: every branch tests the cores anew.
Late(branch) ==
  IF AllAtOnce THEN {}
  ELSE CASE branch = "expansion" /\ call.cores = 1 -> {"xe"}
         [] branch = "outside" /\ call.cores \in {1, 2} -> {"xc1"}
         [] branch = "inside" /\ call.cores \in {1, 2, 3} -> {"xc2"}
         [] OTHER -> {}

\* fr, f: what the variables of the reflection and of the branch's own point hold.
Accepts(S, branch, fr, f) ==
  CASE branch = "reflection" -> "xr"
    [] branch = "expansion"  -> IF Less(f, fr) THEN "xe" ELSE "xr"
    [] branch = "outside"    -> IF AtMost(f, fr) THEN "xc1" ELSE "shrink"
    [] branch = "inside"     -> IF Less(f, S[n + 1].f) THEN "xc2" ELSE "shrink"
    [] OTHER -> "nothing"

Replacements == {"xr", "xe", "xc1", "xc2"}

Halfway(S, i) == S[1].x + (S[i].x - S[1].x) \div 2

Shrunk(S, fs) == [i \in Vertices |-> IF i = 1 THEN S[1] ELSE [x |-> Halfway(S, i), f |-> fs[i]]]

---------------------------------------------------------------------------
NoBarrier == [iters |-> 0, fevals |-> 0, h |-> Side]

Init ==
  /\ call \in Calls
  /\ pc = "called"
  /\ X = <<>> /\ k = 0 /\ nbr_fevals = 0
  /\ step = "nothing" /\ converged = FALSE
  /\ barrier = NoBarrier
  /\ result = <<>>

\* nelme counts its iterations from 0, nelme_modified from 1.
Simplex(x, h) ==
  /\ X' \in FirstSimplexes(x, h)
  /\ k' = (IF call.alg = 5 THEN 1 ELSE 0)
  /\ nbr_fevals' = 0
  /\ converged' = FALSE
  /\ pc' = "iterate"

Reject ==
  /\ pc = "called" /\ Rejected(call)
  /\ pc' = "ValueError"
  /\ UNCHANGED <<call, X, k, nbr_fevals, step, converged, barrier, result>>

NelderMead ==
  /\ pc = "called" /\ ~Rejected(call) /\ call.alg \in {1, 5}
  /\ Simplex(call.start, Side)
  /\ UNCHANGED <<call, step, barrier, result>>

\* de and galileo construct a GLP of OpenOpt, of which only NLP is imported.
GlobalSearch ==
  /\ pc = "called" /\ ~Rejected(call) /\ call.alg \in {3, 4}
  /\ pc' = "NameError"
  /\ UNCHANGED <<call, X, k, nbr_fevals, step, converged, barrier, result>>

\* The head of the loop: all vertices are evaluated and sorted, then convergence.
Iterate ==
  /\ pc = "iterate" /\ WithinLimits(k, nbr_fevals)
  /\ nbr_fevals' = Plus(nbr_fevals, n + 1, MaxFevals)
  /\ \E p \in Orders :
       /\ X' = [i \in Vertices |-> X[p[i]]]
       /\ Sorted(X')
  /\ \E term_x \in BOOLEAN :
       /\ term_x => Small(X')
       /\ converged' = (term_x \/ TermF(X'))
  /\ pc' = IF converged' THEN "stop" ELSE "move"
  /\ UNCHANGED <<call, k, step, barrier, result>>

LimitReached ==
  /\ pc = "iterate" /\ ~WithinLimits(k, nbr_fevals)
  /\ pc' = "stop"
  /\ UNCHANGED <<call, X, k, nbr_fevals, step, converged, barrier, result>>

\* f is the value of the branch's own point; a variable that is not assigned in this
\* iteration holds the value of another point, of an earlier one.
Move ==
  /\ pc = "move"
  /\ \E fr \in Fvals :
       LET branch    == Branch(X, fr)
           evaluated == Batch \cup Late(branch) IN
       \E f \in IF Own(branch) = "xr" THEN {fr} ELSE Fvals :
       \E held \in IF Own(branch) \in evaluated THEN {f} ELSE Fvals :
          /\ step' = Accepts(X, branch, fr, held)
          /\ nbr_fevals' = Plus(nbr_fevals, Cardinality(Batch) + Cardinality(Late(branch)), MaxFevals)
          /\ k' = IF branch = "none" THEN k ELSE k + 1
          /\ \/ step' = "shrink"  /\ \E fs \in [2 .. n + 1 -> Fvals] : X' = Shrunk(X, fs)
             \/ step' = "nothing" /\ X' = X
             \/ /\ step' \in Replacements
                /\ X' = [X EXCEPT ![n + 1] =
                           [x |-> TrialPoints(X)[step'], f |-> IF step' = "xr" THEN fr ELSE f]]
  /\ pc' = "iterate"
  /\ UNCHANGED <<call, converged, barrier, result>>

\* The first vertex is the result; nelme evaluates it once more.
Stop ==
  /\ pc = "stop"
  /\ nbr_fevals' = Plus(nbr_fevals, IF call.alg = 5 THEN 0 ELSE 1, MaxFevals)
  /\ result' = <<X[1]>>
  /\ pc' = IF call.alg = 2 THEN "test" ELSE "done"
  /\ UNCHANGED <<call, X, k, step, converged, barrier>>

---------------------------------------------------------------------------
\* seqbar: minimize with a barrier, halve barrier and simplex, start from there.
BarrierRound ==
  /\ \/ pc = "called" /\ ~Rejected(call) /\ call.alg = 2
     \/ pc = "barrier" /\ WithinLimits(barrier.iters, barrier.fevals)
  /\ Simplex(IF result = <<>> THEN call.start ELSE result[1].x, barrier.h)
  /\ barrier' = [barrier EXCEPT !.fevals = Plus(@, 1, MaxFevals)]
  /\ UNCHANGED <<call, step, result>>

BarrierTest ==
  /\ pc = "test"
  /\ \E term \in BOOLEAN :
       /\ pc' = IF term THEN "finish" ELSE "barrier"
       /\ barrier' = [barrier EXCEPT !.iters = Plus(@, k, MaxIters),
                                     !.fevals = Plus(@, nbr_fevals, MaxFevals),
                                     !.h = IF term THEN @ ELSE @ \div 2]
  /\ UNCHANGED <<call, X, k, nbr_fevals, step, converged, result>>

BarrierEnd ==
  /\ \/ pc = "finish"
     \/ pc = "barrier" /\ ~WithinLimits(barrier.iters, barrier.fevals)
  /\ \E f \in Values : result' = <<[x |-> result[1].x, f |-> f]>>
  /\ barrier' = [barrier EXCEPT !.fevals = Plus(@, 1, MaxFevals)]
  /\ pc' = "done"
  /\ UNCHANGED <<call, X, k, nbr_fevals, step, converged>>

Next == Reject \/ NelderMead \/ GlobalSearch \/ Iterate \/ LimitReached \/ Move \/ Stop
        \/ BarrierRound \/ BarrierTest \/ BarrierEnd

Spec == Init /\ [][Next]_vars /\ WF_vars(Next)

---------------------------------------------------------------------------
Inside(x) == ("lb" \in call.bounds => Lower < x) /\ ("ub" \in call.bounds => x < Upper)

(***************************************************************************)
(* "Handles box bound constraints": no vertex ever lies on or outside a    *)
(* given bound, though the inside contraction, the shrink step and the     *)
(* restarts of seqbar are not clipped; a barrier function would be         *)
(* undefined there.                                                        *)
(***************************************************************************)
InsideBounds == \A i \in DOMAIN X : Inside(X[i].x)

\* NaN is worse than every value.
Better(a, b) == a # NaN /\ (b = NaN \/ a < b)

(***************************************************************************)
(* A vertex is only ever replaced by a better one.  The step is decided    *)
(* before that vertex is looked at again, from values evaluated in a batch *)
(* or by the branch itself, depending on the cores: a branch that forgets  *)
(* compares what an earlier iteration left in the variable, and a simplex  *)
(* that is not in order makes it compare with the wrong vertex.            *)
(***************************************************************************)
StepsImprove ==
  [][pc = "move" /\ step' \in Replacements => Better(X'[n + 1].f, X[n + 1].f)]_vars

(***************************************************************************)
(* Every call ends, even when the function yields NaN and no branch of the *)
(* step applies: then only the count of evaluations grows.                 *)
(***************************************************************************)
Terminates == <>(pc \in {"done", "ValueError", "NameError"})
=============================================================================
