----------------------- MODULE RealTimeControl_proofs -----------------------
(****************************************************************************)
(* The problem, whoever drives it: the handle, predictive control, and the  *)
(* two loops in real time. For any horizon, any numbers of elements and of  *)
(* points that CountsAssumption and ModesAssumption allow, with and without *)
(* scaling of the equations, and for any number of calls, samples and       *)
(* steps, the properties of the runs hold: SolvesAsAsked, OptimumTold,      *)
(* InputForNow, GuessAligned and ErrorOfThisStep are invariants of Spec. A  *)
(* handle on any other problem hands the solver what its caller last asked  *)
(* for, too: SolvesAsAsked is an invariant of HandleSpec(op).               *)
(*                                                                          *)
(* The first part is about the handle. Types play no part there, so the     *)
(* records are described by their shape alone (Shaped): which fields they   *)
(* have.                                                                    *)
(*                                                                          *)
(* None of the properties is inductive. StackInv adds what relates the      *)
(* parts: the invariant of the handle, which holds with every client; that  *)
(* a sample is a run, that the last solution is as many samples back as     *)
(* there were failures, and which input and which guess are kept of it; and *)
(* that a step of a loop is a sample, whose input led to the state that was *)
(* measured.                                                                *)
(****************************************************************************)
EXTENDS RealTimeControl, TLAPS

(************************ the handle: its invariant *************************)

Shaped(c) ==
    /\ c = [op |-> c.op, par |-> c.par, traj |-> c.traj, interp |-> c.interp,
            guess |-> c.guess, bounds |-> c.bounds, primal |-> c.primal, dual |-> c.dual,
            warm |-> c.warm, in |-> c.in, runs |-> c.runs, used |-> c.used]
    /\ c.par = [model |-> c.par.model, ext |-> c.par.ext,
                scale |-> c.par.scale, eq |-> c.par.eq]
    /\ c.in = [x0 |-> c.in.x0, p |-> c.in.p, bx |-> c.in.bx,
               lamg |-> c.in.lamg, lamx |-> c.in.lamx]

ShapedHandle(h) ==
    h = [initTrajSet |-> h.initTrajSet, nominalUpdated |-> h.nominalUpdated,
         optionsChanged |-> h.optionsChanged, calls |-> h.calls, error |-> h.error,
         from |-> h.from]

InputNames == {"x0", "p", "bx", "lamg", "lamx"}

\* The last solution is kept with its multipliers, those per unscaled equation,
\* and the interpolated trajectories are those last set.
Kept(c) ==
    /\ c.runs \in Int
    /\ c.interp = c.traj
    /\ c.primal # None => /\ c.primal = [run |-> c.runs, scale |-> c.primal.scale]
                          /\ c.dual = [run |-> c.runs, unit |-> 0]

\* Bounds and last solution are in the units of the present scaling, unless the
\* handle has noted that it changed.
UnitsNoted ==
    ~handle.nominalUpdated => /\ coll.bounds = coll.par.scale
                              /\ coll.primal # None => coll.primal.scale = coll.par.scale

\* While there is a solution, the collocator has the guess and the bounds that it
\* was found with, and its values are in the units of its run.
Told(c) ==
    c.primal # None => /\ c.used # None /\ c.guess = c.used.guess
                       /\ c.bounds = c.used.bounds
                       /\ c.primal.scale = c.used.par.scale

HandleInv == /\ Shaped(coll) /\ ShapedHandle(handle)
             /\ Kept(coll) /\ UnitsNoted /\ Told(coll)
             /\ SolvesAsAsked

(* A record that describes a solution is not the value of a missing one.     *)
LEMMA RunIsSome == ASSUME NEW x, NEW y PROVE [run |-> x, scale |-> y] # None
BY DOMAIN [run |-> x, scale |-> y] = {"run", "scale"}, DOMAIN None = {} DEF None

------------------------------------------------------------------------------
(****************************** the operators ******************************)

(* What the handle prepares: parameters copied, and bounds and guess made    *)
(* anew when something they depend on changed.                               *)
LEMMA PreparedShape ==
    ASSUME Shaped(coll)
    PROVE  /\ Shaped(Prepared)
           /\ Prepared.op = coll.op /\ Prepared.par.model = coll.op
           /\ Prepared.par.scale = coll.par.scale
           /\ Prepared.traj = coll.traj /\ Prepared.interp = coll.interp
           /\ Prepared.primal = coll.primal /\ Prepared.dual = coll.dual
           /\ Prepared.warm = coll.warm /\ Prepared.runs = coll.runs
           /\ Prepared.used = coll.used
           /\ IF handle.initTrajSet \/ handle.nominalUpdated
              THEN /\ Prepared.bounds = coll.par.scale
                   /\ Prepared.guess = GuessOf("traj", coll.interp, 0, coll.par.scale)
              ELSE Prepared.bounds = coll.bounds
<1> DEFINE b == IF handle.initTrajSet \/ handle.nominalUpdated
                THEN ComputeBoundsAndInit(coll) ELSE coll
<1>1. /\ Shaped(b) /\ b.op = coll.op /\ b.par = coll.par /\ b.traj = coll.traj
      /\ b.interp = coll.interp /\ b.primal = coll.primal /\ b.dual = coll.dual
      /\ b.warm = coll.warm /\ b.runs = coll.runs /\ b.used = coll.used
      /\ IF handle.initTrajSet \/ handle.nominalUpdated
         THEN /\ b.bounds = coll.par.scale
              /\ b.guess = GuessOf("traj", coll.interp, 0, coll.par.scale)
         ELSE b.bounds = coll.bounds
  BY DEF Shaped, ComputeBoundsAndInit
<1>2. Prepared = RecalculateModelParameters(b)
  BY DEF Prepared
<1> HIDE DEF b
<1> QED
  BY <1>1, <1>2 DEF Shaped, RecalculateModelParameters

(* Guess, parameters and bounds are handed over, and nothing else changes.   *)
LEMMA InitAndSetShape ==
    ASSUME NEW c, Shaped(c)
    PROVE  InitAndSetSolverInputs(c) =
               [c EXCEPT !.in = [x0 |-> c.guess, p |-> c.par, bx |-> c.bounds,
                                 lamg |-> c.in.lamg, lamx |-> c.in.lamx]]
<1> DEFINE i == [c.in EXCEPT !.x0 = c.guess, !.p = c.par, !.bx = c.bounds]
<1>1. i = [x0 |-> c.guess, p |-> c.par, bx |-> c.bounds,
           lamg |-> c.in.lamg, lamx |-> c.in.lamx]
  <2>1. DOMAIN c.in = InputNames
    BY DEF Shaped, InputNames
  <2>2. i = [k \in InputNames |->
                IF k = "bx" THEN c.bounds ELSE IF k = "p" THEN c.par
                ELSE IF k = "x0" THEN c.guess ELSE c.in[k]]
    BY <2>1
  <2> QED
    BY <2>1, <2>2 DEF InputNames
<1>2. InitAndSetSolverInputs(c) = [c EXCEPT !.in = i]
  BY DEF Shaped, InitAndSetSolverInputs
<1> QED
  BY <1>1, <1>2

(* A solver that starts over and is given its inputs: everything but the     *)
(* inputs stays, and a warm start or a new scaling gives it the bounds.      *)
LEMMA RestartedShape ==
    ASSUME NEW c, Shaped(c)
    PROVE  LET r == Restarted(c)
           IN /\ Shaped(r) /\ r.op = c.op /\ r.par = c.par /\ r.traj = c.traj
              /\ r.interp = c.interp /\ r.guess = c.guess /\ r.bounds = c.bounds
              /\ r.primal = c.primal /\ r.dual = c.dual /\ r.warm = c.warm
              /\ r.runs = c.runs /\ r.used = c.used
              /\ c.warm => r.in.bx = c.bounds
<1> DEFINE i == IF handle.optionsChanged THEN SolverInit(c) ELSE c
<1>1. /\ Shaped(i) /\ i.op = c.op /\ i.par = c.par /\ i.traj = c.traj
      /\ i.interp = c.interp /\ i.guess = c.guess /\ i.bounds = c.bounds
      /\ i.primal = c.primal /\ i.dual = c.dual /\ i.warm = c.warm
      /\ i.runs = c.runs /\ i.used = c.used
  BY DEF Shaped, SolverInit, NoInputs
<1>2. Restarted(c) = IF c.warm \/ handle.nominalUpdated
                     THEN InitAndSetSolverInputs(i) ELSE i
  BY DEF Restarted
<1> HIDE DEF i
<1> QED
  BY <1>1, <1>2, InitAndSetShape DEF Shaped

(* A step that solves: the inputs of the solver fit the collocator, and the  *)
(* new solution is kept in the units of its own scaling. The multipliers     *)
(* that a warm start is given are those of the solution before.              *)
LEMMA SetForSolveShape ==
    ASSUME NEW c, Shaped(c), Kept(c), c.warm => c.primal # None /\ c.in.bx = c.bounds
    PROVE  LET e == SetForSolve(c)
           IN /\ Shaped(e) /\ e.op = c.op /\ e.traj = c.traj /\ e.interp = c.interp
              /\ e.guess = c.guess /\ e.bounds = c.bounds /\ e.primal = c.primal
              /\ e.warm = c.warm /\ e.runs = c.runs
              /\ e.par.model = c.par.model /\ e.par.scale = c.par.scale
              /\ e.in.x0 = c.guess /\ e.in.p = e.par /\ e.in.bx = c.bounds
              /\ c.warm => /\ e.in.lamg = [run |-> c.runs, unit |-> e.par.eq]
                           /\ e.in.lamx = c.runs
<1> DEFINE u == UpdateEquationScaling(c)
<1>1. /\ Shaped(u) /\ u.op = c.op /\ u.traj = c.traj /\ u.interp = c.interp
      /\ u.guess = c.guess /\ u.bounds = c.bounds /\ u.primal = c.primal
      /\ u.dual = c.dual /\ u.warm = c.warm /\ u.runs = c.runs /\ u.in = c.in
      /\ u.par.model = c.par.model /\ u.par.scale = c.par.scale
  BY DEF Shaped, UpdateEquationScaling
<1>2. SetForSolve(c) =
         IF ~u.warm THEN InitAndSetSolverInputs(u)
         ELSE [u EXCEPT !.in = [@ EXCEPT !.x0 = u.guess, !.p = u.par,
                                         !.lamg = InvScaleResiduals(u.dual, u.par.eq),
                                         !.lamx = u.dual.run]]
  BY DEF SetForSolve
<1> HIDE DEF u
<1>3. CASE ~c.warm
  BY <1>1, <1>2, <1>3, InitAndSetShape DEF Shaped
<1>4. CASE c.warm
  <2>1. InvScaleResiduals(u.dual, u.par.eq) = [run |-> c.runs, unit |-> u.par.eq]
        /\ u.dual.run = c.runs
    BY <1>1, <1>4 DEF Kept, InvScaleResiduals
  <2> DEFINE i == [u.in EXCEPT !.x0 = u.guess, !.p = u.par,
                               !.lamg = [run |-> c.runs, unit |-> u.par.eq],
                               !.lamx = c.runs]
  <2>2. SetForSolve(c) = [u EXCEPT !.in = i]
    BY <1>1, <1>2, <1>4, <2>1 DEF Shaped
  <2>3. i = [x0 |-> u.guess, p |-> u.par, bx |-> u.in.bx,
             lamg |-> [run |-> c.runs, unit |-> u.par.eq], lamx |-> c.runs]
    <3>1. DOMAIN u.in = InputNames
      BY <1>1 DEF Shaped, InputNames
    <3>2. i = [k \in InputNames |->
                  IF k = "lamx" THEN c.runs
                  ELSE IF k = "lamg" THEN [run |-> c.runs, unit |-> u.par.eq]
                  ELSE IF k = "p" THEN u.par ELSE IF k = "x0" THEN u.guess
                  ELSE u.in[k]]
      BY <3>1
    <3> QED
      BY <3>1, <3>2 DEF InputNames
  <2> HIDE DEF i
  <2> DEFINE q == [u EXCEPT !.in = i]
  <2>4. Shaped(q)
    BY <1>1, <2>3 DEF Shaped
  <2>5. /\ q.op = u.op /\ q.traj = u.traj /\ q.interp = u.interp /\ q.guess = u.guess
        /\ q.bounds = u.bounds /\ q.primal = u.primal /\ q.warm = u.warm
        /\ q.runs = u.runs /\ q.par = u.par /\ q.in = i
    BY <1>1 DEF Shaped
  <2>6. /\ i.x0 = u.guess /\ i.p = u.par /\ i.bx = u.in.bx
        /\ i.lamg = [run |-> c.runs, unit |-> u.par.eq] /\ i.lamx = c.runs
    BY <2>3
  <2> HIDE DEF q
  <2>7. SetForSolve(c) = q
    BY <2>2 DEF q
  <2> QED
    BY <1>1, <1>4, <2>4, <2>5, <2>6, <2>7
<1> QED
  BY <1>3, <1>4

(* An evaluation of a collocator that is prepared for it: what the solver is *)
(* handed is recorded with the state it was made of, a warm start has the    *)
(* multipliers of the solution before, and the new solution is kept in the   *)
(* units of its own scaling.                                                 *)
LEMMA Evaluated ==
    ASSUME NEW c, Shaped(c), Kept(c), c.warm => c.primal # None /\ c.in.bx = c.bounds,
           c.par.model = c.op, c.bounds = c.par.scale
    PROVE  LET s == SolveNlp(c)
           IN /\ Shaped(s) /\ Kept(s) /\ Told(s)
              /\ s.op = c.op /\ s.traj = c.traj /\ s.interp = c.interp
              /\ s.guess = c.guess /\ s.bounds = c.bounds /\ s.warm = c.warm
              /\ s.par.scale = c.par.scale /\ s.in.bx = c.bounds
              /\ s.runs = c.runs + 1 /\ s.primal # None /\ s.primal.scale = c.par.scale
              /\ s.used # None /\ s.used.in = s.in /\ s.used.op = c.op
              /\ s.used.par = s.par /\ s.used.bounds = c.bounds
              /\ s.used.guess = c.guess /\ s.used.warm = c.warm
              /\ s.par.model = c.op /\ s.in.x0 = c.guess /\ s.in.p = s.par
              /\ c.warm => /\ s.in.lamg = [run |-> c.runs, unit |-> s.par.eq]
                           /\ s.in.lamx = c.runs
<1> DEFINE e == SetForSolve(c)
<1>1. /\ Shaped(e) /\ e.op = c.op /\ e.traj = c.traj /\ e.interp = c.interp
      /\ e.guess = c.guess /\ e.bounds = c.bounds /\ e.primal = c.primal
      /\ e.warm = c.warm /\ e.runs = c.runs
      /\ e.par.model = c.op /\ e.par.scale = c.par.scale
      /\ e.in.x0 = c.guess /\ e.in.p = e.par /\ e.in.bx = c.bounds
      /\ c.warm => /\ e.in.lamg = [run |-> c.runs, unit |-> e.par.eq]
                   /\ e.in.lamx = c.runs
  BY SetForSolveShape
<1> HIDE DEF e
<1> DEFINE n == e.runs + 1
           used == [in |-> e.in, op |-> e.op, par |-> e.par, bounds |-> e.bounds,
                    guess |-> e.guess, warm |-> e.warm, last |-> e.primal]
           s == [e EXCEPT !.runs = n, !.used = used,
                          !.primal = [run |-> n, scale |-> e.par.scale],
                          !.dual = [run |-> n, unit |-> 0]]
<1>2. SolveNlp(c) = s
  <2>1. ScaleResiduals([run |-> n, unit |-> e.par.eq], e.par.eq) = [run |-> n, unit |-> 0]
    BY DEF ScaleResiduals
  <2> QED
    BY <2>1 DEF SolveNlp, e
<1>3. /\ used.in = e.in /\ used.op = e.op /\ used.par = e.par /\ used.bounds = e.bounds
      /\ used.guess = e.guess /\ used.warm = e.warm /\ used # None
  BY DOMAIN used = {"in", "op", "par", "bounds", "guess", "warm", "last"},
     DOMAIN None = {} DEF None
<1> HIDE DEF used
<1> HIDE DEF s
<1>0. s = [e EXCEPT !.runs = n, !.used = used,
                    !.primal = [run |-> n, scale |-> e.par.scale],
                    !.dual = [run |-> n, unit |-> 0]]
  BY DEF s
<1>4. /\ Shaped(s) /\ s.op = e.op /\ s.par = e.par /\ s.traj = e.traj
      /\ s.interp = e.interp /\ s.guess = e.guess /\ s.bounds = e.bounds
      /\ s.primal = [run |-> n, scale |-> e.par.scale] /\ s.dual = [run |-> n, unit |-> 0]
      /\ s.warm = e.warm /\ s.in = e.in /\ s.runs = n /\ s.used = used
  BY <1>0, <1>1 DEF Shaped
<1>5. Kept(s)
  BY <1>1, <1>4 DEF Kept
<1>6. Told(s) /\ s.primal # None
  BY <1>1, <1>3, <1>4, RunIsSome DEF Told
<1> QED
  BY <1>1, <1>2, <1>3, <1>4, <1>5, <1>6

------------------------------------------------------------------------------
(******************************* the theorem *******************************)

(* The first collocator and its handle satisfy the invariant.                *)
LEMMA HandleInitInv == ASSUME NEW op, HandleInit(op) PROVE HandleInv
<1>1. Shaped(NewCollocator(op))
  BY DEF NewCollocator, NoInputs, Shaped
<1>2. coll = NewCollocator(op)
  BY DEF HandleInit, SolverInit, NewCollocator
<1>3. ShapedHandle(handle) /\ handle.from = None
  BY DEF HandleInit, NewHandle, ShapedHandle
<1>4. /\ coll.runs = 0 /\ coll.interp = coll.traj /\ coll.primal = None
      /\ coll.used = None /\ coll.bounds = coll.par.scale
  BY <1>2 DEF NewCollocator
<1> QED
  BY <1>1, <1>2, <1>3, <1>4
     DEF HandleInv, Kept, UnitsNoted, Told, SolvesAsAsked, SolvesCurrent, WarmStartRight

(* A call that does not evaluate the solver keeps what was evaluated, and    *)
(* the last solution; what it changes it notes.                              *)
LEMMA QuietStep ==
    ASSUME HandleInv, Shaped(coll'), ShapedHandle(handle'),
           coll'.runs = coll.runs, coll'.primal = coll.primal, coll'.dual = coll.dual,
           coll'.used = coll.used, coll'.interp = coll'.traj, handle'.from = None,
           coll.primal # None => coll'.guess = coll.guess /\ coll'.bounds = coll.bounds,
           UnitsNoted'
    PROVE  HandleInv'
BY DEF HandleInv, Kept, Told, SolvesAsAsked, SolvesCurrent, WarmStartRight

(* So is it for every call but that of optimize with a solution to start     *)
(* from.                                                                     *)
LEMMA QuietCalls ==
    ASSUME HandleInv,
           Set \/ SetExternalVariableData \/ SetInitTraj \/ SetNominalTraj
               \/ SetSolverOption \/ SetWarmStart \/ HandleCodegen
    PROVE  HandleInv'
<1> USE DEF Called
<1>0. Shaped(coll) /\ ShapedHandle(handle) /\ coll.interp = coll.traj /\ UnitsNoted
  BY DEF HandleInv, Kept
<1>1. CASE Set
  BY <1>0, <1>1, QuietStep DEF Set, Shaped, ShapedHandle, UnitsNoted
<1>2. CASE SetExternalVariableData
  BY <1>0, <1>2, QuietStep DEF SetExternalVariableData, Shaped, ShapedHandle, UnitsNoted
<1>3. CASE SetInitTraj
  BY <1>0, <1>3, QuietStep
     DEF SetInitTraj, InitTrajectories, Shaped, ShapedHandle, UnitsNoted
<1>4. CASE SetNominalTraj
  BY <1>0, <1>4, QuietStep DEF SetNominalTraj, Shaped, ShapedHandle, UnitsNoted
<1>5. CASE SetSolverOption
  BY <1>0, <1>5, QuietStep DEF SetSolverOption, Shaped, ShapedHandle, UnitsNoted
<1>6. CASE SetWarmStart
  BY <1>0, <1>6, QuietStep DEF SetWarmStart, Shaped, ShapedHandle, UnitsNoted
<1>7. CASE HandleCodegen
  BY <1>0, <1>7, QuietStep DEF HandleCodegen, EnableCodegen, Shaped, ShapedHandle, UnitsNoted
<1> QED
  BY <1>1, <1>2, <1>3, <1>4, <1>5, <1>6, <1>7

(* Without a solution to start from the handle does not evaluate the solver, *)
(* and forgets that the scaling changed only when the bounds were made anew. *)
LEMMA NothingToStartFrom ==
    ASSUME HandleInv, OptimizeWithoutSolution
    PROVE  HandleInv'
<1> DEFINE r == Restarted(Prepared)
           u == UpdateEquationScaling(r)
<1>0. /\ Shaped(coll) /\ ShapedHandle(handle) /\ coll.interp = coll.traj
      /\ UnitsNoted /\ coll.primal = None
  BY DEF HandleInv, Kept, OptimizeWithoutSolution
<1>1. /\ Shaped(r) /\ r.traj = coll.traj /\ r.interp = coll.interp
      /\ r.primal = coll.primal /\ r.dual = coll.dual /\ r.runs = coll.runs
      /\ r.used = coll.used /\ r.bounds = Prepared.bounds
      /\ r.par.scale = coll.par.scale
  BY <1>0, PreparedShape, RestartedShape
<1> HIDE DEF r
<1>2. /\ Shaped(u) /\ u.traj = coll.traj /\ u.interp = coll.interp
      /\ u.primal = coll.primal /\ u.dual = coll.dual /\ u.runs = coll.runs
      /\ u.used = coll.used /\ u.bounds = Prepared.bounds
      /\ u.par.scale = coll.par.scale
  BY <1>1 DEF Shaped, UpdateEquationScaling
<1>3. coll' = IF handle.initTrajSet THEN [u EXCEPT !.in.p = u.par]
              ELSE IF handle.optionsChanged THEN SolverInit(Prepared) ELSE Prepared
  BY DEF OptimizeWithoutSolution, r
<1> HIDE DEF u
<1>4. /\ Shaped(coll') /\ coll'.traj = coll.traj /\ coll'.interp = coll.interp
      /\ coll'.primal = coll.primal /\ coll'.dual = coll.dual
      /\ coll'.runs = coll.runs /\ coll'.used = coll.used
      /\ coll'.bounds = Prepared.bounds /\ coll'.par.scale = coll.par.scale
  <2>1. CASE handle.initTrajSet
    BY <1>2, <1>3, <2>1 DEF Shaped
  <2>2. CASE ~handle.initTrajSet
    BY <1>0, <1>3, <2>2, PreparedShape DEF Shaped, SolverInit, NoInputs
  <2> QED
    BY <2>1, <2>2
<1>5. /\ ShapedHandle(handle') /\ handle'.from = None
      /\ handle'.nominalUpdated = (handle.nominalUpdated /\ ~handle.initTrajSet)
  BY <1>0 DEF OptimizeWithoutSolution, Called, ShapedHandle
<1>6. UnitsNoted'
  BY <1>0, <1>4, <1>5, PreparedShape DEF UnitsNoted
<1> QED
  BY <1>0, <1>4, <1>5, <1>6, QuietStep

(* A solution: what is handed over was prepared from the present state.      *)
LEMMA Solution ==
    ASSUME HandleInv, Optimize
    PROVE  HandleInv'
<1> DEFINE p == Prepared
           w == WarmGuess(p)
           r == Restarted(w)
<1>0. /\ Shaped(coll) /\ ShapedHandle(handle) /\ Kept(coll) /\ UnitsNoted
      /\ coll.warm => coll.primal # None
  BY DEF HandleInv, Optimize
<1>1. /\ Shaped(p) /\ p.op = coll.op /\ p.par.model = coll.op
      /\ p.par.scale = coll.par.scale /\ p.bounds = coll.par.scale
      /\ p.traj = coll.traj /\ p.interp = coll.traj /\ p.primal = coll.primal
      /\ p.dual = coll.dual /\ p.warm = coll.warm /\ p.runs = coll.runs
      /\ handle.initTrajSet => p.guess = GuessOf("traj", coll.traj, 0, coll.par.scale)
  BY <1>0, PreparedShape DEF Kept, UnitsNoted
<1> HIDE DEF p
<1>2. /\ Shaped(w) /\ w.op = p.op /\ w.par = p.par /\ w.bounds = p.bounds
      /\ w.traj = p.traj /\ w.interp = p.interp /\ w.primal = p.primal
      /\ w.dual = p.dual /\ w.warm = p.warm /\ w.runs = p.runs
      /\ handle.initTrajSet => w.guess = p.guess
      /\ p.warm /\ ~handle.initTrajSet => w.guess = PrimalGuess(p)
  BY <1>1 DEF Shaped, WarmGuess
<1> HIDE DEF w
<1>3. /\ Shaped(r) /\ r.op = p.op /\ r.par = p.par /\ r.bounds = p.bounds
      /\ r.traj = p.traj /\ r.interp = p.interp /\ r.primal = p.primal
      /\ r.dual = p.dual /\ r.warm = p.warm /\ r.runs = p.runs /\ r.guess = w.guess
      /\ r.warm => r.in.bx = r.bounds
  BY <1>2, RestartedShape
<1> HIDE DEF r
<1>4. /\ Kept(r) /\ (r.warm => r.primal # None /\ r.in.bx = r.bounds)
      /\ r.par.model = r.op /\ r.bounds = r.par.scale
  BY <1>0, <1>1, <1>2, <1>3 DEF Kept
<1> DEFINE s == SolveNlp(r)
<1>5. /\ Shaped(s) /\ Kept(s) /\ Told(s)
      /\ s.op = coll.op /\ s.guess = w.guess /\ s.bounds = coll.par.scale
      /\ s.par.scale = coll.par.scale /\ s.runs = coll.runs + 1 /\ s.primal # None
      /\ s.primal.scale = coll.par.scale
      /\ s.used # None /\ s.used.in = s.in /\ s.used.op = coll.op /\ s.used.par = s.par
      /\ s.used.bounds = coll.par.scale /\ s.used.guess = w.guess
      /\ s.used.warm = coll.warm /\ s.par.model = coll.op
      /\ s.in.x0 = w.guess /\ s.in.p = s.par /\ s.in.bx = coll.par.scale
      /\ coll.warm => /\ s.in.lamg = [run |-> coll.runs, unit |-> s.par.eq]
                      /\ s.in.lamx = coll.runs
  BY <1>1, <1>2, <1>3, <1>4, Evaluated
<1>6. coll' = s
  BY DEF Optimize, r, w, p
<1> HIDE DEF s
<1>7. /\ ShapedHandle(handle') /\ ~handle'.nominalUpdated
      /\ handle'.from = [traj |-> handle.initTrajSet, version |-> coll.traj,
                         rescaled |-> handle.nominalUpdated]
  BY <1>0 DEF Optimize, Called, ShapedHandle
<1>8. UnitsNoted'
  BY <1>5, <1>6 DEF UnitsNoted
<1>9. SolvesCurrent'
  BY <1>5, <1>6 DEF SolvesCurrent
<1>10. WarmStartRight'
  <2>1. coll'.runs - 1 = coll.runs
    BY <1>0, <1>5, <1>6 DEF Kept
  <2>2. coll.warm /\ ~handle.initTrajSet =>
          /\ w.guess = GuessOf("primal", coll.runs, 0, coll.primal.scale)
          /\ ~handle.nominalUpdated => coll.primal.scale = coll.par.scale
    BY <1>0, <1>1, <1>2 DEF Kept, UnitsNoted, PrimalGuess
  <2> QED
    BY <1>1, <1>2, <1>5, <1>6, <1>7, <2>1, <2>2 DEF WarmStartRight, GuessOf
<1> QED
  BY <1>5, <1>6, <1>7, <1>8, <1>9, <1>10 DEF HandleInv, SolvesAsAsked

(* The invariant of the handle: SolvesAsAsked, with the shapes, the last     *)
(* solution that is kept, and what the handle notes of a new scaling.        *)
THEOREM HandleInvariant == ASSUME NEW op PROVE HandleSpec(op) => []HandleInv
<1>1. HandleInit(op) => HandleInv
  BY HandleInitInv
<1>2. HandleInv /\ [HandleNext]_nlpVars => HandleInv'
  <2> SUFFICES ASSUME HandleInv, [HandleNext]_nlpVars PROVE HandleInv'
    OBVIOUS
  <2>1. CASE UNCHANGED nlpVars
    BY <2>1 DEF nlpVars, HandleInv, Shaped, ShapedHandle, Kept, UnitsNoted, Told,
                SolvesAsAsked, SolvesCurrent, WarmStartRight
  <2> QED
    BY <2>1, QuietCalls, NothingToStartFrom, Solution DEF HandleNext
<1> QED
  BY <1>1, <1>2, PTL DEF HandleSpec

(* The solver is handed what its caller last asked for, and a warm start     *)
(* begins where the last solution or the given trajectory is, for every      *)
(* problem and any number of calls.                                          *)
THEOREM HandleSolvesAsAsked == ASSUME NEW op PROVE HandleSpec(op) => []SolvesAsAsked
<1>1. HandleInv => SolvesAsAsked
  BY DEF HandleInv
<1> QED
  BY <1>1, HandleInvariant, PTL

(******************************* the problem *******************************)

OpNames == {"user", "x0", "start", "u0", "moves", "err"}

\* Outside of the handle nothing is scaled anew, and a warm start, which does not
\* set the bounds, comes after a solution that did.
Unscaled ==
    /\ handle = NewHandle
    /\ coll.par.scale = 0 /\ coll.bounds = 0
    /\ coll.warm => coll.primal # None /\ coll.in.bx = 0
    /\ DOMAIN coll.op = OpNames

CollInv == HandleInv /\ (client # "handle" => Unscaled)

(****************************** the controller ******************************)

MpcNames == {"nbr", "start", "asked", "found", "fails", "shifted", "result", "file",
             "optInput", "userTraj", "everTraj", "sets", "phase"}

\* What a controller is made with, and stays.
ConfigInv ==
    /\ config.nes \in Nat \ {0}
    /\ config.mode \in {"collocation_points", "mesh_points", "element_interpolation"}
    /\ config.hs \in {"none", "given"}

\* Samples that are done: all but the one that is asked for.
Done == IF mpc.asked THEN mpc.nbr - 1 ELSE mpc.nbr

MpcTypes ==
    /\ DOMAIN mpc = MpcNames
    /\ mpc.nbr \in Nat /\ mpc.fails \in Nat
    /\ mpc.asked \in BOOLEAN /\ (mpc.asked => mpc.nbr > 0)
    /\ mpc.userTraj \in BOOLEAN /\ (mpc.userTraj => mpc.everTraj)

\* An input of a run, and of the sample that is so many samples later, when the
\* rows of the result are counted right.
InputOf(u, run, later) ==
    /\ u.run = run /\ u.sample \in Int
    /\ RowsRight(later) => u.sample = run + later

\* Every sample that is done was a run; the last solution that was found is as
\* many samples back as there were failures since, and the input is one of it.
ResultsInv ==
    /\ coll.runs = Done
    /\ Done > 0 =>
          /\ coll.primal # None
          /\ mpc.found \in BOOLEAN /\ (mpc.found => mpc.fails = 0)
          /\ mpc.result \in Nat \ {0} /\ mpc.result = Done - mpc.fails
          /\ InputOf(mpc.optInput, mpc.result, mpc.fails)

\* The problem has the last input, and its change is weighed.
InputInv ==
    /\ mpc.nbr > 1 => coll.op.moves
    /\ mpc.nbr > 1 /\ mpc.asked => coll.op.u0 = mpc.optInput
    /\ InputForNow

\* The guess of the last sample: what was found, moved by the samples since.
ShiftedRight ==
    /\ mpc.shifted = GuessOf("primal", mpc.shifted.n, mpc.shifted.shift, mpc.shifted.scale)
    /\ mpc.shifted.n \in Int /\ mpc.shifted.shift \in Int
    /\ mpc.shifted.n + mpc.shifted.shift = Done
    /\ ~mpc.found => mpc.shifted.n = mpc.result
    /\ coll.used.guess = mpc.shifted

\* With 'prev' it is what was found.
PreviousRight ==
    /\ coll.used.guess.src = "primal" /\ coll.used.guess.shift = 0
    /\ ~mpc.found => coll.used.guess.n = mpc.result

GuessInv ==
    Done > 0 /\ ~mpc.everTraj =>
        /\ Done = 1 => mpc.found
        /\ Done > 1 /\ config.guess = "shift" => ShiftedRight
        /\ Done > 1 /\ config.guess = "prev" => PreviousRight

ControllerInv == MpcTypes /\ (Alive => ResultsInv /\ InputInv /\ GuessInv)
MpcInv == IF client \in {"mpc", "rtmpc"} THEN ControllerInv ELSE mpc.nbr = 0

(********************************* the loop *********************************)

LoopNames == {"k", "phase", "x", "last", "u", "sent", "err", "integral", "save", "outs",
              "ins", "waits", "t", "res", "observed", "point", "alreadyRun", "saved"}

\* Inputs of the two loops, and states.
RtInputs == [step : Nat, of : Int, corrected : BOOLEAN]
LqrInputs == [step : Nat, shifted : BOOLEAN, point : Int, corrected : BOOLEAN]
Inputs == RtInputs \cup LqrInputs
States == [of : Nat, by : Inputs \cup {None}, shifted : BOOLEAN]

LoopTypes ==
    /\ DOMAIN loop = LoopNames
    /\ loop.k \in Nat /\ loop.integral \in BOOLEAN
    /\ client = "lqr" => loop.point \in Int
    /\ loop.outs \in Seq(States) /\ Len(loop.outs) = loop.k + 1
    /\ loop.ins \in Seq(Inputs \cup {None}) /\ Len(loop.ins) = loop.k + 1

\* Phases of a step: from the state to an input, and with the input to the next
\* state.
Stepping == loop.phase \in {"new", "update", "sample", "measure"}
Computing == loop.phase \in {"new", "update", "sample"}

\* Before an input is sent the loop is at the last state; it came of the last input.
Measured ==
    Computing =>
        /\ loop.x = loop.last
        /\ loop.k > 0 =>
              /\ loop.ins[loop.k + 1] \in Inputs
              /\ loop.last.by = [loop.ins[loop.k + 1] EXCEPT !.corrected = loop.integral]

\* After it is sent the plant was simulated with it.
Sent ==
    loop.phase = "measure" =>
        /\ loop.u \in Inputs
        /\ loop.res = [from |-> loop.k, to |-> loop.k + 1,
                       by |-> [loop.u EXCEPT !.corrected = loop.integral]]

StepInv ==
    Stepping =>
        /\ loop.t = loop.k /\ loop.last = loop.outs[loop.k + 1] /\ loop.last.of = loop.k
        /\ loop.phase = "new" => loop.k = 0
        /\ (loop.k = 0 \/ ~loop.integral) => loop.err = None
        /\ Measured /\ Sent

\* The predictive loop: a sample for each step, and the error of the last step is
\* a parameter of the problem.
RtInv ==
    client = "rtmpc" =>
        /\ config.guess = "shift"
        /\ Stepping =>
              /\ Alive /\ mpc.asked = (loop.phase = "sample") /\ Done = (IF Computing THEN loop.k ELSE loop.k + 1)
              /\ loop.k > 0 /\ loop.integral =>
                    /\ loop.err = [now |-> loop.k, predicted |-> PredictionTime(loop.k, NCp),
                                   run |-> loop.k]
                    /\ coll.op.err = loop.k
                    /\ loop.phase = "measure" => coll.used.op.err = loop.k

\* The linear loop: the input of a step is computed at the point of operation of
\* the step, of the state relative to it.
LqrInputRight(u, k) == u.step = k /\ u.shifted /\ u.point = loop.point
LqrInv ==
    client = "lqr" =>
        /\ loop.phase # "sample"
        /\ loop.phase = "measure" => LqrInputRight(loop.u, loop.k)
        /\ loop.phase = "update" /\ loop.k > 0 => LqrInputRight(loop.ins[loop.k + 1], loop.k - 1)
        /\ loop.phase = "update" /\ loop.k > 0 /\ loop.integral =>
              loop.err = [now |-> loop.k, last |-> loop.outs[loop.k], input |-> loop.k - 1,
                          point |-> loop.point]

LoopInv ==
    /\ LoopTypes /\ StepInv /\ RtInv /\ LqrInv
    /\ ~Looping => loop.phase = "new"

StackInv == CollInv /\ ConfigInv /\ MpcInv /\ LoopInv

------------------------------------------------------------------------------
(****************************** rows and samples ******************************)

(* Rows are counted by elements: a multiple is divided without a rest.       *)
LEMMA DivMul == ASSUME NEW a \in Nat, NEW b \in Nat, b > 0 PROVE (a * b) \div b = a
BY SMT

(* Any other row has an element too.                                         *)
LEMMA DivInt == ASSUME NEW a \in Int, NEW b \in Nat, b > 0 PROVE a \div b \in Int
BY SMT

(* The row that is read after so many failures is of the present sample,     *)
(* where rows are counted right.                                             *)
LEMMA RowsOfSamples ==
    ASSUME ConfigInv, NEW r \in Int, NEW f \in Nat
    PROVE  InputOf(OptInput(r, f), r, f)
<1> DEFINE n == config.nes
           e == ElementOf(OptInputRow(f))
<1>0. /\ n \in Nat /\ n > 0 /\ NCp \in Nat /\ NCp > 0 /\ NEval \in Nat /\ NEval > 1
  BY CountsAssumption DEF ConfigInv
<1> HIDE DEF n
<1>1. e \in Int /\ (f = 0 => e = 0) /\ (RowsRight(f) => e = n * f)
  <2>1. CASE config.mode = "collocation_points"
    <3>1. n * NCp \in Nat /\ (n * NCp) * f \in Nat /\ n * f \in Nat
      BY <1>0
    <3>2. OptInputRow(f) = (n * NCp) * f + 1
      BY <1>0, <2>1, <3>1 DEF OptInputRow, Row, NbrValuesPerSample, n
    <3>3. e = ((n * NCp) * f) \div NCp
      BY <2>1, <3>1, <3>2 DEF ElementOf
    <3>4. (n * NCp) * f = (n * f) * NCp
      BY <1>0
    <3>5. e = n * f
      BY <1>0, <3>1, <3>3, <3>4, DivMul
    <3> QED
      BY <1>0, <3>1, <3>5
  <2>2. CASE config.mode = "mesh_points"
    <3>1. n * f \in Nat
      BY <1>0
    <3>2. OptInputRow(f) = n * f + 1
      BY <1>0, <2>2, <3>1 DEF OptInputRow, Row, NbrValuesPerSample, n
    <3>3. e = n * f
      BY <2>2, <3>1, <3>2 DEF ElementOf
    <3> QED
      BY <1>0, <3>1, <3>3
  <2>3. CASE config.mode = "element_interpolation"
    <3> DEFINE q == n * NEval
    <3>1. q \in Nat /\ q > 0
      BY <1>0
    <3>2. OptInputRow(f) = (q - 1) * f + 1
      BY <2>3 DEF OptInputRow, Row, NbrValuesPerSample, n
    <3>3. (q - 1) * f \in Nat
      BY <3>1
    <3>4. e = OptInputRow(f) \div NEval
      BY <2>3 DEF ElementOf
    <3>5. e \in Int
      BY <1>0, <3>2, <3>3, <3>4, DivInt
    <3>6. f = 0 => e = 0
      BY <1>0, <3>2, <3>4
    <3>7. f = 1 => e = n
      BY <1>0, <3>1, <3>2, <3>4, DivMul
    <3> QED
      BY <1>0, <2>3, <3>5, <3>6, <3>7 DEF RowsRight
  <2> QED
    BY <2>1, <2>2, <2>3 DEF ConfigInv
<1> HIDE DEF e
<1>5. /\ StartOfElement(e) \in Int
      /\ f = 0 => StartOfElement(e) = 0
      /\ RowsRight(f) => StartOfElement(e) = n * f
  BY <1>0, <1>1 DEF StartOfElement, RowsRight, n, ConfigInv
<1>6. OptInput(r, f) = [sample |-> r + StartOfElement(e) \div n, run |-> r]
  BY DEF OptInput, SampleOfRow, e, n
<1>7. StartOfElement(e) \div n \in Int
  BY <1>0, <1>5, DivInt
<1>8. RowsRight(f) => StartOfElement(e) \div n = f
  BY <1>0, <1>5, DivMul
<1> QED
  BY <1>6, <1>7, <1>8 DEF InputOf

------------------------------------------------------------------------------
(******************************** the problem ********************************)

(* The guess of a sample changes nothing else of the problem: bounds that    *)
(* are made again are the same, since nothing was scaled anew.               *)
LEMMA GuessedShape ==
    ASSUME NEW c, Shaped(c), c.interp = c.traj, c.par.scale = 0, c.bounds = 0
    PROVE  LET g == GuessedBy(c)
           IN /\ Shaped(g) /\ g.op = c.op /\ g.par = c.par /\ g.interp = g.traj
              /\ g.bounds = 0 /\ g.primal = c.primal /\ g.dual = c.dual
              /\ g.warm = c.warm /\ g.in = c.in /\ g.runs = c.runs /\ g.used = c.used
<1> DEFINE u == [c EXCEPT !.traj = mpc.sets]
           t == InitTrajectories(u)
           b == ComputeBoundsAndInit(c)
           d == SetInitTrajectory(c, mpc.sets)
           Same(g) == /\ Shaped(g) /\ g.op = c.op /\ g.par = c.par /\ g.interp = g.traj
                      /\ g.bounds = 0 /\ g.primal = c.primal /\ g.dual = c.dual
                      /\ g.warm = c.warm /\ g.in = c.in /\ g.runs = c.runs
                      /\ g.used = c.used
<1>1. Same(d)
  <2>1. /\ Shaped(u) /\ u.op = c.op /\ u.par = c.par /\ u.bounds = 0
        /\ u.primal = c.primal /\ u.dual = c.dual /\ u.warm = c.warm /\ u.in = c.in
        /\ u.runs = c.runs /\ u.used = c.used
    BY DEF Shaped
  <2>2. d = ComputeBoundsAndInit(t)
    BY DEF SetInitTrajectory
  <2> HIDE DEF d, u
  <2>3. Same(t)
    BY <2>1 DEF Shaped, InitTrajectories
  <2> HIDE DEF t
  <2> QED
    BY <2>2, <2>3 DEF Shaped, ComputeBoundsAndInit
<1>2. Same(c)
  OBVIOUS
<1>3. Same(b)
  <2> DEFINE z == GuessOf("traj", c.interp, 0, c.par.scale)
  <2>1. b = [c EXCEPT !.bounds = 0, !.guess = z]
    BY DEF ComputeBoundsAndInit
  <2> HIDE DEF b, z
  <2> QED
    BY <2>1 DEF Shaped
<1>4. ASSUME NEW x, NEW q, Same(q) PROVE Same([q EXCEPT !.guess = x])
  BY <1>4 DEF Shaped
<1>5. \/ GuessedBy(c) = d \/ GuessedBy(c) = c
      \/ GuessedBy(c) = [c EXCEPT !.guess = ShiftXx]
      \/ GuessedBy(c) = [b EXCEPT !.guess = GuessOf("result", mpc.file.run, 0, c.par.scale)]
      \/ GuessedBy(c) = [c EXCEPT !.guess = PrimalGuess(c)]
  BY DEF GuessedBy
<1>6. Same(GuessedBy(c))
  <2> HIDE DEF b, d, Same
  <2> QED
    BY <1>1, <1>2, <1>3, <1>4, <1>5
<1> QED
  BY <1>6

(* What is handed to the solver of a sample: the problem as it is, with a    *)
(* guess; a warm start has a solution to start from and the bounds.          *)
LEMMA ReadyToSample ==
    ASSUME CollInv, client # "handle", mpc.nbr > 1 => coll.primal # None
    PROVE  LET w == SetWarmStartOptions(GuessedBy(RecalculateModelParameters(coll)))
           IN /\ Shaped(w) /\ Kept(w)
              /\ w.warm => w.primal # None /\ w.in.bx = w.bounds
              /\ w.op = coll.op /\ w.par.model = w.op /\ w.par.scale = 0 /\ w.bounds = 0
              /\ w.guess = GuessedBy(RecalculateModelParameters(coll)).guess
              /\ w.runs = coll.runs
<1> DEFINE c == RecalculateModelParameters(coll)
           g == GuessedBy(c)
<1>0. /\ Shaped(coll) /\ Kept(coll) /\ coll.par.scale = 0 /\ coll.bounds = 0
      /\ coll.warm => coll.primal # None /\ coll.in.bx = 0
  BY DEF CollInv, HandleInv, Unscaled
<1>1. /\ Shaped(c) /\ c.op = coll.op /\ c.par.model = coll.op /\ c.par.scale = 0
      /\ c.interp = coll.interp /\ c.traj = coll.traj /\ c.bounds = 0
      /\ c.primal = coll.primal /\ c.dual = coll.dual /\ c.warm = coll.warm
      /\ c.in = coll.in /\ c.runs = coll.runs
  BY <1>0 DEF Shaped, RecalculateModelParameters
<1> HIDE DEF c
<1>2. /\ Shaped(g) /\ g.op = c.op /\ g.par = c.par /\ g.interp = g.traj
      /\ g.bounds = 0 /\ g.primal = c.primal /\ g.dual = c.dual
      /\ g.warm = c.warm /\ g.in = c.in /\ g.runs = c.runs
  BY <1>0, <1>1, GuessedShape DEF Kept
<1> HIDE DEF g
<1>3. Kept(g)
  BY <1>0, <1>1, <1>2 DEF Kept
<1>4. CASE mpc.nbr # 2
  <2>1. SetWarmStartOptions(g) = g
    BY <1>4 DEF SetWarmStartOptions
  <2> QED
    BY <1>0, <1>1, <1>2, <1>3, <2>1 DEF c, g
<1>5. CASE mpc.nbr = 2
  <2> DEFINE h == [g EXCEPT !.warm = TRUE]
             i == SolverInit(h)
             w == InitAndSetSolverInputs(i)
  <2>1. SetWarmStartOptions(g) = w
    BY <1>5 DEF SetWarmStartOptions
  <2>0. /\ Shaped(h) /\ h.op = g.op /\ h.par = g.par /\ h.interp = g.interp
        /\ h.traj = g.traj /\ h.guess = g.guess /\ h.bounds = 0 /\ h.primal = g.primal
        /\ h.dual = g.dual /\ h.runs = g.runs
    <3>1. ASSUME NEW x, NEW q, q = [g EXCEPT !.warm = x]
          PROVE  /\ Shaped(q) /\ q.op = g.op /\ q.par = g.par /\ q.interp = g.interp
                 /\ q.traj = g.traj /\ q.guess = g.guess /\ q.bounds = 0
                 /\ q.primal = g.primal /\ q.dual = g.dual /\ q.runs = g.runs
      BY <1>2, <3>1 DEF Shaped
    <3> QED
      BY <3>1
  <2> HIDE DEF h
  <2>2. /\ Shaped(i) /\ i.op = g.op /\ i.par = g.par /\ i.interp = g.interp
        /\ i.traj = g.traj /\ i.guess = g.guess /\ i.bounds = 0 /\ i.primal = g.primal
        /\ i.dual = g.dual /\ i.runs = g.runs
    BY <2>0 DEF Shaped, SolverInit, NoInputs
  <2> HIDE DEF i
  <2>3. w = [i EXCEPT !.in = [x0 |-> i.guess, p |-> i.par, bx |-> i.bounds,
                              lamg |-> i.in.lamg, lamx |-> i.in.lamx]]
    BY <2>2, InitAndSetShape
  <2> HIDE DEF w
  <2>4. /\ Shaped(w) /\ w.op = g.op /\ w.par = g.par /\ w.interp = g.interp
        /\ w.traj = g.traj /\ w.guess = g.guess /\ w.bounds = 0 /\ w.primal = g.primal
        /\ w.dual = g.dual /\ w.runs = g.runs /\ w.in.bx = 0
    BY <2>2, <2>3 DEF Shaped
  <2>5. Kept(w)
    BY <1>3, <2>4, <1>2 DEF Kept
  <2>6. w.primal # None
    BY <1>1, <1>2, <1>5, <2>4
  <2> QED
    BY <1>1, <1>2, <2>1, <2>4, <2>5, <2>6 DEF c, g
<1> QED
  BY <1>4, <1>5

(* A sample that solves: the invariant of the problem, and what it was       *)
(* evaluated with.                                                           *)
LEMMA SampledProblem ==
    ASSUME CollInv, client # "handle", mpc.nbr > 1 => coll.primal # None,
           coll' = Sampled, UNCHANGED <<handle, client>>
    PROVE  /\ CollInv' /\ coll'.op = coll.op /\ coll'.runs = coll.runs + 1
           /\ coll'.primal # None /\ coll'.used.op = coll.op
           /\ coll'.used.guess = GuessedBy(RecalculateModelParameters(coll)).guess
<1> DEFINE g == GuessedBy(RecalculateModelParameters(coll))
           w == SetWarmStartOptions(g)
<1>0. /\ handle = NewHandle /\ handle' = handle /\ client' # "handle"
      /\ ShapedHandle(handle) /\ DOMAIN coll.op = OpNames /\ coll.runs \in Int
  BY DEF CollInv, HandleInv, Unscaled, Kept
<1>1. /\ Shaped(w) /\ Kept(w)
      /\ w.warm => w.primal # None /\ w.in.bx = w.bounds
      /\ w.op = coll.op /\ w.par.model = w.op /\ w.par.scale = 0 /\ w.bounds = 0
      /\ w.guess = g.guess /\ w.runs = coll.runs
  BY ReadyToSample
<1>2. coll' = SolveNlp(w)
  BY DEF Sampled
<1> HIDE DEF w, g
<1>3. /\ Shaped(coll') /\ Kept(coll') /\ Told(coll')
      /\ coll'.op = coll.op /\ coll'.bounds = 0 /\ coll'.par.scale = 0 /\ coll'.in.bx = 0
      /\ coll'.runs = coll.runs + 1 /\ coll'.primal # None /\ coll'.primal.scale = 0
      /\ coll'.used # None /\ coll'.used.in = coll'.in /\ coll'.used.op = coll.op
      /\ coll'.used.par = coll'.par /\ coll'.used.bounds = 0
      /\ coll'.used.guess = g.guess /\ coll'.used.warm = w.warm
      /\ coll'.par.model = coll.op /\ coll'.in.x0 = g.guess /\ coll'.in.p = coll'.par
      /\ w.warm => /\ coll'.in.lamg = [run |-> coll.runs, unit |-> coll'.par.eq]
                   /\ coll'.in.lamx = coll.runs
  BY <1>1, <1>2, Evaluated
<1>4. handle'.from = None
  BY <1>0 DEF NewHandle
<1>5. SolvesCurrent'
  BY <1>3 DEF SolvesCurrent
<1>6. WarmStartRight'
  BY <1>0, <1>3, <1>4 DEF WarmStartRight
<1>7. UnitsNoted' /\ ShapedHandle(handle')
  BY <1>0, <1>3 DEF UnitsNoted
<1>8. HandleInv'
  BY <1>3, <1>5, <1>6, <1>7 DEF HandleInv, SolvesAsAsked
<1>9. Unscaled'
  BY <1>0, <1>3 DEF Unscaled
<1> QED
  BY <1>3, <1>8, <1>9 DEF CollInv, g

(* A step that changes the problem only in what no evaluation has seen yet   *)
(* keeps the invariant.                                                      *)
LEMMA ProblemStep ==
    ASSUME CollInv, client # "handle", UNCHANGED <<handle, client>>,
           Shaped(coll'), DOMAIN coll'.op = OpNames,
           coll'.par.scale = 0, coll'.bounds = coll.bounds, coll'.guess = coll.guess,
           coll'.warm = coll.warm, coll'.in.bx = coll.in.bx, coll'.runs = coll.runs,
           coll'.interp = coll.interp, coll'.traj = coll.traj, coll'.used = coll.used,
           coll'.primal = coll.primal, coll'.dual = coll.dual
    PROVE  CollInv'
<1>1. /\ Kept(coll) /\ UnitsNoted /\ Unscaled /\ handle.from = None
  BY DEF CollInv, HandleInv, Unscaled, NewHandle
<1>2. HandleInv'
  BY <1>1, QuietStep DEF CollInv, HandleInv, Kept, Unscaled, UnitsNoted
<1>3. Unscaled'
  BY <1>1 DEF Unscaled
<1> QED
  BY <1>2, <1>3 DEF CollInv

------------------------------------------------------------------------------
(****************************** the controller ******************************)

(* What a sample moves: without a trajectory, the last solution by one       *)
(* sample, or the last moved guess when it was none.                         *)
LEMMA GuessChosen ==
    ASSUME Shaped(coll), ~mpc.userTraj, mpc.nbr \in Nat, mpc.nbr > 1
    PROVE  LET g == GuessedBy(RecalculateModelParameters(coll)).guess
           IN /\ config.guess = "shift" => g = ShiftXx
              /\ config.guess = "prev" =>
                    g = IF mpc.found THEN PrimalGuess(coll) ELSE coll.guess
<1> DEFINE c == RecalculateModelParameters(coll)
<1>1. Shaped(c) /\ c.primal = coll.primal /\ c.guess = coll.guess
  BY DEF Shaped, RecalculateModelParameters
<1>2. PrimalGuess(c) = PrimalGuess(coll)
  BY <1>1 DEF PrimalGuess
<1> HIDE DEF c
<1>3. CASE config.guess = "shift"
  <2>1. GuessedBy(c) = [c EXCEPT !.guess = ShiftXx]
    BY <1>3 DEF GuessedBy
  <2> QED
    BY <1>1, <1>3, <2>1 DEF Shaped, c
<1>4. CASE config.guess = "prev"
  <2>1. GuessedBy(c) = IF mpc.found THEN [c EXCEPT !.guess = PrimalGuess(c)] ELSE c
    BY <1>4 DEF GuessedBy
  <2> QED
    BY <1>1, <1>2, <1>4, <2>1 DEF Shaped, c
<1> QED
  BY <1>3, <1>4

(* A call of update_state: the problem gets the input before, and the sample *)
(* that is asked for is not done.                                            *)
LEMMA UpdatedStep ==
    ASSUME CollInv, ConfigInv, ControllerInv, Alive, client # "handle", ~mpc.asked,
           NEW c, NEW x, NEW start, NEW user,
           c = coll \/ c = [coll EXCEPT !.op.user = user],
           UpdatedState(c, x, start), UNCHANGED <<handle, client, config>>
    PROVE  /\ CollInv' /\ ControllerInv' /\ Alive' /\ mpc'.asked /\ Done' = Done
           /\ coll'.op.err = coll.op.err
<1> DEFINE n == mpc.nbr + 1
           b == [c EXCEPT !.op.x0 = x, !.op.start = start]
           Same(q) == /\ Shaped(q) /\ DOMAIN q.op = OpNames /\ q.op.err = coll.op.err
                      /\ q.par = coll.par /\ q.bounds = coll.bounds
                      /\ q.guess = coll.guess /\ q.warm = coll.warm /\ q.in = coll.in
                      /\ q.runs = coll.runs /\ q.interp = coll.interp
                      /\ q.traj = coll.traj /\ q.used = coll.used
                      /\ q.primal = coll.primal /\ q.dual = coll.dual
<1>0. /\ Shaped(coll) /\ DOMAIN coll.op = OpNames /\ coll.par.scale = 0
      /\ DOMAIN mpc = MpcNames /\ mpc.nbr \in Nat /\ mpc.asked = FALSE
  BY DEF CollInv, HandleInv, Unscaled, ControllerInv, MpcTypes
<1>1. Same(c) /\ c.op.moves = coll.op.moves
  BY <1>0 DEF Shaped, OpNames
<1>2. Same(b) /\ b.op.moves = c.op.moves
  <2> DEFINE op == [c.op EXCEPT !.x0 = x, !.start = start]
  <2>1. b = [c EXCEPT !.op = op]
    BY <1>1 DEF Shaped
  <2>2. DOMAIN op = OpNames /\ op.err = c.op.err /\ op.moves = c.op.moves
    BY <1>1 DEF OpNames
  <2> HIDE DEF op, b
  <2> QED
    BY <1>1, <2>1, <2>2 DEF Shaped
<1>3. coll' = InputBefore(b, n)
  BY DEF UpdatedState
<1> HIDE DEF b
<1>4. Same(coll')
      /\ (n > 1 => coll'.op.u0 = mpc.optInput /\ coll'.op.moves = (b.op.moves \/ n = 2))
  BY <1>0, <1>2, <1>3 DEF InputBefore, Shaped, OpNames
<1>5. CollInv'
  BY <1>0, <1>4, ProblemStep
<1>6. /\ DOMAIN mpc' = MpcNames /\ mpc'.nbr = n /\ mpc'.asked = TRUE
      /\ mpc'.found = mpc.found /\ mpc'.fails = mpc.fails /\ mpc'.shifted = mpc.shifted
      /\ mpc'.result = mpc.result /\ mpc'.optInput = mpc.optInput
      /\ mpc'.userTraj = mpc.userTraj /\ mpc'.everTraj = mpc.everTraj
      /\ mpc'.phase = mpc.phase
  BY <1>0 DEF UpdatedState, MpcNames
<1>7. Done' = mpc.nbr /\ Done = mpc.nbr
  BY <1>0, <1>6 DEF Done
<1>8. MpcTypes' /\ Alive'
  <2>1. mpc'.asked \in BOOLEAN /\ mpc'.nbr > 0
    <3>1. mpc'.asked \in BOOLEAN
      BY <1>6, Zenon
    <3> QED
      BY <1>0, <1>6, <3>1
  <2> QED
    BY <1>0, <1>6, <2>1 DEF ControllerInv, MpcTypes, Alive
<1>9. ResultsInv /\ InputInv /\ GuessInv
  BY DEF ControllerInv
<1>10. ResultsInv'
  BY <1>4, <1>6, <1>7, <1>9 DEF ResultsInv, InputOf, RowsRight
<1>11. InputInv'
  <2>1. n > 1 => coll'.op.moves
    <3>1. CASE n = 2
      BY <1>4, <3>1
    <3>2. CASE n > 2
      <4>1. mpc.nbr > 1 /\ n > 1
        BY <1>0, <3>2
      <4>2. b.op.moves
        BY <1>1, <1>2, <1>9, <4>1, Zenon DEF InputInv
      <4> QED
        BY <1>4, <4>1, <4>2, Zenon
    <3> QED
      BY <1>0, <3>1, <3>2
  <2>2. InputForNow'
    BY <1>6 DEF InputForNow
  <2> QED
    BY <1>4, <1>6, <2>1, <2>2 DEF InputInv
<1>12. GuessInv'
  BY <1>4, <1>6, <1>7, <1>9 DEF GuessInv, ShiftedRight, PreviousRight
<1> QED
  BY <1>0, <1>4, <1>5, <1>6, <1>7, <1>8, <1>10, <1>11, <1>12 DEF ControllerInv

(* What a sample that solves, and does not raise, leaves of the controller.  *)
LEMMA SampledController ==
    ASSUME MpcTypes, Alive, SolutionFound \/ NoSolution, Alive'
    PROVE  /\ DOMAIN mpc' = MpcNames /\ mpc'.nbr = mpc.nbr /\ mpc'.asked = FALSE
           /\ mpc'.shifted = Shifted /\ mpc'.userTraj = FALSE
           /\ mpc'.everTraj = mpc.everTraj
           /\ \/ /\ mpc'.found = TRUE /\ mpc'.fails = 0 /\ mpc'.result = mpc.nbr
                 /\ mpc'.optInput = OptInput(mpc.nbr, 0)
              \/ /\ mpc.nbr # 1 /\ mpc'.found = FALSE /\ mpc'.fails = mpc.fails + 1
                 /\ mpc'.result = mpc.result
                 /\ mpc'.optInput = OptInput(mpc.result, mpc.fails + 1)
<1>0. DOMAIN mpc = MpcNames
  BY DEF MpcTypes
<1>1. CASE SolutionFound
  <2> DEFINE file == IF config.guess = "trajectory" THEN [run |-> mpc.nbr, ok |-> TRUE]
                     ELSE mpc.file
  <2>1. mpc' = [mpc EXCEPT !.asked = FALSE, !.found = TRUE, !.fails = 0,
                           !.result = mpc.nbr, !.shifted = Shifted, !.userTraj = FALSE,
                           !.file = file, !.optInput = OptInput(mpc.nbr, 0)]
    BY <1>0, <1>1 DEF SolutionFound, MpcNames
  <2> HIDE DEF file
  <2> QED
    BY <1>0, <2>1 DEF MpcNames
<1>2. CASE NoSolution
  <2> DEFINE fails == IF mpc.nbr = 1 THEN mpc.fails ELSE mpc.fails + 1
             failed == [mpc EXCEPT !.asked = FALSE, !.found = FALSE, !.shifted = Shifted,
                                   !.fails = fails]
  <2>1. mpc' = IF GivesUp THEN [failed EXCEPT !.phase = "raised"]
               ELSE IF NoRow THEN [failed EXCEPT !.phase = "raised", !.userTraj = FALSE]
               ELSE [failed EXCEPT !.userTraj = FALSE,
                                   !.optInput = OptInput(mpc.result, mpc.fails + 1)]
    BY <1>0, <1>2 DEF NoSolution, MpcNames
  <2>2. /\ DOMAIN failed = MpcNames /\ failed.nbr = mpc.nbr /\ failed.asked = FALSE
        /\ failed.shifted = Shifted /\ failed.everTraj = mpc.everTraj
        /\ failed.found = FALSE /\ failed.fails = fails /\ failed.result = mpc.result
    BY <1>0 DEF MpcNames
  <2> HIDE DEF failed
  <2>3. ~GivesUp /\ ~NoRow
    BY <2>1, <2>2 DEF Alive, MpcNames
  <2>4. mpc' = [failed EXCEPT !.userTraj = FALSE,
                              !.optInput = OptInput(mpc.result, mpc.fails + 1)]
    BY <2>1, <2>3
  <2>5. mpc.nbr # 1 /\ fails = mpc.fails + 1
    BY <2>3 DEF GivesUp
  <2> QED
    BY <2>2, <2>4, <2>5 DEF MpcNames
<1> QED
  BY <1>1, <1>2

(* The moved guess of a sample is a solution that was found, moved to the    *)
(* sample; after a failure it is the last solution still.                    *)
LEMMA ShiftedToSample ==
    ASSUME CollInv, MpcTypes, ResultsInv, GuessInv, ~mpc.everTraj,
           mpc.asked, mpc.nbr > 1, config.guess = "shift"
    PROVE  /\ ShiftXx = GuessOf("primal", ShiftXx.n, ShiftXx.shift, ShiftXx.scale)
           /\ ShiftXx.n \in Int /\ ShiftXx.shift \in Int
           /\ ShiftXx.n + ShiftXx.shift = mpc.nbr /\ ShiftXx.n = mpc.result
<1>0. /\ mpc.nbr \in Nat /\ Done = mpc.nbr - 1 /\ Done > 0 /\ coll.runs = Done
      /\ coll.primal = [run |-> coll.runs, scale |-> coll.primal.scale]
      /\ mpc.result \in Int /\ mpc.fails \in Nat /\ mpc.result = Done - mpc.fails
      /\ mpc.found => mpc.fails = 0
  BY DEF MpcTypes, Done, ResultsInv, CollInv, HandleInv, Kept
<1>1. CASE mpc.found
  <2>1. ShiftSource = GuessOf("primal", Done, 0, coll.primal.scale)
    BY <1>0, <1>1 DEF ShiftSource, PrimalGuess
  <2>2. ShiftXx = GuessOf("primal", Done, 1, coll.primal.scale)
    BY <2>1 DEF ShiftXx, GuessOf
  <2> QED
    BY <1>0, <1>1, <2>2 DEF GuessOf
<1>2. CASE ~mpc.found
  <2>1. Done > 1 /\ ShiftedRight
    BY <1>0, <1>2 DEF GuessInv
  <2>2. ShiftSource = mpc.shifted
    BY <1>2 DEF ShiftSource
  <2>3. ShiftXx = GuessOf("primal", mpc.shifted.n, mpc.shifted.shift + 1, mpc.shifted.scale)
    BY <2>1, <2>2 DEF ShiftXx, GuessOf, ShiftedRight
  <2> QED
    BY <1>0, <1>2, <2>1, <2>3 DEF GuessOf, ShiftedRight
<1> QED
  BY <1>1, <1>2

(* A sample: the invariants of the problem and of the controller, and what   *)
(* the problem was when it was solved.                                       *)
LEMMA SampleStep ==
    ASSUME CollInv, ConfigInv, ControllerInv, Alive, client # "handle", mpc.asked,
           SolvesOrRaises, UNCHANGED <<handle, client, config>>
    PROVE  /\ CollInv' /\ ControllerInv' /\ coll'.op = coll.op
           /\ Alive' => /\ ~mpc'.asked /\ Done' = Done + 1
                        /\ coll'.used.op = coll.op /\ mpc'.optInput.sample \in Int
<1>0. /\ Shaped(coll) /\ MpcTypes /\ ResultsInv /\ InputInv /\ GuessInv
      /\ mpc.nbr \in Nat /\ mpc.nbr > 0 /\ mpc.fails \in Nat /\ Done = mpc.nbr - 1
      /\ DOMAIN mpc = MpcNames /\ Unscaled
  BY DEF CollInv, HandleInv, ControllerInv, MpcTypes, Done
<1>1. CASE NothingToShift \/ (coll.primal = None /\ mpc.nbr > 1)
  <2>1. /\ mpc' = [mpc EXCEPT !.phase = "raised"]
        /\ coll' = RecalculateModelParameters(coll)
    BY <1>1 DEF SolvesOrRaises
  <2>2. MpcTypes' /\ ~Alive'
    BY <1>0, <2>1 DEF MpcTypes, MpcNames, Alive
  <2>3. Shaped(coll') /\ coll'.op = coll.op
    BY <1>0, <2>1 DEF RecalculateModelParameters, Shaped
  <2>4. CollInv'
    BY <1>0, <2>1, <2>3, ProblemStep DEF RecalculateModelParameters, Shaped, Unscaled
  <2> QED
    BY <2>2, <2>3, <2>4 DEF ControllerInv
<1>2. CASE ~(NothingToShift \/ (coll.primal = None /\ mpc.nbr > 1))
  <2> DEFINE g == GuessedBy(RecalculateModelParameters(coll)).guess
  <2>1. coll' = Sampled /\ (SolutionFound \/ NoSolution)
    BY <1>2 DEF SolvesOrRaises
  <2>2. /\ CollInv' /\ coll'.op = coll.op /\ coll'.runs = coll.runs + 1
        /\ coll'.primal # None /\ coll'.used.op = coll.op /\ coll'.used.guess = g
    BY <1>2, <2>1, SampledProblem
  <2> HIDE DEF g
  <2>3. MpcTypes'
    <3>1. CASE SolutionFound
      BY <1>0, <3>1 DEF SolutionFound, MpcTypes, MpcNames
    <3>2. CASE NoSolution
      <4> DEFINE fails == IF mpc.nbr = 1 THEN mpc.fails ELSE mpc.fails + 1
                 failed == [mpc EXCEPT !.asked = FALSE, !.found = FALSE,
                                       !.shifted = Shifted, !.fails = fails]
      <4>1. mpc' = IF GivesUp THEN [failed EXCEPT !.phase = "raised"]
                   ELSE IF NoRow THEN [failed EXCEPT !.phase = "raised", !.userTraj = FALSE]
                   ELSE [failed EXCEPT !.userTraj = FALSE,
                                       !.optInput = OptInput(mpc.result, mpc.fails + 1)]
        BY <1>0, <3>2 DEF NoSolution, MpcNames
      <4>2. /\ DOMAIN failed = MpcNames /\ failed.nbr = mpc.nbr /\ failed.asked = FALSE
            /\ failed.everTraj = mpc.everTraj /\ failed.userTraj = mpc.userTraj
            /\ failed.fails = fails /\ fails \in Nat
        BY <1>0 DEF MpcNames
      <4> HIDE DEF failed, fails
      <4>3. /\ DOMAIN mpc' = MpcNames /\ mpc'.nbr = mpc.nbr /\ mpc'.fails = fails
            /\ mpc'.asked = FALSE /\ mpc'.everTraj = mpc.everTraj
            /\ mpc'.userTraj = mpc.userTraj \/ mpc'.userTraj = FALSE
        BY <4>1, <4>2 DEF MpcNames
      <4>4. mpc'.asked \in BOOLEAN /\ (mpc'.asked => mpc'.nbr > 0)
        BY <4>3, Zenon
      <4>5. mpc'.userTraj \in BOOLEAN /\ (mpc'.userTraj => mpc'.everTraj)
        BY <1>0, <4>3, Zenon DEF MpcTypes
      <4> QED
        BY <1>0, <4>2, <4>3, <4>4, <4>5 DEF MpcTypes
    <3> QED
      BY <2>1, <3>1, <3>2
  <2>4. ASSUME Alive'
        PROVE  /\ ResultsInv' /\ InputInv' /\ GuessInv' /\ ~mpc'.asked /\ Done' = Done + 1
               /\ mpc'.optInput.sample \in Int
    <3>1. /\ DOMAIN mpc' = MpcNames /\ mpc'.nbr = mpc.nbr /\ mpc'.asked = FALSE
          /\ mpc'.shifted = Shifted /\ mpc'.userTraj = FALSE
          /\ mpc'.everTraj = mpc.everTraj
          /\ \/ /\ mpc'.found = TRUE /\ mpc'.fails = 0 /\ mpc'.result = mpc.nbr
                /\ mpc'.optInput = OptInput(mpc.nbr, 0)
             \/ /\ mpc.nbr # 1 /\ mpc'.found = FALSE /\ mpc'.fails = mpc.fails + 1
                /\ mpc'.result = mpc.result
                /\ mpc'.optInput = OptInput(mpc.result, mpc.fails + 1)
      BY <1>0, <2>1, <2>4, SampledController
    <3>2. Done' = mpc.nbr
      BY <3>1 DEF Done
    <3>3. mpc.nbr > 1 =>
             /\ mpc.result \in Nat \ {0} /\ mpc.result = Done - mpc.fails
             /\ mpc.found \in BOOLEAN /\ (mpc.found => mpc.fails = 0)
             /\ InputOf(mpc.optInput, mpc.result, mpc.fails)
             /\ coll.primal # None /\ coll.runs = Done
      BY <1>0 DEF ResultsInv
    <3>4. /\ mpc'.result \in Nat \ {0} /\ mpc'.result = mpc.nbr - mpc'.fails
          /\ mpc'.fails \in Nat /\ mpc'.found \in BOOLEAN
          /\ mpc'.found => mpc'.fails = 0
      <4>1. mpc'.found \in BOOLEAN
        BY <3>1, Zenon
      <4> QED
        BY <1>0, <3>1, <3>3, <4>1
    <3>5. InputOf(mpc'.optInput, mpc'.result, mpc'.fails)
      BY <1>0, <3>1, <3>4, RowsOfSamples
    <3>6. ResultsInv'
      BY <1>0, <2>2, <3>2, <3>4, <3>5 DEF ResultsInv, InputOf, RowsRight
    <3>7. InputForNow'
      <4>1. mpc.nbr > 1 =>
               /\ coll.op.u0 = mpc.optInput
               /\ coll.op.u0.run < mpc.nbr /\ coll.op.u0.run > 0
               /\ coll.op.u0.sample = mpc.nbr - 1
                  \/ config.mode = "element_interpolation" \/ config.hs = "given"
        BY <1>0, <3>3 DEF InputInv, InputOf, RowsRight, ConfigInv
      <4>2. mpc.nbr > 1 => coll.op.moves
        BY <1>0 DEF InputInv
      <4>3. mpc'.optInput.run = mpc'.result /\ mpc'.result = mpc'.nbr - mpc'.fails
        BY <3>1, <3>4, <3>5 DEF InputOf
      <4>4. RowsRight(mpc'.fails) => mpc'.optInput.sample = mpc'.nbr
        BY <1>0, <3>1, <3>4, <3>5 DEF InputOf, RowsRight
      <4> QED
        BY <2>2, <3>1, <4>1, <4>2, <4>3, <4>4 DEF InputForNow, RowsRight
    <3>8. InputInv'
      BY <1>0, <2>2, <3>1, <3>7 DEF InputInv
    <3>9. GuessInv'
      <4> SUFFICES ASSUME ~mpc.everTraj
                   PROVE  /\ mpc.nbr = 1 => mpc'.found
                          /\ mpc.nbr > 1 /\ config.guess = "shift" => ShiftedRight'
                          /\ mpc.nbr > 1 /\ config.guess = "prev" => PreviousRight'
        BY <3>1, <3>2 DEF GuessInv
      <4>1. mpc.nbr = 1 => mpc'.found
        BY <3>1
      <4>2. ~mpc.userTraj
        BY <1>0 DEF MpcTypes
      <4>3. ASSUME mpc.nbr > 1, config.guess = "shift" PROVE ShiftedRight'
        <5>1. Shifted = ShiftXx /\ g = ShiftXx
          BY <1>0, <4>2, <4>3, GuessChosen DEF Shifted, g
        <5>2. /\ ShiftXx = GuessOf("primal", ShiftXx.n, ShiftXx.shift, ShiftXx.scale)
              /\ ShiftXx.n \in Int /\ ShiftXx.shift \in Int
              /\ ShiftXx.n + ShiftXx.shift = mpc.nbr /\ ShiftXx.n = mpc.result
          BY <1>0, <4>3, ShiftedToSample
        <5> QED
          BY <2>2, <3>1, <3>2, <5>1, <5>2 DEF ShiftedRight
      <4>4. ASSUME mpc.nbr > 1, config.guess = "prev" PROVE PreviousRight'
        <5>1. g = IF mpc.found THEN PrimalGuess(coll) ELSE coll.guess
          BY <1>0, <4>2, <4>4, GuessChosen DEF g
        <5>2. CASE mpc.found
          <6>1. coll.primal.run = coll.runs
            BY <3>3, <4>4 DEF CollInv, HandleInv, Kept
          <6>2. g = GuessOf("primal", Done, 0, coll.primal.scale)
            BY <3>3, <4>4, <5>1, <5>2, <6>1 DEF PrimalGuess
          <6> QED
            BY <1>0, <2>2, <3>1, <3>3, <4>4, <5>2, <6>2 DEF PreviousRight, GuessOf
        <5>3. CASE ~mpc.found
          <6>1. Done > 1 /\ PreviousRight
            BY <1>0, <4>4, <5>3 DEF GuessInv
          <6>2. g = coll.used.guess
            BY <3>3, <4>4, <5>1, <5>3 DEF CollInv, HandleInv, Told
          <6> QED
            BY <2>2, <3>1, <5>3, <6>1, <6>2 DEF PreviousRight
        <5> QED
          BY <5>2, <5>3
      <4> QED
        BY <4>1, <4>3, <4>4
    <3> QED
      BY <1>0, <3>1, <3>2, <3>5, <3>6, <3>8, <3>9 DEF InputOf
  <2> QED
    BY <2>2, <2>3, <2>4 DEF ControllerInv
<1> QED
  BY <1>1, <1>2

(* A step between samples that leaves what the last sample left.             *)
LEMMA QuietController ==
    ASSUME ControllerInv, MpcTypes', config' = config,
           mpc'.nbr = mpc.nbr, mpc'.asked = mpc.asked, mpc'.found = mpc.found,
           mpc'.fails = mpc.fails, mpc'.shifted = mpc.shifted, mpc'.result = mpc.result,
           mpc'.optInput = mpc.optInput, mpc'.phase = mpc.phase,
           mpc.everTraj => mpc'.everTraj,
           coll'.used = coll.used, coll'.runs = coll.runs, coll'.primal = coll.primal,
           coll'.op.moves = coll.op.moves, coll'.op.u0 = coll.op.u0
    PROVE  ControllerInv'
<1>1. Done' = Done /\ (Alive' <=> Alive)
  BY DEF Done, Alive
<1>2. ASSUME Alive PROVE ResultsInv' /\ InputInv' /\ GuessInv'
  <2>1. ResultsInv /\ InputInv /\ GuessInv
    BY <1>2 DEF ControllerInv
  <2>2. ResultsInv'
    BY <1>1, <2>1 DEF ResultsInv, InputOf, RowsRight
  <2>3. InputInv'
    BY <1>1, <2>1 DEF InputInv, InputForNow, RowsRight
  <2>4. GuessInv'
    BY <1>1, <2>1 DEF GuessInv, ShiftedRight, PreviousRight
  <2> QED
    BY <2>2, <2>3, <2>4
<1> QED
  BY <1>1, <1>2 DEF ControllerInv

(* What else a caller of the controller does.                                *)
LEMMA CallerStep ==
    ASSUME CollInv, ControllerInv, client = "mpc",
           MpcSet \/ MpcSetInitTraj \/ MpcCodegen \/ GetResultsThisSample
    PROVE  CollInv' /\ ControllerInv'
<1>0. /\ Shaped(coll) /\ Unscaled /\ DOMAIN coll.op = OpNames /\ MpcTypes
      /\ DOMAIN mpc = MpcNames /\ coll.par.scale = 0
  BY DEF CollInv, HandleInv, Unscaled, ControllerInv, MpcTypes
<1>1. CASE MpcSet
  <2>1. CollInv'
    BY <1>0, <1>1, ProblemStep DEF MpcSet, Shaped, OpNames
  <2>2. MpcTypes'
    BY <1>0, <1>1 DEF MpcSet, MpcTypes, MpcNames
  <2> QED
    BY <1>0, <1>1, <2>1, <2>2, QuietController DEF MpcSet, Shaped, OpNames, MpcNames
<1>2. CASE MpcSetInitTraj
  <2>1. CollInv'
    BY <1>0, <1>2, ProblemStep DEF MpcSetInitTraj
  <2>2. /\ DOMAIN mpc' = MpcNames /\ mpc'.nbr = mpc.nbr /\ mpc'.asked = mpc.asked
        /\ mpc'.found = mpc.found /\ mpc'.fails = mpc.fails /\ mpc'.shifted = mpc.shifted
        /\ mpc'.result = mpc.result /\ mpc'.optInput = mpc.optInput
        /\ mpc'.phase = mpc.phase /\ mpc'.userTraj = TRUE /\ mpc'.everTraj = TRUE
    BY <1>0, <1>2 DEF MpcSetInitTraj, MpcNames
  <2>3. mpc'.userTraj \in BOOLEAN /\ mpc'.everTraj
    BY <2>2, Zenon
  <2>4. MpcTypes'
    BY <1>0, <2>2, <2>3 DEF MpcTypes
  <2> QED
    BY <1>2, <2>1, <2>2, <2>3, <2>4, QuietController DEF MpcSetInitTraj
<1>3. CASE MpcCodegen
  <2>1. CollInv'
    BY <1>0, <1>3, ProblemStep DEF MpcCodegen, EnableCodegen, Shaped
  <2>2. MpcTypes'
    BY <1>0, <1>3 DEF MpcCodegen, MpcTypes, MpcNames
  <2> QED
    BY <1>0, <1>3, <2>1, <2>2, QuietController
       DEF MpcCodegen, EnableCodegen, Shaped, MpcNames
<1>4. CASE GetResultsThisSample
  <2>1. CollInv'
    BY <1>0, <1>4, ProblemStep DEF GetResultsThisSample
  <2>2. MpcTypes'
    BY <1>0, <1>4 DEF GetResultsThisSample, MpcTypes, MpcNames
  <2> QED
    BY <1>0, <1>4, <2>1, <2>2, QuietController DEF GetResultsThisSample, MpcNames
<1> QED
  BY <1>1, <1>2, <1>3, <1>4

(* Every step of the controller that its caller asks for.                    *)
LEMMA ControllerStep ==
    ASSUME CollInv, ConfigInv, ControllerInv, MpcNext
    PROVE  CollInv' /\ ControllerInv'
<1>0. client = "mpc"
  BY DEF MpcNext, UpdateState, UpdateStateByPrediction, MpcMayUpdate, Sample, MpcSet,
         MpcSetInitTraj, MpcCodegen, MpcMaySet, GetResultsThisSample
<1>1. CASE UpdateState
  BY <1>0, <1>1, UpdatedStep DEF UpdateState, MpcMayUpdate
<1>2. CASE UpdateStateByPrediction
  <2>1. CASE NoPrediction
    <3>1. /\ mpc' = [mpc EXCEPT !.nbr = @ + 1, !.phase = "raised"] /\ coll' = coll
          /\ UNCHANGED <<handle, client, config>> /\ ~mpc.asked /\ DOMAIN mpc = MpcNames
      BY <1>2, <2>1 DEF UpdateStateByPrediction, MpcMayUpdate, ControllerInv, MpcTypes
    <3>2. MpcTypes' /\ ~Alive'
      BY <3>1 DEF ControllerInv, MpcTypes, MpcNames, Alive
    <3>3. CollInv'
      BY <1>0, <3>1, ProblemStep DEF CollInv, HandleInv, Unscaled
    <3> QED
      BY <3>2, <3>3 DEF ControllerInv
  <2>2. CASE ~NoPrediction
    <3> DEFINE x == IF mpc.nbr = 0 THEN coll.op.x0 ELSE Predicted
    <3>1. /\ UpdatedState(coll, x, NextStart)
          /\ UNCHANGED <<handle, client, config>> /\ Alive /\ ~mpc.asked
      BY <1>2, <2>2 DEF UpdateStateByPrediction, MpcMayUpdate
    <3> HIDE DEF x
    <3> QED
      BY <1>0, <3>1, UpdatedStep
  <2> QED
    BY <2>1, <2>2
<1>3. CASE Sample
  BY <1>0, <1>3, SampleStep DEF Sample
<1> QED
  BY <1>0, <1>1, <1>2, <1>3, CallerStep DEF MpcNext

------------------------------------------------------------------------------
(********************************* the loop *********************************)

(* A sequence with an element at its end.                                    *)
LEMMA Appended ==
    ASSUME NEW S, NEW s \in Seq(S), NEW e \in S
    PROVE  /\ Append(s, e) \in Seq(S) /\ Len(Append(s, e)) = Len(s) + 1
           /\ Append(s, e)[Len(s) + 1] = e
           /\ \A i \in 1..Len(s) : Append(s, e)[i] = s[i]
OBVIOUS

(* An input that is corrected is an input.                                   *)
LEMMA CorrectedInput ==
    ASSUME NEW u \in Inputs, NEW b \in BOOLEAN
    PROVE  [u EXCEPT !.corrected = b] \in Inputs
<1>1. CASE u \in RtInputs
  BY <1>1 DEF Inputs, RtInputs
<1>2. CASE u \in LqrInputs
  BY <1>2 DEF Inputs, LqrInputs
<1> QED
  BY <1>1, <1>2 DEF Inputs

(* An input is sent: the plant was simulated with it from the present time   *)
(* on, and what was recorded stays.                                          *)
LEMMA Applying ==
    ASSUME LoopTypes, StepInv, Computing, client' = client, NEW l, NEW u \in Inputs,
           DOMAIN l = LoopNames, l.k = loop.k, l.t = loop.t, l.last = loop.last,
           l.outs = loop.outs, l.ins = loop.ins, l.integral = loop.integral,
           l.err = loop.err, client = "lqr" => l.point \in Int,
           loop' = AppliedAs(l, u)
    PROVE  /\ LoopTypes' /\ StepInv'
           /\ loop'.phase = "measure" /\ loop'.u = u /\ loop'.point = l.point
           /\ loop'.k = loop.k /\ loop'.err = loop.err /\ loop'.integral = loop.integral
<1> DEFINE by == [u EXCEPT !.corrected = loop.integral]
           res == [from |-> l.t, to |-> l.t + 1, by |-> by]
<1>1. loop' = [l EXCEPT !.u = u, !.sent = by, !.res = res, !.phase = "measure"]
  BY DEF AppliedAs, SendControlSignal, ApplyError
<1> HIDE DEF by, res
<1>2. /\ DOMAIN loop' = LoopNames /\ loop'.phase = "measure" /\ loop'.u = u
      /\ loop'.res = res /\ loop'.k = loop.k /\ loop'.t = loop.t
      /\ loop'.last = loop.last /\ loop'.outs = loop.outs /\ loop'.ins = loop.ins
      /\ loop'.integral = loop.integral /\ loop'.err = loop.err /\ loop'.point = l.point
  BY <1>1 DEF LoopNames
<1>3. LoopTypes'
  BY <1>2 DEF LoopTypes
<1>4. /\ loop.t = loop.k /\ loop.last = loop.outs[loop.k + 1] /\ loop.last.of = loop.k
      /\ (loop.k = 0 \/ ~loop.integral) => loop.err = None
  BY DEF StepInv, Stepping, Computing
<1>5. Sent'
  BY <1>2, <1>4 DEF Sent, res, by
<1>6. StepInv'
  BY <1>2, <1>4, <1>5 DEF StepInv, Measured, Computing
<1> QED
  BY <1>2, <1>3, <1>6

(* What a step that measures makes of the loop.                              *)
LEMMA SteppedFields ==
    ASSUME DOMAIN loop = LoopNames, NEW x
    PROVE  LET l == Stepped(x)
           IN /\ DOMAIN l = LoopNames /\ l.phase = "update" /\ l.k = loop.k + 1
              /\ l.t = loop.t + 1 /\ l.x = x /\ l.last = x
              /\ l.outs = Append(loop.outs, x) /\ l.ins = Append(loop.ins, loop.u)
              /\ l.integral = loop.integral /\ l.err = loop.err /\ l.point = loop.point
<1> DEFINE w == WaitAndGetMeasurements(loop)
<1>1. /\ DOMAIN w = LoopNames /\ w.t = loop.t + 1 /\ w.k = loop.k /\ w.outs = loop.outs
      /\ w.ins = loop.ins /\ w.integral = loop.integral /\ w.err = loop.err
      /\ w.point = loop.point
  BY DEF WaitAndGetMeasurements, LoopNames
<1>2. Stepped(x) = [w EXCEPT !.k = @ + 1, !.x = x, !.last = x, !.phase = "update",
                            !.outs = Append(@, x), !.ins = Append(@, loop.u)]
  BY DEF Stepped
<1> HIDE DEF w
<1> QED
  BY <1>1, <1>2 DEF LoopNames

(* The state that is measured is that of the next step, and came of the      *)
(* input that is recorded with it.                                           *)
LEMMA Measuring ==
    ASSUME LoopTypes, StepInv, loop.phase = "measure", client' = client,
           NEW x, x = EstimateStates(GetMeasurements(loop)),
           DOMAIN loop' = LoopNames, loop'.phase = "update", loop'.k = loop.k + 1,
           loop'.t = loop.t + 1, loop'.x = x, loop'.last = x,
           loop'.outs = Append(loop.outs, x), loop'.ins = Append(loop.ins, loop.u),
           loop'.integral = loop.integral, loop'.point = loop.point,
           ~loop.integral => loop'.err = None
    PROVE  /\ LoopTypes' /\ StepInv' /\ x.of = loop.k + 1
           /\ loop'.ins[loop.k + 2] = loop.u
           /\ loop'.outs[loop.k + 1] = loop.outs[loop.k + 1]
<1> DEFINE by == [loop.u EXCEPT !.corrected = loop.integral]
<1>0. /\ loop.k \in Nat /\ loop.integral \in BOOLEAN /\ loop.u \in Inputs
      /\ loop.t = loop.k /\ loop.outs \in Seq(States) /\ Len(loop.outs) = loop.k + 1
      /\ loop.ins \in Seq(Inputs \cup {None}) /\ Len(loop.ins) = loop.k + 1
      /\ loop.res = [from |-> loop.k, to |-> loop.k + 1, by |-> by]
  BY DEF LoopTypes, StepInv, Stepping, Sent
<1>1. by \in Inputs
  BY <1>0, CorrectedInput
<1> HIDE DEF by
<1>2. x = [of |-> loop.k + 1, by |-> by, shifted |-> FALSE]
  BY <1>0 DEF EstimateStates, GetMeasurements, State
<1>3. x \in States /\ x.of = loop.k + 1 /\ x.by = by
  BY <1>0, <1>1, <1>2 DEF States
<1>4. /\ loop'.outs \in Seq(States) /\ Len(loop'.outs) = loop.k + 2
      /\ loop'.outs[loop.k + 2] = x /\ loop'.outs[loop.k + 1] = loop.outs[loop.k + 1]
  BY <1>0, <1>3, Appended
<1>5. /\ loop'.ins \in Seq(Inputs \cup {None}) /\ Len(loop'.ins) = loop.k + 2
      /\ loop'.ins[loop.k + 2] = loop.u
  BY <1>0, Appended
<1>6. LoopTypes'
  BY <1>0, <1>4, <1>5 DEF LoopTypes
<1>7. loop'.k + 1 = loop.k + 2 /\ loop'.k # 0 /\ loop'.t = loop'.k
  BY <1>0
<1>8. Measured'
  BY <1>0, <1>3, <1>5, <1>7 DEF Measured, by
<1>9. StepInv'
  BY <1>3, <1>4, <1>7, <1>8 DEF StepInv, Sent
<1> QED
  BY <1>3, <1>4, <1>5, <1>6, <1>9

(* Before the first step, and after the last one.                            *)
LEMMA OuterSteps ==
    ASSUME LoopInv, Run \/ Finish \/ SaveResults \/ RtEnableIntegralAction
                    \/ LqrEnableIntegralAction
    PROVE  LoopInv'
<1>0. /\ DOMAIN loop = LoopNames /\ LoopTypes /\ StepInv /\ RtInv /\ LqrInv
      /\ mpcVars' = mpcVars /\ Looping
  BY DEF LoopInv, LoopTypes, Run, Finish, SaveResults, RtEnableIntegralAction,
         LqrEnableIntegralAction, Looping
<1> DEFINE SameLoop(l) == /\ DOMAIN l = LoopNames /\ l.k = loop.k /\ l.x = loop.x
                       /\ l.last = loop.last /\ l.t = loop.t /\ l.outs = loop.outs
                       /\ l.ins = loop.ins /\ l.err = loop.err /\ l.point = loop.point
                       /\ l.u = loop.u /\ l.res = loop.res
<1>1. CASE Run
  <2>1. \E s \in BOOLEAN : loop' = [loop EXCEPT !.phase = "update", !.save = s]
    BY <1>1 DEF Run
  <2>2. SameLoop(loop') /\ loop'.integral = loop.integral /\ loop'.phase = "update"
    BY <1>0, <2>1 DEF LoopNames
  <2>3. loop.phase = "new" /\ loop.k = 0
    BY <1>0, <1>1 DEF Run, StepInv, Stepping
  <2>4. LoopTypes'
    BY <1>0, <2>2 DEF LoopTypes, mpcVars, nlpVars
  <2>5. StepInv'
    BY <1>0, <2>2, <2>3 DEF StepInv, Stepping, Measured, Sent, Computing
  <2>6. RtInv'
    BY <1>0, <2>2, <2>3 DEF RtInv, Stepping, Computing, Alive, Done, mpcVars, nlpVars
  <2>7. LqrInv'
    BY <1>0, <2>2, <2>3 DEF LqrInv, mpcVars, nlpVars
  <2> QED
    BY <1>0, <2>4, <2>5, <2>6, <2>7 DEF LoopInv, Looping, mpcVars, nlpVars
<1>2. CASE Finish \/ SaveResults
  <2>1. /\ SameLoop(loop') /\ loop'.integral = loop.integral
        /\ loop'.phase \in {"unsaved", "done"}
    <3>1. ASSUME NEW y, loop' = [loop EXCEPT !.phase = "done", !.alreadyRun = y]
          PROVE  SameLoop(loop') /\ loop'.integral = loop.integral /\ loop'.phase = "done"
      BY <1>0, <3>1 DEF LoopNames
    <3>2. ASSUME loop' = [loop EXCEPT !.phase = "unsaved"]
          PROVE  SameLoop(loop') /\ loop'.integral = loop.integral /\ loop'.phase = "unsaved"
      BY <1>0, <3>2 DEF LoopNames
    <3>3. ASSUME NEW y, loop' = [loop EXCEPT !.saved = y], loop.phase = "done"
          PROVE  SameLoop(loop') /\ loop'.integral = loop.integral /\ loop'.phase = "done"
      BY <1>0, <3>3 DEF LoopNames
    <3> HIDE DEF SameLoop
    <3> QED
      BY <1>2, <3>1, <3>2, <3>3 DEF Finish, SaveResults
  <2>2. LoopTypes'
    BY <1>0, <2>1 DEF LoopTypes, mpcVars, nlpVars
  <2> QED
    BY <1>0, <2>1, <2>2 DEF LoopInv, StepInv, Stepping, RtInv, LqrInv, Looping, mpcVars, nlpVars
<1>3. CASE RtEnableIntegralAction \/ LqrEnableIntegralAction
  <2>1. loop' = [loop EXCEPT !.integral = TRUE] /\ loop.phase = "new"
    BY <1>3 DEF RtEnableIntegralAction, LqrEnableIntegralAction
  <2>2. SameLoop(loop') /\ loop'.integral = TRUE /\ loop'.phase = "new"
    BY <1>0, <2>1 DEF LoopNames
  <2>3. loop.k = 0 /\ loop.err = None
    BY <1>0, <2>1 DEF StepInv, Stepping
  <2>4. loop'.integral \in BOOLEAN
    BY <2>2, Zenon
  <2>5. LoopTypes'
    BY <1>0, <2>2, <2>4 DEF LoopTypes, mpcVars, nlpVars
  <2>6. StepInv'
    BY <1>0, <2>1, <2>2, <2>3 DEF StepInv, Stepping, Measured, Sent, Computing
  <2>7. RtInv'
    BY <1>0, <2>1, <2>2, <2>3 DEF RtInv, Stepping, Computing, Alive, Done, mpcVars, nlpVars
  <2>8. LqrInv'
    BY <1>0, <2>2, <2>3 DEF LqrInv, mpcVars, nlpVars
  <2> QED
    BY <1>0, <2>2, <2>5, <2>6, <2>7, <2>8 DEF LoopInv, Looping, mpcVars, nlpVars
<1> QED
  BY <1>1, <1>2, <1>3

(* A loop that ends with an error.                                           *)
LEMMA Aborting ==
    ASSUME LoopTypes, Looping, client' = client, DOMAIN loop' = LoopNames,
           loop'.phase = "aborted",
           loop'.k = loop.k, loop'.integral = loop.integral, loop'.point = loop.point,
           loop'.outs = loop.outs, loop'.ins = loop.ins,
           client = "rtmpc" => config'.guess = "shift"
    PROVE  LoopInv'
BY DEF LoopInv, LoopTypes, StepInv, Stepping, RtInv, LqrInv, Looping

(* The predictive loop: the state is given to the problem, with the changes  *)
(* of parameters that are due.                                               *)
LEMMA RtUpdateStep ==
    ASSUME StackInv, RtUpdate
    PROVE  CollInv' /\ ControllerInv' /\ LoopInv'
<1> DEFINE user == GetNewPars(coll.op.user, loop.k)
           c == [coll EXCEPT !.op.user = user]
<1>0. /\ CollInv /\ ConfigInv /\ ControllerInv /\ LoopTypes /\ StepInv /\ RtInv
      /\ client = "rtmpc" /\ loop.phase = "update" /\ DOMAIN loop = LoopNames
      /\ UNCHANGED <<handle, client, config>> /\ Shaped(coll)
  BY DEF StackInv, MpcInv, LoopInv, LoopTypes, RtUpdate, CollInv, HandleInv
<1>1. Alive /\ mpc.asked = FALSE /\ Done = loop.k
  BY <1>0 DEF RtInv, Stepping, Computing
<1>2. UpdatedState(c, loop.x.of, NextStart)
  BY <1>0 DEF RtUpdate, Shaped
<1>3. /\ CollInv' /\ ControllerInv' /\ Alive' /\ mpc'.asked /\ Done' = Done
      /\ coll'.op.err = coll.op.err
  <2> HIDE DEF user
  <2> QED
    BY <1>0, <1>1, <1>2, UpdatedStep
<1>4. mpc'.asked = TRUE
  BY <1>3 DEF ControllerInv, MpcTypes
<1>5. loop' = [loop EXCEPT !.phase = "sample"]
  BY DEF RtUpdate
<1>6. /\ DOMAIN loop' = LoopNames /\ loop'.k = loop.k /\ loop'.x = loop.x
      /\ loop'.last = loop.last /\ loop'.t = loop.t /\ loop'.outs = loop.outs
      /\ loop'.ins = loop.ins /\ loop'.err = loop.err /\ loop'.point = loop.point
      /\ loop'.integral = loop.integral /\ loop'.phase = "sample"
  BY <1>0, <1>5 DEF LoopNames
<1>7. LoopTypes'
  BY <1>0, <1>6 DEF LoopTypes
<1>8. StepInv'
  BY <1>0, <1>6 DEF StepInv, Stepping, Measured, Sent, Computing
<1>9. RtInv'
  BY <1>0, <1>1, <1>3, <1>4, <1>6
     DEF RtInv, Stepping, Computing, PredictionTime, PredictionElements
<1> QED
  BY <1>0, <1>3, <1>7, <1>8, <1>9 DEF LoopInv, LqrInv, Looping

(* The input of the sample is sent.                                          *)
LEMMA RtSampleStep ==
    ASSUME StackInv, RtSample
    PROVE  CollInv' /\ ControllerInv' /\ LoopInv'
<1>0. /\ CollInv /\ ConfigInv /\ ControllerInv /\ LoopTypes /\ StepInv /\ RtInv
      /\ client = "rtmpc" /\ loop.phase = "sample" /\ DOMAIN loop = LoopNames
      /\ UNCHANGED <<handle, client, config>> /\ SolvesOrRaises /\ loop.k \in Nat
  BY DEF StackInv, MpcInv, LoopInv, LoopTypes, RtSample
<1>1. Alive /\ mpc.asked = TRUE /\ Done = loop.k /\ config.guess = "shift"
  BY <1>0 DEF RtInv, Stepping, Computing
<1>2. /\ CollInv' /\ ControllerInv' /\ coll'.op = coll.op
      /\ Alive' => /\ ~mpc'.asked /\ Done' = Done + 1
                   /\ coll'.used.op = coll.op /\ mpc'.optInput.sample \in Int
  BY <1>0, <1>1, SampleStep
<1>3. CASE ~Alive'
  <2>1. loop' = [loop EXCEPT !.phase = "aborted"]
    BY <1>3 DEF RtSample, Alive
  <2>2. LoopInv'
    BY <1>0, <1>1, <2>1, Aborting DEF LoopNames, Looping
  <2> QED
    BY <1>2, <2>2
<1>4. CASE Alive'
  <2> DEFINE u == [step |-> loop.k, of |-> mpc'.optInput.sample, corrected |-> FALSE]
  <2>1. loop' = AppliedAs(loop, u)
    BY <1>4 DEF RtSample, Alive
  <2>2. u \in Inputs
    BY <1>0, <1>2, <1>4 DEF Inputs, RtInputs
  <2> HIDE DEF u
  <2>3. /\ LoopTypes' /\ StepInv' /\ loop'.phase = "measure"
        /\ loop'.k = loop.k /\ loop'.err = loop.err /\ loop'.integral = loop.integral
    BY <1>0, <2>1, <2>2, Applying DEF Computing
  <2>4. mpc'.asked = FALSE
    BY <1>2, <1>4 DEF ControllerInv, MpcTypes
  <2>5. RtInv'
    BY <1>0, <1>1, <1>2, <1>4, <2>3, <2>4
       DEF RtInv, Stepping, Computing, PredictionTime, PredictionElements
  <2> QED
    BY <1>0, <1>2, <2>3, <2>5 DEF LoopInv, LqrInv, Looping
<1> QED
  BY <1>3, <1>4

(* The state is measured; with integral action it is compared with what the  *)
(* sample predicted.                                                         *)
LEMMA RtMeasureStep ==
    ASSUME StackInv, RtMeasure
    PROVE  CollInv' /\ ControllerInv' /\ LoopInv'
<1> DEFINE x == EstimateStates(GetMeasurements(loop))
<1>0. /\ CollInv /\ ConfigInv /\ ControllerInv /\ LoopTypes /\ StepInv /\ RtInv
      /\ client = "rtmpc" /\ loop.phase = "measure" /\ DOMAIN loop = LoopNames
      /\ UNCHANGED <<handle, client, config>> /\ loop.k \in Nat /\ loop.integral \in BOOLEAN
      /\ Shaped(coll) /\ Unscaled /\ DOMAIN coll.op = OpNames /\ coll.par.scale = 0
  BY DEF StackInv, MpcInv, LoopInv, LoopTypes, RtMeasure, CollInv, HandleInv, Unscaled
<1>1. /\ Alive /\ mpc.asked = FALSE /\ Done = loop.k + 1 /\ config.guess = "shift"
      /\ DOMAIN mpc = MpcNames /\ coll.runs = Done
      /\ (loop.k = 0 \/ ~loop.integral) => loop.err = None
  BY <1>0 DEF RtInv, Stepping, Computing, ControllerInv, MpcTypes, ResultsInv, StepInv
<1> DEFINE l == Stepped(x)
<1>2. /\ DOMAIN l = LoopNames /\ l.phase = "update" /\ l.k = loop.k + 1
      /\ l.t = loop.t + 1 /\ l.x = x /\ l.last = x
      /\ l.outs = Append(loop.outs, x) /\ l.ins = Append(loop.ins, loop.u)
      /\ l.integral = loop.integral /\ l.err = loop.err /\ l.point = loop.point
  BY <1>0, SteppedFields
<1>3. CASE ~loop.observed
  <2>1. loop' = Lacking /\ UNCHANGED <<mpc, coll>>
    BY <1>3 DEF RtMeasure
  <2>2. LoopInv'
    BY <1>0, <1>1, <2>1, Aborting DEF Lacking, WaitAndGetMeasurements, LoopNames, Looping
  <2>3. CollInv'
    BY <1>0, <2>1, ProblemStep
  <2>4. ControllerInv'
    BY <1>0, <2>1, QuietController DEF ControllerInv, MpcTypes
  <2> QED
    BY <2>2, <2>3, <2>4
<1>4. CASE loop.observed /\ loop.integral
  <2> DEFINE err == PredictionError(x, Written)
  <2>1. /\ mpc' = [mpc EXCEPT !.file = Written] /\ coll' = [coll EXCEPT !.op.err = x.of]
        /\ loop' = [l EXCEPT !.err = err]
    BY <1>4 DEF RtMeasure
  <2>2. Written.run = loop.k + 1
    BY <1>1 DEF Written
  <2> HIDE DEF l
  <2>3. /\ DOMAIN loop' = LoopNames /\ loop'.phase = "update" /\ loop'.k = loop.k + 1
        /\ loop'.t = loop.t + 1 /\ loop'.x = x /\ loop'.last = x
        /\ loop'.outs = Append(loop.outs, x) /\ loop'.ins = Append(loop.ins, loop.u)
        /\ loop'.integral = loop.integral /\ loop'.point = loop.point /\ loop'.err = err
    <3> HIDE DEF err, x
    <3> QED
      BY <1>2, <2>1 DEF LoopNames
  <2>4. LoopTypes' /\ StepInv' /\ x.of = loop.k + 1
    <3> HIDE DEF err
    <3> QED
      BY <1>0, <1>4, <2>3, Measuring
  <2>5. err = [now |-> loop.k + 1, predicted |-> PredictionTime(loop.k + 1, NCp),
               run |-> loop.k + 1]
    BY <2>2, <2>4 DEF PredictionError
  <2> HIDE DEF err, x
  <2>6. CollInv' /\ coll'.op.err = loop.k + 1
    BY <1>0, <2>1, <2>4, ProblemStep DEF Shaped, OpNames
  <2>7. MpcTypes' /\ mpc'.asked = FALSE /\ mpc'.nbr = mpc.nbr /\ mpc'.phase = mpc.phase
    BY <1>0, <1>1, <2>1 DEF ControllerInv, MpcTypes, MpcNames
  <2>8. ControllerInv'
    BY <1>0, <1>1, <2>1, <2>7, QuietController DEF Shaped, OpNames, MpcNames
  <2>9. RtInv'
    BY <1>0, <1>1, <1>4, <2>3, <2>5, <2>6, <2>7
       DEF RtInv, Stepping, Computing, Alive, Done, PredictionTime, PredictionElements
  <2> QED
    BY <1>0, <2>4, <2>6, <2>8, <2>9 DEF LoopInv, LqrInv, Looping
<1>5. CASE loop.observed /\ ~loop.integral
  <2>1. loop' = l /\ UNCHANGED <<mpc, coll>>
    BY <1>5 DEF RtMeasure
  <2>2. LoopTypes' /\ StepInv'
    <3> HIDE DEF l, x
    <3> QED
      BY <1>0, <1>1, <1>2, <1>5, <2>1, Measuring DEF x
  <2>3. CollInv'
    BY <1>0, <2>1, ProblemStep
  <2>4. ControllerInv'
    BY <1>0, <2>1, QuietController DEF ControllerInv, MpcTypes
  <2>5. RtInv'
    <3> HIDE DEF l, x
    <3> QED
      BY <1>0, <1>1, <1>2, <1>5, <2>1
         DEF RtInv, Stepping, Computing, Alive, Done
  <2> QED
    BY <1>0, <2>2, <2>3, <2>4, <2>5 DEF LoopInv, LqrInv, Looping
<1> QED
  BY <1>0, <1>3, <1>4, <1>5

(* The linear loop: the input of the state relative to the point of          *)
(* operation of the step.                                                    *)
LEMMA LqrControlStep ==
    ASSUME LoopInv, LqrControl
    PROVE  LoopInv'
<1> DEFINE point == GetNewPars(loop.point, loop.k)
           x == FromOperatingPoint(loop.x)
           u == [step |-> x.of, shifted |-> x.shifted, point |-> point, corrected |-> FALSE]
           l == [loop EXCEPT !.point = point, !.x = x]
<1>0. /\ client = "lqr" /\ loop.phase = "update" /\ mpcVars' = mpcVars
      /\ LoopTypes /\ StepInv /\ LqrInv /\ DOMAIN loop = LoopNames /\ loop.k \in Nat
      /\ loop.point \in Int /\ loop.outs \in Seq(States) /\ Len(loop.outs) = loop.k + 1
      /\ loop.x = loop.outs[loop.k + 1] /\ loop.x.of = loop.k
  BY DEF LoopInv, LoopTypes, LqrControl, StepInv, Stepping, Measured, Computing
<1>1. loop' = AppliedAs(l, u)
  BY DEF LqrControl
<1>2. loop.x \in States
  BY <1>0
<1>3. x.of = loop.k /\ x.shifted = TRUE
  BY <1>0, <1>2 DEF FromOperatingPoint, States
<1>4. point \in Int
  BY <1>0 DEF GetNewPars
<1>5. u.step = loop.k /\ u.shifted = TRUE /\ u.point = point
  BY <1>3
<1>6. u \in Inputs
  <2>1. u = [step |-> loop.k, shifted |-> TRUE, point |-> point, corrected |-> FALSE]
    BY <1>3
  <2> QED
    BY <1>0, <1>4, <2>1 DEF Inputs, LqrInputs
<1> HIDE DEF point, x, u
<1>7. /\ DOMAIN l = LoopNames /\ l.k = loop.k /\ l.t = loop.t /\ l.last = loop.last
      /\ l.outs = loop.outs /\ l.ins = loop.ins /\ l.integral = loop.integral
      /\ l.err = loop.err /\ l.point = point
  BY <1>0 DEF LoopNames
<1> HIDE DEF l
<1>8. /\ LoopTypes' /\ StepInv' /\ loop'.phase = "measure" /\ loop'.u = u
      /\ loop'.point = point /\ loop'.k = loop.k
  BY <1>0, <1>1, <1>4, <1>6, <1>7, Applying DEF Computing, mpcVars, nlpVars
<1>9. LqrInv'
  <2>1. LqrInputRight(loop.u, loop.k)'
    BY <1>5, <1>8 DEF LqrInputRight
  <2> QED
    BY <1>0, <1>8, <2>1 DEF LqrInv, LqrInputRight, mpcVars, nlpVars
<1> QED
  BY <1>0, <1>8, <1>9 DEF LoopInv, RtInv, Looping, mpcVars, nlpVars

(* The error is that of the state before the input.                          *)
LEMMA LqrMeasureStep ==
    ASSUME LoopInv, LqrMeasure
    PROVE  LoopInv'
<1> DEFINE x == EstimateStates(GetMeasurements(loop))
           l == Stepped(x)
           err == IF loop.integral THEN CalculateError(x) ELSE None
<1>0. /\ client = "lqr" /\ loop.phase = "measure" /\ mpcVars' = mpcVars /\ client' = client
      /\ LoopTypes /\ StepInv /\ LqrInv /\ DOMAIN loop = LoopNames /\ loop.k \in Nat
      /\ LqrInputRight(loop.u, loop.k) /\ loop.last = loop.outs[loop.k + 1]
  BY DEF LoopInv, LoopTypes, LqrMeasure, StepInv, Stepping, LqrInv, mpcVars, nlpVars
<1>1. CASE ~loop.observed
  <2>1. loop' = Lacking
    BY <1>1 DEF LqrMeasure
  <2> QED
    BY <1>0, <2>1, Aborting DEF Lacking, WaitAndGetMeasurements, LoopNames, Looping
<1>2. CASE loop.observed
  <2>1. /\ DOMAIN l = LoopNames /\ l.phase = "update" /\ l.k = loop.k + 1
        /\ l.t = loop.t + 1 /\ l.x = x /\ l.last = x
        /\ l.outs = Append(loop.outs, x) /\ l.ins = Append(loop.ins, loop.u)
        /\ l.integral = loop.integral /\ l.point = loop.point
    BY <1>0, SteppedFields
  <2>2. loop' = [l EXCEPT !.err = err]
    BY <1>2 DEF LqrMeasure
  <2> HIDE DEF l, x, err
  <2>3. /\ DOMAIN loop' = LoopNames /\ loop'.phase = "update" /\ loop'.k = loop.k + 1
        /\ loop'.t = loop.t + 1 /\ loop'.x = x /\ loop'.last = x
        /\ loop'.outs = Append(loop.outs, x) /\ loop'.ins = Append(loop.ins, loop.u)
        /\ loop'.integral = loop.integral /\ loop'.point = loop.point /\ loop'.err = err
    BY <2>1, <2>2 DEF LoopNames
  <2>4. ~loop.integral => err = None
    BY DEF err
  <2>5. /\ LoopTypes' /\ StepInv' /\ x.of = loop.k + 1 /\ loop'.ins[loop.k + 2] = loop.u
        /\ loop'.outs[loop.k + 1] = loop.outs[loop.k + 1]
    BY <1>0, <2>3, <2>4, Measuring DEF x
  <2>6. loop.integral => err = [now |-> loop.k + 1, last |-> loop.outs[loop.k + 1],
                                input |-> loop.k, point |-> loop.point]
    BY <1>0, <2>5 DEF err, CalculateError, LastState, LqrInputRight
  <2>7. LqrInv'
    <3>1. loop'.k + 1 = loop.k + 2 /\ loop'.k - 1 = loop.k /\ loop'.k > 0
      BY <1>0, <2>3
    <3>2. LqrInputRight(loop.ins[loop.k + 1], loop.k - 1)'
      BY <1>0, <2>3, <2>5, <3>1 DEF LqrInputRight
    <3>3. loop'.integral => loop'.err = [now |-> loop'.k, last |-> loop'.outs[loop'.k],
                                         input |-> loop'.k - 1, point |-> loop'.point]
      <4>1. loop'.outs[loop'.k] = loop.outs[loop.k + 1]
        BY <2>3, <2>5
      <4> QED
        BY <2>3, <2>6, <3>1, <4>1
    <3>4. loop'.phase = "update"
      BY <2>3
    <3> QED
      BY ONLY <3>2, <3>3, <3>4 DEF LqrInv
  <2> QED
    BY <1>0, <2>3, <2>5, <2>7 DEF LoopInv, RtInv, Looping
<1> QED
  BY <1>1, <1>2

------------------------------------------------------------------------------
(******************************* the theorems *******************************)

(* The first state: a new problem, a new controller, a loop at its start.    *)
LEMMA StackInit == Init => StackInv
<1> SUFFICES ASSUME Init PROVE StackInv
  OBVIOUS
<1>1. /\ coll = NewCollocator(NewProblem) /\ handle = NewHandle /\ mpc = NewMpc
      /\ client \in {"handle", "mpc", "rtmpc", "lqr"}
  BY DEF Init, SolverInit, NewCollocator
<1>2. HandleInv
  <2>1. Shaped(NewCollocator(NewProblem))
    BY DEF NewCollocator, NoInputs, Shaped
  <2>2. ShapedHandle(handle) /\ handle.from = None
    BY <1>1 DEF NewHandle, ShapedHandle
  <2>3. /\ coll.runs = 0 /\ coll.interp = coll.traj /\ coll.primal = None
        /\ coll.used = None /\ coll.bounds = coll.par.scale
    BY <1>1 DEF NewCollocator
  <2> QED
    BY <1>1, <2>1, <2>2, <2>3
       DEF HandleInv, Kept, UnitsNoted, Told, SolvesAsAsked, SolvesCurrent, WarmStartRight
<1>3. CollInv
  <2>1. coll.par.scale = 0 /\ coll.bounds = 0 /\ coll.warm = FALSE /\ coll.op = NewProblem
    BY <1>1 DEF NewCollocator
  <2>2. DOMAIN coll.op = OpNames
    BY <2>1 DEF NewProblem, OpNames
  <2> QED
    BY <1>1, <1>2, <2>1, <2>2 DEF CollInv, Unscaled
<1>4. PICK n \in ElementCounts, g \in Guesses, m \in ResultModes,
           hs \in {"none", "given", "free"} :
          /\ Accepted(n, hs, DefaultBlocking(n))
          /\ config = [nes |-> n \div Horizon, guess |-> g, mode |-> m, hs |-> hs]
          /\ hs = "given" => client = "mpc" /\ g = "shift"
          /\ client \in {"handle", "lqr"}
                => g = "shift" /\ n = Horizon /\ m = "collocation_points"
          /\ client = "rtmpc" => g = LoopConfig(n).guess
          /\ client \in {"handle", "mpc"} => loop.observed
  BY DEF Init
<1>5. ConfigInv
  <2>1. /\ n \in Nat /\ n > 0 /\ n % Horizon = 0 /\ Horizon \in Nat /\ Horizon > 0
        /\ hs # "free"
    BY <1>4, CountsAssumption DEF Accepted
  <2>2. n \div Horizon \in Nat \ {0}
    BY <2>1, SMT
  <2> QED
    BY <1>4, <2>1, <2>2, ModesAssumption DEF ConfigInv
<1>6. ControllerInv /\ mpc.nbr = 0
  <2>1. MpcTypes
    BY <1>1 DEF NewMpc, MpcTypes, MpcNames
  <2>2. mpc.nbr = 0 /\ mpc.asked = FALSE /\ coll.runs = 0 /\ Done = 0
    BY <1>1 DEF NewMpc, NewCollocator, Done
  <2> QED
    BY <2>1, <2>2 DEF ControllerInv, ResultsInv, InputInv, InputForNow, GuessInv
<1> DEFINE AtStart(l) ==
              /\ DOMAIN l = LoopNames /\ l.k = 0 /\ l.phase = "new" /\ l.x = StartValues
              /\ l.last = StartValues /\ l.err = None /\ l.outs = <<StartValues>>
              /\ l.ins = <<None>> /\ l.integral = FALSE
<1>7. AtStart(loop) /\ loop.t = 0 /\ (client = "lqr" => loop.point = 0)
  <2>1. PICK observed \in BOOLEAN :
           loop = IF client = "lqr" THEN NewLqrLoop(observed) ELSE NewMpcLoop(observed)
    BY DEF Init
  <2>2. AtStart(NewLoop)
    BY DEF NewLoop, LoopNames
  <2>3. AtStart([NewLoop EXCEPT !.point = 0]) /\ [NewLoop EXCEPT !.point = 0].point = 0
    BY <2>2 DEF LoopNames
  <2>4. ASSUME NEW l, NEW o, AtStart(l)
        PROVE  LET w == [l EXCEPT !.t = 0, !.observed = o]
               IN AtStart(w) /\ w.t = 0 /\ w.point = l.point
    BY <2>4 DEF LoopNames
  <2> HIDE DEF AtStart
  <2> QED
    BY <2>1, <2>2, <2>3, <2>4 DEF NewLqrLoop, NewMpcLoop, WithPlant
<1>8. StartValues \in States /\ StartValues.of = 0
  BY DEF StartValues, State, States
<1>9. LoopTypes
  <2>1. /\ loop.outs \in Seq(States) /\ Len(loop.outs) = 1
        /\ loop.ins \in Seq(Inputs \cup {None}) /\ Len(loop.ins) = 1
    BY <1>7, <1>8
  <2>2. loop.integral \in BOOLEAN
    BY <1>7, Zenon
  <2> QED
    BY <1>7, <2>1, <2>2 DEF LoopTypes
<1>10. StepInv
  BY <1>7, <1>8 DEF StepInv, Stepping, Measured, Sent, Computing
<1>11. RtInv
  <2>1. client = "rtmpc" => config.guess = "shift"
    BY <1>4 DEF LoopConfig
  <2>2. Alive /\ mpc.asked = FALSE /\ Done = 0
    BY <1>1 DEF NewMpc, Alive, Done
  <2> QED
    BY <1>7, <2>1, <2>2 DEF RtInv, Stepping, Computing
<1>12. LqrInv
  BY <1>7 DEF LqrInv
<1> QED
  BY <1>3, <1>5, <1>6, <1>7, <1>9, <1>10, <1>11, <1>12 DEF StackInv, MpcInv, LoopInv

(* What a caller of the handle does.                                         *)
LEMMA HandleStep ==
    ASSUME StackInv, HandleNext, UNCHANGED <<mpc, config, loop>>
    PROVE  StackInv'
<1>1. client = "handle" /\ client' = client
  BY DEF HandleNext, Set, SetExternalVariableData, SetInitTraj, SetNominalTraj,
         SetSolverOption, SetWarmStart, HandleCodegen, OptimizeWithoutSolution, Optimize,
         MayCall
<1>2. HandleInv'
  BY QuietCalls, NothingToStartFrom, Solution DEF StackInv, CollInv, HandleNext
<1>3. CollInv' /\ ConfigInv' /\ MpcInv'
  BY <1>1, <1>2 DEF StackInv, CollInv, ConfigInv, MpcInv
<1>4. LoopInv'
  BY <1>1 DEF StackInv, LoopInv, LoopTypes, StepInv, Stepping, Measured, Sent, Computing,
              RtInv, LqrInv, Looping
<1> QED
  BY <1>3, <1>4 DEF StackInv

(* Nothing of the problem and the controller changes with a step of the loop *)
(* alone.                                                                    *)
LEMMA SameProblem ==
    ASSUME CollInv, ConfigInv, MpcInv, UNCHANGED mpcVars
    PROVE  CollInv' /\ ConfigInv' /\ MpcInv'
<1>1. CollInv'
  BY DEF mpcVars, nlpVars, CollInv, HandleInv, Shaped, ShapedHandle, Kept, UnitsNoted, Told,
         SolvesAsAsked, SolvesCurrent, WarmStartRight, Unscaled
<1>2. ConfigInv'
  BY DEF mpcVars, ConfigInv
<1>3. MpcInv'
  <2>1. MpcTypes => MpcTypes'
    BY DEF MpcTypes, mpcVars
  <2> QED
    BY <2>1, QuietController DEF MpcInv, ControllerInv, mpcVars, nlpVars
<1> QED
  BY <1>1, <1>2, <1>3

(* Every step keeps the invariant.                                           *)
LEMMA StackStep == StackInv /\ [Next]_vars => StackInv'
<1> SUFFICES ASSUME StackInv, [Next]_vars PROVE StackInv'
  OBVIOUS
<1>0. CollInv /\ ConfigInv /\ MpcInv /\ LoopInv
  BY DEF StackInv
<1>1. CASE UNCHANGED vars
  <2>1. UNCHANGED mpcVars /\ loop' = loop
    BY <1>1 DEF vars
  <2>2. LoopInv'
    BY <1>0, <2>1 DEF LoopInv, LoopTypes, StepInv, Stepping, Measured, Sent, Computing,
                      RtInv, Alive, Done, PredictionTime, PredictionElements, LqrInv,
                      LqrInputRight, Looping, mpcVars, nlpVars
  <2> QED
    BY <1>0, <2>1, <2>2, SameProblem DEF StackInv
<1>2. CASE HandleNext /\ UNCHANGED <<mpc, config, loop>>
  BY <1>2, HandleStep
<1>3. CASE MpcNext /\ UNCHANGED loop
  <2>1. client = "mpc" /\ client' = client /\ config' = config /\ loop' = loop
    BY <1>3 DEF MpcNext, UpdateState, UpdateStateByPrediction, MpcMayUpdate, Sample, MpcSet,
                MpcSetInitTraj, MpcCodegen, MpcMaySet, GetResultsThisSample
  <2>2. CollInv' /\ ControllerInv'
    BY <1>0, <1>3, <2>1, ControllerStep DEF MpcInv
  <2>3. ConfigInv' /\ MpcInv'
    BY <1>0, <2>1, <2>2 DEF ConfigInv, MpcInv
  <2>4. LoopInv'
    BY <1>0, <2>1 DEF LoopInv, LoopTypes, StepInv, Stepping, Measured, Sent, Computing,
                      RtInv, LqrInv, Looping
  <2> QED
    BY <2>2, <2>3, <2>4 DEF StackInv
<1>4. CASE Run \/ Finish \/ SaveResults \/ RtEnableIntegralAction \/ LqrEnableIntegralAction
  <2>1. LoopInv' /\ UNCHANGED mpcVars
    BY <1>0, <1>4, OuterSteps DEF Run, Finish, SaveResults, RtEnableIntegralAction,
                                  LqrEnableIntegralAction
  <2> QED
    BY <1>0, <2>1, SameProblem DEF StackInv
<1>5. CASE LqrControl \/ LqrMeasure
  <2>1. LoopInv' /\ UNCHANGED mpcVars
    BY <1>0, <1>5, LqrControlStep, LqrMeasureStep DEF LqrControl, LqrMeasure
  <2> QED
    BY <1>0, <2>1, SameProblem DEF StackInv
<1>6. CASE RtUpdate \/ RtSample \/ RtMeasure
  <2>1. CollInv' /\ ControllerInv' /\ LoopInv'
    BY <1>6, RtUpdateStep, RtSampleStep, RtMeasureStep
  <2>2. config' = config /\ client' = "rtmpc"
    BY <1>6 DEF RtUpdate, RtSample, RtMeasure
  <2> QED
    BY <1>0, <2>1, <2>2 DEF StackInv, MpcInv, ConfigInv
<1> QED
  BY <1>1, <1>2, <1>3, <1>4, <1>5, <1>6 DEF Next

(* The invariant of handle, controller and loops, for any horizon, number of *)
(* elements and points, and for any number of calls, samples and steps.      *)
THEOREM StackInvariant == Spec => []StackInv
<1> QED
  BY StackInit, StackStep, PTL DEF Spec

(* Whoever drives the problem, its solver is handed the problem as it is,    *)
(* and a warm start has the last solution and its multipliers.               *)
THEOREM EveryClientSolvesAsAsked == Spec => []SolvesAsAsked
<1>1. StackInv => SolvesAsAsked
  BY DEF StackInv, CollInv, HandleInv
<1> QED
  BY <1>1, StackInvariant, PTL

(* What is read of the optimum, residuals, bounds, multipliers, derivatives, *)
(* is of one solution and in one system of units.                            *)
THEOREM OptimumToldRight == Spec => []OptimumTold
<1>1. StackInv => OptimumTold
  <2> SUFFICES ASSUME HandleInv, coll.primal # None, coll.par = coll.used.par,
                      NEW scaled \in ScaledChoices
               PROVE  LET r == GetNlpResiduals("opt", scaled)
                          kkt == GetKKT("opt", scaled)
                          x == r.nlp.x
                          p == r.nlp.p
                      IN /\ x.n = coll.runs /\ x.scale = p.scale
                         /\ p.model = coll.used.op
                         /\ p.eq = (IF scaled THEN coll.used.par.eq ELSE 0) /\ r.bounds = p.eq
                         /\ kkt.h.x = x /\ kkt.h.p = p /\ kkt.j = r.nlp
                         /\ kkt.h.dual = [run |-> coll.runs, unit |-> p.eq]
                         /\ kkt.h.sigma = [x |-> coll.used.guess, p |-> p]
                         /\ GetNlpConstraintDuals(scaled) = kkt.h.dual
                         /\ GetNlpBoundDuals = coll.runs
                         /\ GetNlpVariableBounds = p.scale
    BY DEF StackInv, CollInv, OptimumTold
  <2> DEFINE p == GetParVals(scaled)
             x == PrimalGuess(coll)
  <2>1. /\ Shaped(coll) /\ coll.used # None /\ coll.guess = coll.used.guess
        /\ coll.bounds = coll.used.bounds /\ coll.primal.scale = coll.par.scale
        /\ coll.primal.run = coll.runs /\ coll.dual = [run |-> coll.runs, unit |-> 0]
        /\ coll.par.model = coll.used.op /\ coll.used.bounds = coll.par.scale
    BY DEF HandleInv, Told, Kept, SolvesAsAsked, SolvesCurrent
  <2>2. /\ p.scale = coll.par.scale /\ p.model = coll.par.model
        /\ p.eq = IF scaled THEN coll.par.eq ELSE 0
    BY <2>1 DEF GetParVals, Shaped
  <2>3. x.n = coll.runs /\ x.scale = coll.par.scale
    BY <2>1 DEF PrimalGuess, GuessOf
  <2>4. GetOptConstraintDuals(scaled) = [run |-> coll.runs, unit |-> p.eq]
    <3>1. CASE scaled
      BY <2>1, <2>2, <3>1 DEF GetOptConstraintDuals, InvScaleResiduals
    <3>2. CASE ~scaled
      BY <2>1, <2>2, <3>2 DEF GetOptConstraintDuals
    <3> QED
      BY <3>1, <3>2
  <2>5. GetNlpResidualBounds(scaled) = p.eq
    BY <2>2 DEF GetNlpResidualBounds, GetResidualScales
  <2>6. /\ GetNlp("opt", scaled) = [x |-> x, p |-> p]
        /\ GetJ("opt", scaled) = [x |-> x, p |-> p]
        /\ GetH("opt", scaled) = [x |-> x, p |-> p, sigma |-> [x |-> coll.guess, p |-> p],
                                  dual |-> GetOptConstraintDuals(scaled)]
    BY DEF GetNlp, GetJ, GetH, GetNlpVariables, PrimalOpt, ComputeSigma, DualsAt
  <2> HIDE DEF p, x
  <2> QED
    BY <2>1, <2>2, <2>3, <2>4, <2>5, <2>6
       DEF GetNlpResiduals, GetKKT, GetNlpConstraintDuals, GetNlpBoundDuals,
           GetNlpVariableBounds
<1> QED
  BY <1>1, StackInvariant, PTL

(* The input that is returned is that of the present sample, of the last     *)
(* solution found, and the change of the input is weighed against the one    *)
(* before.                                                                   *)
THEOREM InputIsForNow == Spec => []InputForNow
<1>1. StackInv => InputForNow
  BY DEF StackInv, MpcInv, ControllerInv, InputInv, InputForNow
<1> QED
  BY <1>1, StackInvariant, PTL

(* The guess of a sample is a solution that was found, moved by the samples  *)
(* since, or as it is.                                                       *)
THEOREM GuessIsAligned == Spec => []GuessAligned
<1>1. StackInv => GuessAligned
  <2> SUFFICES ASSUME StackInv, Alive, mpc.nbr > 1, ~mpc.asked, ~mpc.everTraj
               PROVE  LET g == coll.used.guess
                      IN /\ config.guess = "shift" =>
                               g.src = "primal" /\ g.n + g.shift = mpc.nbr
                         /\ config.guess = "prev" => g.src = "primal" /\ g.shift = 0
                         /\ config.guess \in {"shift", "prev"} /\ mpc.found = FALSE
                               => g.n = mpc.result
    BY DEF GuessAligned
  <2>0. ControllerInv
    BY DEF StackInv, MpcInv
  <2>1. Done = mpc.nbr /\ mpc.nbr \in Nat /\ GuessInv
    BY <2>0 DEF ControllerInv, MpcTypes, Done
  <2>2. config.guess = "shift" => ShiftedRight
    BY <2>1 DEF GuessInv
  <2>3. config.guess = "prev" => PreviousRight
    BY <2>1 DEF GuessInv
  <2> QED
    BY <2>1, <2>2, <2>3 DEF ShiftedRight, PreviousRight, GuessOf
<1> QED
  BY <1>1, StackInvariant, PTL

(* The error that integral action corrects is that of the step, the state    *)
(* after its input against the prediction for that time; and a state that is *)
(* measured came of the input recorded for its step.                         *)
THEOREM ErrorIsOfThisStep == Spec => []ErrorOfThisStep
<1>1. StackInv => ErrorOfThisStep
  <2> SUFFICES ASSUME ConfigInv, LoopInv PROVE ErrorOfThisStep
    BY DEF StackInv
  <2>0. LoopTypes /\ StepInv /\ RtInv /\ LqrInv /\ loop.k \in Nat
        /\ (~Looping => loop.phase = "new")
    BY DEF LoopInv, LoopTypes
  <2>1. ASSUME loop.err # None, client = "rtmpc", config.mode = "collocation_points"
        PROVE  /\ loop.phase = "update" =>
                    /\ loop.err.now = loop.k /\ loop.err.run = loop.k
                    /\ config.nes = 1 => loop.err.predicted.elements = loop.k
                    /\ coll.op.err = loop.k
               /\ loop.phase = "measure" => coll.used.op.err = loop.k
    <3>1. ASSUME loop.phase \in {"update", "measure"}
          PROVE  loop.err = [now |-> loop.k, predicted |-> PredictionTime(loop.k, NCp),
                             run |-> loop.k]
                 /\ coll.op.err = loop.k
                 /\ (loop.phase = "measure" => coll.used.op.err = loop.k)
      BY <2>0, <2>1, <3>1 DEF StepInv, RtInv, Stepping
    <3>2. config.nes = 1 => PredictionTime(loop.k, NCp).elements = loop.k
      <4>1. NCp \div NCp = 1
        <5>1. NCp \in Nat /\ NCp > 0 /\ 1 * NCp = NCp
          BY CountsAssumption
        <5> QED
          BY <5>1, DivMul
      <4> QED
        BY <2>0, <2>1, <4>1 DEF PredictionTime, PredictionElements
    <3> QED
      BY <3>1, <3>2
  <2>2. ASSUME loop.err # None, client = "lqr", loop.phase = "update"
        PROVE  /\ loop.err.now = loop.k /\ loop.err.input = loop.k - 1
               /\ loop.err.last = loop.outs[loop.k]
               /\ loop.ins[loop.k + 1].shifted
               /\ loop.ins[loop.k + 1].point = loop.err.point
    <3>1. loop.k > 0 /\ loop.integral
      BY <2>0, <2>2 DEF StepInv, Stepping
    <3> QED
      BY <2>0, <2>2, <3>1 DEF LqrInv, LqrInputRight
  <2>3. ASSUME loop.phase = "update", loop.k > 0
        PROVE  LET x == loop.outs[loop.k + 1]
                   u == loop.ins[loop.k + 1]
               IN x.of = loop.k /\ x.by = [u EXCEPT !.corrected = loop.integral]
    BY <2>0, <2>3 DEF StepInv, Stepping, Measured, Computing
  <2> QED
    BY <2>1, <2>2, <2>3 DEF ErrorOfThisStep
<1> QED
  BY <1>1, StackInvariant, PTL

=============================================================================
