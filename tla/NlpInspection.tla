----------------------------- MODULE NlpInspection -----------------------------
(****************************************************************************)
(* What the collocator and its handle tell of a problem and of its last      *)
(* solution, casadi_collocation.py of pyjmi: residuals, multipliers,         *)
(* derivatives and the KKT matrix, at the optimum or at the initial guess,   *)
(* of the equations as they are or as they were scaled for the solver.       *)
(*                                                                           *)
(* As in NlpSolver a number is where it comes from: a value of the variables *)
(* is the solution or the trajectory and the variable scaling it is in, a    *)
(* value of the equations has the unit of the equations, 0 when unscaled.    *)
(****************************************************************************)
EXTENDS NlpSolver

\* Scaled residuals are there with the option equation_scaling only.
ScaledChoices == IF EquationScaling THEN BOOLEAN ELSE {FALSE}

\* The equations are scaled by parameters of the problem: 1 in their place gives
\* unscaled equations.
ScaleKept(scaled) == coll.par   \* mutant: the scales are never taken out
GetParVals(scaled) == IF scaled THEN coll.par ELSE [coll.par EXCEPT !.eq = 0]

PrimalOpt == PrimalGuess(coll)
GetNlpVariables(point) == IF point = "opt" THEN PrimalOpt ELSE coll.guess

\* Multipliers are kept of unscaled equations; scaled ones are those of the solver.
DualsAsKept(scaled) == coll.dual   \* mutant: the multipliers are always unscaled ones
GetOptConstraintDuals(scaled) ==
    IF scaled THEN InvScaleResiduals(coll.dual, coll.par.eq) ELSE coll.dual

\* Cost, residuals and Jacobian are functions of the point and of the parameters.
GetNlp(point, scaled) == [x |-> GetNlpVariables(point), p |-> GetParVals(scaled)]
GetJ(point, scaled) == [x |-> GetNlpVariables(point), p |-> GetParVals(scaled)]

\* The weight of the cost is found at the initial guess, for either point.
ComputeSigma(scaled) == [x |-> coll.guess, p |-> GetParVals(scaled)]

ZeroDuals(scaled) == [run |-> 0, unit |-> GetParVals(scaled).eq]
DualsAt(point, scaled) ==
    IF point = "opt" THEN GetOptConstraintDuals(scaled) ELSE ZeroDuals(scaled)

\* The Hessian of the Lagrangian is a function of the multipliers too.
GetH(point, scaled) ==
    [x |-> GetNlpVariables(point), p |-> GetParVals(scaled),
     sigma |-> ComputeSigma(scaled), dual |-> DualsAt(point, scaled)]

\* The KKT matrix: the Hessian, bordered by the Jacobian.
GetKKT(point, scaled) == [h |-> GetH(point, scaled), j |-> GetJ(point, scaled)]

(************************* the handle of the caller *************************)

GetResidualScales == coll.par.eq
BoundsUnscaled(scaled) == 0   \* mutant: scaled residuals against unscaled bounds
GetNlpResidualBounds(scaled) == IF scaled THEN GetResidualScales ELSE 0

\* Violations are what residuals are beyond their bounds.
GetNlpResiduals(point, scaled) ==
    [nlp |-> GetNlp(point, scaled), bounds |-> GetNlpResidualBounds(scaled)]

GetNlpVariableBounds == coll.bounds
GetNlpConstraintDuals(scaled) == GetOptConstraintDuals(scaled)
GetNlpBoundDuals == coll.dual.run
GetNlpJacobian(point, scaled) == GetJ(point, scaled)

(******************************** properties ********************************)

(* What is told of the optimum belongs together, as long as data and scaling *)
(* are those of the solution: residuals, derivatives and multipliers are of  *)
(* the last solution and its parameters, its values in the scaling of the    *)
(* variables that the parameters have. Residuals, their bounds and the       *)
(* multipliers have the same unit, the one of the solver or none, so that    *)
(* violations and the KKT matrix mean something.                             *)
OptimumTold ==
    coll.primal # None /\ coll.par = coll.used.par =>
        \A scaled \in ScaledChoices :
            LET r == GetNlpResiduals("opt", scaled)
                kkt == GetKKT("opt", scaled)
                x == r.nlp.x
                p == r.nlp.p
            IN /\ x.n = coll.runs /\ x.scale = p.scale
               /\ p.model = coll.used.op
               /\ p.eq = (IF scaled THEN coll.used.par.eq ELSE 0) /\ r.bounds = p.eq
               /\ kkt.h.x = x /\ kkt.h.p = p /\ kkt.j = r.nlp
               /\ kkt.h.dual = [run |-> coll.runs, unit |-> p.eq]
               /\ kkt.h.sigma = [x |-> coll.used.guess, p |-> p]
               /\ GetNlpConstraintDuals(scaled) = kkt.h.dual /\ GetNlpBoundDuals = coll.runs
               /\ GetNlpVariableBounds = p.scale
=============================================================================
