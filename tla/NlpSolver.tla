------------------------------ MODULE NlpSolver ------------------------------
(****************************************************************************)
(* The life of a collocated optimization problem, casadi_collocation.py of   *)
(* pyjmi: what the collocator keeps between two solutions (parameters,       *)
(* scaling, bounds, the guess, the last primal and dual solution), what it   *)
(* hands to the solver object, and the handle OptimizationSolver, by which   *)
(* a caller changes one thing and solves again.                              *)
(*                                                                           *)
(* Numbers are replaced by where they come from: a parameter is the number   *)
(* of the change that set it, a guess is the solution or the trajectory it   *)
(* was made of, a vector in scaled units carries the version of the scaling. *)
(****************************************************************************)
EXTENDS Integers

CONSTANTS MaxCalls,          \* bound: calls of a caller of the handle
          EquationScaling    \* option equation_scaling

VARIABLES coll,     \* the collocator
          handle,   \* the flags of the handle, and the calls made so far
          client    \* who drives the collocator

nlpVars == <<coll, handle, client>>

None == <<>>
NoInputs == [x0 |-> None, p |-> None, bx |-> -1, lamg |-> None, lamx |-> None]

GuessOf(src, n, shift, scale) ==
    [src |-> src, n |-> n, shift |-> shift, scale |-> scale]

\* Bounds and guess in the units of the present variable scaling; the guess is
\* what the interpolated trajectories give.
BoundsForgotten(c) ==   \* mutant: the bounds are left in the old units
    [c EXCEPT !.guess = GuessOf("traj", c.interp, 0, c.par.scale)]
ComputeBoundsAndInit(c) ==
    [c EXCEPT !.bounds = c.par.scale,
              !.guess = GuessOf("traj", c.interp, 0, c.par.scale)]

\* The vector of parameters has a copy of the values of the problem.
NothingRecalculated(c) == c   \* mutant: the parameters are not copied again
RecalculateModelParameters(c) == [c EXCEPT !.par.model = c.op]

TrajectoriesForgotten(c) == c   \* mutant: the interpolation is not made again
InitTrajectories(c) == [c EXCEPT !.interp = c.traj]

\* The solver object starts over: its inputs are lost.
SolverInit(c) == [c EXCEPT !.in = NoInputs]

InitAndSetSolverInputs(c) ==
    [c EXCEPT !.in = [@ EXCEPT !.x0 = c.guess, !.p = c.par, !.bx = c.bounds]]

\* Multipliers of scaled equations are kept per unscaled equation (unit 0); a
\* conversion with another scaling than theirs would give nothing of use.
Garbage == -1
ScaleResiduals(d, eq) == [d EXCEPT !.unit = IF @ = eq THEN 0 ELSE Garbage]
InvScaleResiduals(d, eq) == [d EXCEPT !.unit = IF @ = 0 THEN eq ELSE Garbage]

\* The scaling of equations is that of the guess and of the parameters.
UpdateEquationScaling(c) ==
    IF EquationScaling THEN [c EXCEPT !.par.eq = c.runs + 1] ELSE c

DualsUnconverted(c) ==   \* mutant: the multipliers keep the old scaling
    LET e == UpdateEquationScaling(c)
    IN IF ~e.warm THEN InitAndSetSolverInputs(e)
       ELSE [e EXCEPT !.in.x0 = e.guess, !.in.p = e.par, !.in.lamg = e.dual,
                      !.in.lamx = e.dual.run]
\* A warm start sets guess, parameters and multipliers, a cold one the bounds.
SetForSolve(c) ==
    LET e == UpdateEquationScaling(c)
    IN IF ~e.warm THEN InitAndSetSolverInputs(e)
       ELSE [e EXCEPT !.in = [@ EXCEPT !.x0 = e.guess, !.p = e.par,
                                       !.lamg = InvScaleResiduals(e.dual, e.par.eq),
                                       !.lamx = e.dual.run]]

\* `used` is what a reader of the run would look at: the inputs of the solver,
\* and the state of the collocator, at the time of the evaluation.
SolveNlp(c) ==
    LET e == SetForSolve(c)
        n == e.runs + 1
    IN [e EXCEPT !.runs = n,
                 !.used = [in |-> e.in, op |-> e.op, par |-> e.par, bounds |-> e.bounds,
                           guess |-> e.guess, warm |-> e.warm, last |-> e.primal],
                 !.primal = [run |-> n, scale |-> e.par.scale],
                 !.dual = ScaleResiduals([run |-> n, unit |-> e.par.eq], e.par.eq)]

PrimalGuess(c) == GuessOf("primal", c.primal.run, 0, c.primal.scale)

NewCollocator(op) ==
    [op |-> op, par |-> [model |-> op, ext |-> 0, scale |-> 0, eq |-> 0],
     traj |-> 0, interp |-> 0, guess |-> GuessOf("traj", 0, 0, 0), bounds |-> 0,
     primal |-> None, dual |-> None, warm |-> FALSE, in |-> NoInputs, runs |-> 0,
     used |-> None]
NewHandle == [initTrajSet |-> FALSE, nominalUpdated |-> FALSE, optionsChanged |-> FALSE,
              calls |-> 0, error |-> "none", from |-> None]

(************************* the handle of the caller *************************)

MayCall == client = "handle" /\ handle.calls < MaxCalls
Called == [handle EXCEPT !.calls = @ + 1, !.error = "none", !.from = None]

Set ==
    /\ MayCall
    /\ coll' = [coll EXCEPT !.op.user = @ + 1]
    /\ handle' = Called
    /\ UNCHANGED client

\* The data is written to the parameters point by point, before the check of
\* the bounds of the input: what the check refuses is in the parameters too.
SetExternalVariableData ==
    /\ MayCall
    /\ coll' = [coll EXCEPT !.par.ext = @ + 1]
    /\ \E refused \in BOOLEAN :
          handle' = [Called EXCEPT !.error = IF refused THEN "bounds" ELSE "none"]
    /\ UNCHANGED client

SetInitTraj ==
    /\ MayCall
    /\ coll' = InitTrajectories([coll EXCEPT !.traj = @ + 1])
    /\ handle' = [Called EXCEPT !.initTrajSet = TRUE]
    /\ UNCHANGED client

SetNominalTraj ==
    /\ MayCall
    /\ coll' = [coll EXCEPT !.par.scale = @ + 1]
    /\ handle' = [Called EXCEPT !.nominalUpdated = TRUE]
    /\ UNCHANGED client

SetSolverOption ==
    /\ MayCall
    /\ handle' = [Called EXCEPT !.optionsChanged = TRUE]
    /\ UNCHANGED <<coll, client>>

SetWarmStart ==
    /\ MayCall
    /\ \E w \in BOOLEAN : coll' = [coll EXCEPT !.warm = w]
    /\ handle' = Called
    /\ UNCHANGED client

\* Generated code replaces the solver object: its inputs are carried over, but
\* for the multipliers.
LosesInputs(c) == SolverInit(c)   \* mutant: no input is carried over
EnableCodegen(c) == [c EXCEPT !.in.lamg = None, !.in.lamx = None]
HandleCodegen ==
    /\ MayCall
    /\ coll' = EnableCodegen(coll)
    /\ handle' = Called
    /\ UNCHANGED client

InputsLeft(c) ==   \* mutant: nothing is set again after the solver starts over
    IF handle.optionsChanged THEN SolverInit(c) ELSE c
Restarted(c) ==
    LET r == IF handle.optionsChanged THEN SolverInit(c) ELSE c
    IN IF c.warm \/ handle.nominalUpdated THEN InitAndSetSolverInputs(r) ELSE r

Prepared ==
    RecalculateModelParameters(IF handle.initTrajSet \/ handle.nominalUpdated
                               THEN ComputeBoundsAndInit(coll) ELSE coll)

TrajectoryIgnored(c) ==   \* mutant: a warm start always takes the last solution
    IF c.warm THEN [c EXCEPT !.guess = PrimalGuess(c)] ELSE c
WarmGuess(c) ==
    IF c.warm /\ ~handle.initTrajSet THEN [c EXCEPT !.guess = PrimalGuess(c)] ELSE c

\* There is no solution to start from: the attribute is missing, and what ran
\* before stays done. With a trajectory only the multipliers are missed, later.
OptimizeWithoutSolution ==
    /\ MayCall
    /\ coll.warm /\ coll.primal = None
    /\ LET e == UpdateEquationScaling(Restarted(Prepared))
       IN coll' = IF handle.initTrajSet THEN [e EXCEPT !.in.p = e.par]
                  ELSE IF handle.optionsChanged THEN SolverInit(Prepared) ELSE Prepared
    /\ handle' = [Called EXCEPT !.error = "AttributeError", !.optionsChanged = FALSE,
                                !.initTrajSet = FALSE,
                                !.nominalUpdated = @ /\ ~handle.initTrajSet]
    /\ UNCHANGED client

Optimize ==
    /\ MayCall
    /\ ~coll.warm \/ coll.primal # None
    /\ coll' = SolveNlp(Restarted(WarmGuess(Prepared)))
    /\ handle' = [Called EXCEPT !.optionsChanged = FALSE, !.nominalUpdated = FALSE,
                                !.initTrajSet = FALSE,
                                !.from = [traj |-> handle.initTrajSet,
                                          version |-> coll.traj,
                                          rescaled |-> handle.nominalUpdated]]
    /\ UNCHANGED client

HandleNext == \/ Set \/ SetExternalVariableData \/ SetInitTraj \/ SetNominalTraj
              \/ SetSolverOption \/ SetWarmStart \/ HandleCodegen
              \/ OptimizeWithoutSolution \/ Optimize

\* A handle on a problem `op`, and whatever its caller does.
HandleInit(op) ==
    /\ client = "handle" /\ handle = NewHandle
    /\ coll = SolverInit(NewCollocator(op))
HandleSpec(op) == HandleInit(op) /\ [][HandleNext]_nlpVars

(******************************** properties ********************************)

(* Every evaluation of the solver has what its caller last asked for: the    *)
(* parameters of the problem as they are, with the present data and scaling, *)
(* a guess, and the bounds, in the units of that scaling, although a change  *)
(* of options or generated code makes the solver forget its inputs and a     *)
(* warm start does not set the bounds.                                       *)
SolvesCurrent ==
    coll.used # None =>
        LET u == coll.used
        IN /\ u.par = u.in.p /\ u.par.model = u.op
           /\ u.guess = u.in.x0
           /\ u.in.bx = u.bounds /\ u.bounds = u.par.scale

(* A warm start of the handle begins at the last solution, or at the given   *)
(* trajectory when one was set since, and the multipliers of the last        *)
(* solution come in the units of the equation scaling of this one, as the    *)
(* description of set_warm_start says. The guess is in the units of the      *)
(* scaling of the variables, when they were not scaled anew since.           *)
WarmStartRight ==
    /\ coll.used # None /\ coll.used.warm =>
          /\ coll.used.in.lamg = [run |-> coll.runs - 1, unit |-> coll.used.par.eq]
          /\ coll.used.in.lamx = coll.runs - 1
    /\ handle.from # None =>
          LET g == coll.used.in.x0
          IN /\ handle.from.traj => g.src = "traj" /\ g.n = handle.from.version
             /\ coll.used.warm /\ ~handle.from.traj => g.src = "primal" /\ g.n = coll.runs - 1
             /\ handle.from.traj \/ (coll.used.warm /\ ~handle.from.rescaled)
                   => g.scale = coll.used.par.scale

(* What the solver is handed fits the problem as it is and the solution that *)
(* it starts from, after any order of changes.                               *)
SolvesAsAsked == SolvesCurrent /\ WarmStartRight

(* A warm start begins at the last solution: at the same values of the       *)
(* variables. The code takes the scaled values over, and variables that      *)
(* set_nominal_traj scaled anew start somewhere else.                        *)
StartsAtLastSolution ==
    handle.from # None /\ coll.used.warm /\ ~handle.from.traj
        => coll.used.in.x0.scale = coll.used.par.scale

=============================================================================
