--------------------------- MODULE ModelPredictive ---------------------------
(****************************************************************************)
(* Model predictive control, mpc.py of pyjmi: a collocated problem solved at *)
(* each sample over a horizon that moves by one sample. update_state gives   *)
(* the problem its state, time and last input, sample solves it and returns  *)
(* the input; after a failure the inputs of the last solution that was found *)
(* are used further on, until the solution has no more.                      *)
(*                                                                           *)
(* Time is counted in samples. The solution of sample n is run n, and tells  *)
(* the inputs of the samples from n on.                                      *)
(****************************************************************************)
EXTENDS NlpSolver

CONSTANTS MaxSamples,    \* bound: samples taken
          MaxSets,       \* bound: parameters or trajectories set by the caller
          Horizon,       \* samples on the horizon
          NCp,           \* collocation points of an element
          NEval,         \* option n_eval_points
          ElementCounts, \* values of the option n_e that are tried
          Guesses,       \* values of initial_guess that are tried
          ResultModes    \* values of the option result_mode that are tried

\* The lengths and the counts are of something, interpolated results have both ends
\* of an element, and the modes are those of the option.
ASSUME CountsAssumption ==
    /\ Horizon \in Nat \ {0} /\ ElementCounts \subseteq Nat \ {0}
    /\ NCp \in Nat \ {0} /\ NEval \in Nat \ {0, 1}
ASSUME ModesAssumption ==
    ResultModes \subseteq {"collocation_points", "mesh_points", "element_interpolation"}

VARIABLES mpc,     \* the controller
          config   \* what it was made with

mpcVars == <<nlpVars, mpc, config>>

NE == config.nes * Horizon

\* Each sample has the same number of elements. With lengths that are given for
\* them, inputs are to be held over the first sample; free lengths are refused.
DefaultBlocking(n) == [i \in 1..Horizon |-> n \div Horizon]
Accepted(n, hs, blocking) ==
    /\ n % Horizon = 0
    /\ hs # "free"
    /\ hs = "given" => blocking[1] = n \div Horizon

\* The lengths are scaled for the first sample to have the sample period. Those
\* that are tried are twice as long in the samples that follow. (The unit is an
\* element of the first sample.)
StartOfElement(e) ==
    IF config.hs = "none" \/ e < config.nes THEN e ELSE 2 * e - config.nes

\* The problem has, besides the parameters of the user: the initial state and
\* the start of the horizon, the input before it and the weight on its change,
\* the estimated error of the input. The weight is 0 until the second sample.
NewProblem == [user |-> 0, x0 |-> 0, start |-> 0, u0 |-> [sample |-> 0, run |-> 0],
               moves |-> FALSE, err |-> 0]

NewMpc ==
    [nbr |-> 0, start |-> 0, asked |-> FALSE, found |-> None, fails |-> 0,
     shifted |-> None, result |-> None, file |-> None, optInput |-> None,
     userTraj |-> FALSE, everTraj |-> FALSE, sets |-> 0, phase |-> "ready"]

NbrValuesPerSample ==
    CASE config.mode = "collocation_points" -> config.nes * NCp + 1
      [] config.mode = "mesh_points" -> config.nes + 1
      [] OTHER -> config.nes * NEval

\* Rows of the result, and the element that a row belongs to (row 0 is the start).
Rows == CASE config.mode = "collocation_points" -> NE * NCp + 1
          [] config.mode = "mesh_points" -> NE + 1
          [] OTHER -> NE * NEval
ElementOf(row) ==
    CASE config.mode = "collocation_points" -> IF row = 0 THEN 0 ELSE (row - 1) \div NCp
      [] config.mode = "mesh_points" -> IF row = 0 THEN 0 ELSE row - 1
      [] OTHER -> row \div NEval
SampleOfRow(run, row) == run + StartOfElement(ElementOf(row)) \div config.nes

Alive == mpc.phase # "raised"

(******************************* update_state *******************************)

\* State by prediction: the row of the end of the first sample of the result
\* that was last written; without one the attribute is missing.
Predicted == mpc.file.run
NoPrediction == mpc.nbr >= 1 /\ mpc.file = None

\* The input before is the one that the last sample returned.
NoInputBefore(c, n) ==   \* mutant: the input before the horizon is not given
    [c EXCEPT !.op.moves = @ \/ n = 2]
InputBefore(c, n) ==
    IF n > 1 THEN [c EXCEPT !.op.u0 = mpc.optInput, !.op.moves = @ \/ n = 2] ELSE c

UpdatedState(c, x, start) ==
    LET n == mpc.nbr + 1
    IN /\ mpc' = [mpc EXCEPT !.nbr = n, !.start = start, !.asked = TRUE]
       /\ coll' = InputBefore([c EXCEPT !.op.x0 = x, !.op.start = start], n)

NextStart == IF mpc.nbr >= 1 THEN mpc.start + 1 ELSE mpc.start

MpcMayUpdate == client = "mpc" /\ Alive /\ ~mpc.asked /\ mpc.nbr < MaxSamples
UpdateState ==
    /\ MpcMayUpdate
    /\ UpdatedState(coll, NextStart, NextStart)
    /\ UNCHANGED <<handle, client, config>>

UpdateStateByPrediction ==
    /\ MpcMayUpdate
    /\ IF NoPrediction
       THEN mpc' = [mpc EXCEPT !.nbr = @ + 1, !.phase = "raised"] /\ UNCHANGED coll
       ELSE UpdatedState(coll, IF mpc.nbr = 0 THEN coll.op.x0 ELSE Predicted, NextStart)
    /\ UNCHANGED <<handle, client, config>>

(********************************** sample **********************************)

\* The guess is moved by a sample: from the last solution if it was one, from
\* the last moved guess if not.
NotShiftedOnFailure == PrimalGuess(coll)   \* mutant: the failed solution is shifted
ShiftSource == IF mpc.found THEN PrimalGuess(coll) ELSE mpc.shifted
ShiftXx == [ShiftSource EXCEPT !.shift = @ + 1]
NothingToShift == ~mpc.userTraj /\ mpc.nbr > 1 /\ config.guess = "shift"
                  /\ ~mpc.found /\ mpc.shifted = None

\* From a trajectory, bounds and guess are made again. The time points of the
\* collocation are those of the first horizon.
SetInitTrajectory(c, traj) ==
    ComputeBoundsAndInit(InitTrajectories([c EXCEPT !.traj = traj]))

GuessedBy(c) ==
    CASE mpc.userTraj -> SetInitTrajectory(c, mpc.sets)
      [] ~mpc.userTraj /\ mpc.nbr = 1 -> c
      [] ~mpc.userTraj /\ mpc.nbr > 1 /\ config.guess = "shift" -> [c EXCEPT !.guess = ShiftXx]
      [] ~mpc.userTraj /\ mpc.nbr > 1 /\ config.guess = "trajectory" ->
            [ComputeBoundsAndInit(c) EXCEPT !.guess = GuessOf("result", mpc.file.run, 0, c.par.scale)]
      [] ~mpc.userTraj /\ mpc.nbr > 1 /\ config.guess = "prev" ->
            IF mpc.found THEN [c EXCEPT !.guess = PrimalGuess(c)] ELSE c
      [] OTHER -> c   \* a warning only

\* Between the first and the second sample the options of a warm start are set,
\* for which the solver starts over.
InputsNotSet(c) ==   \* mutant: the inputs are not set after the new start
    IF mpc.nbr = 2 THEN SolverInit([c EXCEPT !.warm = TRUE]) ELSE c
SetWarmStartOptions(c) ==
    IF mpc.nbr = 2 THEN InitAndSetSolverInputs(SolverInit([c EXCEPT !.warm = TRUE])) ELSE c

Sampled == SolveNlp(SetWarmStartOptions(GuessedBy(RecalculateModelParameters(coll))))

Shifted == IF ~mpc.userTraj /\ mpc.nbr > 1 /\ config.guess = "shift" THEN ShiftXx ELSE mpc.shifted

Row(fails) == (NbrValuesPerSample - 1) * fails + 1
FirstRowAgain(fails) == 1   \* mutant: after a failure the first input is repeated
OptInputRow(fails) == Row(fails)

\* The input of a row: it belongs to a sample and comes from a solution.
OptInput(run, fails) == [sample |-> SampleOfRow(run, OptInputRow(fails)), run |-> run]

SolutionFound ==
    LET n == mpc.nbr
    IN mpc' = [mpc EXCEPT !.asked = FALSE, !.found = TRUE, !.fails = 0, !.result = n,
                          !.shifted = Shifted, !.userTraj = FALSE,
                          !.file = IF config.guess = "trajectory" THEN [run |-> n, ok |-> TRUE] ELSE @,
                          !.optInput = OptInput(n, 0)]

\* A failure raises at the first sample, and when the elements of the horizon
\* are used up; the rows of the result may be used up before.
GivesUp == mpc.nbr = 1 \/ mpc.fails + 1 >= NE
NoRow == OptInputRow(mpc.fails + 1) >= Rows
NoSolution ==
    LET failed == [mpc EXCEPT !.asked = FALSE, !.found = FALSE, !.shifted = Shifted,
                              !.fails = IF mpc.nbr = 1 THEN @ ELSE @ + 1]
    IN mpc' = IF GivesUp THEN [failed EXCEPT !.phase = "raised"]
              ELSE IF NoRow THEN [failed EXCEPT !.phase = "raised", !.userTraj = FALSE]
              ELSE [failed EXCEPT !.userTraj = FALSE,
                                  !.optInput = OptInput(mpc.result, mpc.fails + 1)]

SolvesOrRaises ==
    IF NothingToShift \/ (coll.primal = None /\ mpc.nbr > 1)
    THEN /\ mpc' = [mpc EXCEPT !.phase = "raised"]
         /\ coll' = RecalculateModelParameters(coll)
    ELSE coll' = Sampled /\ (SolutionFound \/ NoSolution)

Sample ==
    /\ client = "mpc" /\ Alive /\ mpc.asked
    /\ SolvesOrRaises
    /\ UNCHANGED <<handle, client, config>>

(**************************** what a caller may do ****************************)

MpcMaySet == client = "mpc" /\ Alive /\ mpc.sets < MaxSets
MpcSet ==
    /\ MpcMaySet
    /\ coll' = [coll EXCEPT !.op.user = @ + 1]
    /\ mpc' = [mpc EXCEPT !.sets = @ + 1]
    /\ UNCHANGED <<handle, client, config>>

MpcSetInitTraj ==
    /\ MpcMaySet
    /\ mpc' = [mpc EXCEPT !.sets = @ + 1, !.userTraj = TRUE, !.everTraj = TRUE]
    /\ UNCHANGED <<coll, handle, client, config>>

MpcCodegen ==
    /\ MpcMaySet
    /\ coll' = EnableCodegen(coll)
    /\ mpc' = [mpc EXCEPT !.sets = @ + 1]
    /\ UNCHANGED <<handle, client, config>>

\* The solution of the last sample, found or not, is written to the file and read
\* again; with trajectories as guesses, the file of the last one found is used.
Written == IF config.guess # "trajectory" THEN [run |-> coll.runs, ok |-> mpc.found] ELSE mpc.file
GetResultsThisSample ==
    /\ client = "mpc" /\ Alive /\ mpc.nbr >= 1 /\ ~mpc.asked
    /\ mpc' = [mpc EXCEPT !.file = Written]
    /\ UNCHANGED <<coll, handle, client, config>>

MpcNext == \/ UpdateState \/ UpdateStateByPrediction \/ Sample \/ MpcSet
           \/ MpcSetInitTraj \/ MpcCodegen \/ GetResultsThisSample

(******************************** properties ********************************)

(* The input that sample returns is the one of the present sample, of the    *)
(* last solution found, whatever failed since; and the change of the input   *)
(* is weighed, from the second sample on, against the input returned before. *)
(* (With interpolated results the rows are miscounted from the second        *)
(* failure in a row on, and the input of the sample before is returned. Rows *)
(* are counted by elements: when these are longer after the first sample the *)
(* input of a later time is returned after a failure.)                       *)
RowsRight(fails) ==
    fails = 0 \/ (config.hs = "none" /\ (config.mode # "element_interpolation" \/ fails < 2))
InputForNow ==
    Alive /\ mpc.nbr >= 1 /\ ~mpc.asked =>
        /\ mpc.optInput.run = mpc.result /\ mpc.result = mpc.nbr - mpc.fails
        /\ RowsRight(mpc.fails) => mpc.optInput.sample = mpc.nbr
        /\ mpc.nbr > 1 =>
              /\ coll.used.op.moves
              /\ coll.used.op.u0.run < mpc.nbr /\ coll.used.op.u0.run > 0
              /\ coll.used.op.u0.sample = mpc.nbr - 1
                 \/ config.mode = "element_interpolation" \/ config.hs = "given"

(* With initial_guess 'shift', and no trajectory given in between, the guess *)
(* of each sample is a solution that was found, moved by the samples since;  *)
(* with 'prev' it is the last solution found as it is.                       *)
GuessAligned ==
    Alive /\ mpc.nbr > 1 /\ ~mpc.asked /\ ~mpc.everTraj =>
        LET g == coll.used.guess
        IN /\ config.guess = "shift" => g.src = "primal" /\ g.n + g.shift = mpc.nbr
           /\ config.guess = "prev" => g.src = "primal" /\ g.shift = 0
           /\ config.guess \in {"shift", "prev"} /\ mpc.found = FALSE => g.n = mpc.result
=============================================================================
