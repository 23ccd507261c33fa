--------------------------- MODULE RealTimeControl ---------------------------
(****************************************************************************)
(* Real-time control loops, realtimecontrol.py of pyjmi: at each step the    *)
(* changes of parameters due are made, an input is computed from the state   *)
(* (by model predictive control, or by linear quadratic feedback) and sent,  *)
(* and after the sample time the state is measured. With integral action the *)
(* difference between measured and predicted state corrects the next input.  *)
(* The plant is simulated, one sample time for each input that is sent; what *)
(* a simulation gives is external.                                           *)
(****************************************************************************)
EXTENDS ModelPredictive, NlpInspection, Sequences

CONSTANTS Steps,      \* t_final / dt
          ChangesAt   \* steps at which the parameters change

VARIABLE loop

vars == <<mpcVars, loop>>

\* A state is the time it belongs to and the input that led to it; feedback
\* subtracts the point of operation in place.
State(t, u) == [of |-> t, by |-> u, shifted |-> FALSE]
StartValues == State(0, None)

NewLoop ==
    [k |-> 0, phase |-> "new", x |-> StartValues, last |-> StartValues,
     u |-> None, sent |-> None, err |-> None, integral |-> FALSE, save |-> FALSE,
     outs |-> <<StartValues>>, ins |-> <<None>>, waits |-> 0,
     t |-> None, res |-> None, observed |-> TRUE, point |-> None,
     alreadyRun |-> FALSE, saved |-> FALSE]

\* The plant is initialized in the start values; the states that are observed are
\* all the outputs, or those that are named.
WithPlant(l, observed) == [l EXCEPT !.t = 0, !.observed = observed]
NewMpcLoop(observed) == WithPlant(NewLoop, observed)
NewLqrLoop(observed) == WithPlant([NewLoop EXCEPT !.point = 0], observed)

\* The controller of a loop has an element for each sample, unless the options it
\* is given have another number: they come last. The guess is not given.
LoopConfig(n_e) == [nes |-> n_e \div Horizon, guess |-> "shift"]

\* The changes of a step are those whose time is the time of the step.
GetNewPars(n, k) == IF k \in ChangesAt THEN n + 1 ELSE n

\* With integral action an input is corrected before it is sent; the result has
\* the input as computed.
ApplyError(u) == [u EXCEPT !.corrected = loop.integral]

\* To send an input is to simulate the plant with it for a sample time.
SentAsComputed(l, u) == [from |-> l.t, to |-> l.t + 1, by |-> u]   \* mutant: no correction
SendControlSignal(l, u) == [from |-> l.t, to |-> l.t + 1, by |-> ApplyError(u)]
AppliedAs(l, u) ==
    [l EXCEPT !.u = u, !.sent = ApplyError(u), !.res = SendControlSignal(l, u),
              !.phase = "measure"]

\* What is measured is the end of the last simulation; a simulated plant is not
\* waited for. The estimate is the measurement: it lacks what is not observed.
WaitAndGetMeasurements(l) == [l EXCEPT !.t = @ + 1, !.waits = @ + 1]
GetMeasurements(l) == State(l.res.to, l.res.by)
EstimateStates(measured) == measured
Stepped(x) ==
    [WaitAndGetMeasurements(loop) EXCEPT
                 !.k = @ + 1, !.x = x, !.last = x, !.phase = "update",
                 !.outs = Append(@, x), !.ins = Append(@, loop.u)]
Lacking == [WaitAndGetMeasurements(loop) EXCEPT !.phase = "aborted"]

Looping == client \in {"rtmpc", "lqr"}

Run ==
    /\ Looping /\ loop.phase = "new" /\ ~loop.alreadyRun
    /\ \E s \in BOOLEAN : loop' = [loop EXCEPT !.phase = "update", !.save = s]
    /\ UNCHANGED mpcVars

\* Saving is refused until a run is marked as done, which comes last.
Finish ==
    /\ Looping /\ loop.phase = "update" /\ loop.k = Steps
    /\ loop' = IF loop.save THEN [loop EXCEPT !.phase = "unsaved"]
               ELSE [loop EXCEPT !.phase = "done", !.alreadyRun = TRUE]
    /\ UNCHANGED mpcVars

SaveResults ==
    /\ Looping /\ loop.phase = "done" /\ loop.alreadyRun /\ ~loop.saved
    /\ loop' = [loop EXCEPT !.saved = TRUE]
    /\ UNCHANGED mpcVars

(*************************** predictive control ***************************)

RtEnableIntegralAction ==
    /\ client = "rtmpc" /\ loop.phase = "new" /\ ~loop.integral
    /\ loop' = [loop EXCEPT !.integral = TRUE]
    /\ UNCHANGED mpcVars

RtUpdate ==
    /\ client = "rtmpc" /\ loop.phase = "update" /\ loop.k < Steps
    /\ UpdatedState([coll EXCEPT !.op.user = GetNewPars(@, loop.k)], loop.x.of, NextStart)
    /\ loop' = [loop EXCEPT !.phase = "sample"]
    /\ UNCHANGED <<handle, client, config>>

\* A sample that raises ends the loop.
RtSample ==
    /\ client = "rtmpc" /\ loop.phase = "sample"
    /\ SolvesOrRaises
    /\ loop' = IF mpc'.phase = "raised" THEN [loop EXCEPT !.phase = "aborted"]
               ELSE AppliedAs(loop, [step |-> loop.k, of |-> mpc'.optInput.sample,
                                     corrected |-> FALSE])
    /\ UNCHANGED <<handle, client, config>>

\* The prediction is row n_cp of the result: the end of the first element when
\* the rows are the collocation points.
PredictionElements(row) ==
    CASE config.mode = "collocation_points" -> row \div NCp
      [] config.mode = "mesh_points" -> row
      [] OTHER -> row \div NEval
PredictionTime(run, row) ==
    [elements |-> PredictionElements(row) + (run - 1) * config.nes]

ErrorBeforeMeasuring(x, file) ==   \* mutant: the state before the input is compared
    [now |-> loop.last.of, predicted |-> PredictionTime(file.run, NCp), run |-> file.run]
PredictionError(x, file) ==
    [now |-> x.of, predicted |-> PredictionTime(file.run, NCp), run |-> file.run]

\* With integral action the results of this sample are written and read, and the
\* estimated error becomes a parameter of the problem.
RtMeasure ==
    /\ client = "rtmpc" /\ loop.phase = "measure"
    /\ LET x == EstimateStates(GetMeasurements(loop))
       IN IF ~loop.observed THEN loop' = Lacking /\ UNCHANGED <<mpc, coll>>
          ELSE IF loop.integral
          THEN /\ mpc' = [mpc EXCEPT !.file = Written]
               /\ coll' = [coll EXCEPT !.op.err = x.of]
               /\ loop' = [Stepped(x) EXCEPT !.err = PredictionError(x, Written)]
          ELSE loop' = Stepped(x) /\ UNCHANGED <<mpc, coll>>
    /\ UNCHANGED <<handle, client, config>>

(***************************** linear feedback *****************************)

LqrEnableIntegralAction ==
    /\ client = "lqr" /\ loop.phase = "new" /\ ~loop.integral
    /\ loop' = [loop EXCEPT !.integral = TRUE]
    /\ UNCHANGED mpcVars

NotShifted(x) == x   \* mutant: the input is computed of the absolute state
FromOperatingPoint(x) == [x EXCEPT !.shifted = TRUE]

LqrControl ==
    /\ client = "lqr" /\ loop.phase = "update" /\ loop.k < Steps
    /\ LET point == GetNewPars(loop.point, loop.k)
           x == FromOperatingPoint(loop.x)
       IN loop' = AppliedAs([loop EXCEPT !.point = point, !.x = x],
                            [step |-> x.of, shifted |-> x.shifted, point |-> point,
                             corrected |-> FALSE])
    /\ UNCHANGED mpcVars

\* The error is taken before the last state is replaced, and of a copy of it.
LastIsTheSame(x) == loop.x   \* mutant: the last state is not a copy
LastState(x) == loop.last
CalculateError(x) ==
    [now |-> x.of, last |-> LastState(x), input |-> loop.u.step, point |-> loop.point]

LqrMeasure ==
    /\ client = "lqr" /\ loop.phase = "measure"
    /\ LET x == EstimateStates(GetMeasurements(loop))
       IN loop' = IF ~loop.observed THEN Lacking
                  ELSE [Stepped(x) EXCEPT !.err = IF loop.integral THEN CalculateError(x)
                                                  ELSE None]
    /\ UNCHANGED mpcVars

(****************************** specification ******************************)

Init ==
    /\ client \in {"handle", "mpc", "rtmpc", "lqr"}
    /\ handle = NewHandle
    /\ coll = SolverInit(NewCollocator(NewProblem))
    /\ mpc = NewMpc
    /\ \E observed \in BOOLEAN :
          loop = IF client = "lqr" THEN NewLqrLoop(observed) ELSE NewMpcLoop(observed)
    /\ \E n \in ElementCounts, g \in Guesses, m \in ResultModes, hs \in {"none", "given", "free"} :
          /\ Accepted(n, hs, DefaultBlocking(n))
          /\ config = [nes |-> n \div Horizon, guess |-> g, mode |-> m, hs |-> hs]
          /\ hs = "given" => client = "mpc" /\ g = "shift"
          /\ client \in {"handle", "lqr"} => g = "shift" /\ n = Horizon /\ m = "collocation_points"
          /\ client = "rtmpc" => g = LoopConfig(n).guess
          /\ client \in {"handle", "mpc"} => loop.observed

Next == \/ HandleNext /\ UNCHANGED <<mpc, config, loop>>
        \/ MpcNext /\ UNCHANGED loop
        \/ Run \/ Finish \/ SaveResults
        \/ RtEnableIntegralAction \/ RtUpdate \/ RtSample \/ RtMeasure
        \/ LqrEnableIntegralAction \/ LqrControl \/ LqrMeasure

Spec == Init /\ [][Next]_vars

(******************************** properties ********************************)

(* The error estimate of a step compares the state measured after the input  *)
(* with the prediction, for that time, of the solution this step computed    *)
(* (with one element for each sample), and the next problem has it as        *)
(* parameter. The linear loop predicts from the absolute state before the    *)
(* input, with the input computed of that state relative to the point of     *)
(* operation of the step. What is measured is what the input that was sent   *)
(* led to in one sample time: the input recorded for the step, corrected     *)
(* when there is integral action.                                            *)
ErrorOfThisStep ==
    loop.phase # "aborted" =>
        /\ loop.err # None /\ client = "rtmpc" /\ config.mode = "collocation_points" =>
              /\ loop.phase = "update" =>
                    /\ loop.err.now = loop.k /\ loop.err.run = loop.k
                    /\ config.nes = 1 => loop.err.predicted.elements = loop.k
                    /\ coll.op.err = loop.k
              /\ loop.phase = "measure" => coll.used.op.err = loop.k
        /\ loop.err # None /\ client = "lqr" /\ loop.phase = "update" =>
              /\ loop.err.now = loop.k /\ loop.err.input = loop.k - 1
              /\ loop.err.last = loop.outs[loop.k]
              /\ loop.ins[loop.k + 1].shifted /\ loop.ins[loop.k + 1].point = loop.err.point
        /\ loop.phase = "update" /\ loop.k > 0 =>
              LET x == loop.outs[loop.k + 1]
                  u == loop.ins[loop.k + 1]
              IN x.of = loop.k /\ x.by = [u EXCEPT !.corrected = loop.integral]
=============================================================================
