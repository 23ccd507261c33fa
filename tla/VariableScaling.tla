--------------------------- MODULE VariableScaling ---------------------------
(****************************************************************************)
(* The scaling of the variables of a collocated problem                      *)
(* (casadi_collocation.py): how a factor is found for each variable from its *)
(* nominal attribute or a nominal trajectory, in which parameter of the      *)
(* nonlinear program it is kept, and how set_nominal_traj changes it later,  *)
(* when the places of the parameters are fixed.                              *)
(*                                                                           *)
(* A trajectory gives each type of variable a shape: absent, zero, constant, *)
(* positive, crossing zero, or wide (both tiny and large). A factor is not a *)
(* number but the way it was found: how, from which trajectory, and for      *)
(* which variable and point.                                                 *)
(****************************************************************************)
EXTENDS CollocationResult

CONSTANTS Shapes,      \* nominal trajectories that are tried: shapes by type
          NewModes,    \* modes that are given with a new trajectory
          MaxUpdates   \* bound: calls of set_nominal_traj

VARIABLE scal   \* the scaling of the problem

scalVars == <<vars, scal>>

Scaled == <<"x", "dx", "u", "w">>
Names == Loop(4, LAMBDA t : [j \in 1..NVar(Scaled[t]) |-> <<Scaled[t], j>>])

\* No trajectory; no new modes.
Types == {"x", "dx", "u", "w", "p"}
NoTraj == [t \in Types |-> "none"]
SameModes == [m \in {"_default_mode"} |-> "none"]

\* The mode of a variable: its own, or the default one.
ModeIn(modes, t) == IF t \in DOMAIN modes THEN modes[t] ELSE modes["_default_mode"]

(**************************** places of parameters ***************************)

\* The mode that a variable has when the problem is made decides for ever whether
\* its factors have a place of their own at each point.
Variant(t) == scal.made[t] = "time-variant"
PlacesOf(name) == IF Variant(name[1]) THEN Len(PointsInOrder) ELSE 1
Prefix(n) == Total([q \in 1..(n - 1) |-> PlacesOf(Names[q])])
PointNo(i, k) == CHOOSE q \in 1..Len(PointsInOrder) : PointsInOrder[q] = <<i, k>>

\* The parameters of the nonlinear program: those of the model, external data at
\* every point of every element, a scale for each equation, then the factors.
NFixed == 2
ExternalData == prob.constr * prob.ne * (prob.ncp + 1 + Gauss)
ParamOffset == NFixed + ExternalData + NCe + NCi

\* Where the factor of a variable at a point is looked up. With Gauss points the
\* ends of an element have the factor of the point next to them.
FactorPoint(i, k) == CASE k \in TimePoints(i) -> <<i, k>>
                       [] k \notin TimePoints(i) /\ k = 0 -> <<i, 1>>
                       [] k \notin TimePoints(i) /\ k # 0 -> <<i, k - 1>>
ScalePlace(n, i, k) ==
    ParamOffset + Prefix(n)
      + (IF Variant(Names[n][1]) THEN PointNo(FactorPoint(i, k)[1], FactorPoint(i, k)[2]) ELSE 1)

\* In the collocation equations of an element the state at its start has the
\* factor of the end of the element before.
CollPlace(n, i, k) == IF k = 0 /\ i > 1 THEN ScalePlace(n, i - 1, LastOf(i - 1)) ELSE ScalePlace(n, i, k)
ParamPlace(j) == ParamOffset + Total([q \in 1..Len(Names) |-> PlacesOf(Names[q])]) + j

(****************************** finding factors ******************************)

\* Variables that the trajectory does not have take their attribute from then on.
Absent(traj) == {t \in {"x", "dx", "u", "w"} : traj[t] = "absent"}
ModesWith(modes, traj) ==
    IF traj = NoTraj THEN [modes EXCEPT !["_default_mode"] = "attribute"]
    ELSE [t \in DOMAIN modes \union Absent(traj) |->
            IF t \in Absent(traj) THEN "attribute" ELSE modes[t]]

Factor(how, n) == [how |-> how, traj |-> n]
Error(what) == [how |-> "error", what |-> what]
Nominal(t) == IF prob.nominal[t] = 0 THEN Error("Nominal value is zero") ELSE Factor("attribute", 0)

NoZeroCheck(t, shape, default, n) ==   \* mutant: a trajectory that is zero gives a linear factor
    IF shape \notin {"zero", "constant"} THEN Factor("affine", n)
    ELSE IF default \notin {"affine", "time-variant"} THEN Error("affine")
    ELSE IF shape = "zero" THEN Factor("zero", n) ELSE Factor("linear", n)
Affine(t, shape, default, n) ==
    IF shape \notin {"zero", "constant"} THEN Factor("affine", n)
    ELSE IF default \notin {"affine", "time-variant"} THEN Error("affine")
    ELSE IF shape = "zero" THEN Nominal(t) ELSE Factor("linear", n)

MayVary(shape) == shape \in {"constant", "positive"}
FactorOf(modes, made, traj, t, n) ==
    LET own == ModeIn(modes, t)
        mode == IF own = "time-variant" /\ made[t] # "time-variant" THEN made[t] ELSE own
        default == modes["_default_mode"]
    IN IF mode = "attribute" THEN Nominal(t)
       ELSE IF traj = NoTraj THEN Error("NameError")
       ELSE CASE mode = "linear" -> IF traj[t] = "zero" THEN Nominal(t) ELSE Factor("linear", n)
              [] mode = "affine" -> Affine(t, traj[t], default, n)
              [] mode = "time-variant" ->
                    IF MayVary(traj[t]) THEN Factor("variant", n)
                    ELSE IF default # "time-variant" THEN Error("variant")
                    ELSE Affine(t, traj[t], default, n)

\* Parameters that are optimized: too small a value is taken as 1.
ParamFactor(modes, traj, n) ==
    IF ModeIn(modes, "p") = "attribute" \/ traj = NoTraj \/ traj["p"] = "absent" THEN Nominal("p")
    ELSE IF traj["p"] = "zero" THEN Factor("one", n) ELSE Factor("linear", n)

Found(modes, made, traj, n) ==
    [t \in Types |-> IF t = "p" THEN ParamFactor(modes, traj, n) ELSE FactorOf(modes, made, traj, t, n)]
Fails(found) == \E t \in Types : NVar(t) > 0 /\ found[t].how = "error"

\* The factor of a variable at a point, with the point if it varies.
At(found, name, i, k) ==
    <<name, found[name[1]], IF found[name[1]].how = "variant" THEN <<i, k>> ELSE None>>

\* The parameters are written one after another in the order of the variables.
InputsLast(names) ==   \* mutant: the inputs after the algebraic variables
    SelectSeq(names, LAMBDA v : v[1] # "u") \o SelectSeq(names, LAMBDA v : v[1] = "u")
InOrder(names) == names
Written(found, made) ==
    [q \in 1..ParamOffset |-> None]
      \o Loop(Len(Names), LAMBDA q :
           LET name == InOrder(Names)[q]
           IN IF made[name[1]] = "time-variant"
              THEN [r \in 1..Len(PointsInOrder) |-> At(found, name, PointsInOrder[r][1], PointsInOrder[r][2])]
              ELSE <<At(found, name, -1, -1)>>)
      \o [j \in 1..NVar("p") |-> At(found, <<"p", j>>, -1, -1)]

(********************************** actions **********************************)

ScalInit ==
    /\ Init
    /\ scal = [phase |-> "new", modes |-> prob.modes, made |-> [t \in Types |-> "none"],
               found |-> <<>>, params |-> <<>>, updates |-> 0]

\* The trajectory that the problem is made with is number 1, later ones follow.
Scale(modes, made, traj, n) ==
    LET now == ModesWith(modes, traj)
        found == Found(now, made, traj, n)
    IN [scal EXCEPT !.modes = now, !.made = made, !.found = found,
                    !.phase = IF Fails(found) THEN "raised" ELSE "scaled",
                    !.params = IF Fails(found) THEN @ ELSE Written(found, made)]

CreateScaled ==
    /\ CreateNlp
    /\ scal' = IF nlp'.phase # "made" THEN scal
               ELSE Scale(scal.modes, [t \in Types |-> ModeIn(scal.modes, t)], prob.traj, 1)

\* A new trajectory, with or without new modes; the modes are those of the user,
\* changed in place.
SetNominalTraj ==
    /\ nlp.phase = "made" /\ scal.phase = "scaled" /\ prob.update /\ scal.updates < MaxUpdates
    /\ \E traj \in Shapes, modes \in NewModes \union {SameModes} :
          scal' = [Scale(IF modes = SameModes THEN scal.modes ELSE modes, scal.made, traj, scal.updates + 2)
                     EXCEPT !.updates = @ + 1]
    /\ UNCHANGED vars

Solve == /\ scal.phase = "scaled" /\ SolveNlp /\ UNCHANGED scal
Rest == /\ GetResult \/ ShiftXx
        /\ UNCHANGED scal

ScalNext == CreateScaled \/ SetNominalTraj \/ Solve \/ Rest
ScalSpec == ScalInit /\ [][ScalNext]_scalVars

(******************************** properties ********************************)

(* The parameter that an expression looks up for a variable at a point holds   *)
(* the factor that bounds, guess and result use for it, after any number of    *)
(* updates, also when a variable that had a factor for each point has one for  *)
(* all or the other way round; a state that two elements share has one factor  *)
(* in the equations of both, at Radau points. Hazard: the places are fixed at  *)
(* first, and the values are written by count.                                 *)
ParametersCurrent ==
    scal.phase = "scaled" =>
        /\ \A n \in 1..Len(Names), p \in AllPoints :
              scal.params[ScalePlace(n, p[1], p[2])]
                = At(scal.found, Names[n], IF Variant(Names[n][1]) THEN p[1] ELSE -1,
                                           IF Variant(Names[n][1]) THEN p[2] ELSE -1)
        /\ \A n \in 1..Len(Names), i \in 2..prob.ne : Names[n][1] = "x" /\ ~LG =>
              scal.params[CollPlace(n, i, 0)] = scal.params[CollPlace(n, i - 1, prob.ncp)]
        /\ \A j \in 1..NVar("p") : scal.params[ParamPlace(j)][1] = <<"p", j>>

(* A variable whose factors have one place for all points never gets a factor  *)
(* that varies, and no factor is zero. Hazard: the mode asked for later is not *)
(* the one that the places were made for; scaled values are divided by it.     *)
FactorsUsable ==
    scal.phase = "scaled" =>
        \A t \in Types : NVar(t) > 0 =>
            /\ scal.found[t].how # "zero"
            /\ scal.found[t].how = "variant" => Variant(t)

(* Scale factors can be used everywhere and are the ones in use, after any     *)
(* number of updates.                                                          *)
ScalesRight == ParametersCurrent /\ FactorsUsable
=============================================================================
