-------------------------- MODULE CollocationResult --------------------------
(****************************************************************************)
(* The life of a collocated problem (casadi_collocation.py, mpc.py and the   *)
(* checks of options in jmi_algorithm_drivers.py): it is laid out, its       *)
(* bounds and guess are filled in, it is solved, the solution is brought     *)
(* back to the units of the model, and its values are moved by a sample to   *)
(* be the next guess of a model predictive controller.                       *)
(*                                                                           *)
(* Values are not modelled: of a place it is kept how often its value was    *)
(* brought to the units of the model, and whose value the guess holds.       *)
(****************************************************************************)
EXTENDS CollocationLayout, FiniteSets

CONSTANTS Problems   \* problems and options that are tried

vars == <<prob, nlp>>

\* The checks of the options.
Accepted(c) ==
    /\ c.discr \in {"LG", "LGR"}
    /\ c.keys # None => \A name \in DOMAIN c.factors : Total(c.factors[name]) = c.ne
    /\ ~(c.checkpoint /\ c.keys # None)

Start == [phase |-> "new", xx |-> <<>>, eq |-> <<>>, ineq |-> <<>>, bounds |-> <<>>,
          units |-> <<>>, rows |-> <<>>, guess |-> <<>>]
Init == /\ prob \in {c \in Problems : Accepted(c)}
        /\ nlp = Start

Timed == {"dx", "x", "w", "u"}
TimedAt(t) == {<<t, j, i, k>> : j \in 1..NVar(t), i \in 1..prob.ne, k \in 0..(prob.ncp + 1)}
AtTimePoints == {v \in UNION {TimedAt(t) : t \in Timed} : v[4] \in TimePoints(v[3])}
Place(v) == VarIndex(v[1], v[2], v[3], v[4])
PlaceX(j, i, k) == VarIndex("x", j, i, k)
LastOf(i) == prob.ncp + Gauss

(**************************** making the problem ****************************)

DelayedUnsupported == prob.delayed > 0 /\ (Blocking \/ prob.free)
\* Point constraints with free element lengths are not refused: the test for them is
\* in a function that is called for given lengths only.
Raises == IF LG /\ Blocking THEN "KeyError"
          ELSE IF DelayedUnsupported THEN "CasadiCollocatorException"
          ELSE IF Numel(EqBlocks) # NCe \/ Numel(IneqBlocks) # NCi THEN "AssertionError"
          ELSE "no"

\* The states that have place p as their value at the start of an element after
\* the first.
NoStarts(p) == {}   \* mutant: the start of an element is left alone
Starts(p) == {<<j, i>> \in (1..prob.nx) \X (2..prob.ne) : PlaceX(j, i, 0) = p}

\* The place where the element before ends.
EndBefore(p) == LET s == CHOOSE e \in Starts(p) : TRUE IN PlaceX(s[1], s[2] - 1, LastOf(s[2] - 1))

\* The variables whose bounds and guess reach a place: those of its time points,
\* and at the start of an element those of the place where the one before ends.
BoundsAndInit ==
    LET timed == [p \in 1..NXx |-> {<<v[1], v[2]>> : v \in {u \in AtTimePoints : Place(u) = p}}]
    IN [p \in 1..NXx |->
          CASE p > SplitAt("h") -> {<<"h", 0>>}
            [] p > SplitAt("p") /\ p <= SplitAt("h") -> {<<"p", p - SplitAt("p")>>}
            [] p <= SplitAt("p") -> IF Starts(p) = {} THEN timed[p] ELSE timed[EndBefore(p)]]

\* The handler makes variables, constraints, bounds and the tables in one call.
CreateNlp ==
    /\ nlp.phase = "new"
    /\ nlp' = IF Raises # "no" THEN [nlp EXCEPT !.phase = Raises]
              ELSE [nlp EXCEPT !.phase = "made", !.xx = Named,
                        !.eq = [type \in {ty \in TypesOf(EqBlocks) : RowsOf(EqBlocks, ty) # <<>>}
                                  |-> Sorted(RowsOf(EqBlocks, type))],
                        !.ineq = [type \in {ty \in TypesOf(IneqBlocks) : RowsOf(IneqBlocks, ty) # <<>>}
                                    |-> Sorted(RowsOf(IneqBlocks, type))],
                        !.bounds = BoundsAndInit]
    /\ UNCHANGED prob

(******************************** the result ********************************)

SolveNlp ==
    /\ nlp.phase = "made"
    /\ nlp' = [nlp EXCEPT !.phase = "solved", !.units = [p \in 1..NXx |-> 0], !.guess = Named]
    /\ UNCHANGED prob

\* Every variable at every time point is brought to the units of the model, a
\* blocked input at the last element of each of its factors only.
BlockedInput(v) == v[1] = "u" /\ IsBlocked(v[2])
RescaledEach == {v \in AtTimePoints : ~BlockedInput(v)}
ValuesOf(j) == 1..Len(Factors(j))
OncePerElement ==   \* mutant: a blocked input is brought there at each element
    UNION {{<<"u", j, i, 1>> : i \in 1..prob.ne} : j \in {q \in 1..NVar("u") : IsBlocked(q)}}
RescaledBlocked ==
    UNION {{<<"u", j, Upto(Factors(j), f), 1>> : f \in ValuesOf(j)} :
              j \in {q \in 1..NVar("u") : IsBlocked(q)}}
Rescaled ==
    [p \in 1..NXx |-> Cardinality({v \in RescaledEach \union RescaledBlocked : Place(v) = p})]

\* Then the start of an element is copied from the end of the one before.
Continued(units) ==
    [p \in 1..NXx |-> IF Starts(p) = {} THEN units[p] ELSE units[EndBefore(p)]]

\* With Gauss points the end of an element is computed from values within it; it
\* is in their units if they agree.
Mixed == -1
Computed(units) ==
    [p \in 1..NXx |->
        LET ends == {<<j, i>> \in (1..prob.nx) \X (1..prob.ne) : PlaceX(j, i, prob.ncp + 1) = p}
        IN IF ends = {} THEN units[p]
           ELSE LET e == CHOOSE x \in ends : TRUE
                    of == IF prob.quadrature
                          THEN {PlaceX(e[1], e[2], 0)}
                               \union {VarIndex("dx", e[1], e[2], k) : k \in 1..prob.ncp}
                          ELSE {PlaceX(e[1], e[2], k) : k \in 0..prob.ncp}
                IN IF \A q \in of : units[q] = 1 THEN 1 ELSE Mixed]

Unscaled == IF LG THEN Computed(Continued(Rescaled)) ELSE Continued(Rescaled)

\* The points that the rows of the result stand for, -1 for one in between.
PointsInOrder == Loop(prob.ne, LAMBDA i : LET first == IF i = 1 THEN 0 ELSE 1
                                              last == IF i = prob.ne THEN LastOf(i) ELSE prob.ncp
                                          IN [q \in 1..(last - first + 1) |-> <<i, first + q - 1>>])
ResultRows == CASE prob.mode = "collocation_points" -> PointsInOrder
                [] prob.mode = "mesh_points" -> <<<<1, 0>>>> \o [i \in 1..prob.ne |-> <<i, LastOf(i)>>]
                [] prob.mode = "element_interpolation" -> [q \in 1..(2 * prob.ne) |-> <<(q + 1) \div 2, -1>>]
NTimes == CASE prob.mode = "collocation_points" /\ prob.free -> 1 + prob.ne * prob.ncp
            [] prob.mode = "collocation_points" /\ ~prob.free -> Len(PointsInOrder)
            [] prob.mode = "mesh_points" -> 1 + prob.ne
            [] prob.mode = "element_interpolation" -> 2 * prob.ne

GetResult ==
    /\ nlp.phase = "solved"
    /\ nlp' = [nlp EXCEPT !.units = Unscaled, !.rows = ResultRows,
                          !.phase = IF Len(ResultRows) > NTimes THEN "IndexError" ELSE "result"]
    /\ UNCHANGED prob

(************************ the guess of the next sample ***********************)

\* xx[a:b] of the code.
Slice(xx, a, b) == SubSeq(xx, a + 1, b)
Repeated(xx, n) == Loop(n, LAMBDA q : xx)
ShiftedPart(xx, t, m) ==
    LET start == SplitAt(t)
        end == start + PartSizes[PartNo(t)]
    IN Slice(xx, start + NVar(t) * prob.nes * m, end)
         \o Repeated(Slice(xx, end - NVar(t), end), m * prob.nes)

ContEnd == SplitAt("u") + NCont * prob.ncp * prob.ne
ShiftedCont(xx) ==
    Slice(xx, SplitAt("u") + NCont * prob.ncp * prob.nes, ContEnd)
      \o Repeated(Slice(xx, ContEnd - NCont, ContEnd), prob.ncp * prob.nes)
ShiftedBlocked(xx) ==
    Loop(Len(prob.keys), LAMBDA q :
        LET len(r) == Len(prob.factors[prob.keys[r]])
            start == ContEnd + Total([r \in 1..(q - 1) |-> len(r)])
            end == start + len(q)
            n == NVar("u") - NCont
        IN Slice(xx, start + n, end) \o Slice(xx, end - n, end))

\* The values at the start are those of the last point of the sample.
StartInputFirst(xx) ==   \* mutant: of the first point of the next sample
    LET at(t, n) == LET s == SplitAt(t) + prob.ncp * prob.nes * n IN Slice(xx, s, s + n)
    IN at("u", NCont) \o at("dx", prob.nx) \o at("w", prob.nw)
ShiftedStart(xx) ==
    LET at(t, n) == LET s == SplitAt(t) + (prob.ncp * prob.nes - 1) * n IN Slice(xx, s, s + n)
    IN at("u", NCont) \o at("dx", prob.nx) \o at("w", prob.nw)

ShiftXx ==
    /\ nlp.phase = "result" /\ prob.nes > 0
    /\ nlp' = [nlp EXCEPT !.phase = "shifted",
                  !.guess = ShiftedPart(@, "x", prob.ncp + 1) \o ShiftedPart(@, "dx", prob.ncp)
                              \o ShiftedPart(@, "w", prob.ncp)
                              \o ShiftedCont(@) \o ShiftedBlocked(@) \o ShiftedStart(@)
                              \o Slice(@, SplitAt("p"), SplitAt("h"))]
    /\ UNCHANGED prob

Next == CreateNlp \/ SolveNlp \/ GetResult \/ ShiftXx
Spec == Init /\ [][Next]_vars

(******************************** properties ********************************)

(* Every variable has a place of its own wherever it has a value: the place    *)
(* computed from the sizes of the parts is the one that was given its name, a  *)
(* blocked input has one place in all elements of a factor and another in the  *)
(* next, and the vector is as long as the variables are many. Hazard: five     *)
(* computations of the same layout have to agree (_create_nlp_variables).      *)
OwnerRight(v) ==
    LET owner == nlp.xx[Place(v)]
    IN IF BlockedInput(v)
       THEN owner = <<"u", v[2], FirstElement(Factors(v[2]), FactorAt(Factors(v[2]), v[3])), -1>>
       ELSE owner = v
Valued == {v \in UNION {TimedAt(t) : t \in Timed} : HasValue(v[1], v[3], v[4])}
SlotsRight ==
    nlp.phase = "made" =>
            /\ Len(nlp.xx) = NXx /\ Len(nlp.xx) = Total(PartSizes)
            /\ \A v \in Valued : OwnerRight(v)
            /\ \A p, q \in 1..NXx : p # q => nlp.xx[p] # nlp.xx[q]

(* A blocked input is constant over the elements of each of its own factors,   *)
(* and no two of its factors share a value, whatever the order of the          *)
(* dictionary. BlockingFactors, casadi_collocation.py 866.                     *)
BlockingRight ==
    nlp.phase = "made" =>
        \A j \in 1..NVar("u") : IsBlocked(j) =>
            \A i1, i2 \in 1..prob.ne :
                (VarIndex("u", j, i1, 1) = VarIndex("u", j, i2, 1))
                  <=> (FactorAt(Factors(j), i1) = FactorAt(Factors(j), i2))

(* The tables lead each place of the constraints back to the equation, element *)
(* and point that it was made from, equalities before inequalities, and what   *)
(* the handle tells of a type is of that type; the constraints that were       *)
(* counted are those that are made, save path equalities at Gauss points.      *)
(* Hazard: residuals, multipliers and scales are taken by these places.        *)
TrueOrigins ==
    LET of(blocks) == Loop(Len(blocks), LAMBDA b :
            [e \in 1..blocks[b].n |-> IF blocks[b].type = "other" THEN Unknown
                                      ELSE <<blocks[b].type, e, blocks[b].i, blocks[b].k>>])
    IN of(EqBlocks) \o of(IneqBlocks)
OriginsRight ==
    /\ nlp.phase = "AssertionError" => LG /\ prob.pathEq > 0 /\ prob.ne > 1
    /\ nlp.phase = "made" =>
        /\ Len(TrueOrigins) = NCe + NCi
        /\ \A p \in 1..Len(TrueOrigins) :
              CSources(p) = IF TrueOrigins[p] = Unknown THEN {} ELSE {TrueOrigins[p]}
        /\ \A type \in Recorded : \A row \in ToSet(GetOfType(TrueOrigins, type)) :
              \A e \in DOMAIN row.values : row.values[e] = <<type, e, row.i, row.k>>

(* Bounds and guess of a variable reach each of its places and no other: at    *)
(* Radau points all, at Gauss points all but the states between two elements.  *)
(* Hazard: they are filled in at time points, which not all places are.        *)
BoundsReach ==
    nlp.phase = "made" =>
        \A t \in Timed \union {"p"} : \A j \in 1..NVar(t) : \A s \in VariablePlaces(t, j) :
            nlp.bounds[s[3]] = IF /\ LG /\ t = "x"
                                  /\ (s[2] = prob.ncp + 1 /\ s[1] < prob.ne) \/ (s[2] = 0 /\ s[1] > 1)
                               THEN {} ELSE {<<t, j>>}

(* Every variable has a place of its own at every point, and the bounds and    *)
(* the guess given for it are in that place.                                   *)
PlacedRight == SlotsRight /\ BoundsReach

(* In the result every variable is in the units of the model, at every point   *)
(* that a row stands for. Comment "Rescale continuity variables",              *)
(* casadi_collocation.py 4909.                                                 *)
AllRescaled ==
    nlp.phase = "result" =>
        \A row \in ToSet(nlp.rows) : \A v \in Valued :
            v[3] = row[1] /\ v[4] = row[2] => nlp.units[Place(v)] = 1

(* Every place of the result is brought to the units of the model once,        *)
(* although elements share places and a blocked input holds for several; at    *)
(* Gauss points all but the states at the ends of elements. Hazard: places are *)
(* changed in place, by point, by factor and by copies.                        *)
RescaledInside ==
    nlp.phase \in {"result", "shifted"} =>
        \A p \in 1..NXx :
            LET v == XxSource(p)
            IN v[1] \in Timed /\ ~(LG /\ v[1] = "x" /\ v[4] \in {0, prob.ncp + 1}) => nlp.units[p] = 1

(* The moved guess has in each place the value of the same variable one sample *)
(* later, a blocked input one factor later, and the last known value beyond    *)
(* the horizon; it has the length of the vector. Hazard: six slices at offsets *)
(* of a layout made elsewhere. With several blocked inputs the code takes      *)
(* values of another factor; scale factors that move with time are left out.   *)
Later(v) ==
    CASE v[1] = "p" -> v
      [] v[1] = "u" /\ IsBlocked(v[2]) ->
            LET f == FactorAt(Factors(v[2]), v[3])
                g == IF f < Len(Factors(v[2])) THEN f + 1 ELSE f
            IN <<"u", v[2], FirstElement(Factors(v[2]), g), -1>>
      [] v[1] \in {"dx", "w"} \/ (v[1] = "u" /\ ~IsBlocked(v[2])) ->
            IF v[4] = 0 THEN <<v[1], v[2], prob.nes, prob.ncp>>
            ELSE IF v[3] + prob.nes <= prob.ne THEN [v EXCEPT ![3] = @ + prob.nes]
            ELSE <<v[1], v[2], prob.ne, prob.ncp>>
      [] v[1] = "x" -> IF v[3] + prob.nes <= prob.ne THEN [v EXCEPT ![3] = @ + prob.nes]
                       ELSE <<"x", v[2], prob.ne, prob.ncp>>
ShiftMoves ==
    nlp.phase = "shifted" /\ NVar("u") - NCont <= 1 =>
        /\ Len(nlp.guess) = NXx
        /\ \A p \in 1..NXx : nlp.guess[p] = Later(XxSource(p))
=============================================================================
