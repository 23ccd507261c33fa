---------------------------- MODULE MCCollocation ----------------------------
(* Problems for the layout of a collocated problem: all numbers of elements    *)
(* and points up to small ones, both schemes, every way to block two inputs,   *)
(* and each kind of constraint.                                                *)
EXTENDS VariableScaling

Plain == [ne |-> 2, ncp |-> 2, discr |-> "LGR", free |-> FALSE, nx |-> 1, nw |-> 1,
          inputs |-> <<"a", "b">>, keys |-> None, factors |-> <<>>, du |-> {},
          npopt |-> 1, pathEq |-> 0, pathIneq |-> 1, pointEq |-> 0, pointIneq |-> 0,
          constr |-> 0, delayed |-> 0, checkpoint |-> FALSE, quadrature |-> TRUE,
          mode |-> "collocation_points", nes |-> 0,
          modes |-> [m \in {"_default_mode"} |-> "attribute"], traj |-> [t \in {"x", "dx", "u", "w", "p"} |-> "none"], update |-> FALSE,
          nominal |-> [t \in {"x", "dx", "u", "w", "p"} |-> 1]]

Sizes == {[Plain EXCEPT !.ne = ne, !.ncp = ncp, !.discr = d, !.nx = nx, !.nw = nw, !.mode = mode,
                        !.inputs = ins] :
            ne \in 1..3, ncp \in 1..2, d \in {"LGR", "LG"}, nx \in {0, 2}, nw \in {0, 1},
            mode \in {"collocation_points", "mesh_points"}, ins \in {<<>>, <<"a", "b">>}}
Constraints == {[Plain EXCEPT !.discr = d, !.ne = ne, !.free = free, !.pathEq = pe, !.pointEq = po,
                              !.pathIneq = 2, !.constr = c, !.delayed = dl, !.checkpoint = ch] :
                  d \in {"LGR", "LG"}, ne \in 1..2, free \in BOOLEAN, pe \in {0, 2}, po \in {0, 1},
                  c \in {0, 1}, dl \in {0, 1}, ch \in BOOLEAN}
Results == {[Plain EXCEPT !.discr = d, !.free = free, !.quadrature = q, !.ne = 3, !.mode = mode] :
              d \in {"LGR", "LG", "LGL"}, free \in BOOLEAN, q \in BOOLEAN,
              mode \in {"collocation_points", "mesh_points", "element_interpolation"}}

\* Lists of factors for two and three elements; one does not have the right sum.
FactorLists(ne) == IF ne = 2 THEN {<<2>>, <<1, 1>>} ELSE {<<3>>, <<1, 2>>, <<2, 1>>, <<1, 1, 1>>, <<1, 1>>}
One(ne) == {[Plain EXCEPT !.ne = ne, !.inputs = ins, !.keys = <<"a">>, !.factors = [n \in {"a"} |-> fs],
                          !.du = {"a"}, !.checkpoint = ch, !.discr = d] :
              fs \in FactorLists(ne), ch \in BOOLEAN, d \in {"LGR", "LG"},
              ins \in {<<"a">>, <<"a", "b">>, <<"b", "a">>}}
Two(ne, orders) ==
    {[Plain EXCEPT !.ne = ne, !.keys = keys, !.inputs = <<"c", "a", "b">>,
                   !.factors = [n \in {"a", "b"} |-> IF n = "a" THEN fa ELSE fb], !.du = du] :
        fa \in FactorLists(ne), fb \in FactorLists(ne), keys \in orders, du \in {{}, {"a", "b"}}}

\* Of a controller: every sample has the same number of elements and a value of
\* the blocked input.
Samples == {[Plain EXCEPT !.ne = ne, !.nes = nes, !.ncp = ncp, !.inputs = ins, !.keys = <<"a">>,
                          !.factors = [n \in {"a"} |-> [s \in 1..(ne \div nes) |-> nes]]] :
              ne \in {2, 4}, nes \in 1..2, ncp \in 1..2, ins \in {<<"a">>, <<"b", "a">>}}
           \union {[Plain EXCEPT !.ne = 3, !.nes = 1, !.keys = <<>>]}

\* Scaling: one variable of every shape among positive ones, every default mode, and
\* modes of a variable of its own.
Positive == [t \in {"x", "dx", "u", "w", "p"} |-> "positive"]
MCShapes == {[Positive EXCEPT ![t] = s] : t \in {"x", "u", "p"},
                s \in {"absent", "zero", "constant", "crossing", "wide"}} \union {Positive}
ModeNames == {"attribute", "linear", "affine", "time-variant"}
MCModes == {[m \in {"_default_mode"} |-> d] : d \in ModeNames}
OwnModes == {[m \in {"_default_mode", "x"} |-> IF m = "x" THEN o ELSE d] : d \in ModeNames, o \in ModeNames}
Scalings == {[Plain EXCEPT !.ncp = 1, !.inputs = <<"a">>, !.update = TRUE, !.modes = m, !.traj = traj, !.nominal["x"] = nom] :
               m \in MCModes \union OwnModes, nom \in 0..1,
               traj \in {NoTraj, Positive, [Positive EXCEPT !["x"] = "zero"], [Positive EXCEPT !["u"] = "crossing"]}}

MCProblems == Scalings \union Sizes \union Constraints \union Results \union Samples
                \union One(2) \union One(3) \union Two(2, {<<"a", "b">>}) \union Two(3, {<<"a", "b">>})
\* The dictionary of the factors has its keys in another order than the inputs.
MCBlocked == Two(3, {<<"a", "b">>, <<"b", "a">>}) \union One(3) \union One(2)
MCGauss == Results
=============================================================================
