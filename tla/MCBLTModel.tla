----------------------------- MODULE MCBLTModel -----------------------------
EXTENDS BLTModel

Default == [tearing |-> TRUE, solve_blocks |-> FALSE, solve_torn_linear_blocks |-> FALSE,
            dense_measure |-> "lmfi", dense_tol |-> 15]

OptionSets ==
  {Default, [Default EXCEPT !.dense_tol = 1], [Default EXCEPT !.solve_blocks = TRUE],
   [Default EXCEPT !.solve_torn_linear_blocks = TRUE], [Default EXCEPT !.tearing = FALSE],
   [Default EXCEPT !.dense_measure = "Markowitz", !.dense_tol = 1]}

Problem(E, der, tv, te, b, inel, o) ==
  [edges |-> E, der |-> der, tearV |-> tv, tearE |-> te, bilinear |-> b, ineliminable |-> inel,
   known |-> {1}, objective |-> Variables, options |-> o]

Diagonal == {<<i, i>> : i \in 1 .. N}
AllEdges == Equations \X Variables
AtMostOne(S) == {{}} \cup {{x} : x \in S}

Tearings == {<<{}, {}>>, <<{1}, {}>>, <<{1}, {1}>>, <<{1}, {2}>>, <<{1, 2}, {2, 3}>>}

\* At most one product, in the second equation.
Bilinear(E) == AtMostOne({<<2, v, w>> : <<v, w>> \in {p \in Variables \X Variables :
                            p[1] <= p[2] /\ <<2, p[1]>> \in E /\ <<2, p[2]>> \in E}})

\* Every incidence; and with a diagonal, tearing, a derivative, a product and options.
MCProblems ==
  {Problem(E, {}, {}, {}, {}, {}, Default) : E \in SUBSET AllEdges}
  \cup UNION {{Problem(E, d, t[1], t[2], b, {}, o) :
                 d \in {{}, {1}, {3}}, t \in Tearings, b \in Bilinear(E), o \in OptionSets} :
                   E \in {F \cup Diagonal : F \in SUBSET (AllEdges \ Diagonal)}}
  \cup UNION {{Problem(E, {}, t[1], t[2], {}, {v}, o) :
                 v \in {1, 2}, t \in Tearings,
                 o \in OptionSets} :
                   E \in {F \cup Diagonal : F \in SUBSET (AllEdges \ Diagonal)}}
=============================================================================
