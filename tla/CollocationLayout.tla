-------------------------- MODULE CollocationLayout --------------------------
(****************************************************************************)
(* How LocalDAECollocator (casadi_collocation.py of pyjmi) lays an optimal   *)
(* control problem out as a nonlinear program: which place of the vector xx  *)
(* holds which variable at which point, which place of the constraints holds *)
(* which equation, and the tables that lead back from places to variables    *)
(* and equations.                                                            *)
(*                                                                           *)
(* A variable at a point is a tuple <<t, j, i, k>>: the j-th of type t at    *)
(* point k of element i, -1 where a number does not apply. Places are        *)
(* counted from 1. Types: "x", "dx", "w", "u" (the inputs that are not       *)
(* eliminated), "p" (parameters that are optimized), "h" (element lengths).  *)
(****************************************************************************)
EXTENDS Integers, Sequences, SequencesExt

VARIABLES prob,   \* the problem and the options, see MCCollocation
          nlp     \* what has been made of it

LG == prob.discr = "LG"
Gauss == IF LG THEN 1 ELSE 0
None == <<"none">>
Blocking == prob.keys # None

NVar(t) == CASE t \in {"x", "dx"} -> prob.nx
             [] t = "w" -> prob.nw
             [] t = "u" -> Len(prob.inputs)
             [] t = "p" -> prob.npopt
             [] t = "h" -> IF prob.free THEN prob.ne ELSE 0

\* The body of a loop from 1 to n, its results in a row.
Loop(n, Body(_)) == FlattenSeq([q \in 1..n |-> Body(q)])
Total(s) == FoldLeft(+, 0, s)
Upto(s, n) == Total(SubSeq(s, 1, n))

IsBlocked(j) == Blocking /\ prob.inputs[j] \in DOMAIN prob.factors
Factors(j) == prob.factors[prob.inputs[j]]
InputNo(name) == CHOOSE j \in 1..Len(prob.inputs) : prob.inputs[j] = name
ContInputs == SelectSeq([j \in 1..Len(prob.inputs) |-> j], LAMBDA j : ~IsBlocked(j))
NCont == Len(ContInputs)

\* The value of a list of factors that holds in element i, and its first element.
FactorAt(fs, i) == CHOOSE f \in 1..Len(fs) : Upto(fs, f - 1) < i /\ i <= Upto(fs, f)
FirstElement(fs, f) == Upto(fs, f - 1) + 1

\* The points of element i that results are given at.
TimePoints(i) ==
    (IF i = 1 THEN 0 ELSE 1)..(IF i = prob.ne THEN prob.ncp + Gauss ELSE prob.ncp)
AllPoints == {<<i, k>> \in (1..prob.ne) \X (0..(prob.ncp + 1)) : k \in TimePoints(i)}
\* Points where a variable of type t has a value of its own.
HasValue(t, i, k) ==
    \/ t = "x" /\ k \in 0..(prob.ncp + Gauss)
    \/ t # "x" /\ k \in TimePoints(i)

(****************************** the variables *******************************)

Vars(t, i, k) == [j \in 1..NVar(t) |-> <<t, j, i, k>>]
Grid(t, first, m) ==
    Loop(prob.ne, LAMBDA i : Loop(m, LAMBDA q : Vars(t, i, first + q - 1)))
Conts(i, k) == [c \in 1..NCont |-> <<"u", ContInputs[c], i, k>>]

\* A blocked input has a value for each of its factors.
FactorVars(name) ==
    LET j == InputNo(name)
    IN [f \in 1..Len(Factors(j)) |-> <<"u", j, FirstElement(Factors(j), f), -1>>]

NamedInputs ==
    IF Blocking
    THEN Loop(prob.ne, LAMBDA i : Loop(prob.ncp, LAMBDA k : Conts(i, k)))
         \o Loop(Len(prob.keys), LAMBDA q : FactorVars(prob.keys[q]))
         \o Conts(1, 0)
    ELSE Grid("u", 1, prob.ncp)
NamedAt(i, k) == Vars("dx", i, k) \o Vars("w", i, k) \o (IF Blocking THEN <<>> ELSE Vars("u", i, k))

\* The variables in the order in which they are given names.
Named ==
    Grid("x", 0, prob.ncp + 1 + Gauss) \o Grid("dx", 1, prob.ncp) \o Grid("w", 1, prob.ncp)
      \o NamedInputs
      \o NamedAt(1, 0) \o (IF LG THEN NamedAt(prob.ne, prob.ncp + 1) ELSE <<>>)
      \o Vars("p", -1, -1)
      \o [i \in 1..NVar("h") |-> <<"h", 0, i, -1>>]

\* The length that the vector is made with.
BlockedValues == Total([q \in 1..Len(prob.keys) |-> Len(prob.factors[prob.keys[q]])])
NXx ==
    LET all == 2 * prob.nx + prob.nw + (IF Blocking THEN 0 ELSE NVar("u"))
        points == 1 + prob.ne * prob.ncp
    IN NVar("p") + points * all
         + (IF Blocking THEN points * NCont + BlockedValues ELSE 0)
         + (prob.ne - 1) * prob.nx
         + (IF LG THEN (prob.ne - 1) * prob.nx + all ELSE 0)
         + NVar("h")

\* Where the parts begin that the vector is split into.
InputPart == IF Blocking THEN (1 + prob.ne * prob.ncp) * NCont + BlockedValues
                         ELSE prob.ne * prob.ncp * NVar("u")
PointPart == 2 * prob.nx + prob.nw - prob.nx + (IF Blocking THEN 0 ELSE NVar("u"))
PartSizes == <<prob.nx * (prob.ncp + 1 + Gauss) * prob.ne, prob.nx * prob.ncp * prob.ne,
               prob.nw * prob.ncp * prob.ne, InputPart, (1 + Gauss) * PointPart,
               NVar("p"), NVar("h")>>
PartNo(t) == CASE t = "x" -> 1 [] t = "dx" -> 2 [] t = "w" -> 3 [] t = "u" -> 4
               [] t = "ends" -> 5 [] t = "p" -> 6 [] t = "h" -> 7
SplitAt(t) == Upto(PartSizes, PartNo(t) - 1)

\* The place in a part that has m points in each element, the first of them
\* point number first.
InGrid(t, first, m, j, i, k) == SplitAt(t) + ((i - 1) * m + k - first) * NVar(t) + j

\* The values of the blocked inputs were laid out in the order of the keys; the
\* n-th of the problem's blocked inputs takes the n-th of them.
BlockedBefore(j) == Len(SelectSeq([q \in 1..j |-> q], IsBlocked))
PlaceInElement(j, i) ==   \* mutant: a place for each element, not for each factor
    SplitAt("u") + prob.ne * prob.ncp * NCont + i
      + Total([q \in 1..(BlockedBefore(j) - 1) |-> Len(prob.factors[prob.keys[q]])])
BlockedPlace(j, i) ==
    LET n == BlockedBefore(j)
        before == Total([q \in 1..(n - 1) |-> Len(prob.factors[prob.keys[q]])])
    IN SplitAt("u") + prob.ne * prob.ncp * NCont + before
         + FactorAt(prob.factors[prob.keys[n]], i)
ContPlace(j, i, k) ==
    LET c == CHOOSE q \in 1..NCont : ContInputs[q] = j
    IN SplitAt("u") + (IF k = 0 THEN InputPart - NCont
                                ELSE ((i - 1) * prob.ncp + k - 1) * NCont) + c

\* The values at the start, and for Gauss points at the end: dx, w and inputs.
EndPlace(t, j, k) ==
    SplitAt("ends") + (IF k = 0 THEN 0 ELSE PointPart)
      + (CASE t = "dx" -> 0 [] t = "w" -> prob.nx [] t = "u" -> prob.nx + prob.nw) + j

VarIndex(t, j, i, k) ==
    CASE t = "x" -> InGrid("x", 0, prob.ncp + 1 + Gauss, j, i, k)
      [] t = "u" /\ Blocking /\ IsBlocked(j) -> BlockedPlace(j, i)
      [] t = "u" /\ Blocking /\ ~IsBlocked(j) -> ContPlace(j, i, k)
      [] t = "p" -> SplitAt("p") + j
      [] t = "h" -> SplitAt("h") + i
      [] t \in {"dx", "w"} \/ (t = "u" /\ ~Blocking) ->
            IF k \in 1..prob.ncp THEN InGrid(t, 1, prob.ncp, j, i, k) ELSE EndPlace(t, j, k)

(****************************** the constraints *****************************)

\* A block of n residuals of a type at a point; those of type "other" are added
\* without a record.
Block(type, n, i, k) == [type |-> type, n |-> n, i |-> i, k |-> k]
NDae == prob.nx + prob.nw
AtAllPoints(type, n) ==
    Loop(prob.ne, LAMBDA i : LET first == IF i = 1 THEN 0 ELSE 1
                                 last == IF i = prob.ne THEN prob.ncp + Gauss ELSE prob.ncp
                             IN [q \in 1..(last - first + 1) |-> Block(type, n, i, first + q - 1)])

CommonEq ==
    <<Block("initial", prob.nx, 1, 0), Block("dae", NDae, 1, 0)>>
      \o [c \in 1..NCont |-> Block("u_1_0", 1, 1, 0)]
      \o (IF ~LG THEN <<>>
          ELSE [i \in 1..prob.ne |-> Block("continuity", prob.nx, i, -1)]
               \o <<Block("terminal_u", NVar("u"), prob.ne, prob.ncp + 1),
                    Block("terminal_w", prob.nw, prob.ne, prob.ncp + 1),
                    Block("terminal_dx", prob.nx, prob.ne, prob.ncp + 1)>>)
      \o (IF prob.free THEN <<Block("h_sum", 1, -1, -1)>> ELSE <<>>)
      \o AtAllPoints("path_eq", prob.pathEq)
      \o <<Block("point_eq", prob.pointEq, -1, -1),
           Block("other", prob.ne * prob.ncp * prob.constr, -1, -1),
           Block("other", prob.ne * prob.ncp * prob.delayed, -1, -1)>>

CollocationEq ==
    Loop(prob.ne, LAMBDA i : Loop(prob.ncp, LAMBDA k :
        <<Block("collocation", prob.nx, i, k), Block("dae", NDae, i, k)>>))
\* With checkpoints a call gives the equations of an element, all of a kind first.
CheckpointEq ==
    Loop(prob.ne, LAMBDA i :
        [k \in 1..prob.ncp |-> Block("dae", NDae, i, k)]
          \o [k \in 1..prob.ncp |-> Block("collocation", prob.nx, i, k)])
ContinuityEq == [i \in 1..(prob.ne - 1) |-> Block("continuity", prob.nx, i, -1)]

EqBlocks == CommonEq \o (IF prob.checkpoint THEN CheckpointEq ELSE CollocationEq) \o ContinuityEq

\* Bounds on the change of a blocked input, between one value and the next.
InputChanges(j) ==
    LET fs == Factors(j)
    IN Loop(Len(fs) - 1, LAMBDA f : <<Block("delta_u_ub", 1, Upto(fs, f), -1),
                                      Block("delta_u_lb", 1, Upto(fs, f), -1)>>)
BlockingIneq ==
    Loop(NVar("u"), LAMBDA j : IF IsBlocked(j) /\ prob.inputs[j] \in prob.du
                               THEN InputChanges(j) ELSE <<>>)
IneqBlocks ==
    AtAllPoints("path_ineq", prob.pathIneq) \o <<Block("point_ineq", prob.pointIneq, -1, -1)>>
      \o BlockingIneq

Numel(blocks) == Total([b \in 1..Len(blocks) |-> blocks[b].n])

\* The numbers of constraints, counted before they are made.
NTp == 1 + prob.ne * (prob.ncp + Gauss)
NCe ==
    prob.nx + NDae * (1 + prob.ne * prob.ncp) + NCont
      + (IF LG THEN prob.ne * prob.nx + NVar("u") + prob.nw + prob.nx ELSE 0)
      + (IF prob.free THEN 1 ELSE 0)
      + prob.pathEq * NTp + prob.pointEq
      + prob.ne * prob.ncp * prob.nx + (prob.ne - 1) * prob.nx
      + prob.ne * prob.ncp * (prob.constr + prob.delayed)
NCi ==
    prob.pathIneq * (IF LG THEN NTp - prob.ne + 1 ELSE NTp) + prob.pointIneq
      + 2 * Total([j \in 1..NVar("u") |-> IF IsBlocked(j) /\ prob.inputs[j] \in prob.du
                                           THEN Len(Factors(j)) - 1 ELSE 0])

(*************************** from places back again *************************)

\* What is recorded of a type: a row for each block that is not empty, with the
\* places of its residuals among those of its kind.
RowsOf(blocks, type) ==
    LET rec == [b \in 1..Len(blocks) |->
                  [i |-> blocks[b].i, k |-> blocks[b].k, type |-> blocks[b].type,
                   inds |-> [e \in 1..blocks[b].n |-> Numel(SubSeq(blocks, 1, b - 1)) + e]]]
    IN SelectSeq(rec, LAMBDA row : row.type = type /\ row.inds # <<>>)
TypesOf(blocks) == {blocks[b].type : b \in 1..Len(blocks)} \ {"other"}

\* Sorted by element and point, those of the same point as they were added.
Sorted(rows) ==
    LET before(a, b) ==
            \/ rows[a].i < rows[b].i
            \/ rows[a].i = rows[b].i /\ rows[a].k < rows[b].k
            \/ rows[a].i = rows[b].i /\ rows[a].k = rows[b].k /\ a < b
        order == SortSeq([q \in 1..Len(rows) |-> q], before)
    IN [q \in 1..Len(rows) |-> rows[order[q]]]

NotAfterEq(eqtype) ==   \* mutant: inequalities are not moved behind the equalities
    IF eqtype \in DOMAIN nlp.eq THEN nlp.eq[eqtype] ELSE nlp.ineq[eqtype]
ConstraintIndices(eqtype) ==
    IF eqtype \in DOMAIN nlp.eq THEN nlp.eq[eqtype]
    ELSE [q \in 1..Len(nlp.ineq[eqtype]) |->
            [nlp.ineq[eqtype][q] EXCEPT !.inds =
                [e \in 1..Len(nlp.ineq[eqtype][q].inds) |-> nlp.ineq[eqtype][q].inds[e] + Numel(EqBlocks)]]]

\* The equation that a place of the constraints comes from, by the table.
Unknown == <<"other", 0, -1, -1>>
Recorded == DOMAIN nlp.eq \union DOMAIN nlp.ineq
Claims ==
    UNION {UNION {{<<row.inds[e], <<type, e, row.i, row.k>>>> : e \in DOMAIN row.inds} :
                      row \in ToSet(ConstraintIndices(type))} : type \in Recorded}
CSources(p) == {c[2] : c \in {claim \in Claims : claim[1] = p}}

\* Rows of a type are asked for by the handle: residuals, multipliers and scales,
\* here of a vector over all constraints.
GetOfType(values, eqtype) ==
    [q \in 1..Len(ConstraintIndices(eqtype)) |->
        LET row == ConstraintIndices(eqtype)[q]
        IN [i |-> row.i, k |-> row.k, values |-> [e \in DOMAIN row.inds |-> values[row.inds[e]]]]]

\* The variable of a place, and the places of a variable, by the names given.
XxSource(p) == nlp.xx[p]
VariablePlaces(t, j) ==
    LET named == {p \in 1..Len(nlp.xx) : nlp.xx[p][1] = t /\ nlp.xx[p][2] = j}
    IN {<<nlp.xx[p][3], nlp.xx[p][4], p>> : p \in named}
=============================================================================
