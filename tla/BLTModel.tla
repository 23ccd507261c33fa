------------------------------ MODULE BLTModel ------------------------------
(***************************************************************************)
(* Block-lower-triangular elimination of a DAE (pyjmi/symbolic_elimination *)
(* .py, BLTModel and BLTOptimizationProblem): equations are matched with   *)
(* variables, sorted into blocks, and block by block the algebraic         *)
(* variables that can be solved for disappear from the system.             *)
(*                                                                         *)
(* An expression is the set of names that occur in it.  A problem is a     *)
(* record: edges (create_edges), der (derivatives), tearV and tearE (the   *)
(* tearing hints), bilinear (triples <<e, v, w>>: in equation e the factor *)
(* of v depends on w), ineliminable, known (equations with the known name  *)
(* Known), objective (what the objective and the path constraints name)    *)
(* and options.  Variables 1..N are named by their numbers, Known by 0.    *)
(***************************************************************************)
EXTENDS BipartiteGraph

CONSTANTS N, Problems

VARIABLES problem, phase, matches, components, todo, result

vars == <<problem, phase, matches, components, todo, result>>

Known == 0
Equations == 1 .. N
Variables == 1 .. N
Names == Variables \cup {Known}
opt == problem.options

Incident(e) == {v \in Variables : <<e, v>> \in problem.edges}
               \cup (IF e \in problem.known THEN {Known} ELSE {})

Operands(eqs) == UNION {Incident(e) : e \in eqs}

---------------------------------------------------------------------------
\* Component

TearVars(C) == VarsOf(C) \cap problem.tearV
TearRes(C)  == EqsOf(C) \cap problem.tearE

TearingMismatch(C) == opt.tearing /\ Cardinality(TearVars(C)) # Cardinality(TearRes(C))

IsTorn(C) == opt.tearing /\ TearVars(C) # {} /\ TearVars(C) # VarsOf(C)

IsSolvable(C) ==
  \/ IsTorn(C)
  \/ /\ opt.solve_blocks \/ Cardinality(C) = 1
     /\ VarsOf(C) \cap (problem.der \cup problem.ineliminable) = {}

LinearIn(C) ==
  \A b \in problem.bilinear : ~(b[1] \in EqsOf(C) /\ b[2] \in VarsOf(C) /\ b[3] \in VarsOf(C))

IsLinear(C) == LinearIn(C) /\ (IsTorn(C) => opt.solve_torn_linear_blocks)

(***************************************************************************)
(* The causal graph of a torn block: what is left of it without tearing    *)
(* variables and residuals, matched and sorted anew.  It must be lower     *)
(* triangular; <<>> stands for the RuntimeError.  A matching whose blocks  *)
(* are all scalar is the only one, so which one is found does not matter.  *)
(***************************************************************************)
CausalBlocks(C) ==
  LET eqs     == EqsOf(C) \ TearRes(C)
      vs      == VarsOf(C) \ TearVars(C)
      edges   == problem.edges \cap (eqs \X vs)
      perfect == PerfectMatchings(eqs, vs, edges)
      blocks  == StrongComponents(SetToSeq(CHOOSE M \in perfect : TRUE), edges)
  IN IF perfect = {} THEN <<>>
     ELSE IF \E i \in DOMAIN blocks : Cardinality(blocks[i]) # 1 THEN <<>> ELSE blocks

---------------------------------------------------------------------------
(***************************************************************************)
(* The result r under construction: dependencies (of a name, for the       *)
(* density measure), residuals, solved (the lists of solved variables and  *)
(* of their expressions, as pairs), eliminated (positions in that list and *)
(* their algebraic variables) and unsolved; integrand is the objective.    *)
(***************************************************************************)
SetupDependencies ==
  [n \in {Known} \cup problem.ineliminable
         \cup (IF opt.tearing THEN problem.tearV \ problem.der ELSE {}) |-> {n}]

TornNames(r, C) == UNION {r.dependencies[d] : d \in Operands(EqsOf(C)) \ VarsOf(C)}

FillIn(r, e, deps) == Cardinality(UNION {r.dependencies[d] : d \in deps \ Incident(e)}) - 1

Measure(r, C) ==
  LET users  == {e \in Equations : Incident(e) \cap VarsOf(C) # {}}
      others == users \ EqsOf(C)
      deps   == Operands(EqsOf(C)) \ VarsOf(C)
  IN CASE opt.dense_measure = "Markowitz" ->
            (Cardinality(TornNames(r, C)) - 1) * (Cardinality(users) - 1)
       [] opt.dense_measure = "lmfi" ->
            IF Cardinality(others) > 1
            THEN FoldSet(LAMBDA e, sum : sum + FillIn(r, e, deps), 0, others)
            ELSE 0

SparsityPreserving(r, C) == Cardinality(C) > 1 \/ Measure(r, C) < opt.dense_tol

\* _sparsity_preserving looks the dependencies of a scalar block up and writes its own.
KeyErrorIn(r, C) ==
  Cardinality(C) = 1 /\ (Operands(EqsOf(C)) \ VarsOf(C)) \ DOMAIN r.dependencies # {}

WithDependencies(r, C, names) ==
  [r EXCEPT !.dependencies =
     [n \in DOMAIN @ \cup VarsOf(C) |-> IF n \in VarsOf(C) THEN names[n] ELSE @[n]]]

Themselves(C) == [v \in VarsOf(C) |-> {v}]

MeasuredUntorn(r, C) ==   \* mutant: solved variables are not followed
  WithDependencies(r, C, [v \in VarsOf(C) |-> Operands(EqsOf(C)) \ VarsOf(C)])

Measured(r, C) ==
  WithDependencies(r, C,
    IF Cardinality(C) = 1 /\ SparsityPreserving(r, C)
    THEN [v \in VarsOf(C) |-> TornNames(r, C)] ELSE Themselves(C))

\* The expression names with the solved variables replaced by their solutions.
Substituted(r, names) ==
  UNION {IF \E i \in DOMAIN r.solved : r.solved[i][1] = n
         THEN (CHOOSE p \in ToSet(r.solved) : p[1] = n)[2] ELSE {n} : n \in names}

\* create_lin_eq: coefficients and right-hand side name all but the block's variables.
Solution(r, C) == Substituted(r, Operands(EqsOf(C)) \ VarsOf(C))

SolveAtZero(r, C, kept) ==   \* mutant: positions counted from the block
  LET sol  == Solution(r, C)
      list == SetToSeq(VarsOf(C))
  IN [r EXCEPT !.eliminated = @ \cup {<<i, list[i]>> : i \in DOMAIN list},
               !.solved     = @ \o [i \in DOMAIN list |-> <<list[i], sol>>]]

\* One block's solution and the residuals of its variables that are kept.
Solve(r, C, kept) ==
  LET sol  == Solution(r, C)
      list == SetToSeq(VarsOf(C))
      keep == SetToSeq(VarsOf(C) \cap kept)
  IN [r EXCEPT !.residuals  = @ \o [i \in DOMAIN keep |-> {keep[i]} \cup sol],
               !.eliminated = @ \cup {<<Len(r.solved) + i, list[i]>> :
                                        i \in {j \in DOMAIN list : list[j] \notin kept}},
               !.solved     = @ \o [i \in DOMAIN list |-> <<list[i], sol>>]]

Leave(r, eqs, vs) ==
  LET list == SetToSeq(vs)
      res  == SetToSeq(eqs)
  IN [r EXCEPT !.residuals = @ \o [i \in DOMAIN res |-> Substituted(r, Incident(res[i]))],
               !.unsolved  = @ \cup vs,
               !.solved    = @ \o [i \in DOMAIN list |-> <<list[i], {list[i]}>>]]

\* One causal variable of a nonlinear torn block.
CausalStep(r, co) ==
  LET m == Measured(r, co)
  IN IF SparsityPreserving(r, co) /\ VarsOf(co) \cap (problem.ineliminable \cup problem.der) = {}
     THEN Solve(m, co, {})
     ELSE Leave(m, EqsOf(co), VarsOf(co))

TearNonlinearNoResiduals(r, C) ==   \* mutant: the tearing residuals are forgotten
  Leave(FoldLeft(CausalStep, r, CausalBlocks(C)), {}, TearVars(C))

TearNonlinear(r, C) ==
  Leave(FoldLeft(CausalStep, r, CausalBlocks(C)), TearRes(C), TearVars(C))

\* A causal variable looks up the tearing variables and what is sorted before.
TornKeyError(r, C) ==
  (Operands(EqsOf(C) \ TearRes(C)) \ (VarsOf(C) \ TearVars(C))) \ DOMAIN r.dependencies # {}

TornLinearFails(C) == IsTorn(C) /\ CausalBlocks(C) = <<>>

NotCausal(C) ==
  CausalBlocks(C) = <<>> \/ \E i \in DOMAIN CausalBlocks(C) : ~LinearIn(CausalBlocks(C)[i])

---------------------------------------------------------------------------
Init ==
  /\ problem \in Problems
  /\ phase = "matching"
  /\ matches = {}
  /\ components = <<>>
  /\ todo = 0
  /\ result = [dependencies |-> SetupDependencies, residuals |-> <<>>, solved |-> <<>>,
               eliminated |-> {}, unsolved |-> {}, integrand |-> problem.objective]

\* One phase of maximum_match.
Augment ==
  /\ phase = "matching"
  /\ UnmatchedEqs(Equations, matches) # {}
  /\ LET paths == ShortestAugPaths(Equations, Variables, problem.edges, matches)
     IN IF paths = {} THEN phase' = "singular" /\ UNCHANGED matches
        ELSE \E chosen \in MaximalDisjointSets(paths) :
               matches' = Augmented(matches, chosen) /\ UNCHANGED phase
  /\ UNCHANGED <<problem, components, todo, result>>

Sort ==
  /\ phase = "matching"
  /\ UnmatchedEqs(Equations, matches) = {}
  /\ components' = StrongComponents(SetToSeq(matches), problem.edges)
  /\ phase' = IF \E i \in DOMAIN components' : TearingMismatch(components'[i])
              THEN "mismatch" ELSE "residuals"
  /\ todo' = 1
  /\ UNCHANGED <<problem, matches, result>>

\* _create_residuals takes the blocks in order and one of these ways with each.
Block == components[todo]

InBlock == phase = "residuals" /\ todo \in DOMAIN components

Continue(r) == result' = r /\ todo' = todo + 1 /\ UNCHANGED <<problem, phase, matches, components>>

Fail(error) == phase' = error /\ UNCHANGED <<problem, matches, components, todo, result>>

Candidate == IsSolvable(Block) /\ IsLinear(Block)

Missing ==
  IF Candidate THEN KeyErrorIn(result, Block)
  ELSE IsTorn(Block) /\ ~NotCausal(Block) /\ TornKeyError(result, Block)

LookupFails == InBlock /\ Missing /\ Fail("KeyError")

SolveBlock ==
  /\ InBlock /\ Candidate /\ ~Missing /\ SparsityPreserving(result, Block)
  /\ IF TornLinearFails(Block) THEN Fail("not causal")
     ELSE Continue(Solve(Measured(result, Block), Block,
                         IF IsTorn(Block) THEN problem.der
                         ELSE problem.der \cup problem.ineliminable))

TearBlock ==
  /\ InBlock /\ ~Candidate /\ IsTorn(Block) /\ ~Missing
  /\ IF NotCausal(Block) THEN Fail("not causal")
     ELSE Continue(TearNonlinear(result, Block))

LeaveBlock ==
  /\ InBlock /\ ~IsTorn(Block) /\ ~Missing
  /\ Candidate => ~SparsityPreserving(result, Block)
  /\ Continue(Leave(WithDependencies(result, Block, Themselves(Block)),
                    EqsOf(Block), VarsOf(Block)))

\* BLTOptimizationProblem substitutes the eliminated variables, found by position.
Substitute ==
  /\ phase = "residuals" /\ todo \notin DOMAIN components
  /\ result' = [result EXCEPT !.integrand =
       UNION {IF \E p \in result.eliminated : p[2] = n
              THEN result.solved[(CHOOSE p \in result.eliminated : p[2] = n)[1]][2]
              ELSE {n} : n \in @}]
  /\ phase' = "done"
  /\ UNCHANGED <<problem, matches, components, todo>>

Next == Augment \/ Sort \/ SolveBlock \/ TearBlock \/ LeaveBlock \/ LookupFails \/ Substitute

Spec == Init /\ [][Next]_vars

---------------------------------------------------------------------------
Remaining == problem.der \cup result.unsolved

(***************************************************************************)
(* maximum_match: the pairs never share an equation or a variable, the     *)
(* search ends with all matched, and it gives up only on a system that has *)
(* no perfect matching.                                                    *)
(***************************************************************************)
MatchingSound ==
  /\ IsMatching(matches) /\ matches \subseteq problem.edges
  /\ phase = "singular" => PerfectMatchings(Equations, Variables, problem.edges) = {}
  /\ phase \notin {"matching", "singular"} =>
       matches \in PerfectMatchings(Equations, Variables, problem.edges)

(***************************************************************************)
(* scc: every matched pair is in one block, an equation reads variables of *)
(* its own block and of earlier ones only, and no block can be split: it   *)
(* has no part that reads nothing of the rest.                             *)
(***************************************************************************)
BlockLowerTriangular ==
  components # <<>> =>
    /\ UNION ToSet(components) = matches
    /\ \A i, j \in DOMAIN components : i < j =>
         /\ components[i] \cap components[j] = {}
         /\ problem.edges \cap (EqsOf(components[i]) \X VarsOf(components[j])) = {}
    /\ \A i \in DOMAIN components : \A part \in SUBSET components[i] \ {{}, components[i]} :
         problem.edges \cap (EqsOf(part) \X VarsOf(components[i] \ part)) # {}

(***************************************************************************)
(* The reduced system stays square: one residual for every derivative and  *)
(* every algebraic variable left, and every other variable eliminated.     *)
(***************************************************************************)
ReducedSquare ==
  phase = "done" =>
    /\ Len(result.residuals) = Cardinality(Remaining)
    /\ {p[2] : p \in result.eliminated} = Variables \ Remaining

(***************************************************************************)
(* No eliminated variable survives in a residual, in the objective or in   *)
(* the expression from which optimize computes an eliminated variable, and *)
(* its position in the list is that of its own solution.                   *)
(***************************************************************************)
NothingEliminatedRemains ==
  phase = "done" =>
    /\ \A i \in DOMAIN result.residuals : result.residuals[i] \subseteq Remaining \cup {Known}
    /\ result.integrand \subseteq Remaining \cup {Known}
    /\ \A p \in result.eliminated :
         /\ result.solved[p[1]][1] = p[2]
         /\ result.solved[p[1]][2] \subseteq result.unsolved \cup {Known}

(***************************************************************************)
(* What is left after elimination is a system of its own: as many          *)
(* residuals as variables, and no reference to what was eliminated.        *)
(***************************************************************************)
ReducedClosed == ReducedSquare /\ NothingEliminatedRemains

(***************************************************************************)
(* The names from which the density measure is computed are those of the   *)
(* solution, when no block is torn around a variable that must stay.       *)
(***************************************************************************)
DependenciesExact ==
  (phase = "done" /\ problem.der \cup problem.ineliminable = {} /\ ~opt.solve_blocks
     /\ ~opt.solve_torn_linear_blocks) =>
    \A i \in DOMAIN result.solved :
      result.dependencies[result.solved[i][1]] = result.solved[i][2]

(***************************************************************************)
(* EliminationOptions, ineliminable: "List of names of variables that      *)
(* should not be eliminated".                                              *)
(***************************************************************************)
IneliminableKept == {p[2] : p \in result.eliminated} \cap problem.ineliminable = {}
=============================================================================
