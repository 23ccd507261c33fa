--------------------------- MODULE BipartiteGraph ---------------------------
(***************************************************************************)
(* The graph algorithms of pyjmi/symbolic_elimination.py: the perfect      *)
(* matching of equations and variables (Hopcroft and Karp) and the         *)
(* strongly connected components of the matched graph (Tarjan).  Equations *)
(* and variables are numbers, an edge is a pair <<equation, variable>>, a  *)
(* digraph vertex is a matched pair.                                       *)
(***************************************************************************)
EXTENDS Integers, FiniteSets, Sequences, SequencesExt

SymmetricDifference(S, T) == (S \ T) \cup (T \ S)

UnmatchedEqs(eqs, matches)  == {e \in eqs : \A m \in matches : m[1] # e}
UnmatchedVars(vars, matches) == {v \in vars : \A m \in matches : m[2] # v}

(***************************************************************************)
(* One phase: layers grow from the unmatched equations, alternately along  *)
(* free and matched edges and never back into a layer, until one holds an  *)
(* unmatched variable.  A path is a sequence equation, variable, equation, *)
(* ... with one vertex of each layer.  A phase that cannot grow (the code  *)
(* raises RuntimeError) has no path.                                       *)
(***************************************************************************)
EndsAtVariable(p) == Len(p) % 2 = 0

Vertex(p) == <<EndsAtVariable(p), Last(p)>>

Extensions(p, edges, matches) ==
  IF EndsAtVariable(p)
  THEN {Append(p, e[1]) : e \in {f \in edges \cap matches : f[2] = Last(p)}}
  ELSE {Append(p, e[2]) : e \in {f \in edges \ matches : f[1] = Last(p)}}

RECURSIVE Layers(_, _, _, _, _)
Layers(paths, seen, free, edges, matches) ==
  LET done  == {p \in paths : EndsAtVariable(p) /\ Last(p) \in free}
      union == seen \cup {Vertex(p) : p \in paths}
      next  == {q \in UNION {Extensions(p, edges, matches) : p \in paths} : Vertex(q) \notin union}
  IN IF done # {} \/ next = {} THEN done ELSE Layers(next, union, free, edges, matches)

ShortestAugPaths(eqs, vars, edges, matches) ==
  Layers({<<e>> : e \in UnmatchedEqs(eqs, matches)}, {}, UnmatchedVars(vars, matches), edges, matches)

\* The depth-first search finds some maximal set of vertex-disjoint paths.
Disjoint(p, q) == \A i \in DOMAIN p : p[i] # q[i]

AllPaths(paths) == {paths}   \* mutant: visited vertices are used again

MaximalDisjointSets(paths) ==
  {S \in SUBSET paths : /\ \A p, q \in S : p = q \/ Disjoint(p, q)
                        /\ \A p \in paths \ S : \E q \in S : ~Disjoint(p, q)}

PathEdges(p) ==
  {IF i % 2 = 1 THEN <<p[i], p[i + 1]>> ELSE <<p[i + 1], p[i]>> : i \in 1 .. Len(p) - 1}

Augmented(matches, paths) == SymmetricDifference(matches, UNION {PathEdges(p) : p \in paths})

\* What the matching is meant to be.
IsMatching(M) == \A m, n \in M : (m[1] = n[1] \/ m[2] = n[2]) => m = n

PerfectMatchings(eqs, vars, edges) ==
  {M \in SUBSET edges : IsMatching(M) /\ {m[1] : m \in M} = eqs /\ {m[2] : m \in M} = vars}

(***************************************************************************)
(* Tarjan's algorithm over the matched pairs: an unmatched edge leads from *)
(* its equation's pair to its variable's pair.  number is 0 for None.      *)
(***************************************************************************)
Successors(v, edges, matches) ==
  {m \in matches : <<v[1], m[2]>> \in edges \ matches}

RootAlone(t, v) ==   \* mutant: only the root leaves the stack
  [t EXCEPT !.stack = Front(@), !.components = Append(@, {Last(t.stack)})]

Root(t, v) ==
  LET popped == {j \in DOMAIN t.stack : t.number[t.stack[j]] >= t.number[v]}
  IN [t EXCEPT !.stack = SubSeq(@, 1, Len(@) - Cardinality(popped)),
               !.components = Append(@, {t.stack[j] : j \in popped})]

RECURSIVE StrongConnect(_, _, _, _)
StrongConnect(t, v, edges, matches) ==
  LET Lower(s, n) == [s EXCEPT !.lowlink[v] = IF n < @ THEN n ELSE @]
      Visit(w, s) ==
        IF s.number[w] = 0 THEN LET c == StrongConnect(s, w, edges, matches) IN Lower(c, c.lowlink[w])
        ELSE IF s.number[w] < s.number[v] /\ \E i \in DOMAIN s.stack : s.stack[i] = w
             THEN Lower(s, s.number[w])
             ELSE s
      entered == [t EXCEPT !.i = @ + 1, !.number[v] = t.i + 1, !.lowlink[v] = t.i + 1,
                           !.stack = Append(@, v)]
      visited == FoldRight(Visit, SetToSeq(Successors(v, edges, matches)), entered)
  IN IF visited.lowlink[v] = visited.number[v] THEN Root(visited, v) ELSE visited

\* order: the order in which the list of matches names its pairs.
StrongComponents(order, edges) ==
  LET matches == ToSet(order)
      start == [i |-> 0, number |-> [m \in matches |-> 0], lowlink |-> [m \in matches |-> 0],
                stack |-> <<>>, components |-> <<>>]
      Connect(t, v) == IF t.number[v] = 0 THEN StrongConnect(t, v, edges, matches) ELSE t
  IN FoldLeft(Connect, start, order).components

EqsOf(component) == {m[1] : m \in component}
VarsOf(component) == {m[2] : m \in component}
=============================================================================
