---------------------------- MODULE Reachability ----------------------------
(***************************************************************************)
(* Reachability over a set E of parent->child edges, each a pair           *)
(* <<parent, child>>.                                                      *)
(*                                                                         *)
(* The directory's SQL computes reachability with WITH RECURSIVE queries:  *)
(* a base row for the start node, then one join with the edge table after  *)
(* another until nothing new appears.  The set those queries return is the *)
(* least set that holds the start node and is closed under the edges,      *)
(* which is how it is written here: without recursion, so that theorems    *)
(* about it are within the provers' reach.                                 *)
(***************************************************************************)
EXTENDS Naturals, FiniteSets, FiniteSetsExt

\* The units an edge of E touches (the `nodes` CTE of the rebuild and the verify query).
Endpoints(E) == {e[1] : e \in E} \cup {e[2] : e \in E}

\* No edge of E leaves S.
ClosedUnder(E, S) == \A e \in E : e[1] \in S => e[2] \in S

\* The sets that hold the start a and that no walk from inside leaves.
ClosedSets(E, a) ==
  {S \in SUBSET (Endpoints(E) \cup {a}) : a \in S /\ ClosedUnder(E, S)}

\* The units a walk from a along E can visit, a included.
Reachable(E, a) ==
  LET closed == ClosedSets(E, a)
  IN  {n \in Endpoints(E) \cup {a} : \A S \in closed : n \in S}

\* Every pair the edges E imply, the reflexive ones included: the SQL `reach` CTE without depths.
ClosureOf(E) == UNION {{a} \X Reachable(E, a) : a \in Endpoints(E)}

\* No unit is its own proper ancestor.
Acyclic(E) ==
  /\ \A e \in E : e[1] # e[2]
  /\ \A a \in Endpoints(E) : \A b \in Reachable(E, a) : a \in Reachable(E, b) => a = b

-----------------------------------------------------------------------------
(***************************************************************************)
(* Depths.  The SQL walks carry a depth and keep min(depth) per pair; every*)
(* walk of an acyclic graph is shorter than its number of edges.           *)
(***************************************************************************)

\* Distance(E, a, n): the number of edges of a shortest walk from a to n, for n in Reachable(E, a).
Distance(E, a, n) ==
  LET within[k \in 0 .. Cardinality(E)] ==
        IF k = 0 THEN {a}
        ELSE within[k - 1] \cup {e[2] : e \in {x \in E : x[1] \in within[k - 1]}}
  IN  Min({k \in 0 .. Cardinality(E) : n \in within[k]})

\* What the edges imply, pair by pair, with its depth: a function from pairs to depths.
DepthsOf(E) == [r \in ClosureOf(E) |-> Distance(E, r[1], r[2])]
=============================================================================
