---------------------------- MODULE UnitHierarchy ----------------------------
(***************************************************************************)
(* What the directory promises about one graph of units, without saying    *)
(* how: there is a set of parent->child edges that never closes a cycle,   *)
(* and the question "is a an ancestor of d, or d itself?" is always        *)
(* answered as the current edges imply.  Edges come and go one at a time.  *)
(* The detailed modules keep `reach` as a stored, incrementally maintained *)
(* table and implement this specification.                                 *)
(***************************************************************************)
EXTENDS Reachability

CONSTANT Units

VARIABLES edges,   \* the parent->child edges of the graph
          reach    \* the pairs <<ancestor or self, descendant>> a reader sees

vars == <<edges, reach>>

Init ==
  /\ edges \subseteq Units \X Units
  /\ Acyclic(edges)
  /\ reach = ClosureOf(edges)

\* An attach is refused when it would make the parent its own ancestor.
Attach(parent, child) ==
  /\ parent # child
  /\ <<child, parent>> \notin reach
  /\ edges' = edges \cup {<<parent, child>>}
  /\ reach' = ClosureOf(edges')

Detach(parent, child) ==
  /\ edges' = edges \ {<<parent, child>>}
  /\ reach' = ClosureOf(edges')

Next == \E parent, child \in Units : Attach(parent, child) \/ Detach(parent, child)

Spec == Init /\ [][Next]_vars
=============================================================================
