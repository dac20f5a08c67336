------------------------------ MODULE UnitTree ------------------------------
(***************************************************************************)
(* What moving units promises: the units form one tree under the root, and *)
(* a move takes one unit, with everything below it, to another parent, in  *)
(* one step that leaves it a tree.                                         *)
(***************************************************************************)
EXTENDS Reachability

CONSTANTS Units, Root

VARIABLE parent   \* the parent of every unit but the root

ParentEdges == {<<parent[u], u>> : u \in Units \ {Root}}

Init ==
  /\ parent \in [Units \ {Root} -> Units]
  /\ Reachable(ParentEdges, Root) = Units

Reparent(u, p) ==
  /\ p \notin Reachable(ParentEdges, u)
  /\ parent' = [parent EXCEPT ![u] = p]

Next == \E u \in Units \ {Root}, p \in Units : Reparent(u, p)

Spec == Init /\ [][Next]_parent
=============================================================================
