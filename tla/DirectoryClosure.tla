-------------------------- MODULE DirectoryClosure --------------------------
(***************************************************************************)
(* The unit directory (internal/directory): units, the edges of the        *)
(* canonical graph, and the closure table every ancestor question of the   *)
(* program is answered from (the authorization cascade among them).        *)
(*                                                                         *)
(* An action is one whole transaction of application/service.go, taken     *)
(* alone; DirectoryTxns.tla looks at what happens between a transaction's  *)
(* first read and its commit.                                              *)
(***************************************************************************)
EXTENDS DirectoryTables

VARIABLE inDrift   \* directory_closure_status.in_drift

vars == <<units, deleted, edges, closure, inDrift>>

Init == Seeded /\ inDrift = FALSE

CreateUnit(u) ==
  /\ u \in Units \ units
  /\ units' = units \cup {u}
  /\ UNCHANGED <<deleted, edges, closure, inDrift>>

\* A mutant of the action below: the closure and the edge without the unit's own row.
CreateUnitWithEdgeNoRow(u, parent) ==
  /\ parent \in live
  /\ u \in Units \ units
  /\ closure' = ExtendClosureForEdge(closure, parent, u)
  /\ edges' = edges \cup {<<parent, u>>}
  /\ UNCHANGED <<units, deleted, inDrift>>

\* A freshly minted id cannot be anyone's ancestor: no cycle guard.
CreateUnitWithEdge(u, parent) ==
  /\ parent \in live
  /\ u \in Units \ units
  /\ closure' = ExtendClosureForEdge(closure, parent, u)
  /\ units' = units \cup {u}
  /\ edges' = edges \cup {<<parent, u>>}
  /\ UNCHANGED <<deleted, inDrift>>

AddEdge(child, parent) ==
  /\ parent # child
  /\ child \in live
  /\ parent \in live
  /\ ~ClosureHasPath(closure, child, parent)
  /\ <<parent, child>> \notin edges            \* else ErrEdgeExists
  /\ edges' = edges \cup {<<parent, child>>}
  /\ closure' = ExtendClosureForEdge(closure, parent, child)
  /\ UNCHANGED <<units, deleted, inDrift>>

\* A mutant of the action below: the closure is shrunk even if no edge was deleted.
RemoveEdgeAlwaysShrinking(child, parent) ==
  /\ edges' = edges \ {<<parent, child>>}
  /\ closure' = ShrinkClosureForEdge(closure, edges', parent, child)
  /\ UNCHANGED <<units, deleted, inDrift>>

\* Detaching an edge that is not there changes nothing.  Neither end has to be live.
RemoveEdge(child, parent) ==
  /\ <<parent, child>> \in edges
  /\ edges' = edges \ {<<parent, child>>}
  /\ closure' = ShrinkClosureForEdge(closure, edges', parent, child)
  /\ UNCHANGED <<units, deleted, inDrift>>

\* A mutant of the action below: no check for live children.
DeleteUnitUnchecked(u) ==
  /\ u \in live
  /\ deleted' = deleted \cup {u}
  /\ UNCHANGED <<units, edges, closure, inDrift>>

\* The row stays, and so do its edges and its closure rows.
DeleteUnit(u) ==
  /\ u \in live
  /\ ~HasChildren(u)
  /\ deleted' = deleted \cup {u}
  /\ UNCHANGED <<units, edges, closure, inDrift>>

RebuildClosure ==
  /\ closure' = DepthsOf(edges)
  /\ inDrift' = FALSE
  /\ UNCHANGED <<units, deleted, edges>>

\* Missing rows, extra rows and rows with another depth all count as drift.
VerifyClosure ==
  /\ inDrift' = (closure # DepthsOf(edges))
  /\ UNCHANGED <<units, deleted, edges, closure>>

Next ==
  \/ \E u \in Units : CreateUnit(u) \/ DeleteUnit(u)
  \/ \E u, parent \in Units : CreateUnitWithEdge(u, parent)
  \/ \E child, parent \in Units : AddEdge(child, parent) \/ RemoveEdge(child, parent)
  \/ RebuildClosure
  \/ VerifyClosure

Spec == Init /\ [][Next]_vars

-----------------------------------------------------------------------------
\* The tables' shapes: edges join existing units (their foreign keys), and
\* so, without one, do the closure's rows.
TypeOK ==
  /\ units \subseteq Units
  /\ deleted \subseteq units
  /\ edges \subseteq units \X units
  /\ closure = [r \in DOMAIN closure |-> closure[r]]
  /\ DOMAIN closure \subseteq units \X units
  /\ inDrift \in BOOLEAN

\* The stored pairs are exactly those the edges imply: incremental extend and
\* shrink never lose a pair another path still supports and never keep one
\* that no path supports, whatever the order of attaches and detaches.
ClosureExact == DOMAIN closure = ClosureOf(edges)

\* The stored depths are shortest distances, so that "nearest ancestor first"
\* means it; and the health probe never reports drift.
DepthExact == closure = DepthsOf(edges) /\ ~inDrift

\* The guard through the closure table keeps the edge table free of cycles.
EdgesAcyclic == Acyclic(edges)

\* Everything above a live unit is live: a soft-deleted unit, whose rows stay
\* in the closure, never sits between a grant and a live unit.
LiveUnderLive == \A r \in DOMAIN closure : r[2] \in live => r[1] \in live
=============================================================================
