--------------------------- MODULE DirectoryTables ---------------------------
(***************************************************************************)
(* The rows of the unit directory (internal/directory): units, the edges   *)
(* of the canonical graph and its closure table, as the seed migration     *)
(* leaves them, and what a reader of the closure table is promised.        *)
(***************************************************************************)
EXTENDS ClosureStore

CONSTANTS Units,     \* every unit id that is ever minted
          Root,      \* the seeded root unit
          Excluded   \* the seeded unit under the root

ASSUME SeedAssumption == Root \in Units /\ Excluded \in Units /\ Root # Excluded

VARIABLES units,     \* ids of the rows of directory_units, soft-deleted ones included
          deleted,   \* those with deleted_at set
          edges,     \* the rows <<parent, child>> of directory_unit_edges
          closure    \* the table directory_unit_closure: pair |-> depth

tables == <<units, deleted, edges, closure>>

live == units \ deleted

\* The rows of the seed migration.
Seeded ==
  /\ units = {Root, Excluded}
  /\ deleted = {}
  /\ edges = {<<Root, Excluded>>}
  /\ closure = [r \in {<<Root, Root>>, <<Excluded, Excluded>>, <<Root, Excluded>>} |->
                  IF r[1] = r[2] THEN 0 ELSE 1]

HasChildren(u) == \E e \in edges : e[1] = u /\ e[2] \in live

\* The table answers every ancestor question as UnitHierarchy promises.
Hierarchy == INSTANCE UnitHierarchy WITH reach <- DOMAIN closure
ImplementsHierarchy == Hierarchy!Spec
=============================================================================
