---------------------------- MODULE ClosureStore ----------------------------
(***************************************************************************)
(* The stored closure table of one graph and the SQL statements that       *)
(* maintain it.  The table is a function tc: its domain is the set of      *)
(* <<ancestor, descendant>> rows, its values their depth columns.  Each    *)
(* operator is one statement of adapters/queries/directory.sql or one      *)
(* repository method, from the table before to the table after.            *)
(***************************************************************************)
EXTENDS Reachability

\* The units with a stored row down to u; the units with a stored row up to u.
StoredAncestors(tc, u) == {r[1] : r \in {q \in DOMAIN tc : q[2] = u}}
StoredDescendants(tc, u) == {r[2] : r \in {q \in DOMAIN tc : q[1] = u}}

\* The cycle guard: is there a row from a to d?
ClosureHasPath(tc, a, d) == <<a, d>> \in DOMAIN tc

\* ON CONFLICT DO NOTHING: a self row that is there keeps its value.
SeedClosureSelfRows(tc, p, c) ==
  [r \in DOMAIN tc \cup {<<p, p>>, <<c, c>>} |-> IF r \in DOMAIN tc THEN tc[r] ELSE 0]

\* A mutant of the extend below: a pair that is there keeps its depth (DO NOTHING).
ExtendKeepingDepths(tc, p, c) ==
  LET seeded  == SeedClosureSelfRows(tc, p, c)
      through == StoredAncestors(seeded, p) \X StoredDescendants(seeded, c)
  IN  [r \in DOMAIN seeded \cup through |->
         IF r \in DOMAIN seeded THEN seeded[r]
         ELSE seeded[<<r[1], p>>] + seeded[<<c, r[2]>>] + 1]

\* Everything above p, p included, times everything below c, c included; a
\* pair that is there already keeps the smaller of the two depths.
ExtendClosureForEdge(tc, p, c) ==
  LET seeded  == SeedClosureSelfRows(tc, p, c)
      through == StoredAncestors(seeded, p) \X StoredDescendants(seeded, c)
      via(r)  == seeded[<<r[1], p>>] + seeded[<<c, r[2]>>] + 1
      kept(r) == r \in DOMAIN seeded /\ (r \in through => seeded[r] <= via(r))
  IN  [r \in DOMAIN seeded \cup through |-> IF kept(r) THEN seeded[r] ELSE via(r)]

\* The anc and dsc CTEs of the shrink statements.
AncSide(tc, p) == StoredAncestors(tc, p) \cup {p}
DscSide(tc, c) == StoredDescendants(tc, c) \cup {c}

\* Forget every pair whose path may have used the removed edge.
DeleteClosureSlice(tc, p, c) ==
  Restrict(tc, DOMAIN tc \ (AncSide(tc, p) \X DscSide(tc, c)))

\* Walk down from each unit of the anc side, expanding only units of that
\* side; where a walk leaves it, the rows still stored from there say what
\* is below.  (Both sides are read again, from the table without the slice.)
RederiveClosureSlice(tc, E, p, c) ==
  LET anc      == AncSide(tc, p)
      dsc      == DscSide(tc, c)
      walked   == {e \in E : e[1] \in anc}
      exits(r) == {n \in Reachable(walked, r[1]) \ anc : <<n, r[2]>> \in DOMAIN tc}
      pairs    == {r \in anc \X dsc : exits(r) # {}}
      depth(r) == Min({Distance(walked, r[1], n) + tc[<<n, r[2]>>] : n \in exits(r)})
  IN  [r \in DOMAIN tc \cup pairs |-> IF r \in pairs THEN depth(r) ELSE tc[r]]

\* An endpoint left without any edge loses its self row.
PruneClosureSelfRows(tc, E, p, c) ==
  Restrict(tc, DOMAIN tc \ {<<u, u>> : u \in {p, c} \ Endpoints(E)})

\* A mutant of the shrink below: the slice is deleted and never derived again.
ShrinkWithoutRederive(tc, E, p, c) ==
  PruneClosureSelfRows(DeleteClosureSlice(tc, p, c), E, p, c)

\* The three statements in their order; E is the edge set without <<p, c>>.
ShrinkClosureForEdge(tc, E, p, c) ==
  LET cut       == DeleteClosureSlice(tc, p, c)
      rederived == RederiveClosureSlice(cut, E, p, c)
  IN  PruneClosureSelfRows(rederived, E, p, c)
=============================================================================
