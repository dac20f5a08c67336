------------------------- MODULE MCDirectoryClosure -------------------------
(***************************************************************************)
(* DirectoryClosure on four units: the seeded root and denomination and two *)
(* that calls create.                                                      *)
(***************************************************************************)
EXTENDS DirectoryClosure, TLC

CONSTANTS u1, u2

MCUnits == {Root, Excluded, u1, u2}

\* The two units that are not seeded are interchangeable.
FreshSymmetry == Permutations({u1, u2})
=============================================================================
