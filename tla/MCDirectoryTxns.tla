--------------------------- MODULE MCDirectoryTxns ---------------------------
(***************************************************************************)
(* DirectoryTxns with two sessions and one unit besides the seeded ones.   *)
(***************************************************************************)
EXTENDS DirectoryTxns

CONSTANTS u1, t1, t2

MCUnits == {Root, Excluded, u1}
MCTxns == {t1, t2}
=============================================================================
