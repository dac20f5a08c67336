---------------------------- MODULE MCAuthority -----------------------------
(* Authority with two persons, an assignment on a unit and one on a subtree. *)
EXTENDS Authority, TLC

CONSTANTS p1, p2, unit, subtree

TwoHolders == {p1, p2}
TwoKeys == {unit, subtree}
OneSubtree == {subtree}
Symmetry == Permutations(TwoHolders)
=============================================================================
