-------------------------- MODULE MCCandidateImport --------------------------
EXTENDS CandidateImport, TLC

CONSTANTS o1, o2, u1, u2, r1, r2

TwoOperators == {o1, o2}
TwoUnits     == {u1, u2}
TwoRuns      == {r1, r2}
Symmetry     == Permutations(TwoOperators) \union Permutations(TwoUnits) \union Permutations(TwoRuns)
=============================================================================
