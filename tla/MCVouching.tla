----------------------------- MODULE MCVouching -----------------------------
EXTENDS Vouching, TLC

CONSTANTS m1, m2, g1, g2, r1

TwoModerators == {m1, m2}
TwoGuarantors == {g1, g2}
OneRevoker    == {r1}
AllTargets    == 0 .. MaxVouches
Symmetry      == Permutations(TwoModerators) \union Permutations(TwoGuarantors)
=============================================================================
