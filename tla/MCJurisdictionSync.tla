------------------------- MODULE MCJurisdictionSync -------------------------
EXTENDS JurisdictionSync, TLC

CONSTANTS province, diocese, u1, u2, s1, s2

TwoNodes  == {province, diocese}
TwoLevels == province :> NoNode @@ diocese :> province

TwoOrgs  == {u1, u2}
TwoSyncs == {s1, s2}
=============================================================================
