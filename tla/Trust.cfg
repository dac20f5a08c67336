CONSTANTS
  m1 = m1
  m2 = m2
  g1 = g1
  g2 = g2
  r1 = r1
  Moderators <- TwoModerators
  Guarantors <- TwoGuarantors
  Revokers <- OneRevoker
  Targets <- AllTargets
  Congregation = 0
  MaxVouches = 2
  MaxRows = 3
SPECIFICATION Spec
SYMMETRY Symmetry
INVARIANTS
  TypeOK
  ActionedHasAction
  ReversedOnce
PROPERTIES
  FanoutCoversPrior
