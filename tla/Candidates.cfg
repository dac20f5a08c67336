CONSTANTS
  o1 = o1
  o2 = o2
  u1 = u1
  u2 = u2
  r1 = r1
  r2 = r2
  NoUnit = NoUnit
  Operators <- TwoOperators
  Units <- TwoUnits
  Runs <- TwoRuns
SPECIFICATION Spec
SYMMETRY Symmetry
INVARIANTS
  TypeOK
  VerifiedIsComplete
PROPERTIES
  DecisionsStand
CHECK_DEADLOCK FALSE
