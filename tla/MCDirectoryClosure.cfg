CONSTANTS
  Root = Root
  Excluded = Excluded
  u1 = u1
  u2 = u2
  Units <- MCUnits
SPECIFICATION Spec
SYMMETRY FreshSymmetry
INVARIANTS
  TypeOK
  ClosureExact
  DepthExact
  LiveUnderLive
PROPERTY ImplementsHierarchy
