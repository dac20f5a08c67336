CONSTANTS
  Root = Root
  A = A
  B = B
  C = C
  c1 = c1
  c2 = c2
  Units <- MCUnits
  InitialParent <- UnderRoot
  Callers <- BothCallers
  Moves <- OwnUnits
  MaxJobs = 3
  Faults = FALSE
SPECIFICATION Safety
INVARIANTS
  TypeOK
  TwoParentsOnlyMidMove
PROPERTIES
  ImplementsTree
