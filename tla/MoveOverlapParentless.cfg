CONSTANTS
  Root = Root
  A = A
  B = B
  C = C
  c1 = c1
  c2 = c2
  Units <- MCUnits
  InitialParent <- UnderRoot
  Callers <- BothCallers
  Moves <- SameUnit
  MaxJobs = 2
  Faults = FALSE
SPECIFICATION Safety
INVARIANTS
  NeverParentless
