CONSTANTS
  Root = Root
  A = A
  B = B
  C = C
  c1 = c1
  c2 = c2
  Units <- MCUnits
  InitialParent <- UnderRoot
  Callers <- OneCaller
  Moves <- OwnUnit
  MaxJobs = 3
  Faults = TRUE
SPECIFICATION Retried
INVARIANTS
  RootReachesAll
PROPERTIES
  EveryJobEnds
