CONSTANTS
  p1 = p1
  p2 = p2
  unit = unit
  subtree = subtree
  Holders <- TwoHolders
  Keys <- TwoKeys
  SubtreeKeys <- OneSubtree
  MaxTime = 2
SPECIFICATION Spec
INVARIANTS
  TypeOK
PROPERTIES
  DecisionSound
  DecisionComplete
  MergeInventsNothing
SYMMETRY Symmetry
