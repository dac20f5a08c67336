CONSTANTS
  Root = Root
  Excluded = Excluded
  u1 = u1
  t1 = t1
  t2 = t2
  NoTxn = NoTxn
  NoUnit = NoUnit
  Units <- MCUnits
  Txns <- MCTxns
SPECIFICATION TxnSpec
INVARIANTS
  TxnTypeOK
PROPERTIES
  ImplementsHierarchy
  EveryTxnEnds
