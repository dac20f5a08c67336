CONSTANTS
  province = province
  diocese = diocese
  u1 = u1
  u2 = u2
  s1 = s1
  s2 = s2
  Anchor = Anchor
  NoNode = NoNode
  NoOrg = NoOrg
  Nodes <- TwoNodes
  ParentOf <- TwoLevels
  Orgs <- TwoOrgs
  Syncs <- TwoSyncs
SPECIFICATION SyncSpec
INVARIANTS
  SyncTypeOK
  
PROPERTIES
  EverySyncEnds
