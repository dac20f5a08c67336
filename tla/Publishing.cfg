CONSTANTS
  e1 = e1
  e2 = e2
  blank = blank
  text = text
  Editors <- TwoEditors
  Contents <- TwoContents
  Empty = blank
  KeepCount = 2
  MaxRevision = 4
  MaxTime = 3
SPECIFICATION Spec
INVARIANTS
  TypeOK
  VisibleHasSnapshot
PROPERTIES
  EditsStayPrivate
  CheckpointsImmutable
  ScheduledGoesLive
