CONSTANTS
  r1 = r1
  u1 = u1
  u2 = u2
  o1 = o1
  o2 = o2
  a1 = a1
  NoRequest = NoRequest
  NoUnit = NoUnit
  Requests <- OneRequest
  Units <- TwoUnits
  Operators <- TwoOperators
  Admins <- OneAdmin
SPECIFICATION Retried
INVARIANTS
  TypeOK
  ApprovedComplete
  GrantOnlyWithRequest
PROPERTIES
  ImplementsLifecycle
  ProvisioningEnds
CHECK_DEADLOCK FALSE
