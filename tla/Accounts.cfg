CONSTANTS
  p1 = p1
  p2 = p2
  l1 = l1
  l2 = l2
  a1 = a1
  a2 = a2
  s1 = s1
  q1 = q1
  q2 = q2
  NoPerson = NoPerson
  NoLogin = NoLogin
  NoAccount = NoAccount
  Persons <- TwoPersons
  Seeded <- OneSeeded
  Logins <- TwoLogins
  CodeOf <- SameCode
  AccountIds <- TwoAccounts
  SessionIds <- OneSession
  Requests <- TwoRequests
SPECIFICATION AccountsSpec
SYMMETRY Symmetry
INVARIANTS
  AccountsTypeOK
  AdmittedInForce
PROPERTIES
  LoginStaysPut
