---------------------------- MODULE MCRegistration ----------------------------
(***************************************************************************)
(* RegistrationApproval with one request that two operators work on.       *)
(***************************************************************************)
EXTENDS RegistrationApproval, TLC

CONSTANTS r1, u1, u2, o1, o2, a1

OneRequest == {r1}
TwoUnits == {u1, u2}
TwoOperators == {o1, o2}
OneAdmin == {a1}
=============================================================================
