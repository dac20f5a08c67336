---------------------------- MODULE AccessProofs -----------------------------
(***************************************************************************)
(* For any persons, assignments and lengths of time: a decision allows     *)
(* nothing that was not in force and overlooks nothing that always was,    *)
(* and a merge makes no authority up.                                      *)
(*                                                                         *)
(* For any persons, logins, accounts and requests: who is let through was  *)
(* in force while the request ran, and a login stays with its person.      *)
(***************************************************************************)
EXTENDS Authority, Accounts, TLAPS

\* What the running merge and the running decision can be.
Running ==
  [step : {"move", "revoke", "admin", "adminRevoke", "commit"},
   moved : SUBSET Keys, revoked : SUBSET Keys, admin : {"kept", "moved", "revoked"},
   survivor : Holders, duplicate : Holders]

Merges == {NoDedup} \union Running

Asking ==
  [step : {"grants", "closure"}, person : Holders,
   grants : SUBSET Keys, forced : SUBSET Keys, held : SUBSET Keys]

Calls == {NoCall, [step |-> "allow"], [step |-> "deny"]} \union Asking

\* The locks of a merge keep what it has moved as it found it.
MergeOnTrack ==
  dedup.step # "idle" =>
    /\ dedup.survivor # dedup.duplicate
    /\ dedup.step = "move" => dedup.revoked = {}
    /\ \A k \in dedup.moved : Active(dedup.duplicate, k) /\ ~Active(dedup.survivor, k)
    /\ dedup.admin = "moved" => dedup.duplicate \in admins /\ dedup.survivor \notin admins

\* What was in force at some time bounds the grants that were read from above,
\* what was in force and reaching all the time bounds those left from below.
CallOnTrack ==
  call.step \in {"grants", "closure"} =>
    /\ Forceful(call.person) \subseteq call.forced
    /\ call.held \subseteq Forceful(call.person) \cap Reaching
    /\ call.step = "closure" => call.grants \subseteq call.forced /\ call.held \subseteq call.grants

DataTypeOK ==
  /\ expiry \in [Holders -> [Keys -> None .. Never]]
  /\ admins \subseteq Holders /\ deleted \subseteq Holders
  /\ reaches \subseteq SubtreeKeys /\ now \in 1 .. MaxTime
  /\ dedup \in Merges /\ dedup.revoked \subseteq Keys \ dedup.moved

CallOK == call \in Calls /\ CallOnTrack

IInv == DataTypeOK /\ MergeOnTrack /\ CallOK

LEMMA InitInvariant == Init => IInv
BY AuthorityAssumption
DEF Init, IInv, DataTypeOK, Merges, MergeOnTrack, CallOK, Calls, CallOnTrack, NoDedup, NoCall, None, Never

LEMMA InvariantImpliesTypeOK == IInv => TypeOK
<1> SUFFICES ASSUME IInv
             PROVE  TypeOK
  OBVIOUS
<1>1. /\ dedup.moved \subseteq Keys /\ dedup.revoked \subseteq Keys \ dedup.moved
      /\ dedup.step # "idle" => {dedup.survivor, dedup.duplicate} \subseteq Holders
  BY DEF IInv, DataTypeOK, Merges, Running, NoDedup
<1>2. call.step \in {"grants", "closure"} => call.person \in Holders /\ call.grants \subseteq Keys
  BY DEF IInv, CallOK, Calls, Asking, NoCall
<1> QED BY <1>1, <1>2 DEF IInv, DataTypeOK, TypeOK

-----------------------------------------------------------------------------
(***************************************************************************)
(* The writes.                                                             *)
(***************************************************************************)
LEMMA GrantsKeepData ==
  ASSUME DataTypeOK, MergeOnTrack,
         NEW p \in Holders, NEW k \in Keys,
         \/ \E e \in Expiries : InsertRoleAssignment(p, k, e)
         \/ RevokeRoleAssignment(p, k)
         \/ ClearRoleAssignmentExpiry(p, k)
  PROVE  DataTypeOK' /\ MergeOnTrack'
BY AuthorityAssumption
DEF DataTypeOK, MergeOnTrack, Merges, Running, NoDedup, Expiries, InsertRoleAssignment, RevokeRoleAssignment,
    ClearRoleAssignmentExpiry, Active, Held, None, Never

LEMMA BulkKeepsData ==
  ASSUME DataTypeOK, MergeOnTrack,
         NEW ps \in SUBSET Holders, NEW k \in Keys, NEW e \in Expiries,
         BulkGrantUnitRole(ps, k, e)
  PROVE  DataTypeOK' /\ MergeOnTrack'
BY AuthorityAssumption
DEF DataTypeOK, MergeOnTrack, Merges, Running, NoDedup, Expiries, BulkGrantUnitRole, Active, Held, None, Never

LEMMA AdminsKeepData ==
  ASSUME DataTypeOK, MergeOnTrack,
         NEW p \in Holders, GrantInstanceAdmin(p) \/ RevokeInstanceAdmin(p)
  PROVE  DataTypeOK' /\ MergeOnTrack'
BY DEF DataTypeOK, MergeOnTrack, Merges, Running, NoDedup, GrantInstanceAdmin, RevokeInstanceAdmin, Active, AdminHeld

LEMMA WorldKeepsData ==
  ASSUME DataTypeOK, MergeOnTrack, Tick \/ \E k \in SubtreeKeys : MoveUnit(k)
  PROVE  DataTypeOK' /\ MergeOnTrack'
BY AuthorityAssumption DEF DataTypeOK, MergeOnTrack, Merges, Running, NoDedup, Tick, MoveUnit, Active

LEMMA MergeKeepsData ==
  ASSUME DataTypeOK, MergeOnTrack,
         \/ \E p, q \in Holders : BeginDedup(p, q)
         \/ RepointMoveRoleAssignments \/ RepointRevokeRoleAssignments
         \/ RepointMoveInstanceAdmin \/ RepointRevokeInstanceAdmin
         \/ CommitDedup \/ RollbackDedup
  PROVE  DataTypeOK' /\ MergeOnTrack'
<1>1. CASE \E p, q \in Holders : BeginDedup(p, q)
  BY <1>1 DEF DataTypeOK, MergeOnTrack, Merges, Running, NoDedup, BeginDedup, Merging
<1>2. CASE RepointMoveRoleAssignments
  <2>1. dedup \in Running
    BY <1>2 DEF DataTypeOK, Merges, NoDedup, RepointMoveRoleAssignments, Merging
  <2>2. dedup' = [dedup EXCEPT !.step = "revoke", !.moved = dedup'.moved]
    BY <1>2, <2>1 DEF Running, RepointMoveRoleAssignments
  <2>3. dedup'.moved = {k \in Keys : Active(dedup.duplicate, k) /\ ~Active(dedup.survivor, k)}
    BY <1>2, <2>1 DEF Running, RepointMoveRoleAssignments
  <2> QED BY <1>2, <2>1, <2>2, <2>3
          DEF DataTypeOK, MergeOnTrack, Merges, Running, RepointMoveRoleAssignments, Merging, Active
<1>3. CASE RepointRevokeRoleAssignments
  <2>1. dedup \in Running
    BY <1>3 DEF DataTypeOK, Merges, NoDedup, RepointRevokeRoleAssignments, Merging
  <2>2. dedup' = [dedup EXCEPT !.step = "admin", !.revoked = dedup'.revoked]
    BY <1>3, <2>1 DEF Running, RepointRevokeRoleAssignments
  <2>3. dedup'.revoked = {k \in Keys : Active(dedup.duplicate, k)} \ dedup.moved
    BY <1>3, <2>1 DEF Running, RepointRevokeRoleAssignments
  <2> QED BY <1>3, <2>1, <2>2, <2>3
          DEF DataTypeOK, MergeOnTrack, Merges, Running, RepointRevokeRoleAssignments, Merging, Active
<1>4. CASE RepointMoveInstanceAdmin
  <2>1. dedup \in Running
    BY <1>4 DEF DataTypeOK, Merges, NoDedup, RepointMoveInstanceAdmin, Merging
  <2>2. dedup' = [dedup EXCEPT !.step = "adminRevoke", !.admin = dedup'.admin]
    BY <1>4, <2>1 DEF Running, RepointMoveInstanceAdmin
  <2>3. \/ dedup'.admin = "moved" /\ dedup.duplicate \in admins /\ dedup.survivor \notin admins
        \/ dedup'.admin = dedup.admin
    BY <1>4, <2>1 DEF Running, RepointMoveInstanceAdmin
  <2> QED BY <1>4, <2>1, <2>2, <2>3
          DEF DataTypeOK, MergeOnTrack, Merges, Running, RepointMoveInstanceAdmin, Merging, Active
<1>5. CASE RepointRevokeInstanceAdmin
  <2>1. dedup \in Running
    BY <1>5 DEF DataTypeOK, Merges, NoDedup, RepointRevokeInstanceAdmin, Merging
  <2>2. dedup' = [dedup EXCEPT !.step = "commit", !.admin = dedup'.admin]
    BY <1>5, <2>1 DEF Running, RepointRevokeInstanceAdmin
  <2>3. dedup'.admin \in {"revoked", dedup.admin}
    BY <1>5, <2>1 DEF Running, RepointRevokeInstanceAdmin
  <2> QED BY <1>5, <2>1, <2>2, <2>3
          DEF DataTypeOK, MergeOnTrack, Merges, Running, RepointRevokeInstanceAdmin, Merging, Active
<1>6. CASE CommitDedup
  <2>1. dedup \in Running
    BY <1>6 DEF DataTypeOK, Merges, NoDedup, CommitDedup
  <2>2. expiry' \in [Holders -> [Keys -> None .. Never]]
    <3>1. \A p \in Holders : Merged(p) \in [Keys -> None .. Never]
      BY <2>1, AuthorityAssumption DEF DataTypeOK, Running, Merged, None, Never
    <3> QED BY <1>6, <3>1 DEF CommitDedup
  <2>3. admins' \subseteq Holders /\ deleted' \subseteq Holders
    BY <1>6, <2>1 DEF DataTypeOK, Running, CommitDedup
  <2> QED BY <1>6, <2>2, <2>3 DEF DataTypeOK, MergeOnTrack, Merges, NoDedup, CommitDedup
<1>7. CASE RollbackDedup
  BY <1>7 DEF DataTypeOK, MergeOnTrack, Merges, Running, NoDedup, RollbackDedup
<1> QED BY <1>1, <1>2, <1>3, <1>4, <1>5, <1>6, <1>7

LEMMA WritesKeepData ==
  ASSUME DataTypeOK, MergeOnTrack, Write
  PROVE  DataTypeOK' /\ MergeOnTrack'
BY GrantsKeepData, BulkKeepsData, AdminsKeepData, WorldKeepsData, MergeKeepsData DEF Write

-----------------------------------------------------------------------------
(***************************************************************************)
(* The decision.                                                           *)
(***************************************************************************)
\* What Observe notes of the world, where it leaves off.
LEMMA ObserveKeepsAsking ==
  ASSUME call \in Asking, Observe
  PROVE  /\ call' \in Asking /\ call'.person = call.person /\ call'.step = call.step
         /\ call'.grants = call.grants
         /\ call'.forced = call.forced \union Forceful(call.person)'
         /\ call'.held = call.held \cap (Forceful(call.person) \cap Reaching)'
<1> DEFINE F == {k \in Keys : expiry'[call.person][k] > now'}
           R == reaches' \union (Keys \ SubtreeKeys)
<1>1. call' = [call EXCEPT !.forced = @ \union F, !.held = @ \cap (F \cap R)]
  BY DEF Asking, Observe, Forceful, InForce, Reaching
<1>2. call' \in Asking /\ call'.person = call.person /\ call'.step = call.step
  BY <1>1 DEF Asking
<1>3. /\ call'.forced = call.forced \union F
      /\ call'.held = call.held \cap (F \cap R)
      /\ call'.grants = call.grants
  BY <1>1 DEF Asking
<1>4. Forceful(call.person)' = F /\ Reaching' = R
  BY <1>2 DEF Forceful, InForce, Reaching
<1> QED BY <1>2, <1>3, <1>4

LEMMA ObserveKeepsCall ==
  ASSUME CallOK, Observe
  PROVE  CallOK'
<1>1. CASE call.step \notin {"grants", "closure"}
  BY <1>1 DEF CallOK, CallOnTrack, Observe
<1>2. CASE call.step \in {"grants", "closure"}
  <2>1. call \in Asking
    BY <1>2 DEF CallOK, Calls, NoCall, Asking
  <2>2. CallOnTrack'
    BY <1>2, <2>1, ObserveKeepsAsking DEF CallOK, CallOnTrack
  <2> QED BY <2>1, <2>2, ObserveKeepsAsking DEF CallOK, Calls
<1> QED BY <1>1, <1>2

\* A step of the decision itself finds the data as it was.
LEMMA SameData ==
  ASSUME UNCHANGED Data
  PROVE  /\ \A p \in Holders : Forceful(p)' = Forceful(p)
         /\ Reaching' = Reaching
BY DEF Data, Forceful, InForce, Reaching

LEMMA DecideKeepsCall ==
  ASSUME CallOK, Decide
  PROVE  CallOK'
<1>1. ASSUME NEW p \in Holders, IsActiveInstanceAdmin(p)
      PROVE  CallOK'
  <2>1. CASE p \in admins
    BY <1>1, <2>1 DEF CallOK, Calls, CallOnTrack, IsActiveInstanceAdmin
  <2>2. CASE p \notin admins
    <3>1. call' = [step |-> "grants", person |-> p, grants |-> {},
                   forced |-> Forceful(p), held |-> Forceful(p) \cap Reaching]
      BY <1>1, <2>2 DEF IsActiveInstanceAdmin
    <3>2. Forceful(p) \in SUBSET Keys
      BY DEF Forceful
    <3>3. UNCHANGED Data
      BY <1>1 DEF IsActiveInstanceAdmin
    <3> HIDE DEF Forceful, Reaching
    <3> QED BY <3>1, <3>2, <3>3, SameData DEF CallOK, Calls, Asking, CallOnTrack
  <2> QED BY <2>1, <2>2
<1>2. CASE ActiveGrantsForSubject
  <2>1. call \in Asking /\ UNCHANGED Data
    BY <1>2 DEF CallOK, Calls, NoCall, Asking, ActiveGrantsForSubject
  <2>2. call' = [call EXCEPT !.step = "closure", !.grants = Forceful(call.person)]
    BY <1>2 DEF ActiveGrantsForSubject, GrantsInForce, Forceful
  <2>3. Forceful(call.person) \in SUBSET Keys
    BY DEF Forceful
  <2> QED BY <1>2, <2>1, <2>2, <2>3, SameData
          DEF CallOK, Calls, Asking, CallOnTrack, ActiveGrantsForSubject
<1>3. ASSUME NEW k \in Keys, IsAncestorOrSelf(k)
      PROVE  CallOK'
  <2>1. call \in Asking /\ UNCHANGED Data
    BY <1>3 DEF CallOK, Calls, NoCall, Asking, IsAncestorOrSelf
  <2>2. CASE k \in Reaching
    BY <1>3, <2>2 DEF CallOK, Calls, CallOnTrack, IsAncestorOrSelf
  <2>3. CASE k \notin Reaching
    <3>1. call' = [call EXCEPT !.grants = @ \ {k}]
      BY <1>3, <2>3 DEF IsAncestorOrSelf
    <3> QED BY <1>3, <2>1, <2>3, <3>1, SameData DEF CallOK, Calls, Asking, CallOnTrack, IsAncestorOrSelf
  <2> QED BY <2>2, <2>3
<1>4. CASE Deny \/ ReturnDecision
  BY <1>4 DEF CallOK, Calls, CallOnTrack, Deny, ReturnDecision, NoCall
<1> QED BY <1>1, <1>2, <1>3, <1>4 DEF Decide

-----------------------------------------------------------------------------
LEMMA InvariantIsInductive == IInv /\ [Next]_vars => IInv'
<1> SUFFICES ASSUME IInv, [Next]_vars
             PROVE  IInv'
  OBVIOUS
<1>1. CASE Write /\ Observe
  BY <1>1, WritesKeepData, ObserveKeepsCall DEF IInv
<1>2. CASE Decide
  <2>1. UNCHANGED Data
    BY <1>2 DEF Decide, IsActiveInstanceAdmin, ActiveGrantsForSubject, IsAncestorOrSelf, Deny, ReturnDecision
  <2>2. DataTypeOK' /\ MergeOnTrack'
    BY <2>1 DEF IInv, Data, DataTypeOK, MergeOnTrack, Active
  <2> QED BY <1>2, <2>2, DecideKeepsCall DEF IInv
<1>3. CASE UNCHANGED vars
  BY <1>3 DEF vars, IInv, DataTypeOK, MergeOnTrack, Active, CallOK, CallOnTrack, Forceful, InForce, Reaching
<1> QED BY <1>1, <1>2, <1>3 DEF Next

THEOREM Invariant == Spec => []IInv
<1>1. Init => IInv
  BY InitInvariant
<1>2. IInv /\ [Next]_vars => IInv'
  BY InvariantIsInductive
<1> QED BY <1>1, <1>2, PTL DEF Spec

\* The tables, the merge and the decision keep their shapes.
THEOREM TypeCorrect == Spec => []TypeOK
BY Invariant, InvariantImpliesTypeOK, PTL

\* A decision that grants something rests on an assignment that was in force
\* since it began and reaches the unit (Decide, and its three reads).
THEOREM DecisionsAreSound == Spec => DecisionSound
<1>1. ASSUME IInv, [Next]_vars
      PROVE  [call.step = "closure" /\ call'.step = "allow" => call.forced \cap Reaching # {}]_vars
  <2> SUFFICES ASSUME Next, call.step = "closure", call'.step = "allow"
               PROVE  call.forced \cap Reaching # {}
    BY <1>1
  <2>1. call \in Asking
    BY <1>1 DEF IInv, CallOK, Calls, NoCall
  <2>2. PICK k \in Keys : IsAncestorOrSelf(k)
    <3>1. Decide
      BY <2>1, ObserveKeepsAsking DEF Next
    <3>2. ~ActiveGrantsForSubject /\ \A p \in Holders : ~IsActiveInstanceAdmin(p)
      BY DEF ActiveGrantsForSubject, IsActiveInstanceAdmin
    <3>3. ~Deny /\ ~ReturnDecision
      BY DEF Deny, ReturnDecision
    <3> QED BY <3>1, <3>2, <3>3 DEF Decide
  <2>3. k \in Reaching
    BY <2>1, <2>2 DEF IsAncestorOrSelf, Asking
  <2> QED BY <1>1, <2>2, <2>3 DEF IInv, CallOK, CallOnTrack, IsAncestorOrSelf
<1> QED BY <1>1, Invariant, PTL DEF Spec, DecisionSound

\* What was in force and reached the unit all the time is never overlooked by
\* the reads of a decision.
THEOREM DecisionsAreComplete == Spec => DecisionComplete
<1>1. ASSUME IInv, [Next]_vars
      PROVE  [call.step = "closure" /\ call'.step = "deny" => call.held = {}]_vars
  <2> SUFFICES ASSUME Next, call.step = "closure", call'.step = "deny"
               PROVE  call.held = {}
    BY <1>1
  <2>1. call \in Asking
    BY <1>1 DEF IInv, CallOK, Calls, NoCall
  <2>2. Deny
    <3>1. Decide
      BY <2>1, ObserveKeepsAsking DEF Next
    <3>2. ~ActiveGrantsForSubject /\ \A p \in Holders : ~IsActiveInstanceAdmin(p)
      BY DEF ActiveGrantsForSubject, IsActiveInstanceAdmin
    <3>3. ~ReturnDecision /\ \A k \in Keys : ~IsAncestorOrSelf(k)
      <4>1. ASSUME NEW k \in Keys, IsAncestorOrSelf(k)
            PROVE  FALSE
        <5>1. CASE k \in Reaching
          BY <4>1, <5>1 DEF IsAncestorOrSelf
        <5>2. CASE k \notin Reaching
          BY <2>1, <4>1, <5>2 DEF IsAncestorOrSelf, Asking
        <5> QED BY <5>1, <5>2
      <4> QED BY <4>1 DEF ReturnDecision
    <3> QED BY <3>1, <3>2, <3>3 DEF Decide
  <2> QED BY <1>1, <2>2 DEF IInv, CallOK, CallOnTrack, Deny
<1> QED BY <1>1, Invariant, PTL DEF Spec, DecisionComplete

\* MergePersons, whatever is granted, revoked or expires between its statements,
\* only hands on what the duplicate has.
THEOREM MergesInventNothing == Spec => MergeInventsNothing
<1> DEFINE Honest ==
      /\ \A p \in Holders \ {dedup.survivor, dedup.duplicate} : expiry'[p] = expiry[p]
      /\ \A k \in Keys :
           \/ expiry'[dedup.survivor][k] = expiry[dedup.survivor][k]
           \/ /\ ~Active(dedup.survivor, k)
              /\ expiry'[dedup.survivor][k] = expiry[dedup.duplicate][k]
      /\ admins \ {dedup.duplicate} \subseteq admins'
      /\ admins' # admins => dedup.duplicate \in admins
<1>1. ASSUME IInv, [Next]_vars
      PROVE  [deleted' # deleted => Honest]_vars
  <2> SUFFICES ASSUME Next, deleted' # deleted
               PROVE  Honest
    BY <1>1
  <2>1. CommitDedup
    BY DEF Next, Write, InsertRoleAssignment, RevokeRoleAssignment, ClearRoleAssignmentExpiry,
           BulkGrantUnitRole, GrantInstanceAdmin, RevokeInstanceAdmin, MoveUnit, Tick, BeginDedup, Merging,
           RepointMoveRoleAssignments, RepointRevokeRoleAssignments, RepointMoveInstanceAdmin,
           RepointRevokeInstanceAdmin, RollbackDedup, Decide, IsActiveInstanceAdmin,
           ActiveGrantsForSubject, IsAncestorOrSelf, Deny, ReturnDecision, Data
  <2>2. dedup \in Running
    BY <1>1, <2>1 DEF IInv, DataTypeOK, Merges, NoDedup, CommitDedup
  <2>3. /\ dedup.survivor \in Holders /\ dedup.duplicate \in Holders
        /\ dedup.survivor # dedup.duplicate
        /\ \A k \in dedup.moved : ~Active(dedup.survivor, k)
        /\ dedup.admin = "moved" => dedup.duplicate \in admins
    BY <1>1, <2>1, <2>2 DEF IInv, MergeOnTrack, CommitDedup, Running
  <2>4. \A p \in Holders : expiry'[p] = Merged(p) /\ expiry[p] \in [Keys -> None .. Never]
    BY <1>1, <2>1 DEF IInv, DataTypeOK, CommitDedup
  <2>5. \A p \in Holders \ {dedup.survivor, dedup.duplicate} : expiry'[p] = expiry[p]
    BY <2>4 DEF Merged
  <2>6. \A k \in Keys :
           \/ expiry'[dedup.survivor][k] = expiry[dedup.survivor][k]
           \/ /\ ~Active(dedup.survivor, k)
              /\ expiry'[dedup.survivor][k] = expiry[dedup.duplicate][k]
    BY <2>3, <2>4 DEF Merged
  <2>7. admins \ {dedup.duplicate} \subseteq admins' /\ (admins' # admins => dedup.duplicate \in admins)
    <3>1. \/ dedup.admin = "moved" /\ admins' = (admins \ {dedup.duplicate}) \union {dedup.survivor}
          \/ admins' = admins \ {dedup.duplicate}
          \/ admins' = admins
      BY <2>1 DEF CommitDedup
    <3> QED BY <2>3, <3>1
  <2> QED BY <2>5, <2>6, <2>7
<1>2. IInv /\ [Next]_vars => [deleted' # deleted => Honest]_vars
  BY <1>1
<1> QED BY <1>2, Invariant, PTL DEF Spec, MergeInventsNothing

-----------------------------------------------------------------------------
(***************************************************************************)
(* Signing in (Accounts).                                                  *)
(***************************************************************************)
Row == [person : Persons, email : Logins, status : {"active", "disabled", "deleted"}]
Call == [step : {"idle", "match", "account", "insert", "recheck", "link", "accept", "session"},
         login : Logins \union {NoLogin}, person : Persons \union {NoPerson},
         account : AccountIds \union {NoAccount}]
Merge == [step : {"survivor", "commit"}, survivor : Persons, duplicate : Persons,
          account : AccountIds \union {NoAccount}, move : BOOLEAN, ending : SUBSET SessionIds]

HasRow(a) == a \in AccountIds /\ account[a] # NoRow

\* What TypeOK leaves open: that what is referred to is there, and a merge's fields.
Shapes ==
  /\ session \in [SessionIds -> AccountIds \union {NoAccount}]
  /\ \A l \in Logins : linked[l] # NoAccount => HasRow(linked[l])
  /\ admin # NoAdmin => HasRow(admin.account) /\ admin.status \in {"active", "disabled"}
  /\ merge # NoMerge => merge \in Merge /\ merge.survivor # merge.duplicate
  /\ merge.step = "survivor" \/ merge.move => merge.account # NoAccount

\* A request knows what its step needs.  The account it has come to is one it has
\* seen in use, and its person's, unless that person has been merged away since.
OnTrack(r) ==
  LET q == request[r] IN
  /\ q.step \in {"match", "account", "insert", "recheck", "link", "accept"} => q.login \in Logins
  /\ q.step \in {"account", "insert", "recheck", "link", "accept", "session"} => q.person \in Persons
  /\ q.step \in {"recheck", "link", "accept", "session"} =>
       HasRow(q.account) /\ <<q.account, q.person>> \in usable[r]
  /\ q.step \in {"recheck", "link", "accept"} =>
       account[q.account].person = q.person \/ person[q.person] = "deactivated"

AccountsInv ==
  /\ AccountsTypeOK /\ Shapes
  /\ request \in [Requests -> Call] /\ \A r \in Requests : OnTrack(r)

-----------------------------------------------------------------------------
\* The null row is no row, and a current account has one.
LEMMA Rows ==
  ASSUME TablesOK
  PROVE  /\ NoRow \notin Row
         /\ \A a : HasRow(a) => account[a] \in Row
         /\ \A a \in Current : HasRow(a) /\ account[a].status \in {"active", "disabled"}
         /\ \A p : \A a \in AccountsOf(p) : a \in Current /\ account[a].person = p
<1>1. NoRow.status = "none" /\ \A row \in Row : row.status # "none"
  BY DEF NoRow, Row
<1>2. account \in [AccountIds -> {NoRow} \union Row]
  BY DEF TablesOK, Row
<1>3. \A a \in AccountIds : a \in Current => account[a] # NoRow
  BY <1>1 DEF Current
<1> QED BY <1>1, <1>2, <1>3 DEF HasRow, Current, AccountsOf

\* An account in use is some person's.
LEMMA InUseIs ==
  ASSUME TablesOK, NEW a, Usable(a)
  PROVE  HasRow(a) /\ account[a].person \in Persons /\ <<a, account[a].person>> \in InUse
<1>1. a \in Current /\ HasRow(a) /\ account[a] \in Row
  BY Rows DEF Usable
<1> QED BY <1>1 DEF InUse, Row, HasRow

LEMMA AccountsInitInvariant == AccountsInit => AccountsInv
<1> SUFFICES ASSUME AccountsInit
             PROVE  AccountsInv
  OBVIOUS
<1> USE AccountsAssumption
<1>1. Current = {}
  BY DEF AccountsInit, Current, NoRow
<1>2. AccountsTypeOK
  BY <1>1 DEF AccountsInit, AccountsTypeOK, TablesOK, NoMerge, Idle
<1>3. request \in [Requests -> Call] /\ \A r \in Requests : OnTrack(r)
  BY DEF AccountsInit, Call, Idle, OnTrack
<1>4. Shapes
  BY DEF AccountsInit, Shapes, NoMerge
<1> QED BY <1>2, <1>3, <1>4 DEF AccountsInv

-----------------------------------------------------------------------------
(***************************************************************************)
(* What other steps do to a request that stays where it is.                *)
(***************************************************************************)

\* Rows stay rows, and change their person only when that person is merged away, for good.
RowsStay ==
  /\ \A a \in AccountIds : account[a] # NoRow =>
       /\ account'[a] # NoRow
       /\ account'[a].person = account[a].person \/ person'[account[a].person] = "deactivated"
  /\ \A p \in Persons : person[p] = "deactivated" => person'[p] = "deactivated"

\* What was seen in use, and what is in use now or next, counts for a request's person.
LEMMA Watched ==
  ASSUME Watch, NEW r \in Requests, request'[r] # Idle,
         NEW a, NEW p, <<a, p>> \in usable[r] \union InUse \union InUse',
         request'[r].person \in {NoPerson, p}
  PROVE  <<a, p>> \in usable'[r]
BY DEF Watch

LEMMA Waits ==
  ASSUME AccountsInv, RowsStay, Watch, NEW r \in Requests, request'[r] = request[r]
  PROVE  OnTrack(r)'
<1> DEFINE q == request[r]
<1>1. OnTrack(r)
  BY DEF AccountsInv
<1>2. HasRow(q.account) => HasRow(q.account)'
  BY DEF RowsStay, HasRow
<1>3. ASSUME q.step \in {"recheck", "link", "accept", "session"}
      PROVE  <<q.account, q.person>> \in usable'[r]
  <2>1. request'[r] # Idle
    BY <1>3 DEF Idle
  <2> QED BY <1>1, <1>3, <2>1, Watched DEF OnTrack
<1>4. ASSUME q.step \in {"recheck", "link", "accept"}
      PROVE  account'[q.account].person = q.person \/ person'[q.person] = "deactivated"
  <2>1. q.person \in Persons /\ HasRow(q.account)
    BY <1>1, <1>4 DEF OnTrack
  <2>2. account[q.account].person = q.person \/ person[q.person] = "deactivated"
    BY <1>1, <1>4 DEF OnTrack
  <2> QED BY <2>1, <2>2 DEF RowsStay, HasRow
<1> QED BY <1>1, <1>2, <1>3, <1>4 DEF OnTrack

LEMMA SameTables ==
  ASSUME UNCHANGED <<person, account>>
  PROVE  RowsStay
BY DEF RowsStay

-----------------------------------------------------------------------------
(***************************************************************************)
(* How a request moves.                                                    *)
(***************************************************************************)
Steps == {"idle", "match", "account", "insert", "recheck", "link", "accept", "session"}

Becomes(r, s, l, p, a) ==
  request' = [request EXCEPT ![r] = [step |-> s, login |-> l, person |-> p, account |-> a]]

LEMMA Moves ==
  ASSUME request \in [Requests -> Call], NEW r \in Requests, NEW s, NEW l, NEW p, NEW a
  PROVE  LET q == request[r]
         IN  /\ Goto(r, s) => Becomes(r, s, q.login, q.person, q.account)
             /\ GotoAs(r, s, p, a) => Becomes(r, s, q.login, p, a)
             /\ request' = [request EXCEPT ![r].step = s, ![r].login = l] =>
                  Becomes(r, s, l, q.person, q.account)
             /\ Resolved(r, p, a) => Becomes(r, "session", NoLogin, p, a)
             /\ Return(r) => Becomes(r, "idle", NoLogin, NoPerson, NoAccount)
<1> DEFINE q == request[r]
<1>1. q = [step |-> q.step, login |-> q.login, person |-> q.person, account |-> q.account]
  BY DEF Call
<1>2. Goto(r, s) => Becomes(r, s, q.login, q.person, q.account)
  BY <1>1 DEF Goto, Becomes
<1>3. GotoAs(r, s, p, a) => Becomes(r, s, q.login, p, a)
  BY <1>1 DEF GotoAs, Becomes
<1>4. request' = [request EXCEPT ![r].step = s, ![r].login = l] =>
        Becomes(r, s, l, q.person, q.account)
  BY <1>1 DEF Becomes
<1> QED BY <1>2, <1>3, <1>4 DEF Resolved, Return, Idle, Becomes

\* What an invariant asks of the request that moved, and of the others.
Alone(r) ==
  /\ request' \in [Requests -> Call] /\ OnTrack(r)'
  /\ \A o \in Requests \ {r} : request'[o] = request[o]

LEMMA MovesAlone ==
  ASSUME request \in [Requests -> Call], Watch, NEW r \in Requests, NEW s \in Steps,
         NEW l \in Logins \union {NoLogin}, NEW p \in Persons \union {NoPerson},
         NEW a \in AccountIds \union {NoAccount}, Becomes(r, s, l, p, a),
         s \in {"match", "account", "insert", "recheck", "link", "accept"} => l \in Logins,
         s \in {"account", "insert", "recheck", "link", "accept", "session"} => p \in Persons,
         s \in {"recheck", "link", "accept", "session"} =>
           /\ a \in AccountIds /\ account'[a] # NoRow
           /\ <<a, p>> \in usable[r] \union InUse \union InUse',
         s \in {"recheck", "link", "accept"} =>
           account'[a].person = p \/ person'[p] = "deactivated"
  PROVE  Alone(r)
<1> DEFINE q == [step |-> s, login |-> l, person |-> p, account |-> a]
<1>1. q \in Call
  BY DEF Call, Steps
<1>2. /\ request' \in [Requests -> Call] /\ request'[r] = q
      /\ \A o \in Requests \ {r} : request'[o] = request[o]
  BY <1>1 DEF Becomes
<1>3. request'[r].step = s /\ request'[r].login = l /\ request'[r].person = p /\ request'[r].account = a
  BY <1>2
<1>4. s \in {"recheck", "link", "accept", "session"} => <<a, p>> \in usable'[r]
  <2>1. s # "idle" => request'[r] # Idle
    BY <1>3 DEF Idle
  <2> QED BY <1>3, <2>1, Watched
<1>5. OnTrack(r)'
  BY <1>3, <1>4 DEF OnTrack, HasRow
<1> QED BY <1>2, <1>5 DEF Alone

LEMMA Ends ==
  ASSUME request \in [Requests -> Call], Watch, NEW r \in Requests, Return(r)
  PROVE  Alone(r)
<1>1. Becomes(r, "idle", NoLogin, NoPerson, NoAccount)
  BY Moves
<1> QED BY <1>1, MovesAlone DEF Steps

LEMMA OneMoves ==
  ASSUME AccountsInv, RowsStay, Watch, AccountsTypeOK', Shapes', NEW r \in Requests, Alone(r)
  PROVE  AccountsInv'
<1>1. \A o \in Requests : OnTrack(o)'
  BY Waits DEF Alone
<1> QED BY <1>1 DEF AccountsInv, Alone

\* The tables, and whoever works with them, but for the requests.
LEMMA AllWait ==
  ASSUME AccountsInv, RowsStay, Watch, Shapes', UNCHANGED request, TablesOK',
         UNCHANGED admin \/ (admin' = NoAdmin \/ account'[admin'.account] # NoRow),
         merge' # NoMerge => person'[merge'.survivor] = "active" /\ person'[merge'.duplicate] = "active",
         merge'.account # NoAccount => merge'.account \in AccountsOf(merge.duplicate)'
  PROVE  AccountsInv'
<1>1. \A r \in Requests : OnTrack(r)'
  BY Waits
<1>2. admin' = NoAdmin \/ account'[admin'.account] # NoRow
  BY DEF AccountsInv, AccountsTypeOK, Shapes, RowsStay, HasRow
<1>3. AccountsTypeOK'
  BY <1>1, <1>2 DEF AccountsTypeOK, OnTrack, HasRow
<1> QED BY <1>1, <1>3 DEF AccountsInv

\* A step of a request that only reads.
LEMMA OneReads ==
  ASSUME AccountsInv, UNCHANGED <<tables, admin, merge>>, Watch, NEW r \in Requests, Alone(r)
  PROVE  AccountsInv'
<1>1. RowsStay
  BY SameTables DEF tables
<1>2. /\ TablesOK' = TablesOK /\ Shapes' = Shapes
      /\ AccountsOf(merge.duplicate)' = AccountsOf(merge.duplicate)
  BY DEF tables, TablesOK, Shapes, AccountsOf, Current, HasRow
<1>3. \A o \in Requests : OnTrack(o)'
  BY <1>1, Waits DEF Alone
<1>4. AccountsTypeOK'
  BY <1>2, <1>3 DEF AccountsInv, AccountsTypeOK, OnTrack, HasRow, tables
<1> QED BY <1>1, <1>2, <1>4, OneMoves DEF AccountsInv

-----------------------------------------------------------------------------
(***************************************************************************)
(* The steps of a request that only read.                                  *)
(***************************************************************************)
LEMMA ResolveKeeps ==
  ASSUME AccountsInv, NEW r \in Requests, NEW l \in Logins, Resolve(r, l)
  PROVE  AccountsInv'
<1> USE DEF AccountsInv
<1>0. TablesOK /\ UNCHANGED <<tables, admin, merge>> /\ Watch
  BY DEF AccountsTypeOK, Resolve, NoOneElse
<1>1. CASE Usable(linked[l])
  <2> DEFINE a == linked[l]
             p == account[a].person
  <2>1. HasRow(a) /\ p \in Persons /\ <<a, p>> \in InUse
    BY <1>0, <1>1, InUseIs
  <2>2. Becomes(r, "session", NoLogin, p, a)
    BY <1>1, Moves DEF Resolve
  <2>3. account'[a] # NoRow
    BY <1>0, <2>1 DEF HasRow, tables
  <2> HIDE DEF a, p
  <2>4. Alone(r)
    BY <1>0, <2>1, <2>2, <2>3, MovesAlone DEF Steps, HasRow
  <2> QED BY <1>0, <2>4, OneReads
<1>2. CASE ~Usable(linked[l])
  <2>1. Becomes(r, "match", l, request[r].person, request[r].account)
    BY <1>2, Moves DEF Resolve
  <2>2. request[r].person \in Persons \union {NoPerson} /\ request[r].account \in AccountIds \union {NoAccount}
    BY DEF Call
  <2>3. Alone(r)
    BY <1>0, <2>1, <2>2, MovesAlone DEF Steps
  <2> QED BY <1>0, <2>3, OneReads
<1> QED BY <1>1, <1>2

LEMMA MatchPersonKeeps ==
  ASSUME AccountsInv, NEW r \in Requests, MatchPerson(r)
  PROVE  AccountsInv'
<1> USE DEF AccountsInv
<1>0. TablesOK /\ UNCHANGED <<tables, admin, merge>> /\ Watch
  BY DEF AccountsTypeOK, MatchPerson, NoOneElse
<1>1. PICK p \in Matches(request[r].login) : GotoAs(r, "account", p, NoAccount)
  BY DEF MatchPerson
<1>2. p \in Persons
  BY <1>0, <1>1, Rows DEF Matches, Row
<1>3. Becomes(r, "account", request[r].login, p, NoAccount)
  BY <1>1, Moves
<1>4. request[r].login \in Logins
  BY DEF MatchPerson, At, OnTrack
<1>5. Alone(r)
  BY <1>0, <1>2, <1>3, <1>4, MovesAlone DEF Steps
<1> QED BY <1>0, <1>5, OneReads

LEMMA GetAccountKeeps ==
  ASSUME AccountsInv, NEW r \in Requests, GetAccount(r)
  PROVE  AccountsInv'
<1> USE DEF AccountsInv
<1> DEFINE p == request[r].person
           l == request[r].login
<1>0. TablesOK /\ UNCHANGED <<tables, admin, merge>> /\ Watch
  BY DEF AccountsTypeOK, GetAccount, NoOneElse
<1>1. p \in Persons /\ l \in Logins /\ request[r].account \in AccountIds \union {NoAccount}
  BY DEF GetAccount, At, OnTrack, Call
<1>2. CASE Goto(r, "insert")
  <2>1. Becomes(r, "insert", l, p, request[r].account)
    BY <1>2, Moves
  <2>2. Alone(r)
    BY <1>0, <1>1, <2>1, MovesAlone DEF Steps
  <2> QED BY <1>0, <2>2, OneReads
<1>3. ASSUME NEW a \in AccountsOf(p), Usable(a), GotoAs(r, "recheck", p, a)
      PROVE  AccountsInv'
  <2>1. HasRow(a) /\ account[a].person = p /\ <<a, p>> \in InUse
    BY <1>0, <1>3, InUseIs, Rows
  <2>2. Becomes(r, "recheck", l, p, a)
    BY <1>3, Moves
  <2>3. account'[a] # NoRow /\ account'[a].person = p
    BY <1>0, <2>1 DEF HasRow, tables
  <2>4. Alone(r)
    BY <1>0, <1>1, <2>1, <2>2, <2>3, MovesAlone DEF Steps, HasRow
  <2> QED BY <1>0, <2>4, OneReads
<1> QED BY <1>2, <1>3 DEF GetAccount

LEMMA ResolveAgainKeeps ==
  ASSUME AccountsInv, NEW r \in Requests, ResolveAgain(r)
  PROVE  AccountsInv'
<1> USE DEF AccountsInv
<1> DEFINE p == request[r].person
           l == request[r].login
           a == linked[l]
           found == request[r].account
<1>0. TablesOK /\ UNCHANGED <<tables, admin, merge>> /\ Watch
  BY DEF AccountsTypeOK, ResolveAgain, NoOneElse
<1>1. /\ p \in Persons /\ l \in Logins
      /\ HasRow(found) /\ <<found, p>> \in usable[r]
      /\ account[found].person = p \/ person[p] = "deactivated"
  BY DEF ResolveAgain, At, OnTrack
<1>2. CASE Goto(r, "link")
  <2>1. Becomes(r, "link", l, p, found)
    BY <1>2, Moves
  <2>2. account'[found] # NoRow /\ (account'[found].person = p \/ person'[p] = "deactivated")
    BY <1>0, <1>1 DEF HasRow, tables
  <2>3. Alone(r)
    BY <1>0, <1>1, <2>1, <2>2, MovesAlone DEF Steps, HasRow
  <2> QED BY <1>0, <2>3, OneReads
<1>3. CASE Usable(a) /\ account[a].person = p /\ Resolved(r, p, a)
  <2>1. HasRow(a) /\ <<a, p>> \in InUse
    BY <1>0, <1>3, InUseIs
  <2>2. Becomes(r, "session", NoLogin, p, a)
    BY <1>3, Moves
  <2>3. account'[a] # NoRow
    BY <1>0, <2>1 DEF HasRow, tables
  <2>4. Alone(r)
    BY <1>0, <1>1, <2>1, <2>2, <2>3, MovesAlone DEF Steps, HasRow
  <2> QED BY <1>0, <2>4, OneReads
<1> QED BY <1>2, <1>3 DEF ResolveAgain

LEMMA EndKeeps ==
  ASSUME AccountsInv, NEW r \in Requests, Touch(r) \/ Drop(r)
  PROVE  AccountsInv'
<1>1. UNCHANGED <<tables, admin, merge>> /\ Watch /\ Return(r)
  BY DEF Touch, Drop, NoOneElse
<1>2. Alone(r)
  BY <1>1, Ends DEF AccountsInv
<1> QED BY <1>1, <1>2, OneReads

-----------------------------------------------------------------------------
(***************************************************************************)
(* The steps of a request that write.                                      *)
(***************************************************************************)
\* A new row takes a free id, and no current row has its person or its address.
LEMMA Inserting ==
  ASSUME TablesOK, Shapes, NEW p \in Persons, NEW l \in Logins, NEW a \in AccountIds,
         InsertAccount(p, l, a), UNCHANGED <<linked, session>>, pending' \subseteq pending \union {a},
         person' \in [Persons -> {"none", "active", "deactivated"}],
         \A x \in Persons : person[x] = "deactivated" => person'[x] = "deactivated"
  PROVE  /\ TablesOK' /\ RowsStay /\ Usable(a)' /\ account'[a] # NoRow /\ account'[a].person = p
         /\ \A b : HasRow(b) => HasRow(b)' /\ account'[b] = account[b]
<1> DEFINE new == [person |-> p, email |-> l, status |-> "active"]
<1>1. /\ account[a] = NoRow /\ account' = [account EXCEPT ![a] = new]
      /\ \A b \in Current : account[b].person # p /\ account[b].email # l
  BY DEF InsertAccount, Insertable
<1>2. new \in Row /\ new # NoRow /\ new.person = p /\ new.email = l /\ new.status = "active"
  BY DEF Row, NoRow
<1>3. account \in [AccountIds -> {NoRow} \union Row]
  BY DEF TablesOK, Row
<1>4. account' \in [AccountIds -> {NoRow} \union Row] /\ account'[a] = new
  BY <1>1, <1>2, <1>3
<1>5. \A b \in AccountIds \ {a} : account'[b] = account[b]
  BY <1>1, <1>3
<1>6. a \notin Current /\ Current' = Current \union {a}
  BY <1>1, <1>2, <1>4, <1>5 DEF Current, NoRow
<1>7. \A b : HasRow(b) => HasRow(b)' /\ account'[b] = account[b]
  BY <1>1, <1>5 DEF HasRow
<1>8. RowsStay
  BY <1>7 DEF RowsStay, HasRow
<1>9. \A b \in Current : account'[b] = account[b]
  BY <1>5, <1>6 DEF Current
<1>10. \A b, c \in Current' : b # c => /\ account'[b].person # account'[c].person
                                       /\ account'[b].email # account'[c].email
  BY <1>1, <1>2, <1>4, <1>6, <1>9 DEF TablesOK
<1>11. pending' \subseteq {b \in AccountIds : account'[b] # NoRow}
  BY <1>2, <1>4, <1>7 DEF TablesOK, HasRow
<1>12. \A s \in SessionIds : session'[s] # NoAccount => account'[session'[s]] # NoRow
  BY <1>7 DEF TablesOK, Shapes, HasRow
<1>13. TablesOK'
  BY <1>4, <1>10, <1>11, <1>12 DEF TablesOK, Row
<1> QED BY <1>2, <1>4, <1>6, <1>7, <1>8, <1>13 DEF Usable

LEMMA MakeAccountKeeps ==
  ASSUME AccountsInv, NEW r \in Requests, MakeAccount(r)
  PROVE  AccountsInv'
<1> USE DEF AccountsInv
<1> DEFINE p == request[r].person
           l == request[r].login
<1>1. PICK a \in AccountIds : InsertAccount(p, l, a) /\ GotoAs(r, "recheck", p, a)
  BY DEF MakeAccount
<1>2. /\ UNCHANGED <<person, linked, pending, session, admin, merge>> /\ Watch
      /\ TablesOK /\ p \in Persons /\ l \in Logins
  BY DEF MakeAccount, NoOneElse, AccountsTypeOK, At, OnTrack
<1> HIDE DEF p, l
<1>3. /\ TablesOK' /\ RowsStay /\ Usable(a)' /\ account'[a] # NoRow /\ account'[a].person = p
      /\ \A b : HasRow(b) => HasRow(b)' /\ account'[b] = account[b]
  BY <1>1, <1>2, Inserting DEF TablesOK
<1>4. <<a, p>> \in InUse'
  BY <1>3 DEF InUse
<1>5. Becomes(r, "recheck", l, p, a)
  BY <1>1, Moves DEF p, l
<1>6. Alone(r)
  BY <1>2, <1>3, <1>4, <1>5, MovesAlone DEF Steps
<1>7. Shapes'
  BY <1>2, <1>3 DEF Shapes
<1>8. \A o \in Requests : OnTrack(o)'
  BY <1>2, <1>3, <1>6, Waits DEF Alone
<1>9. merge.account # NoAccount => merge.account \in AccountsOf(merge.duplicate)'
  <2>1. \A b \in Current : b \in Current' /\ account'[b] = account[b]
    BY <1>2, <1>3, Rows DEF Current, HasRow
  <2> QED BY <1>2, <2>1, Rows DEF AccountsTypeOK, AccountsOf
<1>10. admin = NoAdmin \/ account'[admin.account] # NoRow
  BY <1>3 DEF Shapes, HasRow
<1>11. AccountsTypeOK'
  BY <1>2, <1>3, <1>8, <1>9, <1>10 DEF AccountsTypeOK, OnTrack, HasRow
<1> QED BY <1>2, <1>3, <1>6, <1>7, <1>11, OneMoves

\* The rest of a request's writes leave persons and accounts alone.
LEMMA OneWrites ==
  ASSUME AccountsInv, NEW r \in Requests, Alone(r), UNCHANGED <<person, account>>, NoOneElse,
         linked' \in [Logins -> AccountIds \union {NoAccount}],
         \A l \in Logins : linked'[l] # NoAccount => HasRow(linked'[l]),
         pending' \subseteq pending,
         session' \in [SessionIds -> AccountIds \union {NoAccount}],
         \A s \in SessionIds : session'[s] # NoAccount => account[session'[s]] # NoRow
  PROVE  AccountsInv'
<1>1. RowsStay /\ Watch /\ UNCHANGED <<admin, merge>>
  BY SameTables DEF NoOneElse
<1>2. Current' = Current /\ \A p : AccountsOf(p)' = AccountsOf(p)
  BY DEF Current, AccountsOf
<1>3. TablesOK'
  BY <1>2 DEF AccountsInv, AccountsTypeOK, TablesOK
<1>4. Shapes'
  BY <1>1 DEF AccountsInv, Shapes, HasRow
<1>5. \A o \in Requests : OnTrack(o)'
  BY <1>1, Waits DEF Alone
<1>6. AccountsTypeOK'
  BY <1>1, <1>2, <1>3, <1>5 DEF AccountsInv, AccountsTypeOK, OnTrack, HasRow, AccountsOf
<1> QED BY <1>1, <1>4, <1>6, OneMoves

LEMMA InsertIdentityKeeps ==
  ASSUME AccountsInv, NEW r \in Requests, InsertIdentity(r)
  PROVE  AccountsInv'
<1> USE DEF AccountsInv
<1> DEFINE p == request[r].person
           l == request[r].login
           a == request[r].account
<1>1. /\ Watch /\ NoOneElse /\ UNCHANGED <<person, account, pending, session>>
      /\ linked' = [linked EXCEPT ![l] = a] /\ Goto(r, "accept")
  BY DEF InsertIdentity, NoOneElse
<1>2. /\ p \in Persons /\ l \in Logins /\ HasRow(a) /\ <<a, p>> \in usable[r]
      /\ account[a].person = p \/ person[p] = "deactivated"
  BY DEF InsertIdentity, At, OnTrack
<1>3. Becomes(r, "accept", l, p, a)
  BY <1>1, Moves
<1>4. Alone(r)
  BY <1>1, <1>2, <1>3, MovesAlone DEF Steps, HasRow
<1>5. /\ linked' \in [Logins -> AccountIds \union {NoAccount}]
      /\ \A k \in Logins : linked'[k] # NoAccount => HasRow(linked'[k])
  BY <1>1, <1>2 DEF AccountsTypeOK, TablesOK, Shapes, HasRow
<1> QED BY <1>1, <1>4, <1>5, OneWrites DEF AccountsTypeOK, TablesOK, Shapes

LEMMA MarkInviteAcceptedKeeps ==
  ASSUME AccountsInv, NEW r \in Requests, MarkInviteAccepted(r)
  PROVE  AccountsInv'
<1> USE DEF AccountsInv
<1> DEFINE p == request[r].person
           a == request[r].account
<1>1. /\ Watch /\ NoOneElse /\ UNCHANGED <<person, account, linked, session>>
      /\ pending' \subseteq pending /\ Resolved(r, p, a)
  BY DEF MarkInviteAccepted, NoOneElse
<1>2. p \in Persons /\ HasRow(a) /\ <<a, p>> \in usable[r]
  BY DEF MarkInviteAccepted, At, OnTrack
<1>3. Becomes(r, "session", NoLogin, p, a)
  BY <1>1, Moves
<1>4. Alone(r)
  BY <1>1, <1>2, <1>3, MovesAlone DEF Steps, HasRow
<1> QED BY <1>1, <1>4, OneWrites DEF AccountsTypeOK, TablesOK, Shapes

LEMMA RegisterSessionKeeps ==
  ASSUME AccountsInv, NEW r \in Requests, RegisterSession(r)
  PROVE  AccountsInv'
<1> USE DEF AccountsInv
<1> DEFINE a == request[r].account
<1>1. PICK s \in SessionIds : session' = [session EXCEPT ![s] = a]
  BY DEF RegisterSession
<1>2. Watch /\ NoOneElse /\ UNCHANGED <<person, account, linked, pending>> /\ Return(r)
  BY DEF RegisterSession, NoOneElse
<1>3. HasRow(a)
  BY DEF RegisterSession, At, OnTrack
<1>4. Alone(r)
  BY <1>2, Ends
<1>5. /\ session' \in [SessionIds -> AccountIds \union {NoAccount}]
      /\ \A t \in SessionIds : session'[t] # NoAccount => account[session'[t]] # NoRow
  BY <1>1, <1>3 DEF Shapes, AccountsTypeOK, TablesOK, HasRow
<1> QED BY <1>2, <1>4, <1>5, OneWrites DEF AccountsTypeOK, TablesOK, Shapes

-----------------------------------------------------------------------------
(***************************************************************************)
(* What administrators do meanwhile.                                       *)
(***************************************************************************)
LEMMA FindAccountKeeps ==
  ASSUME AccountsInv, NEW p \in Persons, NEW status \in {"active", "disabled"}, FindAccount(p, status)
  PROVE  AccountsInv'
<1> USE DEF AccountsInv
<1>1. PICK a \in AccountsOf(p) : admin' = [account |-> a, status |-> status]
  BY DEF FindAccount
<1>2. UNCHANGED <<tables, request, merge>> /\ Watch /\ RowsStay
  BY SameTables DEF FindAccount, tables
<1>3. admin'.account = a /\ admin'.status = status /\ HasRow(a)
  BY <1>1, Rows DEF AccountsTypeOK
<1>4. Shapes' /\ TablesOK' /\ account'[admin'.account] # NoRow
  BY <1>2, <1>3 DEF Shapes, HasRow, AccountsTypeOK, tables, TablesOK, Current
<1>5. /\ merge' # NoMerge => person'[merge'.survivor] = "active" /\ person'[merge'.duplicate] = "active"
      /\ merge'.account # NoAccount => merge'.account \in AccountsOf(merge.duplicate)'
  BY <1>2 DEF AccountsTypeOK, tables, AccountsOf, Current
<1> QED BY <1>2, <1>4, <1>5, AllWait

LEMMA SetAccountStatusKeeps ==
  ASSUME AccountsInv, SetAccountStatus
  PROVE  AccountsInv'
<1> USE DEF AccountsInv
<1>1. /\ UNCHANGED <<person, linked, pending, session, request, merge>> /\ admin' = NoAdmin /\ Watch
      /\ TablesOK /\ HasRow(admin.account) /\ admin.status \in {"active", "disabled"}
  BY DEF SetAccountStatus, Shapes, AccountsTypeOK
<1>2. account \in [AccountIds -> {NoRow} \union Row]
  BY <1>1 DEF TablesOK, Row
<1>3. /\ account' \in [AccountIds -> {NoRow} \union Row] /\ Current' = Current
      /\ \A a \in AccountIds : /\ account'[a] = NoRow <=> account[a] = NoRow
                               /\ account'[a].person = account[a].person
                               /\ account'[a].email = account[a].email
  <2>1. CASE admin.account \in Current
    <3> DEFINE a == admin.account
    <3>1. /\ account' = [account EXCEPT ![a].status = admin.status]
          /\ account[a] \in Row /\ a \in AccountIds /\ account[a].status \in {"active", "disabled"}
      BY <1>1, <2>1, Rows DEF SetAccountStatus, HasRow
    <3>2. /\ account'[a] \in Row /\ account'[a].status = admin.status
          /\ account'[a].person = account[a].person /\ account'[a].email = account[a].email
      BY <1>1, <1>2, <3>1 DEF Row
    <3>3. \A b \in AccountIds \ {a} : account'[b] = account[b]
      BY <1>2, <3>1
    <3>4. account' \in [AccountIds -> {NoRow} \union Row]
      <4> DEFINE row == [account[a] EXCEPT !.status = admin.status]
      <4>1. row \in Row /\ account' = [account EXCEPT ![a] = row]
        BY <1>1, <3>1 DEF Row
      <4> HIDE DEF row
      <4> QED BY <1>2, <4>1
    <3>5. Current' = Current
      BY <1>1, <2>1, <3>1, <3>2, <3>3 DEF Current
    <3>6. NoRow \notin Row
      BY <1>1, Rows
    <3> QED BY <3>1, <3>2, <3>3, <3>4, <3>5, <3>6
  <2>2. CASE admin.account \notin Current
    BY <1>2, <2>2 DEF SetAccountStatus, Current
  <2> QED BY <2>1, <2>2
<1>4. RowsStay
  BY <1>1, <1>3 DEF RowsStay
<1>5. Shapes'
  BY <1>1, <1>3 DEF Shapes, HasRow
<1>6. TablesOK'
  <2>1. \A a, b \in Current' : a # b => /\ account'[a].person # account'[b].person
                                       /\ account'[a].email # account'[b].email
    BY <1>1, <1>3 DEF TablesOK, Current
  <2>2. \A s \in SessionIds : session'[s] # NoAccount => account'[session'[s]] # NoRow
    BY <1>1, <1>3 DEF TablesOK, Shapes
  <2>3. pending' \subseteq {a \in AccountIds : account'[a] # NoRow}
    BY <1>1, <1>3 DEF TablesOK
  <2> QED BY <1>1, <1>3, <2>1, <2>2, <2>3 DEF TablesOK, Row
<1>7. /\ merge' # NoMerge => person'[merge'.survivor] = "active" /\ person'[merge'.duplicate] = "active"
      /\ merge'.account # NoAccount => merge'.account \in AccountsOf(merge.duplicate)'
  BY <1>1, <1>3 DEF AccountsTypeOK, AccountsOf, Current
<1> QED BY <1>1, <1>4, <1>5, <1>6, <1>7, AllWait

LEMMA RevokeSessionKeeps ==
  ASSUME AccountsInv, NEW s \in SessionIds, RevokeSession(s)
  PROVE  AccountsInv'
<1> USE DEF AccountsInv
<1>1. /\ session' = [session EXCEPT ![s] = NoAccount] /\ Watch /\ RowsStay
      /\ UNCHANGED <<person, account, linked, pending, request, admin, merge>>
  BY SameTables DEF RevokeSession
<1>2. Shapes'
  BY <1>1 DEF Shapes, HasRow
<1>3. TablesOK'
  <2>1. \A t \in SessionIds : session'[t] # NoAccount => account'[session'[t]] # NoRow
    BY <1>1 DEF AccountsTypeOK, TablesOK, Shapes
  <2> QED BY <1>1, <2>1 DEF AccountsTypeOK, TablesOK, Current
<1>4. /\ merge' # NoMerge => person'[merge'.survivor] = "active" /\ person'[merge'.duplicate] = "active"
      /\ merge'.account # NoAccount => merge'.account \in AccountsOf(merge.duplicate)'
  BY <1>1 DEF AccountsTypeOK, AccountsOf, Current
<1> QED BY <1>1, <1>2, <1>3, <1>4, AllWait

LEMMA CreateInviteKeeps ==
  ASSUME AccountsInv, NEW l \in Logins, CreateInvite(l)
  PROVE  AccountsInv'
<1> USE DEF AccountsInv
<1>1. PICK p \in Persons, a \in AccountIds :
        /\ person[p] = "none" /\ InsertAccount(p, l, a)
        /\ person' = [person EXCEPT ![p] = "active"] /\ pending' = pending \union {a}
  BY DEF CreateInvite
<1>2. UNCHANGED <<linked, session, request, admin, merge>> /\ Watch /\ TablesOK
  BY DEF CreateInvite, AccountsTypeOK
<1>3. /\ person' \in [Persons -> {"none", "active", "deactivated"}]
      /\ \A x \in Persons : person[x] \in {"active", "deactivated"} => person'[x] = person[x]
  BY <1>1, <1>2 DEF TablesOK
<1>4. /\ TablesOK' /\ RowsStay /\ \A b : HasRow(b) => HasRow(b)' /\ account'[b] = account[b]
  BY <1>1, <1>2, <1>3, Inserting
<1>5. Shapes'
  BY <1>2, <1>4 DEF Shapes
<1>6. merge' # NoMerge => person'[merge'.survivor] = "active" /\ person'[merge'.duplicate] = "active"
  BY <1>2, <1>3 DEF AccountsTypeOK, Shapes, Merge
<1>7. merge'.account # NoAccount => merge'.account \in AccountsOf(merge.duplicate)'
  <2>1. \A b \in Current : b \in Current' /\ account'[b] = account[b]
    BY <1>2, <1>4, Rows DEF Current, HasRow
  <2> QED BY <1>2, <2>1, Rows DEF AccountsTypeOK, AccountsOf
<1> QED BY <1>2, <1>4, <1>5, <1>6, <1>7, AllWait

-----------------------------------------------------------------------------
(***************************************************************************)
(* A merge.                                                                *)
(***************************************************************************)
LEMMA MergeReads ==
  ASSUME AccountsInv, UNCHANGED <<tables, request, admin>>, Watch,
         merge' = NoMerge \/
           /\ merge' \in Merge /\ merge'.survivor # merge'.duplicate
           /\ person[merge'.survivor] = "active" /\ person[merge'.duplicate] = "active"
           /\ merge'.account = NoAccount => merge'.step = "commit" /\ merge'.move = FALSE
           /\ merge'.account # NoAccount =>
                merge'.account \in Current /\ account[merge'.account].person = merge'.duplicate
  PROVE  AccountsInv'
<1> USE DEF AccountsInv
<1>1. RowsStay /\ Current' = Current
  BY SameTables DEF tables, Current
<1>2. NoMerge.account = NoAccount /\ NoMerge.move = FALSE /\ NoMerge.step = "idle"
  BY DEF NoMerge
<1>3. Shapes'
  BY <1>2 DEF Shapes, tables, HasRow
<1>4. TablesOK'
  BY <1>1 DEF AccountsTypeOK, TablesOK, tables
<1>5. /\ merge' # NoMerge => person'[merge'.survivor] = "active" /\ person'[merge'.duplicate] = "active"
      /\ merge'.account # NoAccount => merge'.account \in AccountsOf(merge.duplicate)'
  BY <1>1, <1>2 DEF AccountsTypeOK, AccountsOf, tables
<1> QED BY <1>1, <1>3, <1>4, <1>5, AllWait

LEMMA ReadDuplicateKeeps ==
  ASSUME AccountsInv, NEW s \in Persons, NEW d \in Persons, ReadDuplicate(s, d)
  PROVE  AccountsInv'
<1> DEFINE read == [NoMerge EXCEPT !.survivor = s, !.duplicate = d]
<1>1. /\ UNCHANGED <<tables, request, admin>> /\ Watch /\ s # d
      /\ person[s] = "active" /\ person[d] = "active" /\ TablesOK
  BY DEF ReadDuplicate, AccountsInv, AccountsTypeOK
<1>2. CASE merge' = [read EXCEPT !.step = "commit"]
  <2>1. /\ merge' \in Merge /\ merge'.survivor = s /\ merge'.duplicate = d
        /\ merge'.account = NoAccount /\ merge'.move = FALSE /\ merge'.step = "commit"
    BY <1>2 DEF NoMerge, Merge
  <2> QED BY <1>1, <2>1, MergeReads
<1>3. ASSUME NEW a \in AccountsOf(d), merge' = [read EXCEPT !.step = "survivor", !.account = a]
      PROVE  AccountsInv'
  <2>1. a \in Current /\ HasRow(a) /\ account[a].person = d
    BY <1>1, <1>3, Rows
  <2>2. /\ merge' \in Merge /\ merge'.survivor = s /\ merge'.duplicate = d
        /\ merge'.account = a /\ a # NoAccount
    BY <1>3, <2>1, AccountsAssumption DEF NoMerge, Merge, HasRow
  <2> QED BY <1>1, <2>1, <2>2, MergeReads
<1> QED BY <1>2, <1>3 DEF ReadDuplicate

LEMMA ReadSurvivorKeeps ==
  ASSUME AccountsInv, ReadSurvivor
  PROVE  AccountsInv'
<1> USE DEF AccountsInv
<1> DEFINE bare == AccountsOf(merge.survivor) = {}
           ending == IF bare THEN {} ELSE {s \in SessionIds : session[s] = merge.account}
<1>1. /\ UNCHANGED <<tables, request, admin>> /\ Watch /\ merge.step = "survivor" /\ TablesOK
      /\ merge' = [merge EXCEPT !.step = "commit", !.move = bare, !.ending = ending]
  BY DEF ReadSurvivor, AccountsTypeOK
<1>2. merge # NoMerge /\ merge \in Merge /\ merge.survivor # merge.duplicate
  BY <1>1 DEF NoMerge, Shapes
<1>3. bare \in BOOLEAN /\ ending \in SUBSET SessionIds
  OBVIOUS
<1> HIDE DEF bare, ending
<1>4. /\ merge' \in Merge /\ merge'.survivor = merge.survivor /\ merge'.duplicate = merge.duplicate
      /\ merge'.account = merge.account
  BY <1>1, <1>2, <1>3 DEF Merge
<1>5. /\ person[merge.survivor] = "active" /\ person[merge.duplicate] = "active"
      /\ merge.account # NoAccount /\ merge.account \in AccountsOf(merge.duplicate)
  BY <1>1, <1>2 DEF Shapes, AccountsTypeOK
<1>6. merge.account \in Current /\ account[merge.account].person = merge.duplicate
  BY <1>1, <1>5, Rows
<1> QED BY <1>1, <1>2, <1>4, <1>5, <1>6, MergeReads

LEMMA AbortMergeKeeps ==
  ASSUME AccountsInv, AbortMerge
  PROVE  AccountsInv'
BY MergeReads DEF AbortMerge

LEMMA CommitMergeKeeps ==
  ASSUME AccountsInv, CommitMerge
  PROVE  AccountsInv'
<1> USE DEF AccountsInv
<1> DEFINE s == merge.survivor
           d == merge.duplicate
           m == merge.account
<1>1. /\ UNCHANGED <<linked, pending, request, admin>> /\ Watch /\ merge' = NoMerge
      /\ person' = [person EXCEPT ![d] = "deactivated"] /\ TablesOK /\ merge.step = "commit"
      /\ merge.move => AccountsOf(s) = {}
  BY DEF CommitMerge, AccountsTypeOK
<1>2. /\ merge # NoMerge /\ merge \in Merge /\ s \in Persons /\ d \in Persons
      /\ m \in AccountIds \union {NoAccount} /\ merge.move \in BOOLEAN
      /\ merge.move => m # NoAccount
  BY <1>1 DEF NoMerge, Shapes, Merge
<1>3. /\ m # NoAccount => m \in Current /\ HasRow(m) /\ account[m] \in Row /\ account[m].person = d
      /\ m \in AccountIds => m # NoAccount
  BY <1>1, Rows, AccountsAssumption DEF AccountsTypeOK
<1>4. /\ person' \in [Persons -> {"none", "active", "deactivated"}] /\ person'[d] = "deactivated"
      /\ \A p \in Persons : person[p] = "deactivated" => person'[p] = "deactivated"
  BY <1>1, <1>2 DEF TablesOK
<1>5. account \in [AccountIds -> {NoRow} \union Row] /\ NoRow \notin Row
  BY <1>1, Rows DEF TablesOK, Row
<1>6. /\ account' \in [AccountIds -> {NoRow} \union Row]
      /\ \A a \in AccountIds : /\ a # m => account'[a] = account[a]
                               /\ account[a] # NoRow => account'[a] # NoRow
                               /\ account'[a].email = account[a].email
      /\ \A a \in AccountIds : account'[a].person # account[a].person =>
            a = m /\ merge.move /\ account'[a].person = s
      /\ Current' \subseteq Current
  <2>1. CASE m = NoAccount
    <3>1. account' = account
      BY <2>1 DEF CommitMerge
    <3> QED BY <1>5, <3>1 DEF Current
  <2>2. CASE m # NoAccount /\ merge.move
    <3> DEFINE row == [account[m] EXCEPT !.person = s]
    <3>1. row \in Row /\ account' = [account EXCEPT ![m] = row] /\ row.email = account[m].email
          /\ row.person = s
      BY <1>2, <1>3, <2>2 DEF CommitMerge, Row
    <3> HIDE DEF row
    <3>2. /\ account'[m] = row /\ m \in AccountIds
          /\ \A a \in AccountIds \ {m} : account'[a] = account[a]
      BY <1>3, <1>5, <2>2, <3>1 DEF HasRow
    <3>3. account' \in [AccountIds -> {NoRow} \union Row]
      BY <1>5, <3>1
    <3> QED BY <1>2, <1>3, <1>5, <2>2, <3>1, <3>2, <3>3 DEF Current
  <2>3. CASE m # NoAccount /\ ~merge.move
    <3> DEFINE row == [account[m] EXCEPT !.status = "deleted"]
    <3>1. row \in Row /\ account' = [account EXCEPT ![m] = row] /\ row.email = account[m].email
          /\ row.person = account[m].person /\ row.status = "deleted"
      BY <1>2, <1>3, <2>3 DEF CommitMerge, Row
    <3> HIDE DEF row
    <3>2. /\ account'[m] = row /\ m \in AccountIds
          /\ \A a \in AccountIds \ {m} : account'[a] = account[a]
      BY <1>3, <1>5, <2>3, <3>1 DEF HasRow
    <3>3. account' \in [AccountIds -> {NoRow} \union Row]
      BY <1>5, <3>1
    <3> QED BY <1>2, <1>3, <1>5, <2>3, <3>1, <3>2, <3>3 DEF Current
  <2> QED BY <1>2, <2>1, <2>2, <2>3
<1>7. RowsStay
  <2>1. \A a \in AccountIds : account'[a].person = account[a].person
          \/ person'[account[a].person] = "deactivated"
    BY <1>2, <1>3, <1>4, <1>6
  <2> QED BY <1>4, <1>6, <2>1 DEF RowsStay
<1>8. PICK missed \in SUBSET (SessionIds \ merge.ending) :
        session' = [t \in SessionIds |->
          IF ~merge.move /\ session[t] = merge.account /\ t \notin missed THEN NoAccount ELSE session[t]]
  BY DEF CommitMerge
<1>9. \A t \in SessionIds : session'[t] \in {NoAccount, session[t]}
  BY <1>8
<1>10. NoMerge.account = NoAccount /\ NoMerge.move = FALSE /\ NoMerge.step = "idle"
  BY DEF NoMerge
<1>11. Shapes'
  <2>1. session' \in [SessionIds -> AccountIds \union {NoAccount}]
    BY <1>8, <1>9 DEF Shapes
  <2> QED BY <1>1, <1>6, <1>10, <2>1 DEF Shapes, HasRow
<1>12. TablesOK'
  <2>1. \A a, b \in Current' : a # b => account'[a].person # account'[b].person
    <3>1. \A a \in Current' : account'[a].person = account[a].person \/
            (a = m /\ merge.move /\ account'[a].person = s)
      BY <1>6 DEF Current
    <3>2. merge.move => \A a \in Current : account[a].person # s
      BY <1>1 DEF AccountsOf
    <3> QED BY <1>1, <1>6, <3>1, <3>2 DEF TablesOK
  <2>2. \A a, b \in Current' : a # b => account'[a].email # account'[b].email
    BY <1>1, <1>6 DEF TablesOK, Current
  <2>3. \A t \in SessionIds : session'[t] # NoAccount => account'[session'[t]] # NoRow
    BY <1>1, <1>6, <1>9 DEF TablesOK, Shapes
  <2>4. pending' \subseteq {a \in AccountIds : account'[a] # NoRow}
    BY <1>1, <1>6 DEF TablesOK
  <2> QED BY <1>1, <1>4, <1>6, <2>1, <2>2, <2>3, <2>4 DEF TablesOK, Row
<1> QED BY <1>1, <1>7, <1>10, <1>11, <1>12, AllWait

-----------------------------------------------------------------------------
(***************************************************************************)
(* The invariant, and what it says.                                        *)
(***************************************************************************)
LEMMA NextInvariant == AccountsInv /\ [AccountsNext]_accountVars => AccountsInv'
<1> SUFFICES ASSUME AccountsInv, [AccountsNext]_accountVars
             PROVE  AccountsInv'
  OBVIOUS
<1>1. ASSUME NEW r \in Requests, Step(r)
      PROVE  AccountsInv'
  BY <1>1, MatchPersonKeeps, GetAccountKeeps, MakeAccountKeeps, ResolveAgainKeeps, InsertIdentityKeeps,
     MarkInviteAcceptedKeeps, RegisterSessionKeeps, EndKeeps DEF Step
<1>2. ASSUME NEW r \in Requests, NEW l \in Logins, Resolve(r, l)
      PROVE  AccountsInv'
  BY <1>2, ResolveKeeps
<1>3. ASSUME NEW p \in Persons, NEW status \in {"active", "disabled"}, FindAccount(p, status)
      PROVE  AccountsInv'
  BY <1>3, FindAccountKeeps
<1>4. ASSUME NEW l \in Logins, CreateInvite(l)
      PROVE  AccountsInv'
  BY <1>4, CreateInviteKeeps
<1>5. ASSUME NEW s \in Persons, NEW d \in Persons, ReadDuplicate(s, d)
      PROVE  AccountsInv'
  BY <1>5, ReadDuplicateKeeps
<1>6. CASE UNCHANGED accountVars
  BY <1>6 DEF accountVars, tables, AccountsInv, AccountsTypeOK, TablesOK, Shapes, OnTrack, AccountsOf, Current, HasRow
<1> QED BY <1>1, <1>2, <1>3, <1>4, <1>5, <1>6, SetAccountStatusKeeps, RevokeSessionKeeps,
           ReadSurvivorKeeps, CommitMergeKeeps, AbortMergeKeeps DEF AccountsNext

THEOREM AccountsInvariant == AccountsSpec => []AccountsInv
BY AccountsInitInvariant, NextInvariant, PTL DEF AccountsSpec

\* The tables keep their shapes and indexes (one current account for a person and for
\* an address), and a merge under way still works on two persons who are active
\* and on the duplicate's own account.
THEOREM AccountsTypeCorrect == AccountsSpec => []AccountsTypeOK
<1>1. AccountsInv => AccountsTypeOK
  BY DEF AccountsInv
<1> QED BY <1>1, AccountsInvariant, PTL

\* Whoever is let through as a person through an account, the account was that
\* person's and active at some time since the request began.
THEOREM LetThroughInForce == AccountsSpec => []AdmittedInForce
<1>1. AccountsInv => AdmittedInForce
  BY DEF AccountsInv, OnTrack, AdmittedInForce, At
<1> QED BY <1>1, AccountsInvariant, PTL

-----------------------------------------------------------------------------
(***************************************************************************)
(* Whose a login is.  Rows keep their persons, and logins their accounts,  *)
(* but for the two actions that say otherwise.                             *)
(***************************************************************************)
SamePersons == UNCHANGED linked /\ \A a : HasRow(a) => account'[a].person = account[a].person

LEMMA StatusKeepsPersons ==
  ASSUME AccountsInv, SetAccountStatus
  PROVE  SamePersons
<1>1. linked' = linked /\ account \in [AccountIds -> {NoRow} \union Row]
  BY DEF SetAccountStatus, AccountsInv, AccountsTypeOK, TablesOK, Row
<1>2. CASE admin.account \in Current
  <2>1. /\ account' = [account EXCEPT ![admin.account].status = admin.status]
        /\ account[admin.account] \in Row /\ admin.account \in AccountIds
    BY <1>2, Rows DEF SetAccountStatus, AccountsInv, AccountsTypeOK, HasRow
  <2>2. account'[admin.account].person = account[admin.account].person
    BY <1>1, <2>1 DEF Row
  <2>3. \A a \in AccountIds \ {admin.account} : account'[a] = account[a]
    BY <1>1, <2>1
  <2> QED BY <1>1, <2>2, <2>3 DEF SamePersons, HasRow
<1>3. CASE admin.account \notin Current
  BY <1>1, <1>3 DEF SetAccountStatus, SamePersons
<1> QED BY <1>2, <1>3

LEMMA InsertKeepsPersons ==
  ASSUME TablesOK, NEW p, NEW l, NEW a \in AccountIds, InsertAccount(p, l, a), UNCHANGED linked
  PROVE  SamePersons
BY DEF TablesOK, InsertAccount, SamePersons, HasRow

LEMMA OthersKeepPersons ==
  ASSUME AccountsInv, [AccountsNext]_accountVars, ~CommitMerge, \A r \in Requests : ~InsertIdentity(r)
  PROVE  SamePersons
<1>1. CASE UNCHANGED <<account, linked>>
  BY <1>1 DEF SamePersons
<1>2. ASSUME NEW r \in Requests, Step(r)
      PROVE  SamePersons
  <2>1. CASE MakeAccount(r)
    BY <2>1, InsertKeepsPersons DEF MakeAccount, AccountsInv, AccountsTypeOK
  <2>2. MakeAccount(r) \/ UNCHANGED <<account, linked>>
    BY <1>2 DEF Step, MatchPerson, GetAccount, ResolveAgain, MarkInviteAccepted, Touch, RegisterSession,
                Drop, tables
  <2> QED BY <1>1, <2>1, <2>2
<1>3. ASSUME NEW r \in Requests, NEW l \in Logins, Resolve(r, l)
      PROVE  SamePersons
  BY <1>1, <1>3 DEF Resolve, tables
<1>4. ASSUME NEW l \in Logins, CreateInvite(l)
      PROVE  SamePersons
  BY <1>4, InsertKeepsPersons DEF CreateInvite, AccountsInv, AccountsTypeOK
<1>5. ASSUME NEW p \in Persons, NEW status \in {"active", "disabled"}, FindAccount(p, status)
      PROVE  SamePersons
  BY <1>1, <1>5 DEF FindAccount, tables
<1>6. ASSUME NEW s \in SessionIds, RevokeSession(s)
      PROVE  SamePersons
  BY <1>1, <1>6 DEF RevokeSession
<1>7. ASSUME NEW s \in Persons, NEW d \in Persons, ReadDuplicate(s, d)
      PROVE  SamePersons
  BY <1>1, <1>7 DEF ReadDuplicate, tables
<1>8. CASE ReadSurvivor \/ AbortMerge \/ UNCHANGED accountVars
  BY <1>1, <1>8 DEF ReadSurvivor, AbortMerge, tables, accountVars
<1> QED BY <1>2, <1>3, <1>4, <1>5, <1>6, <1>7, <1>8, StatusKeepsPersons DEF AccountsNext

\* A merge that moves an account takes it from the duplicate to the survivor, and moves no other.
LEMMA MergeMovesPerson ==
  ASSUME AccountsInv, CommitMerge, NEW a, HasRow(a), account'[a].person # account[a].person
  PROVE  account[a].person = merge.duplicate /\ account'[a].person = merge.survivor
<1> DEFINE m == merge.account
<1>1. account \in [AccountIds -> {NoRow} \union Row] /\ TablesOK
  BY DEF AccountsInv, AccountsTypeOK, TablesOK, Row
<1>2. m # NoAccount
  BY DEF CommitMerge
<1>3. m \in Current /\ HasRow(m) /\ account[m] \in Row /\ account[m].person = merge.duplicate
  BY <1>1, <1>2, Rows DEF AccountsInv, AccountsTypeOK
<1>4. CASE ~merge.move
  <2>1. account' = [account EXCEPT ![m].status = "deleted"]
    BY <1>2, <1>4 DEF CommitMerge
  <2>2. account'[m].person = account[m].person
    BY <1>1, <1>3, <2>1 DEF Row, HasRow
  <2> QED BY <1>1, <2>1, <2>2 DEF HasRow
<1>5. CASE merge.move
  <2>1. account' = [account EXCEPT ![m].person = merge.survivor]
    BY <1>2, <1>5 DEF CommitMerge
  <2>2. account'[m].person = merge.survivor
    BY <1>1, <1>3, <2>1 DEF Row, HasRow
  <2> QED BY <1>1, <1>3, <2>1, <2>2 DEF HasRow
<1> QED BY <1>4, <1>5

LEMMA LoginStep ==
  ASSUME AccountsInv, [AccountsNext]_accountVars, NEW l \in Logins, PersonOf(l)' # PersonOf(l)
  PROVE  IF linked[l] # NoAccount
         THEN /\ merge.step = "commit" /\ merge' = NoMerge
              /\ PersonOf(l) = merge.duplicate /\ PersonOf(l)' = merge.survivor
         ELSE \E r \in Requests :
                /\ At(r, "link") /\ request[r].login = l
                /\ \/ PersonOf(l)' = request[r].person
                   \/ person[request[r].person] = "deactivated"
<1>1. linked[l] # NoAccount => HasRow(linked[l])
  BY DEF AccountsInv, Shapes
<1>2. CASE CommitMerge
  <2>1. linked' = linked /\ merge.step = "commit" /\ merge' = NoMerge
    BY <1>2 DEF CommitMerge
  <2>2. linked[l] # NoAccount /\ account'[linked[l]].person # account[linked[l]].person
    BY <2>1 DEF PersonOf
  <2>3. PersonOf(l) = account[linked[l]].person /\ PersonOf(l)' = account'[linked[l]].person
    BY <2>1, <2>2 DEF PersonOf
  <2>4. /\ account[linked[l]].person = merge.duplicate
        /\ account'[linked[l]].person = merge.survivor
    BY <1>1, <1>2, <2>2, MergeMovesPerson
  <2> QED BY <2>1, <2>2, <2>3, <2>4
<1>3. ASSUME NEW r \in Requests, InsertIdentity(r)
      PROVE  linked[l] = NoAccount /\ At(r, "link") /\ request[r].login = l
             /\ (PersonOf(l)' = request[r].person \/ person[request[r].person] = "deactivated")
  <2>1. /\ At(r, "link") /\ account' = account /\ linked[request[r].login] = NoAccount
        /\ linked' = [linked EXCEPT ![request[r].login] = request[r].account]
        /\ linked \in [Logins -> AccountIds \union {NoAccount}]
    BY <1>3 DEF InsertIdentity, AccountsInv, AccountsTypeOK, TablesOK
  <2>2. request[r].login = l
    BY <2>1 DEF PersonOf
  <2>3. /\ request[r].account \in AccountIds
        /\ account[request[r].account].person = request[r].person
             \/ person[request[r].person] = "deactivated"
    BY <2>1 DEF AccountsInv, OnTrack, At, HasRow
  <2>4. PersonOf(l)' = account[request[r].account].person
    BY <2>1, <2>2, <2>3, AccountsAssumption DEF PersonOf
  <2> QED BY <2>1, <2>2, <2>3, <2>4
<1>4. CASE ~CommitMerge /\ \A r \in Requests : ~InsertIdentity(r)
  <2>1. linked' = linked /\ \A a : HasRow(a) => account'[a].person = account[a].person
    BY <1>4, OthersKeepPersons DEF SamePersons
  <2>2. PersonOf(l)' = PersonOf(l)
    BY <1>1, <2>1 DEF PersonOf
  <2> QED BY <2>2
<1> QED BY <1>2, <1>3, <1>4

\* A login stays with its person but for the merge of that person, and comes first
\* to the person it was matched to, or to whom that person has been merged into.
THEOREM LoginsStayPut == AccountsSpec => LoginStaysPut
<1>1. ASSUME AccountsInv, [AccountsNext]_accountVars
      PROVE  [\A l \in Logins : PersonOf(l)' # PersonOf(l) =>
                IF linked[l] # NoAccount
                THEN /\ merge.step = "commit" /\ merge' = NoMerge
                     /\ PersonOf(l) = merge.duplicate /\ PersonOf(l)' = merge.survivor
                ELSE \E r \in Requests :
                       /\ At(r, "link") /\ request[r].login = l
                       /\ \/ PersonOf(l)' = request[r].person
                          \/ person[request[r].person] = "deactivated"]_accountVars
  BY <1>1, LoginStep
<1> QED BY <1>1, AccountsInvariant, PTL DEF AccountsSpec, LoginStaysPut
=============================================================================
