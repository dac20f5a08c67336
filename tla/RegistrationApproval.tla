------------------------- MODULE RegistrationApproval -------------------------
(***************************************************************************)
(* Approving a registration request (internal/registration) creates a      *)
(* congregation's unit and, step by step, all that belongs to it.  Every   *)
(* step commits on its own; the request's row says how to go on after a    *)
(* crash: PROVISIONING, with the id of the unit.  Operators approve and    *)
(* reject at the same time, and an admin may delete units meanwhile.       *)
(*                                                                         *)
(* An operator works from the copy of the request it read first.  Whatever *)
(* a step fails of (a lost connection, a refused permission, a code that   *)
(* is taken, a policy against child units), the call just ends: Crash.     *)
(***************************************************************************)
EXTENDS Naturals, FiniteSets

CONSTANTS Requests,   \* requests that are ever submitted
          Units,      \* unit ids that are ever minted
          Operators,  \* Approve and Reject calls that may run at once
          Admins,     \* DeleteUnit calls that may run at once
          NoRequest, NoUnit

ASSUME ApprovalAssumption == NoUnit \notin Units /\ NoRequest \notin Requests

VARIABLES status, unitOf,   \* registration_requests: status, created_unit_id
          madeFor,          \* the request a unit was created for
          has,              \* the rows that exist about a unit (see Parts)
          deleted,          \* units with deleted_at set
          op,               \* each operator's call
          admin             \* each admin's call

vars == <<status, unitOf, madeFor, has, deleted, op, admin>>
requests == <<status, unitOf>>

\* Rows about a unit: its profile and primary classification, its primary
\* site, its "admin" position and the submitter's membership in it, the
\* submitter's congregation-admin assignment, and the two audit records.
Parts == {"profile", "classification", "site", "position", "holder", "grant",
          "unit logged", "grant logged"}

\* What an approved congregation consists of.
Congregation == Parts \ {"unit logged", "grant logged"}

Idle == [step |-> "idle", req |-> NoRequest, unit |-> NoUnit]

Init ==
  /\ status = [r \in Requests |-> "NONE"]
  /\ unitOf = [r \in Requests |-> NoUnit]
  /\ madeFor = [u \in Units |-> NoRequest]
  /\ has = [u \in Units |-> {}]
  /\ deleted = {}
  /\ op = [o \in Operators |-> Idle]
  /\ admin = [a \in Admins |-> Idle]

Submit(r) ==
  /\ status[r] = "NONE"
  /\ status' = [status EXCEPT ![r] = "PENDING"]
  /\ UNCHANGED <<unitOf, madeFor, has, deleted, op, admin>>

-----------------------------------------------------------------------------
At(o, step) == op[o].step = step
Goto(o, step) == op' = [op EXCEPT ![o].step = step]
Return(o) == op' = [op EXCEPT ![o] = Idle]

\* A mutant of the action below: every approval is taken for a repeated one.
StartApproveResuming(o, r) ==
  /\ op[o] = Idle
  /\ status[r] \in {"PENDING", "PROVISIONING"}
  /\ op' = [op EXCEPT ![o] = [step |-> "sites", req |-> r, unit |-> unitOf[r]]]
  /\ UNCHANGED <<requests, madeFor, has, deleted, admin>>

\* Approve reads the request: with a unit it goes on from there, else it makes one.
StartApprove(o, r) ==
  /\ op[o] = Idle
  /\ status[r] \in {"PENDING", "PROVISIONING"}
  /\ op' = [op EXCEPT ![o] = [step |-> IF status[r] = "PROVISIONING" THEN "sites" ELSE "unit",
                              req |-> r, unit |-> unitOf[r]]]
  /\ UNCHANGED <<requests, madeFor, has, deleted, admin>>

\* A mutant of the action below: the request gets its unit before the unit has
\* its profile, and goes on from there.
CreateUnitThenMark(o) ==
  /\ At(o, "unit")
  /\ \E u \in Units :
       /\ madeFor[u] = NoRequest
       /\ madeFor' = [madeFor EXCEPT ![u] = op[o].req]
       /\ op' = [op EXCEPT ![o].step = "mark", ![o].unit = u]
  /\ UNCHANGED <<requests, has, deleted, admin>>

\* CreateChildOrg, its first transaction: unit and edge.
CreateUnitWithEdge(o) ==
  /\ At(o, "unit")
  /\ \E u \in Units :
       /\ madeFor[u] = NoRequest
       /\ madeFor' = [madeFor EXCEPT ![u] = op[o].req]
       /\ op' = [op EXCEPT ![o].step = "profile", ![o].unit = u]
  /\ UNCHANGED <<requests, has, deleted, admin>>

\* A step that leaves a row about the call's unit, whether it was there or not.
Ensure(o, step, part, next) ==
  /\ At(o, step)
  /\ has' = [has EXCEPT ![op[o].unit] = @ \cup {part}]
  /\ Goto(o, next)
  /\ UNCHANGED <<requests, madeFor, deleted, admin>>

\* The rest of CreateChildOrg (neither looks whether the unit is still live),
\* and the audit record.
SetOrgProfile(o) == Ensure(o, "profile", "profile", "classify")
AddOrgClassification(o) == Ensure(o, "classify", "classification", "log unit")
RecordUnit(o) == Ensure(o, "log unit", "unit logged", "mark")

\* A mutant of the action below: WHERE id = ... alone.
MarkProvisioningAnyStatus(o) ==
  /\ At(o, "mark")
  /\ status' = [status EXCEPT ![op[o].req] = "PROVISIONING"]
  /\ unitOf' = [unitOf EXCEPT ![op[o].req] = op[o].unit]
  /\ Goto(o, "sites")
  /\ UNCHANGED <<madeFor, has, deleted, admin>>

\* WHERE status = 'PENDING'; otherwise ErrNotPending ends the call, and the unit is orphaned.
MarkProvisioning(o) ==
  /\ At(o, "mark")
  /\ IF status[op[o].req] = "PENDING"
     THEN /\ status' = [status EXCEPT ![op[o].req] = "PROVISIONING"]
          /\ unitOf' = [unitOf EXCEPT ![op[o].req] = op[o].unit]
          /\ Goto(o, "sites")
     ELSE Return(o) /\ UNCHANGED requests
  /\ UNCHANGED <<madeFor, has, deleted, admin>>

\* ensureSite: list, and create only if there is no primary site.
ListSites(o) ==
  /\ At(o, "sites")
  /\ Goto(o, IF "site" \in has[op[o].unit] THEN "position" ELSE "site")
  /\ UNCHANGED <<requests, madeFor, has, deleted, admin>>

\* Another call may have come first: the unique index on primary sites is an error here.
CreateSite(o) ==
  /\ At(o, "site")
  /\ IF "site" \in has[op[o].unit]
     THEN Return(o) /\ UNCHANGED has
     ELSE /\ has' = [has EXCEPT ![op[o].unit] = @ \cup {"site"}]
          /\ Goto(o, "position")
  /\ UNCHANGED <<requests, madeFor, deleted, admin>>

\* A mutant of the step below: a position that is there is an error.
EnsurePositionStrict(o) ==
  /\ At(o, "position")
  /\ IF "position" \in has[op[o].unit]
     THEN Return(o) /\ UNCHANGED <<requests, madeFor, has, deleted, admin>>
     ELSE Ensure(o, "position", "position", "fill")

\* Both take the conflict of a repeated insert for success.
EnsurePosition(o) == Ensure(o, "position", "position", "fill")
EnsureFilled(o) == Ensure(o, "fill", "holder", "grant")

\* GrantUnitRole says whether it inserted the assignment or found it.
EnsureGrant(o) ==
  /\ At(o, "grant")
  /\ has' = [has EXCEPT ![op[o].unit] = @ \cup {"grant"}]
  /\ Goto(o, IF "grant" \in has[op[o].unit] THEN "approve" ELSE "log grant")
  /\ UNCHANGED <<requests, madeFor, deleted, admin>>

RecordGrant(o) == Ensure(o, "log grant", "grant logged", "approve")

\* WHERE status IN ('PENDING', 'PROVISIONING'), with the call's own unit; else ErrNotPending.
Approve(o) ==
  /\ At(o, "approve")
  /\ IF status[op[o].req] \in {"PENDING", "PROVISIONING"}
     THEN /\ status' = [status EXCEPT ![op[o].req] = "APPROVED"]
          /\ unitOf' = [unitOf EXCEPT ![op[o].req] = op[o].unit]
     ELSE UNCHANGED requests
  /\ Return(o)
  /\ UNCHANGED <<madeFor, has, deleted, admin>>

StartReject(o, r) ==
  /\ op[o] = Idle
  /\ status[r] = "PENDING"
  /\ op' = [op EXCEPT ![o] = [step |-> "reject", req |-> r, unit |-> NoUnit]]
  /\ UNCHANGED <<requests, madeFor, has, deleted, admin>>

\* A mutant of the action below: WHERE id = ... alone.
RejectAnyStatus(o) ==
  /\ At(o, "reject")
  /\ status' = [status EXCEPT ![op[o].req] = "REJECTED"]
  /\ Return(o)
  /\ UNCHANGED <<unitOf, madeFor, has, deleted, admin>>

\* WHERE status = 'PENDING', else ErrNotPending.
Reject(o) ==
  /\ At(o, "reject")
  /\ IF status[op[o].req] = "PENDING"
     THEN status' = [status EXCEPT ![op[o].req] = "REJECTED"]
     ELSE UNCHANGED status
  /\ Return(o)
  /\ UNCHANGED <<unitOf, madeFor, has, deleted, admin>>

Crash(o) ==
  /\ op[o] # Idle
  /\ Return(o)
  /\ UNCHANGED <<requests, madeFor, has, deleted, admin>>

-----------------------------------------------------------------------------
(***************************************************************************)
(* core's DeleteUnit, of a unit without children: no profile, no active    *)
(* assignments, then the soft delete, each a statement of its own.         *)
(***************************************************************************)
AdminAt(a, step, next) ==
  /\ admin[a].step = step
  /\ admin' = [admin EXCEPT ![a] = IF next = "idle" THEN Idle ELSE [@ EXCEPT !.step = next]]
  /\ UNCHANGED <<requests, madeFor, has, op>>

CheckProfile(a, u) ==
  /\ admin[a] = Idle
  /\ madeFor[u] # NoRequest /\ u \notin deleted             \* else it is not found in the end
  /\ "profile" \notin has[u]                                \* else ErrUnitHasOrgProfile
  /\ admin' = [admin EXCEPT ![a] = [step |-> "assignments", req |-> NoRequest, unit |-> u]]
  /\ UNCHANGED <<requests, madeFor, has, deleted, op>>

\* ErrUnitHasActiveRoleAssignments, or on.
CheckAssignments(a) ==
  /\ AdminAt(a, "assignments", IF "grant" \in has[admin[a].unit] THEN "idle" ELSE "delete")
  /\ UNCHANGED deleted

SoftDeleteUnit(a) ==
  /\ AdminAt(a, "delete", "idle")
  /\ deleted' = deleted \cup {admin[a].unit}

-----------------------------------------------------------------------------
Step(o) ==
  \/ CreateUnitWithEdge(o) \/ SetOrgProfile(o) \/ AddOrgClassification(o) \/ RecordUnit(o)
  \/ MarkProvisioning(o)
  \/ ListSites(o) \/ CreateSite(o) \/ EnsurePosition(o) \/ EnsureFilled(o)
  \/ EnsureGrant(o) \/ RecordGrant(o)
  \/ Approve(o) \/ Reject(o)

Next ==
  \/ \E r \in Requests : Submit(r)
  \/ \E o \in Operators :
       \/ \E r \in Requests : StartApprove(o, r) \/ StartReject(o, r)
       \/ Step(o)
       \/ Crash(o)
  \/ \E a \in Admins :
       (\E u \in Units : CheckProfile(a, u)) \/ CheckAssignments(a) \/ SoftDeleteUnit(a)

Spec == Init /\ [][Next]_vars

\* A call takes its next step or dies; calls do not keep dying at the same
\* step for ever; and an approval that ended without a decision is asked for
\* again (by a person: nothing in the program does it).
Retried ==
  /\ Spec
  /\ \A o \in Operators : WF_vars(Step(o) \/ Crash(o))
  /\ SF_vars(\E o \in Operators : ListSites(o))
  /\ SF_vars(\E o \in Operators : CreateSite(o))
  /\ SF_vars(\E o \in Operators : EnsurePosition(o))
  /\ SF_vars(\E o \in Operators : EnsureFilled(o))
  /\ SF_vars(\E o \in Operators : EnsureGrant(o))
  /\ SF_vars(\E o \in Operators : RecordGrant(o))
  /\ SF_vars(\E o \in Operators : Approve(o))
  /\ WF_vars(\E o \in Operators, r \in Requests : status[r] = "PROVISIONING" /\ StartApprove(o, r))

-----------------------------------------------------------------------------
\* The steps in front of the status update, and those after it.
Early == {"unit", "profile", "classify", "log unit", "mark"}
Late == {"sites", "site", "position", "fill", "grant", "log grant", "approve"}

\* With the CHECK on the requests' table (registration_requests_decision_shape).
TypeOK ==
  /\ status \in [Requests -> {"NONE", "PENDING", "PROVISIONING", "APPROVED", "REJECTED"}]
  /\ unitOf \in [Requests -> Units \cup {NoUnit}]
  /\ madeFor \in [Units -> Requests \cup {NoRequest}]
  /\ has \in [Units -> SUBSET Parts]
  /\ deleted \subseteq Units
  /\ op \in [Operators -> [step : {"idle", "reject"} \cup Early \cup Late,
                           req : Requests \cup {NoRequest}, unit : Units \cup {NoUnit}]]
  /\ admin \in [Admins -> [step : {"idle", "assignments", "delete"},
                           req : {NoRequest}, unit : Units \cup {NoUnit}]]
  /\ \A r \in Requests : status[r] \in {"PROVISIONING", "APPROVED"} => unitOf[r] \in Units
  /\ \A o \in Operators :
       /\ op[o] = Idle \/ op[o].req \in Requests
       /\ op[o].step \notin {"idle", "reject", "unit"} => op[o].unit \in Units
  /\ \A a \in Admins : admin[a] = Idle \/ admin[a].unit \in Units

\* However many calls took part in it, crashed and were repeated, an approved
\* request has its congregation, whole.
ApprovedComplete ==
  \A r \in Requests :
    status[r] = "APPROVED" =>
      \E u \in Units : unitOf[r] = u /\ madeFor[u] = r /\ Congregation \subseteq has[u]

\* Authority over a unit comes only with the request that holds it: neither a
\* rejected request nor a unit orphaned on the way leaves anyone an admin.
GrantOnlyWithRequest ==
  \A u \in Units :
    {"holder", "grant"} \cap has[u] # {} =>
      /\ madeFor[u] \in Requests
      /\ unitOf[madeFor[u]] = u
      /\ status[madeFor[u]] \in {"PROVISIONING", "APPROVED"}

\* To its submitter, a request behaves as RequestLifecycle says.
Lifecycle == INSTANCE RequestLifecycle
ImplementsLifecycle == Lifecycle!Spec

\* Once it has its unit, a request is approved, if someone keeps asking.
ProvisioningEnds ==
  \A r \in Requests : status[r] = "PROVISIONING" ~> status[r] = "APPROVED"

\* "A retry resumes from the real unit instead of creating a second org"
\* (docs/modules/registration.md, and Approve's comment).
OneUnitPerRequest ==
  \A r \in Requests : Cardinality({u \in Units : madeFor[u] = r}) <= 1

\* DeleteUnit is "orphan-protecting against child units, active role
\* assignments, and an existing religion org profile" (core, DeleteUnit).
DeletedHasNothing == \A u \in deleted : {"profile", "grant"} \cap has[u] = {}
=============================================================================
