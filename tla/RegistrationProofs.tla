-------------------------- MODULE RegistrationProofs --------------------------
(***************************************************************************)
(* For any number of requests, units, operators and admins: an approved    *)
(* request has its whole congregation, authority comes only with the       *)
(* request, and a request's life is the one RequestLifecycle describes.    *)
(***************************************************************************)
EXTENDS RegistrationApproval, TLAPS

\* What a call that is about to take a step knows to be there already.
Before(step) ==
  CASE step = "classify"                       -> {"profile"}
    [] step \in {"log unit", "mark", "sites", "site"} -> {"profile", "classification"}
    [] step = "position"                       -> {"profile", "classification", "site"}
    [] step = "fill"                           -> {"profile", "classification", "site", "position"}
    [] step = "grant"                          -> Congregation \ {"grant"}
    [] step \in {"log grant", "approve"}       -> Congregation
    [] OTHER                                   -> {}

\* A call past the creation works on a unit made for its request; once past
\* the status update, that unit is the request's.
OnTrack(call) ==
  /\ call.step \in (Early \cup Late) \ {"unit"} =>
       madeFor[call.unit] = call.req /\ Before(call.step) \subseteq has[call.unit]
  /\ call.step \in Late =>
       unitOf[call.req] = call.unit /\ status[call.req] \in {"PROVISIONING", "APPROVED"}

CallsOnTrack == \A o \in Operators : OnTrack(op[o])

\* The calls TypeOK allows.
Calls == [step : {"idle", "reject"} \cup Early \cup Late,
          req : Requests \cup {NoRequest}, unit : Units \cup {NoUnit}]

WellFormed(call) ==
  /\ call \in Calls
  /\ call = Idle \/ call.req \in Requests
  /\ call.step \notin {"idle", "reject", "unit"} => call.unit \in Units

\* A request has a unit just when it has started to be provisioned: one made
\* for it, with its profile.
RequestsHaveTheirUnit ==
  \A r \in Requests :
    /\ status[r] \in {"PROVISIONING", "APPROVED"} =>
         /\ madeFor[unitOf[r]] = r
         /\ {"profile", "classification"} \subseteq has[unitOf[r]]
    /\ status[r] \in {"NONE", "PENDING", "REJECTED"} => unitOf[r] = NoUnit

IInv ==
  /\ TypeOK
  /\ CallsOnTrack
  /\ RequestsHaveTheirUnit
  /\ ApprovedComplete
  /\ GrantOnlyWithRequest

LEMMA InitInvariant == Init => IInv
<1> SUFFICES ASSUME Init
             PROVE  IInv
  OBVIOUS
<1>1. /\ \A r \in Requests : status[r] = "NONE" /\ unitOf[r] = NoUnit
      /\ \A u \in Units : has[u] = {}
      /\ \A o \in Operators : op[o] = Idle
      /\ \A a \in Admins : admin[a] = Idle
  BY DEF Init
<1>2. TypeOK
  <2>1. op \in [Operators -> [step : {"idle", "reject"} \cup Early \cup Late,
                             req : Requests \cup {NoRequest}, unit : Units \cup {NoUnit}]]
    BY DEF Init, Idle
  <2>2. admin \in [Admins -> [step : {"idle", "assignments", "delete"},
                             req : {NoRequest}, unit : Units \cup {NoUnit}]]
    BY DEF Init, Idle
  <2>3. \A o \in Operators : op[o].step = "idle"
    BY <1>1 DEF Idle
  <2> QED BY <1>1, <2>1, <2>2, <2>3 DEF Init, TypeOK
<1>3. CallsOnTrack
  <2>1. \A o \in Operators : op[o].step = "idle"
    BY <1>1 DEF Idle
  <2>2. "idle" \notin Early \cup Late
    BY DEF Early, Late
  <2> QED BY <2>1, <2>2 DEF CallsOnTrack, OnTrack
<1> QED BY <1>1, <1>2, <1>3 DEF IInv, RequestsHaveTheirUnit, ApprovedComplete, GrantOnlyWithRequest

-----------------------------------------------------------------------------
\* A step that adds a row and keeps to its side of the status update, with what
\* its next step relies on in place, keeps the invariant.
LEMMA EnsureKeeps ==
  ASSUME IInv,
         NEW o \in Operators, NEW step, NEW part \in Parts, NEW next,
         Ensure(o, step, part, next),
         \/ step \in Early \ {"unit"} /\ next \in Early \ {"unit"} /\ part \notin {"holder", "grant"}
         \/ step \in Late /\ next \in Late,
         Before(next) \subseteq Before(step) \cup {part}
  PROVE  IInv'
<1> DEFINE u == op[o].unit
           r == op[o].req
<1>0. step \in (Early \cup Late) \ {"unit"} /\ step \notin {"idle", "reject", "unit"}
  BY DEF Early, Late
<1>1. /\ op[o].step = step /\ u \in Units /\ r \in Requests
      /\ op' = [op EXCEPT ![o].step = next]
      /\ has' = [has EXCEPT ![u] = @ \cup {part}]
      /\ UNCHANGED <<status, unitOf, madeFor, deleted, admin>>
  <2>1. /\ op[o].step = step
        /\ op' = [op EXCEPT ![o].step = next]
        /\ has' = [has EXCEPT ![u] = @ \cup {part}]
        /\ UNCHANGED <<status, unitOf, madeFor, deleted, admin>>
    BY DEF Ensure, At, Goto, requests
  <2>2. op[o] # Idle
    BY <1>0, <2>1 DEF Idle
  <2>3. u \in Units /\ r \in Requests
    BY <1>0, <2>1, <2>2 DEF IInv, TypeOK
  <2> QED BY <2>1, <2>3
<1>2. madeFor[u] = r /\ Before(step) \subseteq has[u]
  BY <1>0, <1>1 DEF IInv, CallsOnTrack, OnTrack
<1>3. /\ \A v \in Units : has[v] \subseteq has'[v]
      /\ part \in has'[u]
      /\ \A v \in Units : v # u => has'[v] = has[v]
      /\ has'[u] = has[u] \cup {part}
      /\ has' \in [Units -> SUBSET Parts]
  BY <1>1 DEF IInv, TypeOK
<1>4. /\ op'[o] = [op[o] EXCEPT !.step = next]
      /\ op'[o].step = next /\ op'[o].unit = u /\ op'[o].req = r
      /\ \A q \in Operators : q # o => op'[q] = op[q]
  BY <1>1 DEF IInv, TypeOK
<1>5. TypeOK'
  <2>1. op' \in [Operators -> [step : {"idle", "reject"} \cup Early \cup Late,
                               req : Requests \cup {NoRequest}, unit : Units \cup {NoUnit}]]
    BY <1>1 DEF IInv, TypeOK
  <2>2. \A q \in Operators : op'[q] = Idle \/ op'[q].req \in Requests
    BY <1>1, <1>4 DEF IInv, TypeOK
  <2>3. \A q \in Operators :
          op'[q].step \notin {"idle", "reject", "unit"} => op'[q].unit \in Units
    BY <1>1, <1>4 DEF IInv, TypeOK
  <2> QED BY <1>1, <1>3, <2>1, <2>2, <2>3 DEF IInv, TypeOK
<1>6. CallsOnTrack'
  <2> SUFFICES ASSUME NEW q \in Operators
               PROVE  /\ op'[q].step \in (Early \cup Late) \ {"unit"} =>
                           madeFor[op'[q].unit] = op'[q].req
                           /\ Before(op'[q].step) \subseteq has'[op'[q].unit]
                      /\ op'[q].step \in Late =>
                           unitOf[op'[q].req] = op'[q].unit
                           /\ status[op'[q].req] \in {"PROVISIONING", "APPROVED"}
    BY <1>1 DEF CallsOnTrack, OnTrack, Before, Congregation
  <2>1. CASE q = o
    <3>1. next \in Late => step \in Late
      BY DEF Early, Late
    <3> QED BY <1>1, <1>2, <1>3, <1>4, <2>1, <3>1 DEF IInv, CallsOnTrack, OnTrack
  <2>2. CASE q # o
    <3>1. op[q].step \in (Early \cup Late) \ {"unit"} => op[q].unit \in Units
      BY DEF IInv, TypeOK, Early, Late
    <3> QED BY <1>3, <1>4, <2>2, <3>1 DEF IInv, CallsOnTrack, OnTrack
  <2> QED BY <2>1, <2>2
<1>7. RequestsHaveTheirUnit'
  <2>1. \A x \in Requests : status[x] \in {"PROVISIONING", "APPROVED"} => unitOf[x] \in Units
    BY DEF IInv, TypeOK
  <2> QED BY <1>1, <1>3, <2>1 DEF IInv, RequestsHaveTheirUnit
<1>8. ApprovedComplete'
  BY <1>1, <1>3 DEF IInv, ApprovedComplete
<1>9. GrantOnlyWithRequest'
  <2>1. part \in {"holder", "grant"} =>
          madeFor[u] \in Requests /\ unitOf[r] = u /\ status[r] \in {"PROVISIONING", "APPROVED"}
    BY <1>1, <1>2 DEF IInv, CallsOnTrack, OnTrack
  <2> SUFFICES ASSUME NEW v \in Units, {"holder", "grant"} \cap has'[v] # {}
               PROVE  /\ madeFor[v] \in Requests /\ unitOf[madeFor[v]] = v
                      /\ status[madeFor[v]] \in {"PROVISIONING", "APPROVED"}
    BY <1>1 DEF GrantOnlyWithRequest
  <2>2. CASE {"holder", "grant"} \cap has[v] # {}
    BY <2>2 DEF IInv, GrantOnlyWithRequest
  <2>3. CASE {"holder", "grant"} \cap has[v] = {}
    <3>1. v = u /\ part \in {"holder", "grant"}
      BY <1>3, <2>3
    <3> QED BY <1>2, <2>1, <3>1
  <2> QED BY <2>2, <2>3
<1> QED BY <1>5, <1>6, <1>7, <1>8, <1>9 DEF IInv

\* A step that changes nothing but the call itself, to a call on track.
LEMMA CallMoves ==
  ASSUME IInv,
         NEW o \in Operators, NEW call, WellFormed(call), OnTrack(call),
         op' = [op EXCEPT ![o] = call],
         UNCHANGED <<status, unitOf, madeFor, has, admin>>, deleted' \subseteq Units
  PROVE  IInv'
<1>1. /\ op'[o] = call
      /\ \A q \in Operators : q # o => op'[q] = op[q]
  BY DEF IInv, TypeOK
<1>2. TypeOK'
  <2>1. op' \in [Operators -> Calls]
    BY DEF IInv, TypeOK, WellFormed, Calls
  <2>2. \A q \in Operators :
          /\ op'[q] = Idle \/ op'[q].req \in Requests
          /\ op'[q].step \notin {"idle", "reject", "unit"} => op'[q].unit \in Units
    BY <1>1 DEF IInv, TypeOK, WellFormed
  <2> QED BY <2>1, <2>2 DEF IInv, TypeOK, Calls
<1>3. CallsOnTrack'
  <2> SUFFICES ASSUME NEW q \in Operators
               PROVE  OnTrack(op[q])'
    BY DEF CallsOnTrack
  <2>1. CASE q = o
    BY <1>1, <2>1 DEF OnTrack, Before, Congregation
  <2>2. CASE q # o
    BY <1>1, <2>2 DEF IInv, CallsOnTrack, OnTrack, Before, Congregation
  <2> QED BY <2>1, <2>2
<1>4. RequestsHaveTheirUnit' /\ ApprovedComplete' /\ GrantOnlyWithRequest'
  BY DEF IInv, RequestsHaveTheirUnit, ApprovedComplete, GrantOnlyWithRequest
<1> QED BY <1>2, <1>3, <1>4 DEF IInv

LEMMA IdleOnTrack == WellFormed(Idle) /\ OnTrack(Idle)
<1>1. Idle \in Calls
  BY DEF Idle, Calls
<1> QED BY <1>1 DEF Idle, WellFormed, OnTrack, Early, Late

\* A call that ends, with the request as it was.
LEMMA ReturnKeeps ==
  ASSUME IInv, NEW o \in Operators, Return(o), UNCHANGED <<status, unitOf, madeFor, has, deleted, admin>>
  PROVE  IInv'
<1>1. deleted' \subseteq Units
  BY DEF IInv, TypeOK
<1> QED BY <1>1, CallMoves, IdleOnTrack DEF Return

-----------------------------------------------------------------------------
LEMMA StartApproveKeeps ==
  ASSUME IInv, NEW o \in Operators, NEW r \in Requests, StartApprove(o, r)
  PROVE  IInv'
<1> DEFINE call == [step |-> IF status[r] = "PROVISIONING" THEN "sites" ELSE "unit",
                    req |-> r, unit |-> unitOf[r]]
<1>1. /\ op' = [op EXCEPT ![o] = call]
      /\ UNCHANGED <<status, unitOf, madeFor, has, deleted, admin>>
  BY DEF StartApprove, requests
<1>2. unitOf[r] \in Units \cup {NoUnit} /\ deleted' \subseteq Units
  BY <1>1 DEF IInv, TypeOK
<1>3. CASE status[r] = "PROVISIONING"
  <2>1. unitOf[r] \in Units /\ madeFor[unitOf[r]] = r
        /\ {"profile", "classification"} \subseteq has[unitOf[r]]
    BY <1>3 DEF IInv, TypeOK, RequestsHaveTheirUnit
  <2>2. call.step = "sites" /\ call.req = r /\ call.unit = unitOf[r] /\ call \in Calls
    BY <1>2, <1>3 DEF Calls, Late
  <2>3. WellFormed(call)
    BY <2>1, <2>2 DEF WellFormed
  <2>4. OnTrack(call)
    BY <1>3, <2>1, <2>2 DEF OnTrack, Before
  <2> QED BY <1>1, <1>2, <2>3, <2>4, CallMoves
<1>4. CASE status[r] # "PROVISIONING"
  <2>1. call.step = "unit" /\ call.req = r /\ call \in Calls
    BY <1>2, <1>4 DEF Calls, Early
  <2>2. WellFormed(call)
    BY <2>1 DEF WellFormed
  <2>3. OnTrack(call)
    BY <2>1 DEF OnTrack, Late
  <2> QED BY <1>1, <1>2, <2>2, <2>3, CallMoves
<1> QED BY <1>3, <1>4

LEMMA StartRejectKeeps ==
  ASSUME IInv, NEW o \in Operators, NEW r \in Requests, StartReject(o, r)
  PROVE  IInv'
<1> DEFINE call == [step |-> "reject", req |-> r, unit |-> NoUnit]
<1>1. /\ op' = [op EXCEPT ![o] = call]
      /\ UNCHANGED <<status, unitOf, madeFor, has, deleted, admin>>
  BY DEF StartReject, requests
<1>2. deleted' \subseteq Units
  BY <1>1 DEF IInv, TypeOK
<1>3. WellFormed(call)
  BY DEF WellFormed, Calls
<1>4. OnTrack(call)
  BY DEF OnTrack, Early, Late
<1> QED BY <1>1, <1>2, <1>3, <1>4, CallMoves

LEMMA ListSitesKeeps ==
  ASSUME IInv, NEW o \in Operators, ListSites(o)
  PROVE  IInv'
<1> DEFINE next == IF "site" \in has[op[o].unit] THEN "position" ELSE "site"
           call == [op[o] EXCEPT !.step = next]
<1>1. /\ op[o].step = "sites"
      /\ op' = [op EXCEPT ![o].step = next]
      /\ UNCHANGED <<status, unitOf, madeFor, has, deleted, admin>>
  BY DEF ListSites, At, Goto, requests
<1>2. op[o] \in Calls /\ deleted' \subseteq Units
  BY <1>1 DEF IInv, TypeOK, Calls
<1>3. op' = [op EXCEPT ![o] = call]
  BY <1>1 DEF IInv, TypeOK
<1>4. call.step = next /\ call.req = op[o].req /\ call.unit = op[o].unit /\ call \in Calls
  BY <1>2 DEF Calls, Late
<1>5. op[o].unit \in Units /\ op[o].req \in Requests
  BY <1>1 DEF IInv, TypeOK, Idle
<1>6. WellFormed(call)
  BY <1>4, <1>5 DEF WellFormed
<1>7. /\ madeFor[op[o].unit] = op[o].req /\ Before("sites") \subseteq has[op[o].unit]
      /\ unitOf[op[o].req] = op[o].unit /\ status[op[o].req] \in {"PROVISIONING", "APPROVED"}
  <2>1. "sites" \in (Early \cup Late) \ {"unit"} /\ "sites" \in Late
    BY DEF Early, Late
  <2> QED BY <1>1, <2>1 DEF IInv, CallsOnTrack, OnTrack
<1>8. Before(next) \subseteq has[op[o].unit]
  BY <1>7 DEF Before
<1>9. OnTrack(call)
  BY <1>4, <1>7, <1>8 DEF OnTrack
<1> QED BY <1>1, <1>2, <1>3, <1>6, <1>9, CallMoves
LEMMA CreateUnitKeeps ==
  ASSUME IInv, NEW o \in Operators, CreateUnitWithEdge(o)
  PROVE  IInv'
<1>1. PICK u \in Units :
        /\ madeFor[u] = NoRequest
        /\ madeFor' = [madeFor EXCEPT ![u] = op[o].req]
        /\ op' = [op EXCEPT ![o].step = "profile", ![o].unit = u]
  BY DEF CreateUnitWithEdge
<1>2. op[o].step = "unit" /\ UNCHANGED <<status, unitOf, has, deleted, admin>>
  BY DEF CreateUnitWithEdge, At, requests
<1>3. op[o] \in Calls /\ op[o].req \in Requests
  BY <1>2 DEF IInv, TypeOK, Calls, Idle
<1>4. /\ op'[o].step = "profile" /\ op'[o].unit = u /\ op'[o].req = op[o].req
      /\ \A q \in Operators : q # o => op'[q] = op[q]
      /\ op' \in [Operators -> Calls]
  <2>1. op \in [Operators -> Calls]
    BY DEF IInv, TypeOK, Calls
  <2>2. op' = [op EXCEPT ![o] = [op[o] EXCEPT !.step = "profile", !.unit = u]]
    BY <1>1, <2>1
  <2>3. [op[o] EXCEPT !.step = "profile", !.unit = u] \in Calls
    BY <1>3 DEF Calls, Early
  <2>4. /\ [op[o] EXCEPT !.step = "profile", !.unit = u].step = "profile"
        /\ [op[o] EXCEPT !.step = "profile", !.unit = u].unit = u
        /\ [op[o] EXCEPT !.step = "profile", !.unit = u].req = op[o].req
    BY <1>3 DEF Calls
  <2> QED BY <2>1, <2>2, <2>3, <2>4
<1>5. /\ madeFor'[u] = op[o].req
      /\ \A v \in Units : v # u => madeFor'[v] = madeFor[v]
      /\ madeFor' \in [Units -> Requests \cup {NoRequest}]
  BY <1>1, <1>3 DEF IInv, TypeOK
\* The unit is new: nothing that is there already speaks of it.
<1>6. \A v \in Units : madeFor[v] \in Requests => v # u
  BY <1>1, ApprovalAssumption
<1>7. TypeOK'
  <2>1. \A q \in Operators :
          /\ op'[q] = Idle \/ op'[q].req \in Requests
          /\ op'[q].step \notin {"idle", "reject", "unit"} => op'[q].unit \in Units
    BY <1>3, <1>4 DEF IInv, TypeOK
  <2> QED BY <1>2, <1>4, <1>5, <2>1 DEF IInv, TypeOK, Calls
<1>8. CallsOnTrack'
  <2> SUFFICES ASSUME NEW q \in Operators
               PROVE  OnTrack(op[q])'
    BY DEF CallsOnTrack
  <2>1. CASE q = o
    <3>1. "profile" \notin Late /\ Before("profile") = {}
      BY DEF Late, Before
    <3> QED BY <1>4, <1>5, <2>1, <3>1 DEF OnTrack, Before
  <2>2. CASE q # o
    <3>1. op[q].step \in (Early \cup Late) \ {"unit"} =>
            op[q].unit \in Units /\ madeFor[op[q].unit] \in Requests
      <4>1. "idle" \notin Early \cup Late /\ "reject" \notin Early \cup Late
        BY DEF Early, Late
      <4>2. op[q].step \in (Early \cup Late) \ {"unit"} =>
              op[q].unit \in Units /\ op[q].req \in Requests
        BY <4>1 DEF IInv, TypeOK, Idle
      <4> QED BY <4>2 DEF IInv, CallsOnTrack, OnTrack
    <3>2. op[q].step \in (Early \cup Late) \ {"unit"} =>
            madeFor'[op[q].unit] = madeFor[op[q].unit]
      BY <1>5, <1>6, <3>1
    <3>3. OnTrack(op[q])
      BY DEF IInv, CallsOnTrack
    <3> QED BY <1>2, <1>4, <2>2, <3>2, <3>3 DEF OnTrack, Before, Congregation
  <2> QED BY <2>1, <2>2
<1>9. RequestsHaveTheirUnit' /\ ApprovedComplete'
  <2>1. \A x \in Requests : status[x] \in {"PROVISIONING", "APPROVED"} =>
          unitOf[x] \in Units /\ madeFor[unitOf[x]] = x
    BY DEF IInv, TypeOK, RequestsHaveTheirUnit
  <2> QED BY <1>2, <1>5, <1>6, <2>1 DEF IInv, RequestsHaveTheirUnit, ApprovedComplete
<1>10. GrantOnlyWithRequest'
  BY <1>2, <1>5, <1>6 DEF IInv, GrantOnlyWithRequest
<1> QED BY <1>7, <1>8, <1>9, <1>10 DEF IInv

\* The steps that only leave a row, each with what the next one relies on.
LEMMA EnsuresKeep ==
  ASSUME IInv, NEW o \in Operators,
         \/ SetOrgProfile(o) \/ AddOrgClassification(o) \/ RecordUnit(o)
         \/ EnsurePosition(o) \/ EnsureFilled(o) \/ RecordGrant(o)
  PROVE  IInv'
<1>1. CASE SetOrgProfile(o)
  <2>1. /\ "profile" \in Early \ {"unit"} /\ "classify" \in Early \ {"unit"} /\ "profile" \in Parts
        /\ Before("classify") \subseteq Before("profile") \cup {"profile"}
    BY DEF Early, Parts, Before
  <2> QED BY <1>1, <2>1, EnsureKeeps DEF SetOrgProfile
<1>2. CASE AddOrgClassification(o)
  <2>1. /\ "classify" \in Early \ {"unit"} /\ "log unit" \in Early \ {"unit"} /\ "classification" \in Parts
        /\ Before("log unit") \subseteq Before("classify") \cup {"classification"}
    BY DEF Early, Parts, Before
  <2> QED BY <1>2, <2>1, EnsureKeeps DEF AddOrgClassification
<1>3. CASE RecordUnit(o)
  <2>1. /\ "log unit" \in Early \ {"unit"} /\ "mark" \in Early \ {"unit"} /\ "unit logged" \in Parts
        /\ Before("mark") \subseteq Before("log unit") \cup {"unit logged"}
    BY DEF Early, Parts, Before
  <2> QED BY <1>3, <2>1, EnsureKeeps DEF RecordUnit
<1>4. CASE EnsurePosition(o)
  <2>1. /\ "position" \in Late /\ "fill" \in Late /\ "position" \in Parts
        /\ Before("fill") \subseteq Before("position") \cup {"position"}
    BY DEF Late, Parts, Before
  <2> QED BY <1>4, <2>1, EnsureKeeps DEF EnsurePosition
<1>5. CASE EnsureFilled(o)
  <2>1. /\ "fill" \in Late /\ "grant" \in Late /\ "holder" \in Parts
        /\ Before("grant") \subseteq Before("fill") \cup {"holder"}
    BY DEF Late, Parts, Before, Congregation
  <2> QED BY <1>5, <2>1, EnsureKeeps DEF EnsureFilled
<1>6. CASE RecordGrant(o)
  <2>1. /\ "log grant" \in Late /\ "approve" \in Late /\ "grant logged" \in Parts
        /\ Before("approve") \subseteq Before("log grant") \cup {"grant logged"}
    BY DEF Late, Parts, Before
  <2> QED BY <1>6, <2>1, EnsureKeeps DEF RecordGrant
<1> QED BY <1>1, <1>2, <1>3, <1>4, <1>5, <1>6

\* The grant, whichever step comes after it.
LEMMA EnsureGrantKeeps ==
  ASSUME IInv, NEW o \in Operators, EnsureGrant(o)
  PROVE  IInv'
<1>1. /\ "grant" \in Late /\ "log grant" \in Late /\ "approve" \in Late /\ "grant" \in Parts
      /\ Before("approve") \subseteq Before("grant") \cup {"grant"}
      /\ Before("log grant") \subseteq Before("grant") \cup {"grant"}
  BY DEF Late, Parts, Before, Congregation
<1>2. Ensure(o, "grant", "grant", "approve") \/ Ensure(o, "grant", "grant", "log grant")
  BY DEF EnsureGrant, Ensure, Goto
<1> QED BY <1>1, <1>2, EnsureKeeps

LEMMA CreateSiteKeeps ==
  ASSUME IInv, NEW o \in Operators, CreateSite(o)
  PROVE  IInv'
<1>1. CASE "site" \in has[op[o].unit]
  <2>1. Return(o) /\ UNCHANGED <<status, unitOf, madeFor, has, deleted, admin>>
    BY <1>1 DEF CreateSite, requests
  <2> QED BY <2>1, ReturnKeeps
<1>2. CASE "site" \notin has[op[o].unit]
  <2>1. Ensure(o, "site", "site", "position")
    BY <1>2 DEF CreateSite, Ensure
  <2>2. /\ "site" \in Late /\ "position" \in Late /\ "site" \in Parts
        /\ Before("position") \subseteq Before("site") \cup {"site"}
    BY DEF Late, Parts, Before
  <2> QED BY <2>1, <2>2, EnsureKeeps
<1> QED BY <1>1, <1>2
-----------------------------------------------------------------------------
\* A step that decides about a request: it is submitted or rejected, gets a unit
\* that is ready for it, or is approved with the unit it has.
LEMMA RequestMoves ==
  ASSUME IInv, NEW r \in Requests, NEW s, NEW u,
         status' = [status EXCEPT ![r] = s],
         unitOf' = [unitOf EXCEPT ![r] = u],
         UNCHANGED <<madeFor, has, deleted, admin>>,
         \/ status[r] \in {"NONE", "PENDING"} /\ s \in {"PENDING", "REJECTED"} /\ u = NoUnit
         \/ /\ status[r] = "PENDING" /\ s = "PROVISIONING"
            /\ u \in Units /\ madeFor[u] = r /\ {"profile", "classification"} \subseteq has[u]
         \/ /\ status[r] = "PROVISIONING" /\ s = "APPROVED"
            /\ u = unitOf[r] /\ Congregation \subseteq has[u],
         op' \in [Operators -> Calls],
         \A q \in Operators :
           \/ op'[q] = op[q]
           \/ op'[q] = Idle
           \/ op'[q].step = "sites" /\ op'[q].req = r /\ op'[q].unit = u /\ s = "PROVISIONING"
  PROVE  IInv'
<1>1. /\ status'[r] = s /\ unitOf'[r] = u
      /\ \A x \in Requests : x # r => status'[x] = status[x] /\ unitOf'[x] = unitOf[x]
      /\ s \in {"PENDING", "REJECTED", "PROVISIONING", "APPROVED"}
      /\ u \in Units \cup {NoUnit}
  BY DEF IInv, TypeOK
<1>2. TypeOK'
  <2>1. /\ status' \in [Requests -> {"NONE", "PENDING", "PROVISIONING", "APPROVED", "REJECTED"}]
        /\ unitOf' \in [Requests -> Units \cup {NoUnit}]
    BY <1>1 DEF IInv, TypeOK
  <2>2. \A x \in Requests : status'[x] \in {"PROVISIONING", "APPROVED"} => unitOf'[x] \in Units
    BY <1>1 DEF IInv, TypeOK
  <2>3. \A q \in Operators :
          /\ op'[q] = Idle \/ op'[q].req \in Requests
          /\ op'[q].step \notin {"idle", "reject", "unit"} => op'[q].unit \in Units
    <3> SUFFICES ASSUME NEW q \in Operators
                 PROVE  /\ op'[q] = Idle \/ op'[q].req \in Requests
                        /\ op'[q].step \notin {"idle", "reject", "unit"} => op'[q].unit \in Units
      OBVIOUS
    <3>1. CASE op'[q] = op[q]
      BY <3>1 DEF IInv, TypeOK
    <3>2. CASE op'[q] = Idle
      BY <3>2 DEF Idle
    <3>3. CASE op'[q].req = r /\ op'[q].unit = u /\ s = "PROVISIONING"
      BY <1>1, <2>2, <3>3
    <3> QED BY <3>1, <3>2, <3>3
  <2> QED BY <2>1, <2>2, <2>3 DEF IInv, TypeOK, Calls
<1>3. CallsOnTrack'
  <2> SUFFICES ASSUME NEW q \in Operators
               PROVE  OnTrack(op[q])'
    BY DEF CallsOnTrack
  <2>1. "idle" \notin Early \cup Late
    BY DEF Early, Late
  <2>2. CASE op'[q] = Idle
    BY <2>1, <2>2 DEF OnTrack, Idle
  <2>3. CASE op'[q] = op[q]
    <3>1. OnTrack(op[q])
      BY DEF IInv, CallsOnTrack
    <3>2. op[q].step \in Late => op[q].req \in Requests
      BY <2>1 DEF IInv, TypeOK, Idle
    \* A late call's request has the unit the call has, so it is not one of the
    \* first two cases, and the third leaves the unit.
    <3>3. op[q].step \in Late =>
            unitOf'[op[q].req] = op[q].unit /\ status'[op[q].req] \in {"PROVISIONING", "APPROVED"}
      BY <1>1, <3>1, <3>2 DEF OnTrack
    <3> QED BY <2>3, <3>1, <3>3 DEF OnTrack, Before, Congregation
  <2>4. CASE op'[q].step = "sites" /\ op'[q].req = r /\ op'[q].unit = u /\ s = "PROVISIONING"
    <3>1. madeFor[u] = r /\ {"profile", "classification"} \subseteq has[u]
      BY <2>4
    <3> QED BY <1>1, <2>4, <3>1 DEF OnTrack, Before
  <2> QED BY <2>2, <2>3, <2>4
<1>4. RequestsHaveTheirUnit'
  BY <1>1 DEF IInv, RequestsHaveTheirUnit
<1>5. ApprovedComplete'
  <2>1. status[r] = "PROVISIONING" => unitOf[r] \in Units /\ madeFor[unitOf[r]] = r
    BY DEF IInv, TypeOK, RequestsHaveTheirUnit
  <2> SUFFICES ASSUME NEW x \in Requests, status'[x] = "APPROVED"
               PROVE  \E v \in Units : unitOf'[x] = v /\ madeFor[v] = x /\ Congregation \subseteq has[v]
    BY DEF ApprovedComplete, Congregation
  <2>2. CASE x = r
    BY <1>1, <2>1, <2>2
  <2>3. CASE x # r
    BY <1>1, <2>3 DEF IInv, ApprovedComplete
  <2> QED BY <2>2, <2>3
<1>6. GrantOnlyWithRequest'
  BY <1>1 DEF IInv, GrantOnlyWithRequest
<1> QED BY <1>2, <1>3, <1>4, <1>5, <1>6 DEF IInv

LEMMA SubmitKeeps ==
  ASSUME IInv, NEW r \in Requests, Submit(r)
  PROVE  IInv'
<1>1. status[r] = "NONE" /\ status' = [status EXCEPT ![r] = "PENDING"]
      /\ UNCHANGED <<unitOf, madeFor, has, deleted, op, admin>>
  BY DEF Submit
<1>2. unitOf[r] = NoUnit /\ unitOf' = [unitOf EXCEPT ![r] = NoUnit]
  BY <1>1 DEF IInv, TypeOK, RequestsHaveTheirUnit
<1>3. op' \in [Operators -> Calls] /\ \A q \in Operators : op'[q] = op[q]
  BY <1>1 DEF IInv, TypeOK, Calls
<1> QED BY <1>1, <1>2, <1>3, RequestMoves

\* What a call that ends leaves of the calls.
LEMMA ReturnMoves ==
  ASSUME IInv, NEW o \in Operators, Return(o)
  PROVE  op' \in [Operators -> Calls] /\ \A q \in Operators : op'[q] = op[q] \/ op'[q] = Idle
<1>1. op \in [Operators -> Calls]
  BY DEF IInv, TypeOK, Calls
<1> QED BY <1>1, IdleOnTrack DEF Return, WellFormed

LEMMA RejectKeeps ==
  ASSUME IInv, NEW o \in Operators, Reject(o)
  PROVE  IInv'
<1> DEFINE r == op[o].req
<1>1. /\ op[o].step = "reject" /\ Return(o)
      /\ UNCHANGED <<unitOf, madeFor, has, deleted, admin>>
  BY DEF Reject, At
<1>2. r \in Requests
  BY <1>1 DEF IInv, TypeOK, Idle
<1>3. CASE status[r] = "PENDING"
  <2>1. status' = [status EXCEPT ![r] = "REJECTED"]
    BY <1>3 DEF Reject
  <2>2. unitOf' = [unitOf EXCEPT ![r] = NoUnit]
    BY <1>1, <1>2, <1>3 DEF IInv, TypeOK, RequestsHaveTheirUnit
  <2> HIDE DEF r
  <2> QED BY <1>1, <1>2, <1>3, <2>1, <2>2, ReturnMoves, RequestMoves
<1>4. CASE status[r] # "PENDING"
  BY <1>1, <1>4, ReturnKeeps DEF Reject
<1> QED BY <1>3, <1>4

LEMMA MarkProvisioningKeeps ==
  ASSUME IInv, NEW o \in Operators, MarkProvisioning(o)
  PROVE  IInv'
<1> DEFINE r == op[o].req
           u == op[o].unit
<1>1. op[o].step = "mark" /\ UNCHANGED <<madeFor, has, deleted, admin>>
  BY DEF MarkProvisioning, At
<1>2. r \in Requests /\ u \in Units /\ op[o] \in Calls
  BY <1>1 DEF IInv, TypeOK, Calls, Idle
<1>3. CASE status[r] = "PENDING"
  <2>1. /\ status' = [status EXCEPT ![r] = "PROVISIONING"]
        /\ unitOf' = [unitOf EXCEPT ![r] = u]
        /\ op' = [op EXCEPT ![o].step = "sites"]
    BY <1>3 DEF MarkProvisioning, Goto
  <2>2. madeFor[u] = r /\ {"profile", "classification"} \subseteq has[u]
    <3>1. "mark" \in (Early \cup Late) \ {"unit"} /\ Before("mark") = {"profile", "classification"}
      BY DEF Early, Before
    <3> QED BY <1>1, <3>1 DEF IInv, CallsOnTrack, OnTrack
  <2>3. op' \in [Operators -> Calls]
    BY <1>2, <2>1 DEF IInv, TypeOK, Calls, Late
  <2>4. /\ op'[o].step = "sites" /\ op'[o].req = r /\ op'[o].unit = u
        /\ \A q \in Operators : q # o => op'[q] = op[q]
    BY <2>1 DEF IInv, TypeOK
  <2> HIDE DEF r, u
  <2> QED BY <1>1, <1>2, <1>3, <2>1, <2>2, <2>3, <2>4, RequestMoves
<1>4. CASE status[r] # "PENDING"
  BY <1>1, <1>4, ReturnKeeps DEF MarkProvisioning, requests
<1> QED BY <1>3, <1>4

\* What a call about to approve knows: the request and its whole congregation.
LEMMA ApproveKnows ==
  ASSUME IInv, NEW o \in Operators, At(o, "approve")
  PROVE  /\ op[o].req \in Requests /\ op[o].unit = unitOf[op[o].req]
         /\ status[op[o].req] \in {"PROVISIONING", "APPROVED"}
         /\ Congregation \subseteq has[op[o].unit]
<1>1. "approve" \in Late /\ "approve" \in (Early \cup Late) \ {"unit"} /\ Before("approve") = Congregation
  BY DEF Late, Before
<1> QED BY <1>1 DEF IInv, TypeOK, CallsOnTrack, OnTrack, At, Idle

LEMMA ApproveKeeps ==
  ASSUME IInv, NEW o \in Operators, Approve(o)
  PROVE  IInv'
<1> DEFINE r == op[o].req
           u == op[o].unit
<1>1. At(o, "approve") /\ Return(o) /\ UNCHANGED <<madeFor, has, deleted, admin>>
  BY DEF Approve
<1>2. /\ r \in Requests /\ u = unitOf[r] /\ status[r] \in {"PROVISIONING", "APPROVED"}
      /\ Congregation \subseteq has[u]
  BY <1>1, ApproveKnows
<1>3. CASE status[r] = "PROVISIONING"
  <2>1. status' = [status EXCEPT ![r] = "APPROVED"] /\ unitOf' = [unitOf EXCEPT ![r] = u]
    BY <1>3 DEF Approve
  <2> HIDE DEF r, u
  <2> QED BY <1>1, <1>2, <1>3, <2>1, ReturnMoves, RequestMoves
<1>4. CASE status[r] = "APPROVED"
  BY <1>1, <1>4, ReturnKeeps DEF Approve, requests
<1> QED BY <1>2, <1>3, <1>4
-----------------------------------------------------------------------------
\* An admin's steps touch only the admin's call and the set of deleted units.
LEMMA AdminKeeps ==
  ASSUME IInv, NEW a \in Admins,
         (\E u \in Units : CheckProfile(a, u)) \/ CheckAssignments(a) \/ SoftDeleteUnit(a)
  PROVE  IInv'
<1> DEFINE Deletes == [step : {"idle", "assignments", "delete"},
                       req : {NoRequest}, unit : Units \cup {NoUnit}]
<1>1. UNCHANGED <<status, unitOf, madeFor, has, op>>
  BY DEF CheckProfile, CheckAssignments, SoftDeleteUnit, AdminAt, requests
<1>2. Idle \in Deletes
  BY DEF Idle
<1>3. PICK call \in Deletes :
        /\ admin' = [admin EXCEPT ![a] = call]
        /\ call = Idle \/ call.unit \in Units
  <2>1. CASE \E u \in Units : CheckProfile(a, u)
    BY <2>1 DEF CheckProfile
  <2>2. CASE CheckAssignments(a)
    <3>1. admin[a] \in Deletes /\ admin[a].unit \in Units /\ admin[a].step = "assignments"
      BY <2>2 DEF CheckAssignments, AdminAt, IInv, TypeOK, Idle
    <3>2. [admin[a] EXCEPT !.step = "delete"] \in Deletes
          /\ [admin[a] EXCEPT !.step = "delete"].unit \in Units
      BY <3>1
    <3>3. \/ admin' = [admin EXCEPT ![a] = Idle]
          \/ admin' = [admin EXCEPT ![a] = [admin[a] EXCEPT !.step = "delete"]]
      BY <2>2 DEF CheckAssignments, AdminAt, IInv, TypeOK
    <3> QED BY <1>2, <3>2, <3>3
  <2>3. CASE SoftDeleteUnit(a)
    BY <1>2, <2>3 DEF SoftDeleteUnit, AdminAt
  <2> QED BY <2>1, <2>2, <2>3
<1>4. deleted' \subseteq Units
  <2>1. SoftDeleteUnit(a) => admin[a].unit \in Units
    BY DEF SoftDeleteUnit, AdminAt, IInv, TypeOK, Idle
  <2> QED BY <2>1 DEF CheckProfile, CheckAssignments, SoftDeleteUnit, IInv, TypeOK
<1>5. /\ admin' \in [Admins -> Deletes]
      /\ \A b \in Admins : admin'[b] = Idle \/ admin'[b].unit \in Units
  BY <1>3 DEF IInv, TypeOK
<1>6. TypeOK'
  BY <1>1, <1>4, <1>5 DEF IInv, TypeOK
<1> QED BY <1>1, <1>6 DEF IInv, CallsOnTrack, OnTrack, Before, Congregation, RequestsHaveTheirUnit,
                         ApprovedComplete, GrantOnlyWithRequest

LEMMA NextInvariant == IInv /\ [Next]_vars => IInv'
<1> SUFFICES ASSUME IInv, [Next]_vars
             PROVE  IInv'
  OBVIOUS
<1>1. ASSUME NEW r \in Requests, Submit(r)
      PROVE  IInv'
  BY <1>1, SubmitKeeps
<1>2. ASSUME NEW o \in Operators, NEW r \in Requests, StartApprove(o, r) \/ StartReject(o, r)
      PROVE  IInv'
  BY <1>2, StartApproveKeeps, StartRejectKeeps
<1>3. ASSUME NEW o \in Operators, Step(o)
      PROVE  IInv'
  BY <1>3, CreateUnitKeeps, EnsuresKeep, MarkProvisioningKeeps, ListSitesKeeps, CreateSiteKeeps,
     EnsureGrantKeeps, ApproveKeeps, RejectKeeps DEF Step
<1>4. ASSUME NEW o \in Operators, Crash(o)
      PROVE  IInv'
  BY <1>4, ReturnKeeps DEF Crash, requests
<1>5. ASSUME NEW a \in Admins,
             (\E u \in Units : CheckProfile(a, u)) \/ CheckAssignments(a) \/ SoftDeleteUnit(a)
      PROVE  IInv'
  BY <1>5, AdminKeeps
<1>6. CASE UNCHANGED vars
  BY <1>6 DEF vars, IInv, TypeOK, CallsOnTrack, OnTrack, Before, Congregation, RequestsHaveTheirUnit,
              ApprovedComplete, GrantOnlyWithRequest
<1> QED BY <1>1, <1>2, <1>3, <1>4, <1>5, <1>6 DEF Next

-----------------------------------------------------------------------------
\* Approval keeps every call and every request on track, whatever crashes,
\* repeats and runs side by side.
THEOREM Invariant == Spec => []IInv
BY InitInvariant, NextInvariant, PTL DEF Spec

\* The rows and the calls stay well formed; a decided or provisioned request
\* has the shape the table's CHECK asks for.
THEOREM TypeCorrect == Spec => []TypeOK
<1>1. IInv => TypeOK
  BY DEF IInv
<1> QED BY <1>1, Invariant, PTL

\* An approved request has a unit made for it, with profile, classification,
\* site, position, holder and grant, although every part commits by itself.
THEOREM ApprovedIsComplete == Spec => []ApprovedComplete
<1>1. IInv => ApprovedComplete
  BY DEF IInv
<1> QED BY <1>1, Invariant, PTL

\* A membership or an admin grant about a unit is there only if a request holds
\* that unit, provisioned or approved: rejected requests and orphaned units
\* give nobody authority.
THEOREM GrantsComeWithRequests == Spec => []GrantOnlyWithRequest
<1>1. IInv => GrantOnlyWithRequest
  BY DEF IInv
<1> QED BY <1>1, Invariant, PTL

-----------------------------------------------------------------------------
\* Every step decides a request the way RequestLifecycle allows, or is not
\* seen by its submitter at all.
LEMMA StepLifecycle == IInv /\ [Next]_vars => [Lifecycle!Next]_(Lifecycle!vars)
<1> SUFFICES ASSUME IInv, [Next]_vars, ~ UNCHANGED <<status, unitOf>>
             PROVE  Lifecycle!Next
  BY DEF Lifecycle!vars
<1>1. ASSUME NEW r \in Requests, Submit(r)
      PROVE  Lifecycle!Next
  BY <1>1 DEF Submit, Lifecycle!Next, Lifecycle!Submit, Lifecycle!To
<1>2. ASSUME NEW o \in Operators, MarkProvisioning(o)
      PROVE  Lifecycle!Next
  <2> DEFINE r == op[o].req
             u == op[o].unit
  <2>1. op[o].step = "mark"
    BY <1>2 DEF MarkProvisioning, At
  <2>2. r \in Requests /\ u \in Units
    BY <2>1 DEF IInv, TypeOK, Idle
  <2>3. /\ status[r] = "PENDING"
        /\ status' = [status EXCEPT ![r] = "PROVISIONING"]
        /\ unitOf' = [unitOf EXCEPT ![r] = u]
    BY <1>2 DEF MarkProvisioning, requests
  <2>4. madeFor[u] = r
    <3>1. "mark" \in (Early \cup Late) \ {"unit"}
      BY DEF Early
    <3> QED BY <2>1, <3>1 DEF IInv, CallsOnTrack, OnTrack
  \* Whoever had this unit would be the request it was made for, and that one
  \* has none yet.
  <2>5. \A other \in Requests : unitOf[other] # u
    <3> SUFFICES ASSUME NEW other \in Requests, unitOf[other] = u
                 PROVE  FALSE
      OBVIOUS
    <3>1. u # NoUnit
      BY <2>2, ApprovalAssumption
    <3>2. status[other] \in {"PROVISIONING", "APPROVED"}
      BY <3>1 DEF IInv, TypeOK, RequestsHaveTheirUnit
    <3>3. madeFor[u] = other
      BY <3>2 DEF IInv, RequestsHaveTheirUnit
    <3> QED BY <2>3, <2>4, <3>2, <3>3
  <2> HIDE DEF r, u
  <2> QED BY <2>2, <2>3, <2>5 DEF Lifecycle!Next, Lifecycle!Provision, Lifecycle!To
<1>3. ASSUME NEW o \in Operators, Approve(o)
      PROVE  Lifecycle!Next
  <2> DEFINE r == op[o].req
  <2>1. /\ r \in Requests /\ op[o].unit = unitOf[r]
        /\ status[r] \in {"PROVISIONING", "APPROVED"}
    BY <1>3, ApproveKnows DEF Approve
  <2>2. /\ status[r] = "PROVISIONING"
        /\ status' = [status EXCEPT ![r] = "APPROVED"]
        /\ unitOf' = [unitOf EXCEPT ![r] = op[o].unit]
    BY <1>3, <2>1 DEF Approve, requests
  <2>3. unitOf' = unitOf
    BY <2>1, <2>2 DEF IInv, TypeOK
  <2> HIDE DEF r
  <2> QED BY <2>1, <2>2, <2>3 DEF Lifecycle!Next, Lifecycle!Approve, Lifecycle!To
<1>4. ASSUME NEW o \in Operators, Reject(o)
      PROVE  Lifecycle!Next
  <2> DEFINE r == op[o].req
  <2>1. op[o].step = "reject"
    BY <1>4 DEF Reject, At
  <2>2. r \in Requests
    BY <2>1 DEF IInv, TypeOK, Idle
  <2>3. /\ status[r] = "PENDING" /\ status' = [status EXCEPT ![r] = "REJECTED"] /\ unitOf' = unitOf
    BY <1>4 DEF Reject
  <2> HIDE DEF r
  <2> QED BY <2>2, <2>3 DEF Lifecycle!Next, Lifecycle!Reject, Lifecycle!To
<1>5. ASSUME NEW o \in Operators, Step(o), ~ MarkProvisioning(o), ~ Approve(o), ~ Reject(o)
      PROVE  UNCHANGED <<status, unitOf>>
  BY <1>5 DEF Step, CreateUnitWithEdge, SetOrgProfile, AddOrgClassification, RecordUnit, ListSites,
              CreateSite, EnsurePosition, EnsureFilled, EnsureGrant, RecordGrant, Ensure, requests
<1>6. ASSUME NEW o \in Operators, NEW r \in Requests,
             StartApprove(o, r) \/ StartReject(o, r)
      PROVE  UNCHANGED <<status, unitOf>>
  BY <1>6 DEF StartApprove, StartReject, requests
<1>7. ASSUME NEW o \in Operators, Crash(o)
      PROVE  UNCHANGED <<status, unitOf>>
  BY <1>7 DEF Crash, requests
<1>8. ASSUME NEW a \in Admins,
             (\E u \in Units : CheckProfile(a, u)) \/ CheckAssignments(a) \/ SoftDeleteUnit(a)
      PROVE  UNCHANGED <<status, unitOf>>
  BY <1>8 DEF CheckProfile, CheckAssignments, SoftDeleteUnit, AdminAt, requests
<1> QED BY <1>1, <1>2, <1>3, <1>4, <1>5, <1>6, <1>7, <1>8 DEF Next, vars

\* Seen from the request alone, approval implements RequestLifecycle: one unit
\* of its own, set once and kept, and no decision taken back.
THEOREM Implements == Spec => ImplementsLifecycle
<1>1. Init => Lifecycle!Init
  BY DEF Init, Lifecycle!Init
<1> QED BY <1>1, Invariant, StepLifecycle, PTL DEF Spec, ImplementsLifecycle, Lifecycle!Spec
=============================================================================
