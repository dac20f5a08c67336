---------------------------- MODULE ImportProofs -----------------------------
(***************************************************************************)
(* For any number of connector runs, operators and units: a congregation   *)
(* an operator has verified is complete, and a decision stands but for a   *)
(* run that was on the record before it.                                   *)
(*                                                                         *)
(* For any source, whatever its hierarchy, and any number of syncs: the    *)
(* units that are made mirror it.                                          *)
(***************************************************************************)
EXTENDS CandidateImport, JurisdictionSync, TLAPS

\* What the unit of an approval has for certain, by how far the approval is.
Known ==
  \A o \in Operators : op[o].step \in OpSteps =>
    LET there == has[op[o].unit] IN
    /\ "unit" \in there
    /\ op[o].step # "profile" => "profile" \in there
    /\ op[o].step \notin {"profile", "classify"} => "classification" \in there
    /\ op[o].step \notin {"profile", "classify", "log"} => "logged" \in there
    /\ op[o].step \in {"verify", "done"} => "site" \in there
    /\ op[o].step = "done" => "status" \in there

IInv == TypeOK /\ Known /\ VerifiedIsComplete

LEMMA InitInvariant == Init => IInv
<1> SUFFICES ASSUME Init
             PROVE  IInv
  OBVIOUS
<1>1. /\ status \in Statuses /\ taxon \in Taxa /\ {located, country} \subseteq BOOLEAN
      /\ status = "ABSENT" /\ unitOf = NoUnit
  BY DEF Init, Statuses, Taxa
<1>2. has \in [Units -> SUBSET Parts] /\ \A u \in Units : has[u] = {}
  BY DEF Init
<1>3. run \in [Runs -> [step : RunSteps, waited : BOOLEAN, located : BOOLEAN, taxon : Taxa]]
  BY DEF Init, NoRun, RunSteps, Statuses, Taxa
<1>4. /\ op \in [Operators -> [step : {"idle", "unit"}, unit : {NoUnit}]]
      /\ \A o \in Operators : op[o].step = "idle"
  BY DEF Init, NoCall
<1>5. TypeOK
  BY <1>1, <1>2, <1>3, <1>4 DEF TypeOK
<1> QED BY <1>1, <1>2, <1>4, <1>5 DEF IInv, Known, VerifiedIsComplete, OpSteps

-----------------------------------------------------------------------------
\* A run touches nothing but the candidate's row, and makes no congregation of it.
LEMMA RunsKeepInvariant ==
  ASSUME IInv, NEW r \in Runs, RunStep(r)
  PROVE  IInv'
<1>1. /\ status' \in Statuses /\ taxon' \in Taxa /\ {located', country'} \subseteq BOOLEAN
      /\ status' \in {"PROVISIONING", "PROVISIONED"} => status' = status
  <2>1. CASE UpsertCandidate(r) \/ GetCandidateBySource(r) \/ SetCountryMatch(r)
    BY <2>1 DEF IInv, TypeOK, UpsertCandidate, GetCandidateBySource, SetCountryMatch, Unlocated, Statuses, InReview
  <2>2. CASE Unmatched(r) \/ SetTaxonMatch(r)
    BY <2>2 DEF IInv, TypeOK, Unmatched, SetTaxonMatch, SetStatus, Statuses, InReview, Rejected, Taxa
  <2>3. CASE RejectExcluded(r) \/ PossibleDuplicate(r) \/ NoObjection(r) \/ CrashRun(r)
    BY <2>3 DEF IInv, TypeOK, RejectExcluded, PossibleDuplicate, NoObjection, CrashRun, SetStatus, Unlocated,
                Statuses, InReview, Rejected
  <2> QED BY <2>1, <2>2, <2>3 DEF RunStep
<1>2. run' \in [Runs -> [step : RunSteps, waited : BOOLEAN, located : BOOLEAN, taxon : Taxa]]
  <2>1. CASE ~EndRecord(r) /\ (UpsertCandidate(r) \/ GetCandidateBySource(r) \/ SetCountryMatch(r))
    <3>1. PICK step \in RunSteps : run' = [run EXCEPT ![r] = [run[r] EXCEPT !.step = step]]
      BY <2>1 DEF UpsertCandidate, GetCandidateBySource, SetCountryMatch, RunGoto, RunSteps
    <3> QED BY <3>1 DEF IInv, TypeOK
  <2>2. CASE SetTaxonMatch(r)
    BY <2>2 DEF IInv, TypeOK, SetTaxonMatch, RunSteps
  <2>3. CASE EndRecord(r)
    BY <2>3 DEF IInv, TypeOK, EndRecord, NoRun, RunSteps, Statuses, Taxa
  <2> QED BY <2>1, <2>2, <2>3
          DEF RunStep, Unmatched, RejectExcluded, PossibleDuplicate, NoObjection, CrashRun, SetStatus
<1>3. UNCHANGED <<unitOf, has, op>>
  BY DEF RunStep, UpsertCandidate, GetCandidateBySource, SetCountryMatch, Unmatched, SetTaxonMatch, RejectExcluded, PossibleDuplicate,
         NoObjection, CrashRun, RunAt
<1> QED BY <1>1, <1>2, <1>3 DEF IInv, TypeOK, Known, VerifiedIsComplete

LEMMA ReviewKeepsInvariant ==
  ASSUME IInv, EditCandidate \/ RejectCandidate
  PROVE  IInv'
BY DEF IInv, TypeOK, Known, VerifiedIsComplete, EditCandidate, RejectCandidate, Statuses, InReview, Rejected, Taxa

-----------------------------------------------------------------------------
\* Where an approval can be, and where it can go.
LEMMA ApprovalGoesTo ==
  ASSUME TypeOK, NEW o \in Operators, NEW step \in OpSteps, op[o].step \in OpSteps, OpGoto(o, step)
  PROVE  /\ op' = [op EXCEPT ![o] = [step |-> step, unit |-> op[o].unit]]
         /\ op[o].unit \in Units
<1>1. op[o] \in [step : OpSteps, unit : Units]
  BY DEF TypeOK, OpSteps
<1>2. [op[o] EXCEPT !.step = step] = [step |-> step, unit |-> op[o].unit]
  BY <1>1
<1> QED BY <1>1, <1>2 DEF OpGoto, TypeOK

\* Rows about a unit are only ever added, and one call moves.
LEMMA AddKeepsInvariant ==
  ASSUME IInv, NEW o \in Operators,
         NEW step \in OpSteps, NEW part \in Parts, NEW next \in OpSteps,
         Add(o, step, part, next),
         \/ step = "profile" /\ part = "profile" /\ next = "classify"
         \/ step = "classify" /\ part = "classification" /\ next = "log"
         \/ step = "log" /\ part = "logged" /\ next = "mark"
         \/ step = "site" /\ part = "site" /\ next = "verify"
         \/ step = "verify" /\ part = "status" /\ next = "done"
  PROVE  IInv'
<1> DEFINE u == op[o].unit
<1>1. /\ op[o].step = step /\ u \in Units
      /\ op' = [op EXCEPT ![o] = [step |-> next, unit |-> u]]
  BY ApprovalGoesTo DEF IInv, Add, OpAt
<1>2. has' = [has EXCEPT ![u] = has[u] \union {part}] /\ UNCHANGED <<status, unitOf, taxon, located, country, run>>
  BY DEF Add, OpAt
<1>3. has' \in [Units -> SUBSET Parts] /\ \A v \in Units : has[v] \subseteq has'[v]
  BY <1>1, <1>2 DEF IInv, TypeOK
<1>4. TypeOK'
  BY <1>1, <1>2, <1>3 DEF IInv, TypeOK
<1>5. Known'
  <2> SUFFICES ASSUME NEW q \in Operators, op'[q].step \in OpSteps
               PROVE  LET there == has'[op'[q].unit] IN
                        /\ "unit" \in there
                        /\ op'[q].step # "profile" => "profile" \in there
                        /\ op'[q].step \notin {"profile", "classify"} => "classification" \in there
                        /\ op'[q].step \notin {"profile", "classify", "log"} => "logged" \in there
                        /\ op'[q].step \in {"verify", "done"} => "site" \in there
                        /\ op'[q].step = "done" => "status" \in there
    BY DEF Known
  <2>1. CASE q = o
    <3>1. op'[q].step = next /\ op'[q].unit = u /\ has'[u] = has[u] \union {part}
      BY <1>1, <1>2, <2>1 DEF IInv, TypeOK
    <3> QED BY <1>1, <3>1 DEF IInv, Known, OpSteps
  <2>2. CASE q # o
    <3>1. op'[q] = op[q] /\ op[q].unit \in Units
      BY <1>1, <2>2 DEF IInv, TypeOK, OpSteps
    <3> QED BY <1>3, <3>1 DEF IInv, Known
  <2> QED BY <2>1, <2>2
<1>6. VerifiedIsComplete'
  <2>1. ASSUME NEW v \in Units, "status" \in has'[v]
        PROVE  Congregation \union {"logged"} \subseteq has'[v]
    <3>1. CASE "status" \in has[v]
      BY <1>3, <3>1 DEF IInv, VerifiedIsComplete
    <3>2. CASE "status" \notin has[v]
      <4>1. v = u /\ part = "status" /\ step = "verify"
        BY <1>1, <1>2, <2>1, <3>2 DEF IInv, TypeOK
      <4>2. {"unit", "profile", "classification", "logged", "site"} \subseteq has[u]
        BY <1>1, <4>1 DEF IInv, Known, OpSteps
      <4> QED BY <1>3, <4>1, <4>2 DEF Congregation
    <3> QED BY <3>1, <3>2
  <2>2. status' = "PROVISIONED" => \E v \in Units : "status" \in has'[v]
    BY <1>2, <1>3 DEF IInv, VerifiedIsComplete
  <2> QED BY <2>1, <2>2 DEF VerifiedIsComplete
<1> QED BY <1>4, <1>5, <1>6 DEF IInv

\* The steps of an approval that leave what there is about units as it is.
LEMMA ReturnKeepsInvariant ==
  ASSUME IInv, NEW o \in Operators, Return(o), UNCHANGED <<unitOf, has, taxon, located, country, run>>,
         \/ status' = status
         \/ status' = "PROVISIONED" /\ status = "PROVISIONING" /\ op[o].step = "done"
  PROVE  IInv'
<1>1. op' \in [Operators -> [step : {"idle", "unit"}, unit : {NoUnit}] \union [step : OpSteps, unit : Units]]
  BY DEF IInv, TypeOK, Return, NoCall
<1>2. TypeOK'
  BY <1>1 DEF IInv, TypeOK, Statuses
<1>3. Known'
  BY DEF IInv, TypeOK, Known, Return, NoCall, OpSteps
<1>4. VerifiedIsComplete'
  <2>1. op[o].step = "done" => op[o].unit \in Units /\ "status" \in has[op[o].unit]
    BY DEF IInv, TypeOK, Known, OpSteps
  <2> QED BY <2>1 DEF IInv, VerifiedIsComplete
<1> QED BY <1>2, <1>3, <1>4 DEF IInv

LEMMA StartKeepsInvariant ==
  ASSUME IInv, NEW o \in Operators, StartApprove(o)
  PROVE  IInv'
<1>1. \/ op' = [op EXCEPT ![o] = [step |-> "unit", unit |-> NoUnit]]
      \/ /\ op' = [op EXCEPT ![o] = [step |-> "sites", unit |-> unitOf]]
         /\ unitOf \in Units /\ {"unit", "profile", "classification", "logged"} \subseteq has[unitOf]
  BY DEF IInv, TypeOK, StartApprove, InReview
<1>2. UNCHANGED <<status, unitOf, has, taxon, located, country, run>>
  BY DEF StartApprove, OpAt
<1>3. TypeOK'
  BY <1>1, <1>2 DEF IInv, TypeOK, OpSteps
<1>4. Known'
  BY <1>1, <1>2 DEF IInv, TypeOK, Known, OpSteps
<1> QED BY <1>2, <1>3, <1>4 DEF IInv, VerifiedIsComplete

LEMMA CreateKeepsInvariant ==
  ASSUME IInv, NEW o \in Operators, CreateUnit(o)
  PROVE  IInv'
<1>1. PICK u \in Units :
        /\ has[u] = {}
        /\ has' = [has EXCEPT ![u] = {"unit"}]
        /\ op' = [op EXCEPT ![o] = [step |-> "profile", unit |-> u]]
  BY DEF CreateUnit
<1>2. UNCHANGED <<status, unitOf, taxon, located, country, run>>
  BY DEF CreateUnit, OpAt
<1>3. has' \in [Units -> SUBSET Parts] /\ has'[u] = {"unit"} /\ \A v \in Units \ {u} : has'[v] = has[v]
  BY <1>1 DEF IInv, TypeOK, Parts
<1>4. unitOf # u
  BY <1>1, CandidateAssumption DEF IInv, TypeOK
<1>5. TypeOK'
  BY <1>1, <1>2, <1>3, CandidateAssumption DEF IInv, TypeOK, OpSteps
<1>6. Known'
  <2> SUFFICES ASSUME NEW q \in Operators, op'[q].step \in OpSteps, q # o
               PROVE  op'[q] = op[q] /\ has'[op[q].unit] = has[op[q].unit]
    BY <1>1, <1>3 DEF IInv, TypeOK, Known, OpSteps
  <2>1. op'[q] = op[q] /\ op[q].unit \in Units
    BY <1>1 DEF IInv, TypeOK, OpSteps
  <2>2. op[q].unit # u
    BY <1>1, <2>1 DEF IInv, Known
  <2> QED BY <1>3, <2>1, <2>2
<1>7. VerifiedIsComplete'
  BY <1>1, <1>2, <1>3 DEF IInv, VerifiedIsComplete
<1> QED BY <1>5, <1>6, <1>7 DEF IInv

LEMMA MarkKeepsInvariant ==
  ASSUME IInv, NEW o \in Operators, MarkProvisioning(o), ~Return(o)
  PROVE  IInv'
<1>1. /\ op[o].step = "mark" /\ OpGoto(o, "sites")
      /\ status' = "PROVISIONING" /\ unitOf' = op[o].unit
      /\ UNCHANGED <<has, taxon, located, country, run>>
  BY DEF MarkProvisioning, OpAt
<1>2. op' = [op EXCEPT ![o] = [step |-> "sites", unit |-> op[o].unit]] /\ op[o].unit \in Units
  BY <1>1, ApprovalGoesTo DEF IInv, OpSteps
<1>3. {"unit", "profile", "classification", "logged"} \subseteq has[op[o].unit]
  BY <1>1 DEF IInv, Known, OpSteps
<1>4. TypeOK'
  BY <1>1, <1>2, <1>3, CandidateAssumption DEF IInv, TypeOK, Statuses, OpSteps
<1>5. Known'
  BY <1>1, <1>2, <1>3 DEF IInv, TypeOK, Known, OpSteps
<1> QED BY <1>1, <1>4, <1>5 DEF IInv, VerifiedIsComplete

LEMMA ListKeepsInvariant ==
  ASSUME IInv, NEW o \in Operators, ListSites(o)
  PROVE  IInv'
<1> DEFINE next == IF "site" \in has[op[o].unit] THEN "verify" ELSE "site"
<1>1. op[o].step = "sites" /\ OpGoto(o, next) /\ UNCHANGED <<status, unitOf, has, taxon, located, country, run>>
  BY DEF ListSites, OpAt
<1>2. op' = [op EXCEPT ![o] = [step |-> next, unit |-> op[o].unit]] /\ op[o].unit \in Units
  BY <1>1, ApprovalGoesTo DEF IInv, OpSteps
<1>3. {"unit", "profile", "classification", "logged"} \subseteq has[op[o].unit]
  BY <1>1 DEF IInv, Known, OpSteps
<1>4. TypeOK'
  BY <1>1, <1>2 DEF IInv, TypeOK, OpSteps
<1>5. Known'
  BY <1>1, <1>2, <1>3 DEF IInv, TypeOK, Known, OpSteps
<1> QED BY <1>1, <1>4, <1>5 DEF IInv, VerifiedIsComplete

LEMMA ApprovalsKeepInvariant ==
  ASSUME IInv, NEW o \in Operators, ApproveStep(o)
  PROVE  IInv'
<1>1. CASE StartApprove(o) \/ CreateUnit(o) \/ ListSites(o)
  BY <1>1, StartKeepsInvariant, CreateKeepsInvariant, ListKeepsInvariant
<1>2. CASE SetOrgProfile(o) \/ AddOrgClassification(o) \/ RecordUnit(o)
  BY <1>2, AddKeepsInvariant DEF SetOrgProfile, AddOrgClassification, RecordUnit, OpSteps, Parts
<1>3. CASE MarkProvisioning(o)
  <2>1. CASE Return(o) /\ UNCHANGED <<status, unitOf>>
    BY <1>3, <2>1, ReturnKeepsInvariant DEF MarkProvisioning, OpAt
  <2>2. CASE ~Return(o)
    BY <1>3, <2>2, MarkKeepsInvariant
  <2>3. Return(o) => UNCHANGED <<status, unitOf>>
    <3> SUFFICES ASSUME Return(o), OpGoto(o, "sites")
                 PROVE  FALSE
      BY <1>3 DEF MarkProvisioning
    <3>1. op'[o].step = "sites"
      BY <1>3, ApprovalGoesTo DEF IInv, TypeOK, MarkProvisioning, OpAt, OpSteps
    <3> QED BY <3>1 DEF IInv, TypeOK, Return, NoCall
  <2> QED BY <2>1, <2>2, <2>3
<1>4. CASE CreateSite(o) \/ CreateCongregationStatus(o)
  <2>1. CASE Return(o) /\ UNCHANGED <<status, unitOf, has, taxon, located, country, run>>
    BY <2>1, ReturnKeepsInvariant
  <2>2. CASE Add(o, "site", "site", "verify") \/ Add(o, "verify", "status", "done")
    BY <2>2, AddKeepsInvariant DEF OpSteps, Parts
  <2> QED BY <1>4, <2>1, <2>2 DEF CreateSite, CreateCongregationStatus, AddOnce, OpAt
<1>5. CASE MarkProvisioned(o) \/ CrashApproval(o)
  BY <1>5, ReturnKeepsInvariant DEF MarkProvisioned, CrashApproval, OpAt
<1> QED BY <1>1, <1>2, <1>3, <1>4, <1>5 DEF ApproveStep

LEMMA InvariantIsInductive == IInv /\ [Next]_vars => IInv'
<1> SUFFICES ASSUME IInv, [Next]_vars
             PROVE  IInv'
  OBVIOUS
<1>1. CASE UNCHANGED vars
  BY <1>1 DEF vars, IInv, TypeOK, Known, VerifiedIsComplete
<1> QED BY <1>1, RunsKeepInvariant, ReviewKeepsInvariant, ApprovalsKeepInvariant DEF Next

THEOREM Invariant == Spec => []IInv
<1>1. Init => IInv
  BY InitInvariant
<1>2. IInv /\ [Next]_vars => IInv'
  BY InvariantIsInductive
<1> QED BY <1>1, <1>2, PTL DEF Spec

-----------------------------------------------------------------------------
\* Every call that has a step to take on a unit has one, and a candidate that is
\* being provisioned has a unit with its profile, classification and log entry.
THEOREM TypeCorrect == Spec => []TypeOK
BY Invariant, PTL DEF IInv

\* provisionCandidate, however often it is begun again and by however many at
\* once: a congregation_status row is on a unit that is all there.
THEOREM VerifiedComplete == Spec => []VerifiedIsComplete
BY Invariant, PTL DEF IInv

\* A decision on a candidate is undone by nothing but a run of processRawRecord
\* that had already passed UpsertCandidate.
THEOREM DecisionsHold == Spec => DecisionsStand
<1>1. ASSUME Next, status' # status, status \in Rejected \union {"PROVISIONED"}
      PROVE  \E r \in Runs : run[r].step \in {"taxon", "checks"}
  <2>1. CASE \E r \in Runs : RunStep(r)
    BY <1>1, <2>1
    DEF RunStep, UpsertCandidate, GetCandidateBySource, SetCountryMatch, Unmatched, SetTaxonMatch, RejectExcluded,
        PossibleDuplicate, NoObjection, CrashRun, RunAt, InReview, Rejected
  <2>2. CASE EditCandidate \/ RejectCandidate
    BY <1>1, <2>2 DEF EditCandidate, RejectCandidate, InReview, Rejected
  <2>3. CASE \E o \in Operators : ApproveStep(o)
    BY <1>1, <2>3
    DEF ApproveStep, StartApprove, CreateUnit, SetOrgProfile, AddOrgClassification, RecordUnit, MarkProvisioning,
        ListSites, CreateSite, CreateCongregationStatus, MarkProvisioned, CrashApproval, Add, AddOnce, InReview,
        Rejected
  <2> QED BY <1>1, <2>1, <2>2, <2>3 DEF Next
<1>2. [Next]_vars =>
        [status' # status /\ status \in Rejected \union {"PROVISIONED"}
           => \E r \in Runs : run[r].step \in {"taxon", "checks"}]_vars
  BY <1>1
<1> QED BY <1>2, PTL DEF Spec, DecisionsStand

-----------------------------------------------------------------------------
(***************************************************************************)
(* Syncing jurisdictions (JurisdictionSync).                               *)
(***************************************************************************)
Positions ==
  [step : {"idle", "pass", "get", "insert", "create", "profile", "mark", "fail"},
   remaining : SUBSET Nodes, ahead : SUBSET Nodes, progressed : BOOLEAN,
   resolved : [Nodes -> Orgs \union {NoOrg}], node : Nodes \union {NoNode},
   parent : Orgs \union {Anchor, NoOrg}, unit : Orgs \union {NoOrg}]

\* A unit for the node's parent: whole, where the node has one.
ParentFits(n, u, made, whole) ==
  IF ParentOf[n] = NoNode THEN u = Anchor ELSE u \in whole /\ made[u] = ParentOf[n]

\* What a sync believes is so: the unit it goes under, the one it has made, and
\* those it has resolved.  What it visits, it does not come to again in the pass.
Right(p, made, whole) ==
  /\ p.ahead \subseteq p.remaining
  /\ p.step \notin {"idle", "pass"} =>
       p.node \in p.remaining \ p.ahead /\ p.parent # NoOrg /\ ParentFits(p.node, p.parent, made, whole)
  /\ p.step \in {"profile", "mark"} => p.unit \in Orgs /\ made[p.unit] = p.node
  /\ p.step = "mark" => p.unit \in whole
  /\ \A n \in Nodes : p.resolved[n] # NoOrg => p.resolved[n] \in whole /\ made[p.resolved[n]] = n

TablesTypeOK ==
  /\ nodeStatus \in [Nodes -> {"ABSENT", "PENDING", "FAILED", "CREATED"}]
  /\ nodeUnit \in [Nodes -> Orgs \union {NoOrg}]
  /\ madeFor \in [Orgs -> Nodes \union {NoNode}]
  /\ under \in [Orgs -> Orgs \union {Anchor, NoOrg}]
  /\ profiled \subseteq Orgs

SyncsRight == sync \in [Syncs -> Positions] /\ \A s \in Syncs : Right(sync[s], madeFor, profiled)

SyncInv == TablesTypeOK /\ SyncsRight /\ MirrorsSource

LEMMA NoNodeIsNone == NoNode \notin Nodes /\ NoOrg \notin Orgs
BY SyncAssumption

LEMMA IdleIsRight ==
  ASSUME NEW made, NEW whole
  PROVE  Idle \in Positions /\ Right(Idle, made, whole)
BY DEF Idle, Positions, Right

LEMMA SyncInitInvariant == SyncInit => SyncInv
<1> SUFFICES ASSUME SyncInit
             PROVE  SyncInv
  OBVIOUS
<1>1. TablesTypeOK
  BY DEF SyncInit, TablesTypeOK
<1>2. SyncsRight
  BY IdleIsRight DEF SyncInit, SyncsRight
<1>3. MirrorsSource
  BY DEF SyncInit, MirrorsSource
<1> QED BY <1>1, <1>2, <1>3 DEF SyncInv

LEMMA SyncInvariantImpliesTypeOK == SyncInv => SyncTypeOK
<1> SUFFICES ASSUME SyncInv
             PROVE  SyncTypeOK
  OBVIOUS
<1>1. ASSUME NEW s \in Syncs
      PROVE  /\ sync[s].ahead \subseteq sync[s].remaining
             /\ sync[s].step \notin {"idle", "pass"} =>
                  sync[s].node \in sync[s].remaining /\ sync[s].parent # NoOrg
             /\ sync[s].step \in {"profile", "mark"} => madeFor[sync[s].unit] = sync[s].node
  BY DEF SyncInv, SyncsRight, Right
<1> QED BY <1>1 DEF SyncInv, TablesTypeOK, SyncsRight, Positions, SyncTypeOK

-----------------------------------------------------------------------------
\* Units are made for one node and stay that; profiles stay.
Grows ==
  /\ \A u \in Orgs : madeFor[u] # NoNode => madeFor'[u] = madeFor[u]
  /\ profiled \subseteq profiled'

\* One sync's step leaves what the others believe as it was.
LEMMA OneSyncMoves ==
  ASSUME TablesTypeOK, SyncsRight, Grows,
         NEW s \in Syncs, NEW new \in Positions, Set(s, new), Right(new, madeFor', profiled')
  PROVE  SyncsRight'
<1>1. sync' \in [Syncs -> Positions]
  BY DEF SyncsRight, Set
<1>2. ASSUME NEW q \in Syncs, q # s
      PROVE  Right(sync'[q], madeFor', profiled')
  <2>1. sync'[q] = sync[q] /\ sync[q] \in Positions /\ Right(sync[q], madeFor, profiled)
    BY <1>2 DEF SyncsRight, Set
  <2> DEFINE p == sync[q]
  <2>2. p.step \notin {"idle", "pass"} => ParentFits(p.node, p.parent, madeFor', profiled')
    <3> SUFFICES ASSUME p.step \notin {"idle", "pass"}, ParentOf[p.node] # NoNode
                 PROVE  p.parent \in profiled' /\ madeFor'[p.parent] = ParentOf[p.node]
      BY <2>1 DEF Right, ParentFits
    <3>1. p.parent \in profiled /\ madeFor[p.parent] = ParentOf[p.node]
      BY <2>1 DEF Right, ParentFits
    <3> QED BY <3>1 DEF TablesTypeOK, Grows
  <2>3. p.step \in {"profile", "mark"} => madeFor'[p.unit] = p.node
    <3> SUFFICES ASSUME p.step \in {"profile", "mark"}
                 PROVE  madeFor'[p.unit] = p.node
      OBVIOUS
    <3>1. p.unit \in Orgs /\ madeFor[p.unit] = p.node /\ p.node \in Nodes
      BY <2>1 DEF Right, Positions
    <3> QED BY <3>1, SyncAssumption, NoNodeIsNone DEF Grows
  <2>4. \A n \in Nodes : p.resolved[n] # NoOrg => p.resolved[n] \in profiled' /\ madeFor'[p.resolved[n]] = n
    <3> SUFFICES ASSUME NEW n \in Nodes, p.resolved[n] # NoOrg
                 PROVE  p.resolved[n] \in profiled' /\ madeFor'[p.resolved[n]] = n
      OBVIOUS
    <3>1. p.resolved[n] \in profiled /\ madeFor[p.resolved[n]] = n
      BY <2>1 DEF Right
    <3> QED BY <3>1, NoNodeIsNone DEF TablesTypeOK, Grows
  <2>5. Right(p, madeFor', profiled')
    BY <2>1, <2>2, <2>3, <2>4 DEF Right, Grows
  <2> QED BY <2>1, <2>5
<1>3. sync'[s] = new
  BY DEF SyncsRight, Set
<1> QED BY <1>1, <1>2, <1>3 DEF SyncsRight

\* DoneWith, for the sync's own position.
LEMMA DoneIsRight ==
  ASSUME NEW made, NEW whole, whole \subseteq Orgs, NEW p \in Positions, Right(p, made, whole),
         p.step \notin {"idle", "pass"},
         NEW u, u = NoOrg \/ (u \in whole /\ made[u] = p.node)
  PROVE  LET new == [p EXCEPT !.step = "pass", !.progressed = TRUE,
                       !.remaining = @ \ {p.node}, !.resolved[p.node] = u,
                       !.node = NoNode, !.parent = NoOrg, !.unit = NoOrg]
         IN  new \in Positions /\ Right(new, made, whole)
<1> DEFINE res == [p.resolved EXCEPT ![p.node] = u]
           new == [p EXCEPT !.step = "pass", !.progressed = TRUE,
                     !.remaining = @ \ {p.node}, !.resolved = res,
                     !.node = NoNode, !.parent = NoOrg, !.unit = NoOrg]
<1>1. p.node \in p.remaining \ p.ahead /\ p.ahead \subseteq p.remaining /\ p.node \in Nodes
  BY DEF Right, Positions
<1>2. res \in [Nodes -> Orgs \union {NoOrg}]
  BY DEF Positions
<1>3. \A n \in Nodes : res[n] # NoOrg => res[n] \in whole /\ made[res[n]] = n
  BY <1>1 DEF Positions, Right
<1>4. new \in Positions
  BY <1>1, <1>2 DEF Positions
<1>5. /\ new.step = "pass" /\ new.ahead = p.ahead
      /\ new.remaining = p.remaining \ {p.node} /\ new.resolved = res
  BY DEF Positions
<1>6. Right(new, made, whole)
  <2> HIDE DEF res, new
  <2> QED BY <1>1, <1>3, <1>5 DEF Right
<1>7. new = [p EXCEPT !.step = "pass", !.progressed = TRUE,
               !.remaining = @ \ {p.node}, !.resolved[p.node] = u,
               !.node = NoNode, !.parent = NoOrg, !.unit = NoOrg]
  OBVIOUS
<1> QED BY <1>4, <1>6, <1>7

LEMMA DoneKeepsSyncs ==
  ASSUME TablesTypeOK, SyncsRight, UNCHANGED units,
         NEW s \in Syncs, sync[s].step \notin {"idle", "pass"},
         NEW u, u = NoOrg \/ (u \in profiled /\ madeFor[u] = sync[s].node), DoneWith(s, u)
  PROVE  SyncsRight'
<1> DEFINE new == [sync[s] EXCEPT !.step = "pass", !.progressed = TRUE,
                     !.remaining = @ \ {sync[s].node}, !.resolved[sync[s].node] = u,
                     !.node = NoNode, !.parent = NoOrg, !.unit = NoOrg]
<1>1. sync[s] \in Positions /\ Right(sync[s], madeFor, profiled)
  BY DEF SyncsRight
<1>2. new \in Positions /\ Right(new, madeFor, profiled)
  BY <1>1, DoneIsRight DEF TablesTypeOK
<1>3. Set(s, new)
  BY DEF DoneWith
<1>4. Grows /\ madeFor' = madeFor /\ profiled' = profiled
  BY DEF Grows, units
<1> HIDE DEF new
<1> QED BY <1>2, <1>3, <1>4, OneSyncMoves

LEMMA GotoKeepsSyncs ==
  ASSUME TablesTypeOK, SyncsRight, Grows,
         NEW s \in Syncs,
         NEW step \in {"insert", "create", "fail", "mark"}, Goto(s, step),
         sync[s].step \notin {"idle", "pass"},
         step = "mark" => sync[s].step = "profile" /\ sync[s].unit \in profiled'
  PROVE  SyncsRight'
<1> DEFINE p == sync[s]
           new == [p EXCEPT !.step = step]
<1>1. p \in Positions /\ Right(p, madeFor, profiled)
  BY DEF SyncsRight
<1>2. new \in Positions
  BY <1>1 DEF Positions
<1>3. /\ new.step = step /\ new.ahead = p.ahead /\ new.remaining = p.remaining
      /\ new.resolved = p.resolved /\ new.node = p.node /\ new.parent = p.parent /\ new.unit = p.unit
  BY <1>1 DEF Positions
<1>4. p.node \in Nodes
  BY <1>1 DEF Positions, Right
<1>5. ParentFits(p.node, p.parent, madeFor', profiled')
  BY <1>1, <1>4 DEF Right, ParentFits, TablesTypeOK, Grows
<1>6. step = "mark" => p.unit \in Orgs /\ madeFor'[p.unit] = p.node
  BY <1>1, <1>4, NoNodeIsNone DEF Right, Grows
<1>7. \A n \in Nodes : p.resolved[n] # NoOrg => p.resolved[n] \in profiled' /\ madeFor'[p.resolved[n]] = n
  BY <1>1, NoNodeIsNone DEF Right, TablesTypeOK, Grows
<1>8. Right(new, madeFor', profiled')
  <2> HIDE DEF new, p
  <2>1. Right(p, madeFor, profiled)
    BY <1>1
  <2> QED BY <2>1, <1>3, <1>5, <1>6, <1>7 DEF Right, p
<1>9. Set(s, new)
  BY DEF Goto
<1> HIDE DEF new
<1> QED BY <1>2, <1>8, <1>9, OneSyncMoves

-----------------------------------------------------------------------------
(***************************************************************************)
(* The steps.                                                              *)
(***************************************************************************)
LEMMA PassesKeepInvariant ==
  ASSUME SyncInv, NEW s \in Syncs, Start(s) \/ NextPass(s) \/ Crash(s)
  PROVE  SyncInv'
<1> DEFINE p == sync[s]
<1>1. p \in Positions /\ Right(p, madeFor, profiled)
  BY DEF SyncInv, SyncsRight
<1>2. UNCHANGED <<rows, units>> /\ Grows
  BY DEF Start, NextPass, Crash, Grows, units
<1>3. PICK new \in Positions : Set(s, new) /\ Right(new, madeFor, profiled)
  <2>1. CASE Start(s)
    <3>0. PICK listed \in SUBSET Nodes :
            Set(s, [Idle EXCEPT !.step = "pass", !.remaining = listed, !.ahead = listed])
      BY <2>1 DEF Start
    <3> DEFINE new == [Idle EXCEPT !.step = "pass", !.remaining = listed, !.ahead = listed]
    <3>1. new \in Positions /\ Right(new, madeFor, profiled)
      BY DEF Idle, Positions, Right
    <3> QED BY <3>0, <3>1
  <2>2. CASE Set(s, Idle)
    BY <2>2, IdleIsRight
  <2>3. CASE NextPass(s) /\ ~Set(s, Idle)
    <3> DEFINE new == [p EXCEPT !.ahead = p.remaining, !.progressed = FALSE]
    <3>1. Set(s, new) /\ p.step = "pass"
      BY <2>3 DEF NextPass, At
    <3>2. new \in Positions
      BY <1>1 DEF Positions
    <3>3. /\ new.step = p.step /\ new.ahead = p.remaining /\ new.remaining = p.remaining
          /\ new.resolved = p.resolved
      BY <1>1 DEF Positions
    <3>4. Right(new, madeFor, profiled)
      BY <1>1, <3>1, <3>3 DEF Right
    <3> QED BY <3>1, <3>2, <3>4
  <2> QED BY <2>1, <2>2, <2>3 DEF Crash
<1>4. SyncsRight'
  BY <1>2, <1>3, OneSyncMoves DEF SyncInv, units
<1> QED BY <1>2, <1>4 DEF SyncInv, TablesTypeOK, MirrorsSource, rows, units

\* resolveParentUnitID finds a unit that fits, or none.
LEMMA ParentUnitFits ==
  ASSUME SyncInv, NEW s \in Syncs, NEW n \in Nodes, NEW parent \in ParentUnits(s, n)
  PROVE  /\ parent \in Orgs \union {Anchor, NoOrg}
         /\ parent # NoOrg => ParentFits(n, parent, madeFor, profiled)
<1> DEFINE p == ParentOf[n]
<1>1. Right(sync[s], madeFor, profiled) /\ sync[s].resolved \in [Nodes -> Orgs \union {NoOrg}]
  BY DEF SyncInv, SyncsRight, Positions
<1>2. p = NoNode \/ p \in Nodes
  BY SyncAssumption
<1>3. CASE p = NoNode
  BY <1>3, NoNodeIsNone DEF ParentUnits, ParentFits
<1>4. CASE p \in Nodes /\ sync[s].resolved[p] # NoOrg
  <2>1. parent = sync[s].resolved[p]
    BY <1>4, NoNodeIsNone DEF ParentUnits
  <2> QED BY <1>1, <1>4, <2>1, NoNodeIsNone DEF Right, ParentFits
<1>5. CASE p \in Nodes /\ sync[s].resolved[p] = NoOrg
  <2>0. ParentUnits(s, n) = IF Created(p) THEN {nodeUnit[p], NoOrg} ELSE {NoOrg}
    BY <1>5, NoNodeIsNone DEF ParentUnits
  <2>1. parent = NoOrg \/ (Created(p) /\ parent = nodeUnit[p])
    BY <2>0
  <2>2. Created(p) => nodeUnit[p] \in profiled /\ madeFor[nodeUnit[p]] = p
    BY <1>5 DEF SyncInv, MirrorsSource, Created
  <2> QED BY <1>5, <2>1, <2>2, NoNodeIsNone DEF ParentFits, SyncInv, TablesTypeOK
<1> QED BY <1>2, <1>3, <1>4, <1>5

LEMMA VisitKeepsInvariant ==
  ASSUME SyncInv, NEW s \in Syncs, NEW n \in Nodes, VisitNode(s, n)
  PROVE  SyncInv'
<1> DEFINE p == sync[s]
<1>0. PICK parent \in ParentUnits(s, n) :
        Set(s, [p EXCEPT !.ahead = @ \ {n},
                  !.step = IF parent = NoOrg THEN "pass" ELSE "get",
                  !.node = IF parent = NoOrg THEN NoNode ELSE n,
                  !.parent = parent])
  BY DEF VisitNode
<1> DEFINE new == [p EXCEPT !.ahead = @ \ {n},
                     !.step = IF parent = NoOrg THEN "pass" ELSE "get",
                     !.node = IF parent = NoOrg THEN NoNode ELSE n,
                     !.parent = parent]
<1>1. /\ p \in Positions /\ Right(p, madeFor, profiled)
      /\ p.step = "pass" /\ n \in p.ahead /\ Set(s, new)
  BY <1>0 DEF SyncInv, SyncsRight, VisitNode, At
<1>2. UNCHANGED <<rows, units>> /\ Grows
  BY DEF VisitNode, Grows, units
<1>3. parent \in Orgs \union {Anchor, NoOrg} /\ (parent # NoOrg => ParentFits(n, parent, madeFor, profiled))
  BY ParentUnitFits
<1>4. new \in Positions
  BY <1>1, <1>3 DEF Positions
<1>5. /\ new.step = IF parent = NoOrg THEN "pass" ELSE "get"
      /\ new.node = IF parent = NoOrg THEN NoNode ELSE n
      /\ new.parent = parent /\ new.ahead = p.ahead \ {n}
      /\ new.remaining = p.remaining /\ new.resolved = p.resolved
  BY <1>1 DEF Positions
<1>6. Right(new, madeFor, profiled)
  <2> HIDE DEF new
  <2> QED BY <1>1, <1>3, <1>5 DEF Right
<1>7. SyncsRight'
  <2> HIDE DEF new
  <2> QED BY <1>1, <1>2, <1>4, <1>6, OneSyncMoves DEF SyncInv, units
<1> QED BY <1>2, <1>7 DEF SyncInv, TablesTypeOK, MirrorsSource, rows, units

LEMMA RowsKeepInvariant ==
  ASSUME SyncInv, NEW s \in Syncs, GetRow(s) \/ CreatePending(s)
  PROVE  SyncInv'
<1> DEFINE n == sync[s].node
<1>1. sync[s].step \in {"get", "insert"} /\ n \in Nodes
  BY DEF SyncInv, SyncsRight, Positions, Right, GetRow, CreatePending, At
<1>2. UNCHANGED <<nodeUnit, units>> /\ Grows
  BY DEF GetRow, CreatePending, Grows, rows, units
<1>3. \/ nodeStatus' = nodeStatus
      \/ nodeStatus' = [nodeStatus EXCEPT ![n] = "PENDING"]
  BY DEF GetRow, CreatePending, rows
<1>4. SyncsRight'
  <2>1. CASE \E step \in {"insert", "create"} : Goto(s, step)
    BY <1>1, <1>2, <2>1, GotoKeepsSyncs DEF SyncInv
  <2>2. CASE Created(n) /\ DoneWith(s, nodeUnit[n])
    <3>1. nodeUnit[n] \in profiled /\ madeFor[nodeUnit[n]] = n
      BY <1>1, <2>2 DEF SyncInv, MirrorsSource, Created
    <3> QED BY <1>1, <1>2, <2>2, <3>1, DoneKeepsSyncs DEF SyncInv
  <2>3. CASE DoneWith(s, NoOrg)
    BY <1>1, <1>2, <2>3, DoneKeepsSyncs DEF SyncInv
  <2> QED BY <2>1, <2>2, <2>3 DEF GetRow, CreatePending
<1>5. TablesTypeOK'
  BY <1>2, <1>3 DEF SyncInv, TablesTypeOK, units
<1>6. MirrorsSource'
  BY <1>1, <1>2, <1>3 DEF SyncInv, TablesTypeOK, MirrorsSource, units
<1> QED BY <1>4, <1>5, <1>6 DEF SyncInv

LEMMA CreateOrgKeepsInvariant ==
  ASSUME SyncInv, NEW s \in Syncs, CreateOrgUnit(s)
  PROVE  SyncInv'
<1> DEFINE p == sync[s]
<1>1. /\ p \in Positions /\ Right(p, madeFor, profiled) /\ p.step = "create"
      /\ UNCHANGED <<rows, profiled>>
  BY DEF SyncInv, SyncsRight, CreateOrgUnit, At
<1>2. CASE Goto(s, "fail") /\ UNCHANGED <<madeFor, under>>
  <2>1. SyncsRight'
    BY <1>1, <1>2, GotoKeepsSyncs DEF SyncInv, Grows
  <2> QED BY <1>1, <1>2, <2>1 DEF SyncInv, TablesTypeOK, MirrorsSource, rows
<1>3. ASSUME ~CodeTaken(p.node),
             NEW u \in Orgs, madeFor[u] = NoNode,
             madeFor' = [madeFor EXCEPT ![u] = p.node], under' = [under EXCEPT ![u] = p.parent],
             Set(s, [p EXCEPT !.step = "profile", !.unit = u])
      PROVE  SyncInv'
  <2> DEFINE new == [p EXCEPT !.step = "profile", !.unit = u]
  <2>1. /\ p.node \in p.remaining \ p.ahead /\ p.node \in Nodes /\ p.parent # NoOrg
        /\ ParentFits(p.node, p.parent, madeFor, profiled) /\ p.parent \in Orgs \union {Anchor, NoOrg}
    BY <1>1 DEF Right, Positions
  <2>2. madeFor'[u] = p.node /\ \A v \in Orgs \ {u} : madeFor'[v] = madeFor[v]
    BY <1>3 DEF SyncInv, TablesTypeOK
  <2>3. under'[u] = p.parent /\ \A v \in Orgs \ {u} : under'[v] = under[v]
    BY <1>3 DEF SyncInv, TablesTypeOK
  <2>4. Grows
    BY <1>1, <1>3, <2>2 DEF Grows
  <2>5. TablesTypeOK'
    BY <1>1, <1>3, <2>1 DEF SyncInv, TablesTypeOK, rows
  <2>6. ASSUME NEW m \in Nodes, NEW v \in profiled, madeFor[v] = m
        PROVE  v # u /\ madeFor'[v] = m
    BY <1>3, <2>2, <2>6, NoNodeIsNone DEF SyncInv, TablesTypeOK
  <2>7. ASSUME NEW m \in Nodes, NEW v, ParentFits(m, v, madeFor, profiled)
        PROVE  ParentFits(m, v, madeFor', profiled')
    <3>1. CASE ParentOf[m] = NoNode
      BY <2>7, <3>1 DEF ParentFits
    <3>2. CASE ParentOf[m] # NoNode
      <4>1. v \in profiled /\ v \in Orgs /\ madeFor[v] = ParentOf[m]
        BY <2>7, <3>2 DEF ParentFits, SyncInv, TablesTypeOK
      <4>2. v # u
        BY <1>3, <3>2, <4>1
      <4> QED BY <1>1, <2>2, <3>2, <4>1, <4>2 DEF ParentFits
    <3> QED BY <3>1, <3>2
  <2>8. new \in Positions
    BY <1>1, <1>3 DEF Positions
  <2>9. /\ new.step = "profile" /\ new.unit = u /\ new.ahead = p.ahead /\ new.remaining = p.remaining
        /\ new.resolved = p.resolved /\ new.node = p.node /\ new.parent = p.parent
    BY <1>1 DEF Positions
  <2>10. \A n \in Nodes : p.resolved[n] # NoOrg => p.resolved[n] \in profiled' /\ madeFor'[p.resolved[n]] = n
    BY <1>1, <2>6 DEF Right
  <2>11. Right(new, madeFor', profiled')
    <3>1. new.ahead \subseteq new.remaining
      BY <1>1, <2>9 DEF Right
    <3> HIDE DEF new
    <3> QED BY <2>1, <2>2, <2>7, <2>9, <2>10, <3>1 DEF Right
  <2>12. SyncsRight'
    <3> HIDE DEF new
    <3>1. Set(s, new)
      BY <1>3 DEF new
    <3> QED BY <2>4, <2>8, <2>11, <3>1, OneSyncMoves DEF SyncInv
  <2>13. MirrorsSource'
    <3>1. \A v, w \in Orgs : madeFor'[v] = madeFor'[w] /\ madeFor'[v] # NoNode => v = w
      BY <1>3, <2>2 DEF SyncInv, MirrorsSource, CodeTaken
    <3>2. ASSUME NEW v \in Orgs, madeFor'[v] # NoNode
          PROVE  ParentFits(madeFor'[v], under'[v], madeFor', profiled')
      <4>1. CASE v = u
        BY <2>1, <2>2, <2>3, <2>7, <4>1
      <4>2. CASE v # u
        <5>1. madeFor[v] \in Nodes /\ ParentFits(madeFor[v], under[v], madeFor, profiled)
          BY <2>2, <3>2, <4>2 DEF SyncInv, TablesTypeOK, MirrorsSource, ParentFits
        <5> QED BY <2>2, <2>3, <2>7, <4>2, <5>1
      <4> QED BY <4>1, <4>2
    <3>3. \A n \in Nodes : nodeStatus'[n] = "CREATED" => nodeUnit'[n] \in profiled' /\ madeFor'[nodeUnit'[n]] = n
      BY <1>1, <2>6 DEF SyncInv, MirrorsSource, rows
    <3> QED BY <3>1, <3>2, <3>3 DEF MirrorsSource, ParentFits
  <2> QED BY <2>5, <2>12, <2>13 DEF SyncInv
<1> QED BY <1>2, <1>3 DEF CreateOrgUnit

LEMMA ProfileKeepsInvariant ==
  ASSUME SyncInv, NEW s \in Syncs, ProfileOrg(s)
  PROVE  SyncInv'
<1>1. /\ sync[s].step = "profile" /\ sync[s].unit \in Orgs
      /\ UNCHANGED <<rows, madeFor, under>>
  BY DEF SyncInv, SyncsRight, Right, ProfileOrg, At
<1>2. profiled' \in {profiled, profiled \union {sync[s].unit}}
  BY DEF ProfileOrg
<1>3. Grows
  BY <1>1, <1>2 DEF Grows
<1>4. SyncsRight'
  <2>1. CASE profiled' = profiled \union {sync[s].unit} /\ Goto(s, "mark")
    BY <1>1, <1>3, <2>1, GotoKeepsSyncs DEF SyncInv
  <2>2. CASE Goto(s, "fail")
    BY <1>1, <1>3, <2>2, GotoKeepsSyncs DEF SyncInv
  <2> QED BY <2>1, <2>2 DEF ProfileOrg
<1> QED BY <1>1, <1>2, <1>4 DEF SyncInv, TablesTypeOK, MirrorsSource, rows

LEMMA MarksKeepInvariant ==
  ASSUME SyncInv, NEW s \in Syncs, MarkFailed(s) \/ MarkCreated(s)
  PROVE  SyncInv'
<1> DEFINE n == sync[s].node
           u == sync[s].unit
<1>1. /\ sync[s].step \in {"fail", "mark"} /\ n \in Nodes
      /\ sync[s].step = "mark" => u \in profiled /\ madeFor[u] = n
  BY DEF SyncInv, SyncsRight, Positions, Right, MarkFailed, MarkCreated, At
<1>2. UNCHANGED units
  BY DEF MarkFailed, MarkCreated
<1>3. \/ nodeStatus' \in {nodeStatus, [nodeStatus EXCEPT ![n] = "FAILED"]} /\ nodeUnit' = nodeUnit
      \/ /\ nodeStatus' = [nodeStatus EXCEPT ![n] = "CREATED"] /\ nodeUnit' = [nodeUnit EXCEPT ![n] = u]
         /\ u \in profiled /\ madeFor[u] = n
  BY <1>1 DEF MarkFailed, MarkCreated, At, rows
<1>4. SyncsRight'
  <2>1. CASE DoneWith(s, NoOrg)
    BY <1>1, <1>2, <2>1, DoneKeepsSyncs DEF SyncInv
  <2>2. CASE sync[s].step = "mark" /\ DoneWith(s, u)
    BY <1>1, <1>2, <2>2, DoneKeepsSyncs DEF SyncInv
  <2> QED BY <2>1, <2>2 DEF MarkFailed, MarkCreated, At
<1>5. TablesTypeOK'
  BY <1>1, <1>2, <1>3 DEF SyncInv, TablesTypeOK, units
<1>6. MirrorsSource'
  BY <1>1, <1>2, <1>3 DEF SyncInv, TablesTypeOK, MirrorsSource, units
<1> QED BY <1>4, <1>5, <1>6 DEF SyncInv

LEMMA SyncInductive == SyncInv /\ [SyncNext]_syncVars => SyncInv'
<1> SUFFICES ASSUME SyncInv, [SyncNext]_syncVars
             PROVE  SyncInv'
  OBVIOUS
<1>1. CASE UNCHANGED syncVars
  BY <1>1 DEF syncVars, SyncInv, TablesTypeOK, SyncsRight, MirrorsSource
<1>2. ASSUME NEW s \in Syncs, Start(s) \/ Step(s) \/ Crash(s)
      PROVE  SyncInv'
  BY <1>2, PassesKeepInvariant, VisitKeepsInvariant, RowsKeepInvariant, CreateOrgKeepsInvariant,
     ProfileKeepsInvariant, MarksKeepInvariant
  DEF Step
<1> QED BY <1>1, <1>2 DEF SyncNext

THEOREM SyncInvariant == SyncSpec => []SyncInv
<1>1. SyncInit => SyncInv
  BY SyncInitInvariant
<1>2. SyncInv /\ [SyncNext]_syncVars => SyncInv'
  BY SyncInductive
<1> QED BY <1>1, <1>2, PTL DEF SyncSpec

\* A sync under way has a node of its own that is left to do, and a parent for it.
THEOREM SyncTypeCorrect == SyncSpec => []SyncTypeOK
BY SyncInvariant, SyncInvariantImpliesTypeOK, PTL

\* SyncJurisdictions and ensureJurisdictionUnit, however many run, fail and die:
\* one whole unit for a node, under that of its parent.
THEOREM SourceMirrored == SyncSpec => []MirrorsSource
<1>1. SyncInv => MirrorsSource
  BY DEF SyncInv
<1> QED BY <1>1, SyncInvariant, PTL
=============================================================================
