--------------------------- MODULE CandidateImport ---------------------------
(***************************************************************************)
(* One record of an import source (internal/congregationimport) and the    *)
(* congregation it may become.  Connector runs stage it and check it, a    *)
(* statement at a time; operators edit, reject and approve it meanwhile;   *)
(* an approval creates the congregation's unit and what belongs to it, a   *)
(* transaction at a time.  Everyone goes on from the copy of the row that  *)
(* was read last.  Whatever fails ends the run or the call: Crash.         *)
(***************************************************************************)
EXTENDS Naturals, FiniteSets

CONSTANTS Runs,       \* connector runs that may process the record at once
          Operators,  \* ApproveCandidate calls that may run at once
          Units,      \* unit ids that are ever minted for the record
          NoUnit

ASSUME CandidateAssumption == NoUnit \notin Units

VARIABLES status, taxon, located, country, unitOf,  \* congregationimport_candidates
          has,                                      \* the rows that exist about a unit
          run, op                                   \* each run's record, each operator's approval

row  == <<status, taxon, located, country, unitOf>>
vars == <<status, taxon, located, country, unitOf, has, run, op>>

InReview == {"STAGED", "NEEDS_TAXON_REVIEW", "NEEDS_GEOCODE", "POSSIBLE_DUPLICATE"}
Rejected == {"REJECTED", "REJECTED_EXCLUDED"}
Statuses == {"ABSENT", "PROVISIONING", "PROVISIONED"} \union InReview \union Rejected

\* What a taxon hint resolves to, as the aliases are at the time.
Taxa == {"none", "included", "excluded"}

\* "status": the row in congregation_status, which says that an operator verified the congregation.
Parts        == {"unit", "profile", "classification", "site", "logged", "status"}
Congregation == {"unit", "profile", "classification", "site"}

\* What a run still needs of its copy of the row: whether it waited for a taxon, and so on.
NoRun  == [step |-> "idle", waited |-> FALSE, located |-> FALSE, taxon |-> "none"]
NoCall == [step |-> "idle", unit |-> NoUnit]

Init ==
  /\ status = "ABSENT" /\ taxon = "none" /\ located = FALSE /\ country = FALSE /\ unitOf = NoUnit
  /\ has = [u \in Units |-> {}]
  /\ run = [r \in Runs |-> NoRun]
  /\ op = [o \in Operators |-> NoCall]

-----------------------------------------------------------------------------
(***************************************************************************)
(* processRawRecord.                                                       *)
(***************************************************************************)
RunAt(r, step) == run[r].step = step /\ UNCHANGED <<unitOf, has, op>>
RunGoto(r, step) == run' = [run EXCEPT ![r].step = step]
EndRecord(r) == run' = [run EXCEPT ![r] = NoRun]

Unlocated(there) == IF there THEN "STAGED" ELSE "NEEDS_GEOCODE"

\* A mutant of the action below: ON CONFLICT DO UPDATE without its WHERE, and of the status too.
UpsertOverAnything(r) ==
  /\ RunAt(r, "idle")
  /\ \E there \in BOOLEAN :
       /\ status' = Unlocated(there) /\ located' = there
       /\ run' = [run EXCEPT ![r].step = "country"]
  /\ UNCHANGED <<taxon, country>>

\* What is past review is left alone, and read.
UpsertCandidate(r) ==
  /\ RunAt(r, "idle")
  /\ IF status \in InReview \union {"ABSENT"}
     THEN /\ \E there \in BOOLEAN :
               /\ status' = IF status = "ABSENT" THEN Unlocated(there) ELSE status
               /\ located' = there
          /\ RunGoto(r, "country")
     ELSE RunGoto(r, "reread") /\ UNCHANGED <<status, located>>
  /\ UNCHANGED <<taxon, country>>

\* The run goes by what it reads now: past review, it is done with the record.
GetCandidateBySource(r) ==
  /\ RunAt(r, "reread")
  /\ IF status \in InReview THEN RunGoto(r, "country") ELSE EndRecord(r)
  /\ UNCHANGED <<status, taxon, located, country>>

\* The hints for the jurisdiction (advisory, not modelled) and for the country.
SetCountryMatch(r) ==
  /\ RunAt(r, "country")
  /\ country' \in {country, TRUE}
  /\ RunGoto(r, "taxon")
  /\ UNCHANGED <<status, taxon, located>>

\* SetStatus and RejectExcluded, WHERE id = ... alone, are the last thing done with a record.
SetStatus(r, new) ==
  /\ status' = new
  /\ EndRecord(r)
  /\ UNCHANGED <<taxon, located, country>>

\* No taxon: to be looked at, unless the name does not look Christian.
Unmatched(r) ==
  /\ RunAt(r, "taxon")
  /\ \E new \in {"NEEDS_TAXON_REVIEW", "REJECTED_EXCLUDED"} : SetStatus(r, new)

\* WHERE id = ...; the run keeps the row that is returned.
SetTaxonMatch(r) ==
  /\ RunAt(r, "taxon")
  /\ \E t \in Taxa \ {"none"} :
       /\ taxon' = t
       /\ run' = [run EXCEPT ![r] = [step |-> "checks", waited |-> status = "NEEDS_TAXON_REVIEW",
                                     located |-> located, taxon |-> t]]
  /\ UNCHANGED <<status, located, country>>

RejectExcluded(r) ==
  RunAt(r, "checks") /\ run[r].taxon = "excluded" /\ SetStatus(r, "REJECTED_EXCLUDED")

PossibleDuplicate(r) ==
  RunAt(r, "checks") /\ run[r].taxon # "excluded" /\ run[r].located /\ SetStatus(r, "POSSIBLE_DUPLICATE")

\* Nothing found: a status that said the taxon was missing is cleared.
NoObjection(r) ==
  /\ RunAt(r, "checks") /\ run[r].taxon # "excluded"
  /\ SetStatus(r, IF run[r].waited THEN Unlocated(run[r].located) ELSE status)

\* The process dies, or the run fails; its record stays as it is.
CrashRun(r) ==
  RunAt(r, run[r].step) /\ run[r] # NoRun /\ EndRecord(r) /\ UNCHANGED <<status, taxon, located, country>>

-----------------------------------------------------------------------------
(***************************************************************************)
(* The operators.                                                          *)
(***************************************************************************)
\* WHERE status IN (those in review).
EditCandidate ==
  /\ status \in InReview
  /\ taxon' \in {taxon} \union (Taxa \ {"none"})
  /\ located' \in {located, TRUE} /\ country' \in {country, TRUE}
  /\ UNCHANGED <<status, unitOf, has, run, op>>

RejectCandidate ==
  /\ status \in InReview
  /\ status' = "REJECTED"
  /\ UNCHANGED <<taxon, located, country, unitOf, has, run, op>>

OpAt(o, step) == op[o].step = step /\ UNCHANGED <<taxon, located, country, run>>
OpGoto(o, step) == op' = [op EXCEPT ![o].step = step]
Return(o) == op' = [op EXCEPT ![o] = NoCall]

\* ApproveCandidate's reads: PROVISIONING goes on with its unit, any other needs one.
StartApprove(o) ==
  /\ OpAt(o, "idle")
  /\ status \in InReview \union {"PROVISIONING"} /\ taxon # "none" /\ located /\ country
  /\ op' = [op EXCEPT ![o] = IF status = "PROVISIONING" THEN [step |-> "sites", unit |-> unitOf]
                             ELSE [step |-> "unit", unit |-> NoUnit]]
  /\ UNCHANGED <<status, unitOf, has>>

\* A mutant of the action below: the candidate gets its unit before the unit has its profile.
CreateUnitThenMark(o) ==
  /\ OpAt(o, "unit")
  /\ \E u \in Units :
       /\ has[u] = {}
       /\ has' = [has EXCEPT ![u] = {"unit"}]
       /\ op' = [op EXCEPT ![o] = [step |-> "mark", unit |-> u]]
  /\ UNCHANGED <<status, unitOf>>

\* CreateChildOrg's first transaction.
CreateUnit(o) ==
  /\ OpAt(o, "unit")
  /\ \E u \in Units :
       /\ has[u] = {}
       /\ has' = [has EXCEPT ![u] = {"unit"}]
       /\ op' = [op EXCEPT ![o] = [step |-> "profile", unit |-> u]]
  /\ UNCHANGED <<status, unitOf>>

\* A step that writes a row about the call's unit.
Add(o, step, part, next) ==
  /\ OpAt(o, step)
  /\ has' = [has EXCEPT ![op[o].unit] = @ \union {part}]
  /\ OpGoto(o, next)
  /\ UNCHANGED <<status, unitOf>>

SetOrgProfile(o)        == Add(o, "profile", "profile", "classify")
AddOrgClassification(o) == Add(o, "classify", "classification", "log")
RecordUnit(o)           == Add(o, "log", "logged", "mark")

\* A mutant of the action below: the UPDATE leaves created_unit_id alone.
MarkStatusOnly(o) ==
  /\ OpAt(o, "mark")
  /\ IF status \in InReview \union {"PROVISIONING"}
     THEN status' = "PROVISIONING" /\ OpGoto(o, "sites")
     ELSE Return(o) /\ UNCHANGED status
  /\ UNCHANGED <<unitOf, has>>

\* WHERE status IN (in review, APPROVED, PROVISIONING); otherwise the unit is orphaned.
MarkProvisioning(o) ==
  /\ OpAt(o, "mark")
  /\ IF status \in InReview \union {"PROVISIONING"}
     THEN status' = "PROVISIONING" /\ unitOf' = op[o].unit /\ OpGoto(o, "sites")
     ELSE Return(o) /\ UNCHANGED <<status, unitOf>>
  /\ UNCHANGED has

ListSites(o) ==
  /\ OpAt(o, "sites")
  /\ OpGoto(o, IF "site" \in has[op[o].unit] THEN "verify" ELSE "site")
  /\ UNCHANGED <<status, unitOf, has>>

\* Unique rows: a second primary site of a unit, or a second status, is an error.
AddOnce(o, step, part, next) ==
  /\ OpAt(o, step)
  /\ IF part \in has[op[o].unit] THEN Return(o) /\ UNCHANGED <<status, unitOf, has>>
     ELSE Add(o, step, part, next)

CreateSite(o) == AddOnce(o, "site", "site", "verify")

CreateCongregationStatus(o) == AddOnce(o, "verify", "status", "done")

\* WHERE status = 'PROVISIONING'.
MarkProvisioned(o) ==
  /\ OpAt(o, "done")
  /\ status' = IF status = "PROVISIONING" THEN "PROVISIONED" ELSE status
  /\ Return(o)
  /\ UNCHANGED <<unitOf, has>>

CrashApproval(o) == OpAt(o, op[o].step) /\ op[o] # NoCall /\ Return(o) /\ UNCHANGED <<status, unitOf, has>>

-----------------------------------------------------------------------------
RunStep(r) ==
  \/ UpsertCandidate(r) \/ GetCandidateBySource(r) \/ SetCountryMatch(r) \/ Unmatched(r) \/ SetTaxonMatch(r)
  \/ RejectExcluded(r) \/ PossibleDuplicate(r) \/ NoObjection(r) \/ CrashRun(r)

ApproveStep(o) ==
  \/ StartApprove(o)
  \/ CreateUnit(o) \/ SetOrgProfile(o) \/ AddOrgClassification(o) \/ RecordUnit(o)
  \/ MarkProvisioning(o) \/ ListSites(o) \/ CreateSite(o)
  \/ CreateCongregationStatus(o) \/ MarkProvisioned(o) \/ CrashApproval(o)

Next ==
  \/ \E r \in Runs : RunStep(r)
  \/ EditCandidate \/ RejectCandidate
  \/ \E o \in Operators : ApproveStep(o)

Spec == Init /\ [][Next]_vars

-----------------------------------------------------------------------------
RunSteps == {"idle", "reread", "country", "taxon", "checks"}
OpSteps  == {"profile", "classify", "log", "mark", "sites", "site", "verify", "done"}

\* Whoever has a step to take on a unit has the unit.
TypeOK ==
  /\ status \in Statuses /\ taxon \in Taxa /\ {located, country} \subseteq BOOLEAN
  /\ has \in [Units -> SUBSET Parts]
  /\ run \in [Runs -> [step : RunSteps, waited : BOOLEAN, located : BOOLEAN, taxon : Taxa]]
  /\ op \in [Operators -> [step : {"idle", "unit"}, unit : {NoUnit}] \union [step : OpSteps, unit : Units]]
  /\ unitOf \in Units \union {NoUnit}
  /\ status \in {"PROVISIONING", "PROVISIONED"} => unitOf # NoUnit
  /\ unitOf # NoUnit => {"unit", "profile", "classification", "logged"} \subseteq has[unitOf]

\* Through whichever crashes, retries and second approvals it came, a
\* congregation that is said to be verified is all there, and its creation is on
\* record; and a candidate that is done has one.
VerifiedIsComplete ==
  /\ \A u \in Units : "status" \in has[u] => Congregation \union {"logged"} \subseteq has[u]
  /\ status = "PROVISIONED" => \E u \in Units : "status" \in has[u]

\* A decision, once recorded, is changed only by a run that had the candidate
\* when it was still in review: a scrape that starts later and the other
\* operators leave it alone.
DecisionsStand ==
  [][status' # status /\ status \in Rejected \union {"PROVISIONED"}
       => \E r \in Runs : run[r].step \in {"taxon", "checks"}]_vars

\* UpsertCandidate "never touches a row already past operator review, so a
\* re-scrape can never silently undo a decision" (adapters/repository.go).
ScrapeNeverUndoes ==
  [][status' # status => status \notin {"REJECTED", "PROVISIONED"}]_vars
=============================================================================
