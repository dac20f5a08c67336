----------------------------- MODULE Authority ------------------------------
(***************************************************************************)
(* Who may do what, and for how long: role assignments that expire, the    *)
(* instance admins, decisions, and the merge of two persons, which takes   *)
(* the duplicate's authority to the survivor.  A decision reads the admin  *)
(* flag, the assignments and the closure in statements of their own.       *)
(***************************************************************************)
EXTENDS Integers, FiniteSets

CONSTANTS Holders,
          Keys,         \* role, target unit, scope and graph: what the unique index names
          SubtreeKeys,  \* the keys whose target has the unit asked about in its subtree, or not
          MaxTime       \* bound on the clock

ASSUME AuthorityAssumption == SubtreeKeys \subseteq Keys /\ MaxTime \in Nat \ {0}

None  == 0              \* no unrevoked assignment
Never == MaxTime + 1    \* expires_at IS NULL

VARIABLES expiry,    \* expiry[p][k]: p's one unrevoked assignment on k, by its expires_at
          admins,    \* persons with an unrevoked instance-admin grant
          deleted,   \* persons merged into another
          reaches,   \* the subtree keys that reach the unit asked about, as the closure has it
          now,
          dedup,     \* the one running MergePersons
          call       \* the one running decision, and what was true meanwhile

vars == <<expiry, admins, deleted, reaches, now, dedup, call>>

Active(p, k)  == expiry[p][k] # None
InForce(p, k) == expiry[p][k] > now

\* Requests come about everyone, also about persons that are gone: the reads are by id.
NoCall  == [step |-> "idle"]
NoDedup == [step |-> "idle", moved |-> {}, revoked |-> {}, admin |-> "kept"]

Init ==
  /\ expiry = [p \in Holders |-> [k \in Keys |-> None]]
  /\ admins \in SUBSET Holders
  /\ deleted = {} /\ reaches = SubtreeKeys /\ now = 1
  /\ dedup = NoDedup /\ call = NoCall

-----------------------------------------------------------------------------
\* Rows an uncommitted merge has written.  Whoever wants to write one waits.
Held(p, k) ==
  dedup.step # "idle" /\ \/ p = dedup.duplicate /\ k \in dedup.moved \union dedup.revoked
                         \/ p = dedup.survivor /\ k \in dedup.moved
AdminHeld(p) ==
  dedup.step # "idle" /\ \/ p = dedup.duplicate /\ dedup.admin # "kept"
                         \/ p = dedup.survivor /\ dedup.admin = "moved"

\* parseGrantExpiry: nothing in the past.
Expiries == now + 1 .. Never

\* GrantUnitRole.  An unrevoked assignment on the key, expired or not, makes it a success that writes nothing.
InsertRoleAssignment(p, k, e) ==
  /\ ~Active(p, k) /\ ~Held(p, k)
  /\ expiry' = [expiry EXCEPT ![p][k] = e]
  /\ UNCHANGED <<admins, deleted, reaches, now, dedup>>

\* BulkGrantUnitRole: an upsert for each person, all at the commit.
BulkGrantUnitRole(ps, k, e) ==
  /\ \A p \in ps : ~Held(p, k)
  /\ expiry' = [p \in Holders |-> IF p \in ps THEN [expiry[p] EXCEPT ![k] = e] ELSE expiry[p]]
  /\ UNCHANGED <<admins, deleted, reaches, now, dedup>>

RevokeRoleAssignment(p, k) ==
  /\ Active(p, k) /\ ~Held(p, k)
  /\ expiry' = [expiry EXCEPT ![p][k] = None]
  /\ UNCHANGED <<admins, deleted, reaches, now, dedup>>

ClearRoleAssignmentExpiry(p, k) ==
  /\ Active(p, k) /\ ~Held(p, k)
  /\ expiry' = [expiry EXCEPT ![p][k] = Never]
  /\ UNCHANGED <<admins, deleted, reaches, now, dedup>>

GrantInstanceAdmin(p) ==
  /\ p \notin admins /\ ~AdminHeld(p)
  /\ admins' = admins \union {p}
  /\ UNCHANGED <<expiry, deleted, reaches, now, dedup>>

RevokeInstanceAdmin(p) ==
  /\ p \in admins /\ ~AdminHeld(p)
  /\ admins' = admins \ {p}
  /\ UNCHANGED <<expiry, deleted, reaches, now, dedup>>

\* Units move: a subtree comes to hold the unit asked about, or no longer does.
MoveUnit(k) ==
  /\ reaches' = (reaches \ {k}) \union ({k} \ reaches)
  /\ UNCHANGED <<expiry, admins, deleted, now, dedup>>

Tick == now < MaxTime /\ now' = now + 1 /\ UNCHANGED <<expiry, admins, deleted, reaches, dedup>>

-----------------------------------------------------------------------------
\* MergePersons, one statement a step; what they write is seen at the commit.
Merging(step) == dedup.step = step /\ UNCHANGED <<expiry, admins, deleted, reaches, now>>

\* Both persons are read, before the transaction.
BeginDedup(survivor, duplicate) ==
  /\ Merging("idle")
  /\ survivor # duplicate /\ {survivor, duplicate} \cap deleted = {}
  /\ dedup' = [step |-> "move", moved |-> {}, revoked |-> {}, admin |-> "kept",
               survivor |-> survivor, duplicate |-> duplicate]

RepointMoveRoleAssignments ==
  /\ Merging("move")
  /\ dedup' = [dedup EXCEPT !.step = "revoke",
                 !.moved = {k \in Keys : Active(dedup.duplicate, k) /\ ~Active(dedup.survivor, k)}]

\* A mutant of the action below: everything the duplicate had, the moved rows too.
RepointRevokeAll ==
  /\ Merging("revoke")
  /\ dedup' = [dedup EXCEPT !.step = "admin",
                 !.revoked = {k \in Keys : Active(dedup.duplicate, k)}]

\* The rest is redundant.
RepointRevokeRoleAssignments ==
  /\ Merging("revoke")
  /\ dedup' = [dedup EXCEPT !.step = "admin",
                 !.revoked = {k \in Keys : Active(dedup.duplicate, k)} \ dedup.moved]

RepointMoveInstanceAdmin ==
  /\ Merging("admin")
  /\ dedup' = [dedup EXCEPT !.step = "adminRevoke",
                 !.admin = IF dedup.duplicate \in admins /\ dedup.survivor \notin admins
                           THEN "moved" ELSE @]

RepointRevokeInstanceAdmin ==
  /\ Merging("adminRevoke")
  /\ dedup' = [dedup EXCEPT !.step = "commit",
                 !.admin = IF dedup.duplicate \in admins /\ @ # "moved" THEN "revoked" ELSE @]

\* A mutant of the operator below: the assignments are granted anew, without their expiry.
MergedAfresh(p) ==
  [k \in Keys |->
     CASE p = dedup.survivor /\ k \in dedup.moved                      -> Never
       [] p = dedup.duplicate /\ k \in dedup.moved \union dedup.revoked -> None
       [] OTHER                                                        -> expiry[p][k]]

\* A row that moves keeps its expiry.
Merged(p) ==
  [k \in Keys |->
     CASE p = dedup.survivor /\ k \in dedup.moved                      -> expiry[dedup.duplicate][k]
       [] p = dedup.duplicate /\ k \in dedup.moved \union dedup.revoked -> None
       [] OTHER                                                        -> expiry[p][k]]

\* DeactivatePerson, and the commit.
CommitDedup ==
  /\ dedup.step = "commit"
  /\ expiry' = [p \in Holders |-> Merged(p)]
  /\ admins' = CASE dedup.admin = "moved"   -> (admins \ {dedup.duplicate}) \union {dedup.survivor}
                 [] dedup.admin = "revoked" -> admins \ {dedup.duplicate}
                 [] OTHER                   -> admins
  /\ deleted' = deleted \union {dedup.duplicate}
  /\ dedup' = NoDedup
  /\ UNCHANGED <<reaches, now>>

\* An error in any statement, a lost connection, or a crash.
RollbackDedup ==
  dedup.step # "idle" /\ dedup' = NoDedup /\ UNCHANGED <<expiry, admins, deleted, reaches, now>>

Write ==
  \/ \E p \in Holders, k \in Keys :
       \/ \E e \in Expiries : InsertRoleAssignment(p, k, e)
       \/ RevokeRoleAssignment(p, k)
       \/ ClearRoleAssignmentExpiry(p, k)
  \/ \E ps \in SUBSET Holders \ {{}}, k \in Keys, e \in Expiries : BulkGrantUnitRole(ps, k, e)
  \/ \E p \in Holders : GrantInstanceAdmin(p) \/ RevokeInstanceAdmin(p)
  \/ \E k \in SubtreeKeys : MoveUnit(k)
  \/ Tick
  \/ \E p, q \in Holders : BeginDedup(p, q)
  \/ RepointMoveRoleAssignments \/ RepointRevokeRoleAssignments
  \/ RepointMoveInstanceAdmin \/ RepointRevokeInstanceAdmin
  \/ CommitDedup \/ RollbackDedup

-----------------------------------------------------------------------------
Data == <<expiry, admins, deleted, reaches, now, dedup>>

Forceful(p) == {k \in Keys : InForce(p, k)}
Reaching    == reaches \union (Keys \ SubtreeKeys)

\* Require on the unit asked about, and its first read.  forced and held are what has been
\* in force at some time since, and what has been in force and reaching all the time.
IsActiveInstanceAdmin(p) ==
  /\ call.step = "idle"
  /\ call' = IF p \in admins THEN [step |-> "allow"]
             ELSE [step |-> "grants", person |-> p, grants |-> {},
                   forced |-> Forceful(p), held |-> Forceful(p) \cap Reaching]
  /\ UNCHANGED Data

\* What the world does while a decision is under way.
Observe ==
  IF call.step \notin {"grants", "closure"} THEN UNCHANGED call
  ELSE \E p \in {call.person} :
         call' = [call EXCEPT !.forced = @ \union Forceful(p)',
                              !.held   = @ \cap (Forceful(p) \cap Reaching)']

\* A mutant of the operator below: only the revocation is looked at.
UnrevokedGrants(p) == {k \in Keys : Active(p, k)}

\* A mutant of the operator below: expires_at > now() alone, which NULL is not.
DatedGrants(p) == {k \in Keys : InForce(p, k) /\ expiry[p][k] # Never}

GrantsInForce(p) == {k \in Keys : InForce(p, k)}

ActiveGrantsForSubject ==
  /\ call.step = "grants"
  /\ call' = [call EXCEPT !.step = "closure", !.grants = GrantsInForce(call.person)]
  /\ UNCHANGED Data

\* The next grant: one on the unit itself settles it, one on a subtree asks the closure.
IsAncestorOrSelf(k) ==
  /\ call.step = "closure" /\ k \in call.grants
  /\ call' = IF k \in Reaching THEN [step |-> "allow"] ELSE [call EXCEPT !.grants = @ \ {k}]
  /\ UNCHANGED Data

Deny ==
  call.step = "closure" /\ call.grants = {} /\ call' = [step |-> "deny"] /\ UNCHANGED Data

ReturnDecision == call.step \in {"allow", "deny"} /\ call' = NoCall /\ UNCHANGED Data

Decide ==
  \/ \E p \in Holders : IsActiveInstanceAdmin(p)
  \/ ActiveGrantsForSubject
  \/ \E k \in Keys : IsAncestorOrSelf(k)
  \/ Deny
  \/ ReturnDecision

Next == (Write /\ Observe) \/ Decide

Spec == Init /\ [][Next]_vars

-----------------------------------------------------------------------------
TypeOK ==
  /\ expiry \in [Holders -> [Keys -> None .. Never]]
  /\ admins \subseteq Holders /\ deleted \subseteq Holders
  /\ reaches \subseteq SubtreeKeys /\ now \in 1 .. MaxTime
  /\ dedup.moved \subseteq Keys /\ dedup.revoked \subseteq Keys \ dedup.moved
  /\ dedup.step # "idle" => {dedup.survivor, dedup.duplicate} \subseteq Holders
  /\ call.step \in {"grants", "closure"} => call.person \in Holders /\ call.grants \subseteq Keys

\* What grants allow was in force while the decision was made: nothing revoked,
\* expired or merged away before it began counts.
DecisionSound ==
  [][call.step = "closure" /\ call'.step = "allow" => call.forced \cap Reaching # {}]_vars

\* Authority that is there all through a decision is never overlooked, whatever
\* other grants end, expire or move between the decision's three reads.
DecisionComplete ==
  [][call.step = "closure" /\ call'.step = "deny" => call.held = {}]_vars

\* Whatever was granted, revoked or expired while a merge was under way, the
\* survivor keeps what it has, gets only what the duplicate has and no longer
\* than the duplicate has it, and nobody else is touched.
MergeInventsNothing ==
  [][deleted' # deleted =>
       /\ \A p \in Holders \ {dedup.survivor, dedup.duplicate} : expiry'[p] = expiry[p]
       /\ \A k \in Keys :
            \/ expiry'[dedup.survivor][k] = expiry[dedup.survivor][k]
            \/ /\ ~Active(dedup.survivor, k)
               /\ expiry'[dedup.survivor][k] = expiry[dedup.duplicate][k]
       /\ admins \ {dedup.duplicate} \subseteq admins'
       /\ admins' # admins => dedup.duplicate \in admins]_vars

\* "MergePersons reassigns duplicateID's active role-assignment ... rows onto
\* survivorID" (core/application/service.go): what the duplicate could do until
\* the merge, the survivor can do after it.
MergeKeepsAuthority ==
  [][\A s \in Holders :
       deleted' # deleted /\ s = dedup.survivor => Forceful(dedup.duplicate) \subseteq Forceful(s)']_vars
=============================================================================
