------------------------------ MODULE Accounts ------------------------------
(***************************************************************************)
(* Who a request is (internal/identity): a verified login is resolved to   *)
(* the account it is linked to, or, at its first use, matched to a person  *)
(* that is already there and linked to that person's account, which is     *)
(* made if need be.  Every statement of this commits for itself, while     *)
(* accounts are disabled and enabled, teammates invited and two persons    *)
(* merged.  Nothing here ever creates a person but an invite.              *)
(*                                                                         *)
(* An error of any kind (an index that is violated, a login nobody         *)
(* matches, a lost connection) ends a request as 401 does: Drop.           *)
(***************************************************************************)
CONSTANTS Persons,      \* persons that ever exist
          Seeded,       \* those entered beforehand, without an account
          Logins,       \* pairs (issuer, subject); each asserts an address of its own
          CodeOf,       \* the person whose code a login's claim carries
          AccountIds, SessionIds,
          Requests,     \* requests that may be under way at once
          NoPerson, NoLogin, NoAccount

ASSUME AccountsAssumption ==
  /\ Seeded \subseteq Persons /\ CodeOf \in [Logins -> Persons \union {NoPerson}]
  /\ NoPerson \notin Persons /\ NoLogin \notin Logins /\ NoAccount \notin AccountIds

VARIABLES person,    \* identity_persons: "none" before it is made
          account,   \* identity_accounts; "deleted" for a row with deleted_at
          linked,    \* identity_external_identities: the account of each login
          pending,   \* accounts with an invite that was not accepted yet
          session,   \* identity_sessions: the account, while it is not revoked
          request,   \* each running request
          admin,     \* a running Deactivate or Reactivate
          merge,     \* a running MergePersons
          usable     \* for each request, which accounts were whose, and active, since it began

tables == <<person, account, linked, pending, session>>
accountVars == <<tables, request, admin, merge, usable>>

NoRow == [person |-> NoPerson, email |-> NoLogin, status |-> "none"]
Idle == [step |-> "idle", login |-> NoLogin, person |-> NoPerson, account |-> NoAccount]
NoAdmin == [account |-> NoAccount, status |-> "none"]
NoMerge == [step |-> "idle", survivor |-> NoPerson, duplicate |-> NoPerson,
            account |-> NoAccount, move |-> FALSE, ending |-> {}]

AccountsInit ==
  /\ person = [p \in Persons |-> IF p \in Seeded THEN "active" ELSE "none"]
  /\ account = [a \in AccountIds |-> NoRow]
  /\ linked = [l \in Logins |-> NoAccount]
  /\ pending = {}
  /\ session = [s \in SessionIds |-> NoAccount]
  /\ request = [r \in Requests |-> Idle]
  /\ admin = NoAdmin
  /\ merge = NoMerge
  /\ usable = [r \in Requests |-> {}]

-----------------------------------------------------------------------------
\* Rows without deleted_at, whatever their status ("active" in the names of the
\* queries); those that may be used; and those that are a person's.
Current == {a \in AccountIds : account[a].status \in {"active", "disabled"}}
Usable(a) == a \in Current /\ account[a].status = "active"
AccountsOf(p) == {a \in Current : account[a].person = p}

InUse == {<<a, account[a].person>> : a \in {b \in AccountIds : Usable(b)}}

\* Every action keeps track of what was usable while a request runs, as long as it may matter.
Watch ==
  usable' = [r \in Requests |->
    IF request'[r] = Idle THEN {}
    ELSE {u \in usable[r] \union InUse \union InUse' : request'[r].person \in {NoPerson, u[2]}}]

\* The two unique indexes over current rows: one account for a person and for an address.
Insertable(p, l) == \A a \in Current : account[a].person # p /\ account[a].email # l

\* A mutant of the operator below: only the address is unique.
InsertAccountByEmail(p, l, a) ==
  /\ account[a] = NoRow /\ \A b \in Current : account[b].email # l
  /\ account' = [account EXCEPT ![a] = [person |-> p, email |-> l, status |-> "active"]]

InsertAccount(p, l, a) ==
  /\ account[a] = NoRow /\ Insertable(p, l)
  /\ account' = [account EXCEPT ![a] = [person |-> p, email |-> l, status |-> "active"]]

-----------------------------------------------------------------------------
(***************************************************************************)
(* A request (Authenticator.Handle).                                       *)
(***************************************************************************)
At(r, step) == request[r].step = step
Goto(r, step) == request' = [request EXCEPT ![r].step = step]
GotoAs(r, step, p, a) ==
  request' = [request EXCEPT ![r].step = step, ![r].person = p, ![r].account = a]
Resolved(r, p, a) ==    \* who it is; the login is done with
  request' = [request EXCEPT ![r] = [step |-> "session", login |-> NoLogin, person |-> p, account |-> a]]
Return(r) == request' = [request EXCEPT ![r] = Idle]
NoOneElse == UNCHANGED <<admin, merge>> /\ Watch

\* ResolveBySubject: the login's account, if it is active.
Resolve(r, l) ==
  /\ request[r] = Idle
  /\ IF Usable(linked[l])
     THEN Resolved(r, account[linked[l]].person, linked[l])
     ELSE request' = [request EXCEPT ![r].step = "match", ![r].login = l]
  /\ UNCHANGED tables /\ NoOneElse

\* The configured arm of JIT, left open: the code names a person, or the address an account.
Matches(l) ==
  {p \in Persons : person[p] = "active" /\ CodeOf[l] = p}
    \union {account[a].person : a \in {b \in Current : account[b].email = l}}

MatchPerson(r) ==
  /\ At(r, "match")
  /\ \E p \in Matches(request[r].login) : GotoAs(r, "account", p, NoAccount)
  /\ UNCHANGED tables /\ NoOneElse

\* A mutant of the action below: a disabled account will do.
GetAccountAnyStatus(r) ==
  /\ At(r, "account")
  /\ LET p == request[r].person
     IN  \/ AccountsOf(p) = {} /\ Goto(r, "insert")
         \/ \E a \in AccountsOf(p) : GotoAs(r, "recheck", p, a)
  /\ UNCHANGED tables /\ NoOneElse

\* LinkOnMatch: the person's account, unless it is disabled (ErrAccountDisabled); else a new one.
GetAccount(r) ==
  /\ At(r, "account")
  /\ LET p == request[r].person
     IN  \/ AccountsOf(p) = {} /\ Goto(r, "insert")
         \/ \E a \in AccountsOf(p) : Usable(a) /\ GotoAs(r, "recheck", p, a)
  /\ UNCHANGED tables /\ NoOneElse

MakeAccount(r) ==
  /\ At(r, "insert")
  /\ \E a \in AccountIds :
       /\ InsertAccount(request[r].person, request[r].login, a)
       /\ GotoAs(r, "recheck", request[r].person, a)
  /\ UNCHANGED <<person, linked, pending, session>> /\ NoOneElse

\* Linked in the meantime, to this person: that link counts.  To another: ErrIdentityConflict.
ResolveAgain(r) ==
  /\ At(r, "recheck")
  /\ LET a == linked[request[r].login]
     IN  \/ ~Usable(a) /\ Goto(r, "link")
         \/ Usable(a) /\ account[a].person = request[r].person /\ Resolved(r, request[r].person, a)
  /\ UNCHANGED tables /\ NoOneElse

\* A mutant of the action below: ON CONFLICT DO UPDATE.
UpsertIdentity(r) ==
  /\ At(r, "link")
  /\ linked' = [linked EXCEPT ![request[r].login] = request[r].account]
  /\ Goto(r, "accept")
  /\ UNCHANGED <<person, account, pending, session>> /\ NoOneElse

\* Unique by issuer and subject, and never updated.
InsertIdentity(r) ==
  /\ At(r, "link")
  /\ linked[request[r].login] = NoAccount
  /\ linked' = [linked EXCEPT ![request[r].login] = request[r].account]
  /\ Goto(r, "accept")
  /\ UNCHANGED <<person, account, pending, session>> /\ NoOneElse

MarkInviteAccepted(r) ==
  /\ At(r, "accept")
  /\ pending' = pending \ {request[r].account}
  /\ Resolved(r, request[r].person, request[r].account)
  /\ UNCHANGED <<person, account, linked, session>> /\ NoOneElse

\* A session of the very account lets the request through; when it was last seen is left out.
Touch(r) ==
  /\ At(r, "session")
  /\ \E s \in SessionIds : session[s] = request[r].account
  /\ Return(r)
  /\ UNCHANGED tables /\ NoOneElse

\* The one route that needs no session makes one.
RegisterSession(r) ==
  /\ At(r, "session")
  /\ \E s \in SessionIds :
       /\ session[s] = NoAccount
       /\ session' = [session EXCEPT ![s] = request[r].account]
  /\ Return(r)
  /\ UNCHANGED <<person, account, linked, pending>> /\ NoOneElse

Drop(r) == request[r] # Idle /\ Return(r) /\ UNCHANGED tables /\ NoOneElse

-----------------------------------------------------------------------------
(***************************************************************************)
(* What administrators do meanwhile (internal/core, for internal/identity).*)
(***************************************************************************)
\* Deactivate and Reactivate find the person's account and then write by its id.
FindAccount(p, status) ==
  /\ admin = NoAdmin
  /\ \E a \in AccountsOf(p) : admin' = [account |-> a, status |-> status]
  /\ UNCHANGED <<tables, request, merge>> /\ Watch

SetAccountStatus ==
  /\ admin # NoAdmin
  /\ account' = IF admin.account \in Current
                THEN [account EXCEPT ![admin.account].status = admin.status]
                ELSE account
  /\ admin' = NoAdmin
  /\ UNCHANGED <<person, linked, pending, session, request, merge>> /\ Watch

\* By an administrator or the owner, who may have looked the account up before
\* it was deleted.  A session never changes its account, and nothing opens it
\* again: a later one may have its id here.
RevokeSession(s) ==
  /\ session[s] # NoAccount
  /\ session' = [session EXCEPT ![s] = NoAccount]
  /\ UNCHANGED <<person, account, linked, pending, request, admin, merge>> /\ Watch

\* Person, account and invite, in one transaction.
CreateInvite(l) ==
  /\ \E p \in Persons, a \in AccountIds :
       /\ person[p] = "none"
       /\ InsertAccount(p, l, a)
       /\ person' = [person EXCEPT ![p] = "active"]
       /\ pending' = pending \union {a}
  /\ UNCHANGED <<linked, session, request, admin, merge>> /\ Watch

-----------------------------------------------------------------------------
(***************************************************************************)
(* MergePersons, one at a time: two reads, then its writes, which are seen *)
(* together at the commit.  It ends the sessions its statement finds.      *)
(***************************************************************************)
\* Only a merge ends a person, so the two persons may be read with the duplicate's account.
ReadDuplicate(s, d) ==
  /\ merge = NoMerge /\ s # d
  /\ person[s] = "active" /\ person[d] = "active"
  /\ LET read == [NoMerge EXCEPT !.survivor = s, !.duplicate = d]
     IN  \/ AccountsOf(d) = {} /\ merge' = [read EXCEPT !.step = "commit"]
         \/ \E a \in AccountsOf(d) : merge' = [read EXCEPT !.step = "survivor", !.account = a]
  /\ UNCHANGED <<tables, request, admin>> /\ Watch

\* Without an account, the survivor gets the duplicate's; else that is disabled, and its sessions end.
ReadSurvivor ==
  /\ merge.step = "survivor"
  /\ merge' = [merge EXCEPT !.step = "commit",
                            !.move = AccountsOf(merge.survivor) = {},
                            !.ending = IF AccountsOf(merge.survivor) = {} THEN {}
                                       ELSE {s \in SessionIds : session[s] = merge.account}]
  /\ UNCHANGED <<tables, request, admin>> /\ Watch

\* A survivor that has got an account meanwhile violates the index: AbortMerge.
\* Sessions opened since the survivor was read may be missed by the statement.
CommitMerge ==
  /\ merge.step = "commit"
  /\ merge.move => AccountsOf(merge.survivor) = {}
  /\ person' = [person EXCEPT ![merge.duplicate] = "deactivated"]
  /\ account' = IF merge.account = NoAccount THEN account
                ELSE IF merge.move THEN [account EXCEPT ![merge.account].person = merge.survivor]
                ELSE [account EXCEPT ![merge.account].status = "deleted"]
  /\ \E missed \in SUBSET (SessionIds \ merge.ending) :
       session' = [s \in SessionIds |->
         IF ~merge.move /\ session[s] = merge.account /\ s \notin missed THEN NoAccount ELSE session[s]]
  /\ merge' = NoMerge
  /\ UNCHANGED <<linked, pending, request, admin>> /\ Watch

AbortMerge ==
  /\ merge # NoMerge /\ merge' = NoMerge
  /\ UNCHANGED <<tables, request, admin>> /\ Watch

-----------------------------------------------------------------------------
Step(r) ==
  \/ MatchPerson(r) \/ GetAccount(r) \/ MakeAccount(r) \/ ResolveAgain(r)
  \/ InsertIdentity(r) \/ MarkInviteAccepted(r) \/ Touch(r) \/ RegisterSession(r) \/ Drop(r)

AccountsNext ==
  \/ \E r \in Requests : Step(r) \/ \E l \in Logins : Resolve(r, l)
  \/ \E p \in Persons, status \in {"active", "disabled"} : FindAccount(p, status)
  \/ SetAccountStatus
  \/ \E s \in SessionIds : RevokeSession(s)
  \/ \E l \in Logins : CreateInvite(l)
  \/ \E s, d \in Persons : ReadDuplicate(s, d)
  \/ ReadSurvivor \/ CommitMerge \/ AbortMerge

AccountsSpec == AccountsInit /\ [][AccountsNext]_accountVars

-----------------------------------------------------------------------------
TablesOK ==
  /\ person \in [Persons -> {"none", "active", "deactivated"}]
  /\ account \in [AccountIds -> {NoRow} \union
       [person : Persons, email : Logins, status : {"active", "disabled", "deleted"}]]
  /\ \A a, b \in Current : a # b => /\ account[a].person # account[b].person
                                    /\ account[a].email # account[b].email
  /\ linked \in [Logins -> AccountIds \union {NoAccount}]
  /\ pending \subseteq {a \in AccountIds : account[a] # NoRow}
  /\ \A s \in SessionIds : session[s] # NoAccount => account[session[s]] # NoRow

\* The tables keep their shapes and indexes; a merge works on what it read.
AccountsTypeOK ==
  /\ TablesOK
  /\ admin = NoAdmin \/ account[admin.account] # NoRow
  /\ merge # NoMerge => person[merge.survivor] = "active" /\ person[merge.duplicate] = "active"
  /\ merge.account # NoAccount => merge.account \in AccountsOf(merge.duplicate)
  /\ \A r \in Requests : request[r].step \in {"recheck", "link", "accept", "session"} =>
       account[request[r].account] # NoRow

\* Whoever is let through as a person through an account, the account was that
\* person's and active at some time since the request began: one that was
\* disabled, or merged away, before it began is never let through.
AdmittedInForce ==
  \A r \in Requests : At(r, "session") => <<request[r].account, request[r].person>> \in usable[r]

PersonOf(l) == IF linked[l] = NoAccount THEN NoPerson ELSE account[linked[l]].person

\* Whatever signs in, links and merges at the same time, a login stays with its
\* person, but for the merge of that person; and it comes first to the person
\* it was matched to, or to whom that person has been merged into.
LoginStaysPut ==
  [][\A l \in Logins : PersonOf(l)' # PersonOf(l) =>
       IF linked[l] # NoAccount
       THEN /\ merge.step = "commit" /\ merge' = NoMerge
            /\ PersonOf(l) = merge.duplicate /\ PersonOf(l)' = merge.survivor
       ELSE \E r \in Requests :
              /\ At(r, "link") /\ request[r].login = l
              /\ \/ PersonOf(l)' = request[r].person
                 \/ person[request[r].person] = "deactivated"]_accountVars

\* "The exact moment JIT actually links the account is when a pre-provisioned
\* invite (if any) counts as accepted" (application/service.go, LinkOnMatch).
LinkedIsAccepted ==
  \A l \in Logins : linked[l] \in pending => \E r \in Requests : At(r, "accept") /\ request[r].login = l

\* A merge "moves or disables duplicateID's account" and "soft-deletes the
\* duplicate person" (core, MergePersons): nobody signs in as one.
NobodyIsMergedAway == \A a \in AccountIds : Usable(a) => person[account[a].person] = "active"
=============================================================================
