# Open Faith Map: TLA+ models and proofs

Open Faith Map is a Go service over PostgreSQL (every transaction runs at READ
COMMITTED) with two web applications in front of it.  It keeps a directory of
faith organisations (units in a hierarchy), who has authority over which part
of it, where congregations meet, and the content they publish.  This project
models the parts of it whose correctness depends on the order of things:
derived tables kept up to date incrementally, workflows that several requests
drive at once and resume after a crash, and authority that follows from them.

Paths below are relative to `src/`; "service.go" is always
`internal/<component>/application/service.go`.

## 1. Inventory

| Component | State it keeps | Operations that change it | Used by |
|---|---|---|---|
| **directory** | units (soft-deleted, never removed), edges per graph, the closure table, its drift status, unit move jobs | CreateUnit, CreateUnitWithEdge, UpdateUnit, SetUnitState, DeleteUnit, AddEdge, RemoveEdge, Move, RebuildClosure, VerifyClosure | authz (ancestor questions), religion, registration, core |
| **authz** | role assignments (scope, expiry, revoked), instance admins, seeded roles | GrantUnitRole, BulkGrantUnitRole, RevokeRoleAssignment, ClearRoleAssignmentExpiry, Grant/RevokeInstanceAdmin, repointing on a merge | every handler (`Require`), core, registration |
| **core** | none of its own | the admin operations: create, delete and move units, grants, merging two persons, invites; each followed by an audit record | the admin console |
| **religion** | organisation profiles, classifications, sites, policies | CreateChildOrg (unit, then profile, then classification), SetOrgProfile, AddSite, ... | registration, congregationimport |
| **location**, **membership** | locations; positions and who fills them | one insert each; RepointPositions on a merge | registration, core |
| **registration** | requests: PENDING, PROVISIONING, APPROVED, REJECTED, with the ids of what was made for them | Submit, Approve (a resumable workflow), Reject, Reparent | public form, operators |
| **congregationimport** | candidates, runs, jurisdiction records | connector runs (upserts), ApproveCandidate, RejectCandidate, the jurisdiction sync | operators, a scheduler |
| **identity** | persons, accounts, external identities, sessions, invites, API keys | linking on sign-in, Touch, CreateInvite, revocations, merge | the sign-in path, core |
| **content** | documents in states, revisions, checkpoints, translation groups, navigation | Create/Update/TransitionDocument, Restore, Prune | editors, the public site |
| **moderation** | reports, append-only actions, appeals | TakeActionOnReport, ReverseAction, FileAppeal, DecideAppeal | moderators |
| **vouching** | guarantors and their vouches | CreateVouch, RevokeGuarantor (with a fan-out), ... | operators |
| **discovery** | a cache of public search results | Search refreshes it from live data | the public site |
| **auditlog** | append-only records | one insert | core, registration |
| **refdata**, **platform**, composition root, generated API, web applications | configuration and read-only reference rows | none of interest | everything |

How they interact: all calls are in-process and synchronous; components share
nothing but the database, and there are no queues.  What makes the system hard:

* **The closure table** (directory).  Every authority question is answered from
  a table of ancestor pairs and depths that each attach extends and each detach
  shrinks by bounded SQL, in a graph where a unit may have several parents.
  *Correct* means: the pairs and depths are always those the edges imply, and
  the edges never form a cycle.
* **Unlocked reads** (directory).  Edge changes take the graph's row lock, but
  look at whether units are live before they wait for it; DeleteUnit takes no
  lock.  *Correct*: transactions still look like one change at a time.
* **Moves** (directory).  A move is a durable job driven over six statements in
  separate transactions by whichever request is at it; it can die anywhere and
  is resumed by a repeated request, or by two.  *Correct*: the units stay one
  tree under the root, no unit loses its ancestors, every job ends.
* **Authority over time** (authz).  Assignments expire without being revoked,
  the unique index does not know that, and merging persons moves them.
  *Correct*: what an operation reports as granted is in force, a merge loses no
  authority, revoking takes effect at once.
* **Workflows without a transaction** (registration, congregationimport,
  religion, core).  Each step commits for itself and the state row is updated
  afterwards.  *Correct*: an approved request has one unit with all that belongs
  to it, and nobody has authority without it, whatever crashes and whoever else
  is working on it.
* **Check, then act** (content, moderation, vouching, congregationimport,
  identity).  A status is read, a decision made, and the result written without
  looking again.  *Correct*: what visitors see is always a finished version; an
  action is undone once; a verified congregation is complete.
* **A cache without deletion** (discovery).

`PROJECT.json` lists the hazards one by one, each at its line, with the
properties that cover it or the reason none does.

## 2. Plan

Most important first; what is done is marked.

| # | Module(s) | Composes | Abstract specification | State |
|---|---|---|---|---|
| 1 | `Reachability`, `ClosureStore`, `DirectoryTables`, `DirectoryClosure` | | `UnitHierarchy` | done, proved |
| 2 | `DirectoryTxns` | `ClosureStore`, `DirectoryTables` | `UnitHierarchy` | done, proved |
| 3 | `UnitMove` | `Reachability` | `UnitTree` | done, proved |
| 4 | `RegistrationApproval` | the steps of religion, membership, authz and core it needs | `RequestLifecycle` | done, proved |
| 5 | `Authority` (authz, core's merge of persons): assignments that expire, instance admins, bulk grants, merging, decisions | | "a decision allows what is in force" | done, proved |
| 6 | `CandidateImport` (congregationimport): connector runs against operators, provisioning | as 4 | | done, proved |
| 7 | `JurisdictionSync` (congregationimport): the sync's passes, failures and retries | | the source's tree | done, proved |
| 8 | `Publishing` (content): states, scheduled publication, drafts, checkpoints, pruning | | the documented state machine (not kept: section 7) | done, proved |
| 9 | `Moderation`, `Vouching`: reports, append-only actions, reversals, appeals; guarantors, revocation and its fan-out | `Vouching` runs with `Moderation`'s table of reports | | done, proved |
| 10 | `Accounts` (identity): first sign-in, account status, invites, sessions, the account in a merge | | | done, proved (API keys left) |
| 11 | nesting, translation groups and navigation (content) | | | left |
| 12 | `DiscoveryCache` | | a result is live or refreshed | left |

Every invariant, action property and refinement that a passing run checks is
also a theorem (section 6).  Still worth proving: the statements of section 7 in
the form the code does keep (a child under a deleted unit only where two
transactions overlapped; no authority lost by a merge of persons whose rows do
not expire), and `RootReachesAll` with callers that share a unit, as far as it
holds.

## 3. Modules and how they correspond to the code

### Reachability, UnitHierarchy

`Reachability` defines, for a set of edges, the units a unit reaches, the
closure and the shortest distances, as fixed points over sets (no recursive
operators, so that proofs can use it).  `UnitHierarchy` is what the directory
promises: edges come and go one at a time, an attach that would close a cycle
is refused, and a reader of the ancestor relation sees what the edges imply.

### ClosureStore, DirectoryTables, DirectoryClosure

`ClosureStore` translates the SQL of
`internal/directory/adapters/queries/directory.sql` on the table
`directory_unit_closure`, a function from pairs to depths: the extension for a
new edge, and the three statements of the shrink (delete the slice, re-derive it
by the recursive query bounded to it, prune self rows).  `DirectoryTables` has
the tables of the canonical graph as variables (`units`, `deleted`, `edges`,
`closure`), their seeded rows and the promise of `UnitHierarchy` about them;
`DirectoryClosure` adds `inDrift` and has one action per operation of
service.go, each the whole transaction: its existence checks, the cycle guard on
the *stored* closure, the edge row and the closure statements.  One graph is
modelled: no operation touches two.  Codes, names, levels and states of units
are data no property here reads; UpdateUnit and SetUnitState only rewrite those
and are left out.

### DirectoryTxns

The same transactions, cut where another session can come between: the reads
before the lock, waiting for the graph's row lock, the cycle guard, the commit;
and DeleteUnit's read of its children apart from its update.  `Rollback` may
happen anywhere.  What follows the guard touches tables that only the holder of
the lock writes, so it is one step at the commit.

### UnitMove, UnitTree

`Move` and `runMoveSteps` statement by statement: finding a live job,
`currentParent` from the job history or the nearest ancestor, creating the job
under the unique index on live jobs, and the three steps, each a transaction of
its own followed by a status update that names only the job's id.  `caller` is
one running call with its own copy of the job: its `step` comes from the status
it read, not from the row.  `Crash` ends a call between any two statements;
`Faults` lets a step's transaction fail for reasons of its own, which marks the
job FAILED.  The closure is read as reachability, which module 1 shows it to
be.  `UnitTree` is the abstract promise: one tree, and a move changes one
unit's parent in one step.  A unit with both edges counts as being with its old
parent until that edge is gone.

### RegistrationApproval, RequestLifecycle

`Approve` (registration) calls religion, membership and authz; every call
commits by itself.  `op` is one running Approve or Reject with the request and
the unit it works on, its `step` the statement it takes next; `status` and
`unitOf` are the request's row, `madeFor` says for which request a unit was
created (no column holds this: it is what an operator knew when the unit was
made), and `has` is the set of rows that exist about a unit, one name per row.
Each step is the statement with its condition: the `WHERE status = ...` of the
three updates, the unique index on primary sites (an error) and those on
positions, memberships and assignments (taken for success), the audit records.
Whatever goes wrong, the call just ends, which is `Crash`; what a refused
permission, a taken code or an excluded parent do is therefore in it too.  The
admin's `DeleteUnit` is its two checks and its update, for a unit without
children.  `RequestLifecycle` is what the submitter sees: submitted, then
rejected or given one unit of its own, then approved with it.

### Authority

The rows of `authz_role_assignments` that are not revoked are a function from
persons and *keys* (role, target unit, scope, graph: what the unique index
names) to their expiry; `None` is no row, `Never` a null `expires_at`.  A row
that has expired is still a row: the grant of it again writes nothing
(`InsertRoleAssignment`), the bulk grant overwrites it.  `MergePersons` (the
variable `dedup`, the actions named `...Dedup`) is one transaction of four
statements and the person's deactivation: each reads what has been committed
when it runs, rows it wrote are locked (`Held`: whoever wants one waits for the
commit), and nothing is seen before the commit.  A decision (`Require`, and
`Decide` of the PDP) reads the admin flag, the grants in force and then, for
each grant, the closure; `call` is the one running decision, `forced` and `held`
record what was in force at some time since it began and what was in force and
reaching the unit all the time (they are read by the properties only).
`reaches` stands for the closure: which subtree assignments reach the unit asked
about; `MoveUnit` changes that one by one.  Bounds: one merge and one decision
at a time (two merges meet in the rows they lock; decisions write nothing),
`MaxTime` on the clock.  Roles and permissions are seeds; memberships and
accounts, which a merge moves as well, are left out.

### CandidateImport

One record of one source.  `status`, `taxon`, `located`, `country` and `unitOf`
are its row in `congregationimport_candidates`; `run[r]` is a connector run
processing it (`processRawRecord`) with what it still needs of the row as it was
returned last, `op[o]` an ApproveCandidate call.  The upsert names the statuses it
may touch in its WHERE; when that excludes the row, the row is read again and its
status then decides whether the run goes on (`GetCandidateBySource`; another run
may have put it back in review meanwhile).  The run's other writes name only the
id, which the model keeps.  What a
hint resolves to (`Taxa`) depends on aliases that operators edit, so each read
may give any of them.  The approval has the shape of the registration's: unit,
profile, classification, audit record, PROVISIONING, primary site, and the row
in `congregation_status` that says the congregation was verified, which has the
unit as its key.  `CrashRun` and `CrashApproval` are every error and every death.
A suggested jurisdiction is advisory and left out.

### JurisdictionSync

`nodeStatus` and `nodeUnit` are the columns of a node's row, `Orgs` the units.
`Nodes` is what the source may list, `ParentOf` its tree, which is not assumed to
be one: parents may go in a circle.  A sync starts with any nodes (`Start`): a
parent may be missing from what this sync was given, and a unit may have been made
by a sync that was given it before.  That a node changes its parent between syncs
is left out: the unit, once made, stays where it is.  `sync[s]` is one running sync: `remaining` and
`ahead` are the nodes still to do and those the pass has yet to reach (Go ranges
over a map: in no order), `resolved` the units it knows.  `ensureJurisdictionUnit`
is its statements: the row by its natural key, the pending insert (unique), the
unit with its edge (its code is made of the node's id and unique), the profile,
the row's status.  Any of them may fail; a failed node counts as done.  A failed
read of the parent's row counts as a parent that is not ready (`ParentUnits`).

### Publishing

One document: `doc` is its row, `revisions` its rows in `content_revisions` by
number, 1 being the draft that `draft_revision_id` points at for good.  A save
and a restore write the draft's row in place.  A transition is looked up in the
effective state that was read at the start of the call (`BeginTransition`), and
written later without a condition; publishing and scheduling copy the draft into
a new checkpoint, move the pointer, write the state and prune, in one transaction
whose reads come before (`ReadDraft`, `NextRevisionNo`) and whose writes are seen
together (`Promote`).  A number that was taken meanwhile violates the unique
index and fails the call.  Bounds: `MaxRevision` publications, `MaxTime`,
`KeepCount` 2 for the code's 50, and `NotOvertaken`, which keeps `KeepCount`
publications from completing between two statements of another (with 50 that
takes fifty; with 2 it would be common).

### Moderation, Vouching

The three tables are sequences, in the order of their rows; actions are only
appended.  `mod[m]` is a moderator's call: TakeActionOnReport inserts the action
and then marks the report, ReverseAction checks and then inserts, under the
unique index on `reverses_action_id`.  `expired` is the clock, reduced to how many
actions are past their grace period.  `Vouching` extends `Moderation` and adds
guarantors: a vouch is checked and then inserted; a revocation commits, lists the
guarantor's vouches and files a report for each through the composition root's
adapter, going on when one fails.  Bounds: `MaxRows` in moderation's tables
together, `MaxVouches`.

### Accounts

`person`, `account`, `linked`, `pending` and `session` are the tables of
`internal/identity`; an account with `deleted_at` is "deleted" and takes no part in
the two unique indexes (`Insertable`).  A request is `Authenticator.Handle`
statement by statement: `Resolve` joins the login with its account if that is
active; otherwise a person is matched by the login's code or address
(`MatchPerson`, both modes of the configuration), and `LinkOnMatch` finds that
person's account or makes one, resolves the login a second time, inserts the
identity and accepts the invite; last comes the session, which has to be of the
account that was resolved, but for the one route that makes one.  Every statement
commits for itself, and every error ends the request (`Drop`).  Meanwhile an
administrator disables and enables accounts, in two statements, revokes sessions
and invites; and `MergePersons` reads both accounts and then moves one or deletes
it, which shows at the commit.  A revoked session has no entry in `session`.
`usable` notes, for the property `AdmittedInForce` alone, which accounts were
active and whose since a request began.  Bounds: one merge and one status change
at a time.

## 4. What the runs check

| Run | Instance | States | Shows |
|---|---|---|---|
| `closure` | 4 units, 2 of them seeded, every operation, no bound on histories | 1,968 | the closure table has exactly the pairs (`ClosureExact`) and the shortest distances (`DepthExact`) of the edges; no live unit is under a deleted one; `UnitHierarchy` is implemented |
| `txns` | 2 sessions, 3 units | 256,446 | the same hierarchy under every interleaving, so that no two attaches close a cycle together; every transaction ends |
| `move_own_units` | 2 callers, a unit each, 4 units, 3 jobs, crashes | 100,449 | moves look like one change of parent each (`UnitTree`); two parents only while a job is live |
| `move_retried` | 1 caller, 3 jobs, steps may fail, repeated requests | 15,961 | every job ends; at every moment every unit hangs from the root |
| `move_parentless` | 2 callers on one unit, 2 jobs | | *violation*: the slower of two callers removes the edge the unit has come back to |
| `approval` | 1 request, 2 units, 2 operators, 1 admin, crashes, repeated requests | 48,087 | approved means complete; membership and authority only with the request; `RequestLifecycle` is implemented; an approval that is repeated gets there, although calls collide on the primary site and die |
| `authority` | 2 persons, 2 keys (a unit, a subtree), 1 merge, 1 decision, 2 instants | 603,220 | an allowed decision rests on something in force since it began, a denied one overlooks nothing that was there throughout; a merge adds only what the duplicate had, no longer than it had it |
| `publishing` | 2 editors, 2 contents, 2 checkpoints kept of 3, 3 instants | about 305,000 | visitors read checkpoints only, which never change, also when old ones are pruned; what is scheduled goes live |
| `candidates` | 2 runs, 2 operators, 2 units | 840,013 | verified means complete; decisions are undone only by a run that was on the record before |
| `jurisdictions` | 2 nodes on 2 levels, listed or not, 2 units, 2 syncs | 79,385 | units mirror the source's tree; every sync ends |
| `trust` | 2 moderators, 2 guarantors, 1 revocation at a time, 3 rows, 2 vouches | 1,699,442 | an actioned report has its action; one reversal; a successful fan-out covers every vouch made before it |
| `accounts` | 2 persons (1 entered beforehand), 2 logins with that person's code, 2 accounts, 1 session, 2 requests, 1 merge at a time | 840,271 | nobody comes in through an account that was out of use, or another's, all the time of the request; a login stays with its person but for a merge |

Every property of a passing run has been tried against a plausible bug in the
operation it depends on (`mutants` in `PROJECT.json`; the altered operators are
in the modules, marked as mutants): each is found.

Deadlock is checked except where the system really may stop: when the request
is decided and every unit id used (`approval`), and when the candidate is
decided and its units are used (`candidates`).

**Why the bounds are enough.**  Closure maintenance goes wrong on shared
descendants, diamonds and re-attachment, which need four units and a second
parent: four units give all of them, with unlimited histories (units are never
removed, so a history is only bounded by the state repeating).  Two sessions
are what a lock tells apart, and with three units there is one to create below
another that is being deleted.  For moves, three units under the root give a
cycle between two moves with a third unit to go to; two callers are the pairs of
the interleaving arguments; `MaxJobs` (at most 3) covers a unit moved away, back
and once more, the history the parentless run needs.

For approvals, two units are one that is recorded and an orphan that was not; two
operators are the pairs that race (approve against approve, approve against
reject), and each may die and start again any number of times.  All that a call
reads is of its own request and its own unit, so two requests meet nowhere but in
the choice of a fresh unit; the theorems of section 6 are about any number of
them.  There is no symmetry in that run, because it checks liveness.

For `authority`, two persons are a survivor and a duplicate, the two keys are the
two ways an assignment can reach a unit, and two instants are before and after an
expiry.  For `publishing`, two editors race on one number, and keeping two
checkpoints of three prunes.  For `candidates`, two units are one for each of two
approvals or an orphan and its successor; two runs are what puts a record back in
review behind the other's back, and each processes it again and again.  For
`jurisdictions`, two nodes are a parent and its child, which waits for it, or for
ever when it failed or was not listed (parents in a circle wait in the same way,
each for a row that is never CREATED); two syncs overlap in every way, each
starting again after it ended or died, with other nodes listed; there is a unit
for each node.  There is no symmetry in that run, because it checks liveness;
deeper trees are left to the theorem of section 6, which is about any.  For
`trust`, three rows are a report, an action and its reversal, or two reports of a
fan-out and what is filed between them.  For `accounts`, the persons are a
survivor and a duplicate in either role, one of whom has no account at first; the
two logins are two strangers with one person's code, one of whom may also hold an
invitation; and two requests are the two first sign-ins that both find no account,
or one and its repetition.

## 5. Fairness

* `DirectoryTxns`: weak fairness on a session's next statement (the driver runs
  it; no session waits for a person) and strong fairness on taking the row lock
  (PostgreSQL queues the waiters of a row lock).  Nothing is assumed of
  rollbacks except where the bounded set of ids makes a create fail: the
  program sets no lock timeout.
* `UnitMove`, `Retried`: strong fairness on each step of a call that works on
  a job.  A call may die at any step any number of times; what is excluded is
  that calls die at the same step for ever.  To this it adds weak fairness on
  repeating the request while the unit has a live job.  This is an assumption
  about callers, not about the code: no background task resumes jobs.
* `RegistrationApproval`, `Retried`: weak fairness on "the call takes its next
  step or dies", strong fairness on each step after the unit is known (some
  operator gets through it if operators keep reaching it, so calls do not die at
  one step for ever), and weak fairness on somebody asking for the approval of a
  PROVISIONING request again.  The last is about people: nothing in the program
  resumes an approval.
* `Publishing`: weak fairness on the clock, nothing else; no job runs.
* `JurisdictionSync`: weak fairness on a running sync's next step (the call runs;
  it may die instead).

## 6. What is proved

TLAPS checks, for every value of the constants:

| Module | Theorem | Says |
|---|---|---|
| `ClosureStoreTheorems` | lemmas, `ExtendExact`, `ShrinkExact` | what adding or removing an edge does to reachability; from an exact closure, each of the two SQL updates yields the exact closure of the new edges |
| `ClosureStoreTheorems` | `ExtendDepths`, `ShrinkDepths` | the same for the depth columns: shortest distances before, shortest distances after |
| `DirectoryProofs` | `Invariant`, `TypeCorrect`, `ClosureIsExact`, `DepthsAreExact`, `NoCycle`, `NothingLiveBelowDeleted` | the safety invariants of `DirectoryClosure` |
| `DirectoryProofs` | `Implements` | `DirectoryClosure` implements `UnitHierarchy` |
| `DirectoryProofs` | `TxnInvariant`, `TxnTypeCorrect`, `TxnDepthsAreExact`, `TxnsImplement` | the same for `DirectoryTxns`, at every interleaving |
| `UnitMoveProofs` | `TypeCorrect`, `RootHoldsAll`, `ParentsWhileMoving`, `MovesImplementTree` | the properties of the runs of `UnitMove`, under the conditions named below |
| `RegistrationProofs` | `Invariant`, `TypeCorrect`, `ApprovedIsComplete`, `GrantsComeWithRequests` | the safety invariants of `RegistrationApproval` |
| `RegistrationProofs` | `Implements` | `RegistrationApproval` implements `RequestLifecycle` |
| `AccessProofs` | `TypeCorrect`, `DecisionsAreSound`, `DecisionsAreComplete`, `MergesInventNothing` | the properties of `Authority`'s run |
| `AccessProofs` | `AccountsTypeCorrect`, `LetThroughInForce`, `LoginsStayPut` | the properties of `Accounts`' run |
| `ImportProofs` | `TypeCorrect`, `VerifiedComplete`, `DecisionsHold` | the properties of `CandidateImport`'s run |
| `ImportProofs` | `SyncTypeCorrect`, `SourceMirrored` | the safety properties of `JurisdictionSync`'s run |
| `PublishingProofs` | `TypeCorrect`, `VisibleIsServed`, `CheckpointsNeverChange`, `EditsArePrivate` | the safety properties of `Publishing`'s run |
| `TrustProofs` | `TypeCorrect`, `ActionedReportsHaveActions`, `ReversalsAreUnique`, `RevocationsReachModerators` | the properties of `Vouching`'s run |

### The directory

The only assumption is `SeedAssumption`: the two seeded units differ and are
units.  The set of units may be infinite.

The argument: `IInv` joins the types, exactness of pairs and of depths,
acyclicity, finitely many edges, and "no live unit is reachable from a deleted
one".  They need each other.  The cycle guard reads the stored closure, so it
only guards the edges while the closure is exact; `ShrinkExact` needs the edges
to be acyclic (the two sides of a removed edge are disjoint only then, and the
walk is bounded to one of them); and DeleteUnit checks *edges* to live children,
which says something about the closure only if deleted units reach nothing live.
Each action preserves each conjunct by a lemma of its own, and `LiveUnderLive`
follows from `IInv`.  The exactness proofs compare the two closures by
induction-free arguments: `Reachable` is the least set that contains its start
and is closed under the edges, so membership is shown by exhibiting a closed
set.

Depths need induction.  The library's induction theorems take an operator as a
parameter, which no installed prover instantiates, so `Least` (a non-empty set
of numbers has a least one) is derived from the well-foundedness of strict
subset on the subsets of a finite set, and `AllNumbers` and `AlongDistance`
state induction for a set.  `Distance` is a recursive function over a bounded
number of steps; `DistanceFacts` replaces it, once and for all, by three facts:
zero at the start, at most one more after any edge, exactly one more after some
edge.  That the bound suffices (as many steps as there are edges) is
`LevelsGrow`, a counting argument: each level that is not closed has an edge
below it that the one before had not.  From there everything follows from
`Potential` (what grows by at most one along each edge grows by at most the
distance): the triangle inequality, the distance along more edges, and the two
updates.  `DistanceAddEdge` is why the extend statement may take the smaller of
the old depth and the one way through the new edge (the guard excludes two ways
through it); `DistanceRemoveBetween` is why, after a detach, the walk above the
removed edge together with the rows stored where it leaves that side gives the
minimum: no exit is too near, and a shortest path has one.

For the transactions there is also `TxnAssumption`: the two null values are no
session and no unit.  Exactness, depths and acyclicity are kept by the same
lemmas; what interleaving adds is `TxnsOnTrack`: whoever is past the lock holds
it, the units it names are still there, and the guard's answer ("the child has
no row down to the parent") is still true when the attach commits, because only
the holder of the lock commits anything to the closure.  That deleted units
reach nothing live is not part of it: interleaved, it does not hold (section 7).

### Moves

`MoveAssumption`: the initial parents make a tree under the root, and callers move
units other than the root.  `TypeCorrect` needs no more.  The other three theorems
have conditions of their own, because the code does not keep them without:

* `MoversApart` (no two callers move the same unit).  Two calls that drive one
  job are what `move_parentless` shows to go wrong.  Any number of callers may move
  different units at once, and a unit below one that is being moved.
* `~Faults` (no statement fails), for `ParentsWhileMoving` and `MovesImplementTree`:
  a failing RemoveEdge leaves two parents and no job (section 7).  `RootHoldsAll`
  holds with faults too.  Calls may die at any step in all three.

The runs have instances of both kinds (`move_own_units`, `move_retried`).  The
argument has three layers.  `TInv` ties each call to a job that is there, of its
own unit and target.  `JInv`: a unit has one live job, which has not lost the
edge it has recorded; a call's step is the one its job's status says; and the
edges are a graph without cycles in which the root reaches everything.  The new
edge goes to a unit that is not below the moving one, so that it closes no
cycle; the old one goes only when the new one is there, and as the other parent
cannot lie below the unit, what the root reaches does not change
(`OtherParentHolds`).  `PInv`, without faults, says which the parents are: by
the status of the latest job the old one, both, or the new one (`Placed`), and
by a call's step what it knows of that (`CallPlaced`).  It needs the history,
since after a crash the next call takes the old parent from the latest job.  The
refinement then maps a unit to its old parent until that edge is gone.

### Registration approval

`RegistrationProofs` proves, for every set of requests, units, operators and
admins (finite or not), `TypeCorrect`, `ApprovedIsComplete`,
`GrantsComeWithRequests` and `Implements` (`RegistrationApproval` implements
`RequestLifecycle`).  The assumption is `ApprovalAssumption`: the two null
values are no request and no unit.

Neither property is inductive.  That an approved request is complete depends on
what a call in the middle has already seen to, and on its unit being the one in
the row.  `IInv` adds, for calls (`CallsOnTrack`): what lies before a call's step
is there (`Before`), on a unit made for its request, and from `MarkProvisioning`
on, that unit is the row's and the request is provisioned or approved, by this
call or by another.  And for requests (`RequestsHaveTheirUnit`): a row has a
unit just when it is provisioned or approved, one that was made for it and has
its profile, which is what a resuming call starts from.  The steps fall into
three kinds with a lemma each: those that leave a row (`EnsureKeeps`), those
that only move a call (`CallMoves`), those that decide about a request
(`RequestMoves`).  `Implements` uses the invariant twice: a unit that is given to
a request belongs to no other because it was made for this one, and an approval
changes no unit because the call's unit is the row's.

### Authority

`AuthorityAssumption`: the keys that reach by subtree are keys, and time has at
least one instant.  The decision's two properties are about reads at different
moments, so `CallOnTrack` brackets the grants it read: everything in force at the
moment lies in `forced`, everything in `held` is in force and reaches the unit at
the moment, and what was read lies between the two.  `ObserveKeepsAsking` shows
that once for all writes.  For the merge, `MergeOnTrack` says what its row locks
are for: an assignment it has moved is still the duplicate's in the committed
table and the survivor still has none, so that what the commit writes is what was
read.

### Signing in

`AccountsAssumption`: the seeded persons are persons, a login's code is a
person's or nobody's, and the three null values are none of theirs.
`AdmittedInForce` compares what a request is let through with (its session's
account) with what was in use at some time since it began, and a request reads
the two at different moments.  `OnTrack` says what it may rely on in between:
the account it has come to is one it has seen in use for its person (`usable`),
and still belongs to that person unless the person has been merged away since,
which the merge's own writes can be checked against.  `Shapes` has what the
tables' foreign keys would say: what is referred to is there, a merge has two
persons.  `LoginStaysPut` is an action property of the same invariant: only a
merge moves a login's account to another person.

### The import

`CandidateAssumption`: the null unit is no unit.  `Known` says which rows the unit
of an approval has, by the approval's step; rows are only added, so no other
call disturbs it, and `VerifiedIsComplete` is what it says at the last step.
`DecisionsStand` needs only the types: the statements that can leave a decided
status are those of a run beyond its upsert.

`SyncAssumption`: the tree's values are nodes or the two special ones, and these
are neither nodes nor units.  `Right` says what each sync believes is so: the unit
it goes under was made for the node's parent and is whole, the one it has made
was made for its node, and those it has resolved are whole.  Beliefs never become
false, because a unit is made for one node for good and profiles stay (`Grows`);
`MirrorsSource` then follows when a row is marked, and when a unit is put under
the one believed in.  Nothing is assumed of the source: it may have cycles.

### Publishing

`PublishingAssumption`: the bounds are positive.  What is visible has a
checkpoint to serve because of three things that hold together (`IInv`).
`PointerOnTrack`: once there is a published revision there is one for good, and
it is a checkpoint, never the draft.  `CallsOnTrack`: the state that a call is
going to write without looking again is DRAFT, or UNLISTED when something is
published.  `NumbersOnTrack`: from the number that a call has read to the newest
there is, every number is still taken, so that its insert either takes the next
one or violates the unique index; this is what pruning could break, and does not
as long as fewer than `KeepCount` publications complete between two statements
of one (`NotOvertaken`, a bound of the model: the code keeps 50).
`RecentIsKept` is why pruning spares every number another call counts on.

### Moderation and vouching

`ModerationAssumption` and `VouchingAssumption`: the bounds are numbers, and a
congregation and the vouches can be reported.  A call about to mark a report has
put its action into the ledger, which only grows (`CallRight`).  A call about to
reverse an action found it to be one that reverses nothing; whether another one
reverses it first is left to the unique index at the insert.  For the fan-out, the
vouches that were made before the revocation are those still to do and those
already reported, for as long as no report has failed.

**Only model-checked**: all liveness (`EveryTxnEnds`, `EveryJobEnds`,
`ProvisioningEnds`, `ScheduledGoesLive`, `EverySyncEnds`), which is out of the
prover's reach: it needs ENABLED and fairness.  The one violated property,
`NeverParentless`, is what `RootHoldsAll` would be for callers that share a unit.

## 7. Where the code and its documentation disagree

One disagreement has a run that TLC finds violated; the property states what the
quoted text says.

* **A unit without a parent** (`move_parentless`, `NeverParentless`).
  directory service.go:293: a moving unit "briefly has two parents mid-move
  rather than momentarily zero".  Two calls resume one job; one finishes it, a
  later job moves the unit back; the other call, still working from its own copy
  of the first job, removes the edge the unit has come back to.

Others are stated in the modules but belong to no run; to see the behaviour, add
the property to the module's configuration.

* **A child under a deleted unit** (`DirectoryTxns`, `NoLiveParentDeleted`).
  `internal/directory/domain/directory.go:26`: "a unit with a live parent->child
  edge in any graph cannot be soft-deleted".  DeleteUnit reads its children and
  deletes without the graph's lock; CreateUnitWithEdge and AddEdge read their
  parent before they take it.
* **A second unit on retry** (`RegistrationApproval`, `OneUnitPerRequest`).
  `docs/modules/registration.md:126`: the id is persisted "as soon as
  createChildOrg returns ... so a retry resumes from the real unit instead of
  creating a second org".  CreateChildOrg has committed three times, and the
  audit record once, before it is.  The import's approval has the same gap.
* **An approved congregation on a deleted unit** (`RegistrationApproval`,
  `DeletedHasNothing`).  core service.go:319: DeleteUnit is "orphan-protecting
  against child units, active role assignments, and an existing religion org
  profile".  It looks before CreateChildOrg has written the profile.
* **A merge that loses authority** (`Authority`, `MergeKeepsAuthority`).  core
  service.go:705: MergePersons "reassigns duplicateID's active role-assignment ...
  rows onto survivorID".  A row of the duplicate that is in force is revoked as
  redundant when the survivor has the same one, even one that has expired or
  expires sooner.
* **Two editors leave the state machine** (`Publishing`, `FixedStateMachine`).
  content service.go:332 describes the transitions as fixed.  The action is looked
  up in the state the call read; the write has no condition, so that two calls
  together make a transition that is not in the table.
* **A run undoes a decision** (`CandidateImport`, `ScrapeNeverUndoes`).
  `internal/congregationimport/adapters/repository.go:82`: the upsert leaves rows
  past review alone "so a re-scrape can never silently undo a decision".  The
  statements after it name only the id, and overwrite what an operator decided
  since.
* **An invite that stays pending** (`Accounts`, `LinkedIsAccepted`).  identity
  service.go:110: "the exact moment JIT actually links the account is when a
  pre-provisioned invite (if any) counts as accepted".  The identity is inserted
  first; a sign-in that dies before it marks the invite leaves it pending for good,
  since the next one resolves at once.
* **A person merged away who comes back** (`Accounts`, `NobodyIsMergedAway`).  core
  service.go:705: MergePersons "moves or disables duplicateID's account ...
  soft-deletes the duplicate person".  A first sign-in that matched the person
  before the merge makes them an account after it.

What the models show besides, and no text denies:

* A move whose RemoveEdge fails is marked FAILED with the new edge in place, and
  the unit keeps both parents with no job under way (`Faults` in `UnitMove`;
  `TwoParentsOnlyMidMove` is therefore checked without faults).  The comment of
  Move speaks of "briefly" two parents.
* A move's job is driven only by the request that created it or by one that
  repeats its target.  Without the last conjunct of `Retried` a job whose process
  died stays live for ever, although `internal/directory/domain/directory.go:32`
  tells callers in its way to "wait for it to fail out".
* An approval that dies between its grant and the audit record never gets the
  record: its retry finds the assignment and skips it (`EnsureGrant`).
  `docs/modules/auditlog.md:25` promises "one row per mutation".
* Granting an assignment that has expired, but was not revoked, succeeds and
  changes nothing (authz service.go:143 calls an existing row a success); the bulk
  grant does prolong it.
* An import's approval that dies after it wrote `congregation_status` and before
  MarkProvisioned can never be completed: every retry fails on the row that is
  there, although provision.go:127 calls the approval resumable.  Two operators
  approving at once make two units, one of them orphaned.
* A run that dies after the upsert leaves a record that looks staged but was
  never checked, until a later run meets it again.
* A jurisdiction whose unit was made but not marked CREATED (the mark failed, the
  call died, or another sync's FAILED came later) fails on its own code in every
  later sync, and its children are never created.
* A vouch whose guarantor was checked before the revocation may be inserted after
  it, and is then never reported.  An appeal that is decided can be decided again.
* Nesting (content) is checked upwards from the new parent only: a document that
  has children may be moved too deep, and two documents under each other; the
  check admits four levels where a public path has at most three segments.  The
  locale of a translation group is checked before the insert, without an index.

## 8. What is not modelled

* **identity** besides signing in: API keys, profile edits, the bootstrap of the
  first admin, the lookup of an invite by its token, last-seen times.  An invite's
  expiry is read by that lookup only; linking accepts it whenever it comes.
* **discovery** (row 12): rows are only added; which of them answer a query is
  geometry.
* **content** besides one document's publication: nesting, translation groups,
  navigation, block types, patterns, site settings, forms (row 11; mostly single
  statements).
* **location**, **refdata**, **auditlog**: single inserts or read-only seeds, in
  the models where another component's step calls them.
* **platform** (configuration, a rate limiter per process, start-up locks), the
  composition root, the generated API and the web applications: no state of their
  own.  In congregationimport, the HTTP connectors and their parsers.

Within modelled components: the text of names and codes, timestamps other than
expiries and publication dates, paged reads and searches.  Connection failures
appear as rollbacks and crashes.
