--------------------------- MODULE JurisdictionSync ---------------------------
(***************************************************************************)
(* Syncing a source's jurisdictions (internal/congregationimport): a unit  *)
(* for every node the source lists, under the unit of the node's parent.   *)
(* A sync passes over the nodes, in no order, until a pass gets nowhere.   *)
(* What the source lists varies.  Several syncs may run; each may die      *)
(* anywhere, and each read and write of a node may fail.                   *)
(***************************************************************************)
EXTENDS Naturals, FiniteSets

CONSTANTS Nodes,      \* what the source may list
          ParentOf,   \* each node's parent, or NoNode
          Orgs,      \* unit ids that are ever minted
          Anchor,     \* the unit the nodes without a parent go under
          Syncs,
          NoNode, NoOrg

ASSUME SyncAssumption ==
  /\ ParentOf \in [Nodes -> Nodes \union {NoNode}] /\ NoNode \notin Nodes
  /\ {Anchor, NoOrg} \cap Orgs = {} /\ Anchor # NoOrg

VARIABLES nodeStatus, nodeUnit,   \* jurisdiction_units, by node: status, created_unit_id
          madeFor, under,   \* a unit's node (its code is made of it) and its parent unit
          profiled,         \* units that have their profile
          sync              \* each sync's position

syncVars == <<nodeStatus, nodeUnit, madeFor, under, profiled, sync>>
rows  == <<nodeStatus, nodeUnit>>
units == <<madeFor, under, profiled>>

\* remaining: nodes still to do; ahead: those this pass has yet to come to.
Idle == [step |-> "idle", remaining |-> {}, ahead |-> {}, progressed |-> FALSE,
         resolved |-> [n \in Nodes |-> NoOrg], node |-> NoNode, parent |-> NoOrg, unit |-> NoOrg]

SyncInit ==
  /\ nodeStatus = [n \in Nodes |-> "ABSENT"] /\ nodeUnit = [n \in Nodes |-> NoOrg]
  /\ madeFor = [u \in Orgs |-> NoNode] /\ under = [u \in Orgs |-> NoOrg]
  /\ profiled = {}
  /\ sync = [s \in Syncs |-> Idle]

At(s, step) == sync[s].step = step
Set(s, new) == sync' = [sync EXCEPT ![s] = new]
Goto(s, step) == Set(s, [sync[s] EXCEPT !.step = step])

\* fetchAllNodes: the source need not list a node's parent, or what it listed before.
Start(s) ==
  /\ sync[s] = Idle
  /\ \E listed \in SUBSET Nodes \ {{}} :
       Set(s, [Idle EXCEPT !.step = "pass", !.remaining = listed, !.ahead = listed])
  /\ UNCHANGED <<rows, units>>

\* A mutant of the action below: another pass as long as any node remains.
NextPassAnyway(s) ==
  /\ At(s, "pass") /\ sync[s].ahead = {}
  /\ Set(s, IF sync[s].remaining = {} THEN Idle
            ELSE [sync[s] EXCEPT !.ahead = sync[s].remaining, !.progressed = FALSE])
  /\ UNCHANGED <<rows, units>>

\* The end of a pass, and of the sync when nothing is left or nothing could be done.
NextPass(s) ==
  /\ At(s, "pass") /\ sync[s].ahead = {}
  /\ Set(s, IF sync[s].remaining = {} \/ ~sync[s].progressed THEN Idle
            ELSE [sync[s] EXCEPT !.ahead = sync[s].remaining, !.progressed = FALSE])
  /\ UNCHANGED <<rows, units>>

Created(n) == nodeStatus[n] = "CREATED" /\ nodeUnit[n] # NoOrg

\* resolveParentUnitID: what this sync resolved, or what a read finds.  NoOrg is
\* not ready, and a read that fails is that too.
ParentUnits(s, n) ==
  LET p == ParentOf[n] IN
  CASE p = NoNode                                  -> {Anchor}
    [] p \in Nodes /\ sync[s].resolved[p] # NoOrg  -> {sync[s].resolved[p]}
    [] p \in Nodes /\ sync[s].resolved[p] = NoOrg  -> IF Created(p) THEN {nodeUnit[p], NoOrg} ELSE {NoOrg}

\* A mutant of the action below: whether the parent is ready is not looked at.
VisitUnready(s, n) ==
  /\ At(s, "pass") /\ n \in sync[s].ahead
  /\ \E parent \in ParentUnits(s, n) :
       Set(s, [sync[s] EXCEPT !.ahead = @ \ {n}, !.step = "get", !.node = n, !.parent = parent])
  /\ UNCHANGED <<rows, units>>

VisitNode(s, n) ==
  /\ At(s, "pass") /\ n \in sync[s].ahead
  /\ \E parent \in ParentUnits(s, n) :
       Set(s, [sync[s] EXCEPT !.ahead = @ \ {n},
                 !.step = IF parent = NoOrg THEN "pass" ELSE "get",
                 !.node = IF parent = NoOrg THEN NoNode ELSE n,
                 !.parent = parent])
  /\ UNCHANGED <<rows, units>>

\* The node is done with: made, found (its unit is u), or failed (NoOrg).
DoneWith(s, u) ==
  Set(s, [sync[s] EXCEPT !.step = "pass", !.progressed = TRUE,
            !.remaining = @ \ {sync[s].node}, !.resolved[sync[s].node] = u,
            !.node = NoNode, !.parent = NoOrg, !.unit = NoOrg])

\* ensureJurisdictionUnit.  A read that fails is taken for a row that is not there.
GetRow(s) ==
  /\ At(s, "get")
  /\ LET n == sync[s].node IN
     \/ Created(n) /\ DoneWith(s, nodeUnit[n])
     \/ ~Created(n) /\ nodeStatus[n] # "ABSENT" /\ Goto(s, "create")
     \/ Goto(s, "insert")
  /\ UNCHANGED <<rows, units>>

\* One row for a node: a second is an error.  Any error is the end of the node.
CreatePending(s) ==
  /\ At(s, "insert")
  /\ LET n == sync[s].node IN
     \/ /\ nodeStatus[n] = "ABSENT"
        /\ nodeStatus' = [nodeStatus EXCEPT ![n] = "PENDING"] /\ Goto(s, "create")
     \/ DoneWith(s, NoOrg) /\ UNCHANGED nodeStatus
  /\ UNCHANGED <<nodeUnit, units>>

\* jurisdictionSlugCode makes the same code for the same node, and codes are unique.
CodeTaken(n) == \E u \in Orgs : madeFor[u] = n

\* CreateChildOrg: unit and edge, then the profile.
CreateOrgUnit(s) ==
  /\ At(s, "create")
  /\ \/ /\ ~CodeTaken(sync[s].node)
        /\ \E u \in Orgs :
             /\ madeFor[u] = NoNode
             /\ madeFor' = [madeFor EXCEPT ![u] = sync[s].node]
             /\ under' = [under EXCEPT ![u] = sync[s].parent]
             /\ Set(s, [sync[s] EXCEPT !.step = "profile", !.unit = u])
     \/ Goto(s, "fail") /\ UNCHANGED <<madeFor, under>>    \* the code is taken, or another error
  /\ UNCHANGED <<rows, profiled>>

ProfileOrg(s) ==
  /\ At(s, "profile")
  /\ \/ profiled' = profiled \union {sync[s].unit} /\ Goto(s, "mark")
     \/ Goto(s, "fail") /\ UNCHANGED profiled
  /\ UNCHANGED <<rows, madeFor, under>>

\* A mutant of the action below: the unit a failed CreateChildOrg left behind is used.
MarkFailedUseful(s) ==
  /\ At(s, "fail")
  /\ nodeStatus' \in {nodeStatus, [nodeStatus EXCEPT ![sync[s].node] = "FAILED"]}
  /\ DoneWith(s, sync[s].unit)
  /\ UNCHANGED <<nodeUnit, units>>

\* WHERE id = ... alone; whether it succeeds is not looked at.
MarkFailed(s) ==
  /\ At(s, "fail")
  /\ nodeStatus' \in {nodeStatus, [nodeStatus EXCEPT ![sync[s].node] = "FAILED"]}
  /\ DoneWith(s, NoOrg)
  /\ UNCHANGED <<nodeUnit, units>>

\* WHERE id = ... alone.  Then the aliases, which are not modelled.
MarkCreated(s) ==
  /\ At(s, "mark")
  /\ \/ /\ nodeStatus' = [nodeStatus EXCEPT ![sync[s].node] = "CREATED"]
        /\ nodeUnit' = [nodeUnit EXCEPT ![sync[s].node] = sync[s].unit]
        /\ DoneWith(s, sync[s].unit)
     \/ DoneWith(s, NoOrg) /\ UNCHANGED rows
  /\ UNCHANGED units

Crash(s) == sync[s] # Idle /\ Set(s, Idle) /\ UNCHANGED <<rows, units>>

Step(s) ==
  \/ NextPass(s) \/ (\E n \in Nodes : VisitNode(s, n))
  \/ GetRow(s) \/ CreatePending(s) \/ CreateOrgUnit(s) \/ ProfileOrg(s)
  \/ MarkFailed(s) \/ MarkCreated(s)

SyncNext == \E s \in Syncs : Start(s) \/ Step(s) \/ Crash(s)

\* A sync that runs is scheduled.
SyncSpec == SyncInit /\ [][SyncNext]_syncVars /\ \A s \in Syncs : WF_syncVars(Step(s))

-----------------------------------------------------------------------------
SyncTypeOK ==
  /\ nodeStatus \in [Nodes -> {"ABSENT", "PENDING", "FAILED", "CREATED"}]
  /\ nodeUnit \in [Nodes -> Orgs \union {NoOrg}]
  /\ madeFor \in [Orgs -> Nodes \union {NoNode}]
  /\ under \in [Orgs -> Orgs \union {Anchor, NoOrg}]
  /\ profiled \subseteq Orgs
  /\ sync \in [Syncs -> [step : {"idle", "pass", "get", "insert", "create", "profile", "mark", "fail"},
                         remaining : SUBSET Nodes, ahead : SUBSET Nodes, progressed : BOOLEAN,
                         resolved : [Nodes -> Orgs \union {NoOrg}], node : Nodes \union {NoNode},
                         parent : Orgs \union {Anchor, NoOrg}, unit : Orgs \union {NoOrg}]]
  /\ \A s \in Syncs :
       /\ sync[s].ahead \subseteq sync[s].remaining
       /\ sync[s].step \notin {"idle", "pass"} =>
            sync[s].node \in sync[s].remaining /\ sync[s].parent # NoOrg
       /\ sync[s].step \in {"profile", "mark"} => madeFor[sync[s].unit] = sync[s].node

\* Whatever fails, dies, overlaps or is run again, the units mirror the source:
\* one for a node, under its parent's unit, which was whole before it; and a row
\* that says CREATED names a whole unit of its node.
MirrorsSource ==
  /\ \A u, v \in Orgs : madeFor[u] = madeFor[v] /\ madeFor[u] # NoNode => u = v
  /\ \A u \in Orgs : madeFor[u] # NoNode =>
       IF ParentOf[madeFor[u]] = NoNode THEN under[u] = Anchor
       ELSE under[u] \in profiled /\ madeFor[under[u]] = ParentOf[madeFor[u]]
  /\ \A n \in Nodes : nodeStatus[n] = "CREATED" => nodeUnit[n] \in profiled /\ madeFor[nodeUnit[n]] = n

\* A sync ends, also when a parent fails or is not listed.  (Parents in a circle
\* are not ready either, as they wait for each other.)
EverySyncEnds == \A s \in Syncs : sync[s] # Idle ~> sync[s] = Idle
=============================================================================
