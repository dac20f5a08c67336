---------------------------- MODULE DirectoryTxns ----------------------------
(***************************************************************************)
(* The transactions of the unit directory, interleaved.  Each runs at      *)
(* READ COMMITTED: a statement sees what was committed when it started, a  *)
(* write becomes visible at commit.  Edge changes take the graph's row     *)
(* lock (FOR NO KEY UPDATE) before they look at the closure; the existence *)
(* checks before it, and the whole of DeleteUnit, run without.             *)
(*                                                                         *)
(* Statements under the lock read and write tables only its holder writes, *)
(* so what follows the cycle guard is one step, at the commit.             *)
(***************************************************************************)
EXTENDS DirectoryTables

CONSTANTS Txns,       \* database sessions, each running one transaction at a time
          NoTxn,      \* the lock's holder when nobody holds it
          NoUnit      \* the absent argument of an operation

ASSUME TxnAssumption == NoTxn \notin Txns /\ NoUnit \notin Units

VARIABLES lock,   \* who holds the graph's row lock
          txn     \* what each session is doing

txnVars == <<units, deleted, edges, closure, lock, txn>>

Idle == [op |-> "none", step |-> "idle", child |-> NoUnit, parent |-> NoUnit]
At(t, op, step) == txn[t].op = op /\ txn[t].step = step

TxnInit ==
  /\ Seeded
  /\ lock = NoTxn
  /\ txn = [t \in Txns |-> Idle]

-----------------------------------------------------------------------------
\* The reads before the lock.  (AddEdge reads the child first, then the parent;
\* rows are only ever deleted, so one read at the time of the first is the same.)

Start(t, op, step, child, parent) ==
  /\ txn[t] = Idle
  /\ txn' = [txn EXCEPT ![t] = [op |-> op, step |-> step, child |-> child, parent |-> parent]]
  /\ UNCHANGED <<tables, lock>>

StartCreate(t, parent) ==
  parent \in live /\ Start(t, "create", "waiting", NoUnit, parent)

StartAdd(t, child, parent) ==
  parent # child /\ {child, parent} \subseteq live /\ Start(t, "add", "waiting", child, parent)

StartRemove(t, child, parent) == Start(t, "remove", "waiting", child, parent)

\* A mutant of the lock below: shared between sessions.
LockGraphShared(t) ==
  /\ txn[t].step = "waiting"
  /\ lock' = t
  /\ txn' = [txn EXCEPT ![t].step = "locked"]
  /\ UNCHANGED tables

LockGraphForClosure(t) ==
  /\ txn[t].step = "waiting"
  /\ lock = NoTxn
  /\ lock' = t
  /\ txn' = [txn EXCEPT ![t].step = "locked"]
  /\ UNCHANGED tables

\* COMMIT and ROLLBACK end the transaction and release its lock.
Release(t) ==
  /\ txn' = [txn EXCEPT ![t] = Idle]
  /\ lock' = IF lock = t THEN NoTxn ELSE lock

-----------------------------------------------------------------------------
\* A mutant of the action below: no row for the unit itself.
CommitCreateNoRow(t) ==
  /\ At(t, "create", "locked")
  /\ \E child \in Units \ units :
       /\ closure' = ExtendClosureForEdge(closure, txn[t].parent, child)
       /\ edges' = edges \cup {<<txn[t].parent, child>>}
  /\ Release(t)
  /\ UNCHANGED <<units, deleted>>

\* The id is minted under the lock; the three inserts follow.
CommitCreate(t) ==
  /\ At(t, "create", "locked")
  /\ \E child \in Units \ units :
       /\ closure' = ExtendClosureForEdge(closure, txn[t].parent, child)
       /\ units' = units \cup {child}
       /\ edges' = edges \cup {<<txn[t].parent, child>>}
  /\ Release(t)
  /\ UNCHANGED deleted

\* ErrEdgeCycle rolls back; otherwise the insert is next.
CheckCycle(t) ==
  /\ At(t, "add", "locked")
  /\ IF ClosureHasPath(closure, txn[t].child, txn[t].parent)
     THEN Release(t)
     ELSE txn' = [txn EXCEPT ![t].step = "guarded"] /\ UNCHANGED lock
  /\ UNCHANGED tables

\* The unique constraint turns a second insert of the edge into ErrEdgeExists.
CommitAdd(t) ==
  LET edge == <<txn[t].parent, txn[t].child>>
  IN  /\ At(t, "add", "guarded")
      /\ IF edge \in edges
         THEN UNCHANGED tables
         ELSE /\ edges' = edges \cup {edge}
              /\ closure' = ExtendClosureForEdge(closure, txn[t].parent, txn[t].child)
              /\ UNCHANGED <<units, deleted>>
      /\ Release(t)

\* No edge deleted, nothing to shrink.
CommitRemove(t) ==
  LET edge == <<txn[t].parent, txn[t].child>>
  IN  /\ At(t, "remove", "locked")
      /\ IF edge \notin edges
         THEN UNCHANGED tables
         ELSE /\ edges' = edges \ {edge}
              /\ closure' = ShrinkClosureForEdge(closure, edges', txn[t].parent, txn[t].child)
              /\ UNCHANGED <<units, deleted>>
      /\ Release(t)

-----------------------------------------------------------------------------
\* DeleteUnit's first statement; with a live child it ends in ErrUnitHasChildren.
CheckChildren(t, u) ==
  ~HasChildren(u) /\ Start(t, "delete", "checked", u, NoUnit)

\* Its second: WHERE deleted_at IS NULL, else ErrUnitNotFound.
CommitDelete(t) ==
  /\ At(t, "delete", "checked")
  /\ deleted' = deleted \cup ({txn[t].child} \cap live)
  /\ Release(t)
  /\ UNCHANGED <<units, edges, closure>>

\* One insert, visible at once.
InsertUnit(u) ==
  /\ u \in Units \ units
  /\ units' = units \cup {u}
  /\ UNCHANGED <<deleted, edges, closure, lock, txn>>

\* A mutant of the action below: the lock stays taken.
RollbackKeepingLock(t) ==
  /\ txn[t] # Idle
  /\ txn' = [txn EXCEPT ![t] = Idle]
  /\ UNCHANGED <<tables, lock>>

\* A cancelled request, a lost connection or a failing statement.
Rollback(t) ==
  /\ txn[t] # Idle
  /\ Release(t)
  /\ UNCHANGED tables

Finish(t) ==
  CommitCreate(t) \/ CheckCycle(t) \/ CommitAdd(t) \/ CommitRemove(t) \/ CommitDelete(t)

TxnNext ==
  \/ \E t \in Txns :
       \/ \E parent \in Units : StartCreate(t, parent)
       \/ \E child, parent \in Units : StartAdd(t, child, parent) \/ StartRemove(t, child, parent)
       \/ \E u \in units : CheckChildren(t, u)
       \/ LockGraphForClosure(t)
       \/ Finish(t)
       \/ Rollback(t)
  \/ \E u \in Units : InsertUnit(u)

\* Only the bound on Units can leave a create without an id; it then rolls back.
OutOfIds(t) == units = Units /\ At(t, "create", "locked") /\ Rollback(t)

\* A session that can run its next statement does, and the lock queue hands a
\* lock that keeps coming free to each waiter.  Nobody is made to roll back:
\* there is no lock timeout.
Fairness ==
  \A t \in Txns : WF_txnVars(Finish(t) \/ OutOfIds(t)) /\ SF_txnVars(LockGraphForClosure(t))

TxnSpec == TxnInit /\ [][TxnNext]_txnVars /\ Fairness

-----------------------------------------------------------------------------
TxnTypeOK ==
  /\ units \subseteq Units /\ deleted \subseteq units
  /\ edges \subseteq units \X units
  /\ DOMAIN closure \subseteq units \X units
  /\ lock \in Txns \cup {NoTxn}
  /\ txn \in [Txns -> [op     : {"none", "create", "add", "remove", "delete"},
                       step   : {"idle", "waiting", "locked", "guarded", "checked"},
                       child  : Units \cup {NoUnit},
                       parent : Units \cup {NoUnit}]]

\* Every transaction ends: a rollback gives the lock back too.
EveryTxnEnds == \A t \in Txns : txn[t] # Idle ~> txn[t] = Idle

\* "A unit with a live parent->child edge in any graph cannot be soft-deleted"
\* (domain/directory.go, of ErrUnitHasChildren).
NoLiveParentDeleted == [][\A u \in deleted' \ deleted : ~HasChildren(u)]_txnVars
=============================================================================
