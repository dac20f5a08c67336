------------------------------ MODULE UnitMove ------------------------------
(***************************************************************************)
(* Moving a unit to another parent (directory Move and runMoveSteps): a    *)
(* durable job records how far the move has come, each step is its own     *)
(* transaction, and a later call picks a live job up where it stands.      *)
(*                                                                         *)
(* A caller is one running Move call.  It works from its own copy of the   *)
(* job: its next step is what the copy's status says, whatever the row has *)
(* become in the meantime.  The closure table is read as reachability over *)
(* the edges, which DirectoryClosure shows it to be; units are live.       *)
(***************************************************************************)
EXTENDS Reachability, Sequences

CONSTANTS Units, Root,     \* the units, one of them the root
          InitialParent,   \* where every other unit starts
          Callers,         \* the calls that may run at once
          Moves,           \* Moves[c]: the units caller c is asked to move
          MaxJobs,         \* bound on the jobs ever created
          Faults           \* do statements fail for reasons of their own?

ASSUME MoveAssumption ==
  /\ Root \in Units
  /\ InitialParent \in [Units \ {Root} -> Units]
  /\ Reachable({<<InitialParent[u], u>> : u \in Units \ {Root}}, Root) = Units   \* a tree
  /\ Moves \in [Callers -> SUBSET (Units \ {Root})]
  /\ MaxJobs \in Nat
  /\ Faults \in BOOLEAN

VARIABLES edges,    \* directory_unit_edges of the graph
          jobs,     \* directory_unit_move_jobs, in order of creation
          caller    \* each caller's step, arguments and job

vars == <<edges, jobs, caller>>

Parents(u) == {p \in Units : <<p, u>> \in edges}

Terminal == {"FAILED", "VERIFIED"}
JobsOf(u) == {j \in DOMAIN jobs : jobs[j].unit = u}
LiveJobs(u) == {j \in JobsOf(u) : jobs[j].status \notin Terminal}

Nowhere == [step |-> "idle", unit |-> Root, target |-> Root, old |-> Root, job |-> 0]

Init ==
  /\ edges = {<<InitialParent[u], u>> : u \in Units \ {Root}}
  /\ jobs = <<>>
  /\ caller = [c \in Callers |-> Nowhere]

Me(c) == caller[c]
Job(c) == jobs[Me(c).job]
At(c, step) == Me(c).step = step
Goto(c, step) == caller' = [caller EXCEPT ![c].step = step]
Return(c) == caller' = [caller EXCEPT ![c] = Nowhere]

-----------------------------------------------------------------------------
(***************************************************************************)
(* Move: find a live job to resume, or start one.                          *)
(***************************************************************************)

\* A mutant of the mapping below: the old edge is taken to be removed already.
EntryStepSkipping(status) ==
  CASE status = "PENDING"          -> "add"
    [] status = "NEW_EDGE_ADDED"   -> "removed"
    [] status = "OLD_EDGE_REMOVED" -> "verify"

\* Where runMoveSteps enters a job of this status.
EntryStep(status) ==
  CASE status = "PENDING"          -> "add"
    [] status = "NEW_EDGE_ADDED"   -> "remove"
    [] status = "OLD_EDGE_REMOVED" -> "verify"

\* A mutant of the action below: a live job is resumed whatever its target.
StartMoveAnyTarget(c, u, target) ==
  /\ At(c, "idle")
  /\ \/ /\ LiveJobs(u) = {}
        /\ caller' = [caller EXCEPT ![c] =
                        [step |-> "latest", unit |-> u, target |-> target, old |-> Root, job |-> 0]]
     \/ \E j \in LiveJobs(u) :
          caller' = [caller EXCEPT ![c] =
                       [step |-> EntryStep(jobs[j].status), unit |-> u, target |-> target,
                        old |-> jobs[j].old, job |-> j]]
  /\ UNCHANGED <<edges, jobs>>

\* GetLiveMoveJob.  A live job with another target is ErrUnitMoveConflict.
StartMove(c, u, target) ==
  /\ At(c, "idle")
  /\ \/ /\ LiveJobs(u) = {}
        /\ caller' = [caller EXCEPT ![c] =
                        [step |-> "latest", unit |-> u, target |-> target, old |-> Root, job |-> 0]]
     \/ \E j \in LiveJobs(u) :
          /\ jobs[j].new = target
          /\ caller' = [caller EXCEPT ![c] =
                          [step |-> EntryStep(jobs[j].status), unit |-> u, target |-> target,
                           old |-> jobs[j].old, job |-> j]]
  /\ UNCHANGED <<edges, jobs>>

\* currentParent, first the job history: the target of a latest job that is VERIFIED.
ReadLatestJob(c) ==
  LET latest == Max(JobsOf(Me(c).unit))
  IN  /\ At(c, "latest")
      /\ IF JobsOf(Me(c).unit) # {} /\ jobs[latest].status = "VERIFIED"
         THEN caller' = [caller EXCEPT ![c].step = "create", ![c].old = jobs[latest].new]
         ELSE Goto(c, "nearest")
      /\ UNCHANGED <<edges, jobs>>

\* ... else the nearest ancestor; two parents are told apart by their codes,
\* which the model leaves open (they can be edited).
ReadNearestAncestor(c) ==
  /\ At(c, "nearest")
  /\ IF Parents(Me(c).unit) = {}
     THEN Return(c)                               \* ErrUnitHasNoCurrentParent
     ELSE \E p \in Parents(Me(c).unit) :
            caller' = [caller EXCEPT ![c].step = "create", ![c].old = p]
  /\ UNCHANGED <<edges, jobs>>

\* A mutant of the action below: without the check for a same-parent move.
CreateMoveJobSameParent(c) ==
  /\ At(c, "create")
  /\ IF LiveJobs(Me(c).unit) # {}
     THEN Return(c) /\ UNCHANGED jobs
     ELSE /\ Len(jobs) < MaxJobs
          /\ jobs' = Append(jobs, [unit |-> Me(c).unit, old |-> Me(c).old,
                                   new |-> Me(c).target, status |-> "PENDING"])
          /\ caller' = [caller EXCEPT ![c].step = "add", ![c].job = Len(jobs) + 1]
  /\ UNCHANGED edges

\* ErrUnitAlreadyAtParent, or the insert, which the live-job index refuses
\* if another caller's job came first.
CreateMoveJob(c) ==
  /\ At(c, "create")
  /\ IF Me(c).old = Me(c).target \/ LiveJobs(Me(c).unit) # {}
     THEN Return(c) /\ UNCHANGED jobs
     ELSE /\ Len(jobs) < MaxJobs
          /\ jobs' = Append(jobs, [unit |-> Me(c).unit, old |-> Me(c).old,
                                   new |-> Me(c).target, status |-> "PENDING"])
          /\ caller' = [caller EXCEPT ![c].step = "add", ![c].job = Len(jobs) + 1]
  /\ UNCHANGED edges

-----------------------------------------------------------------------------
(***************************************************************************)
(* runMoveSteps: a step's own transaction, then the job's new status.      *)
(***************************************************************************)

\* The status update names the job's id and nothing else.  It fails, and the
\* call with it, only if it would make the job live again beside another
\* live one.
SetStatus(c, status, next) ==
  IF status \notin Terminal /\ LiveJobs(Job(c).unit) \ {Me(c).job} # {}
  THEN Return(c) /\ UNCHANGED jobs
  ELSE /\ jobs' = [jobs EXCEPT ![Me(c).job].status = status]
       /\ IF next = "idle" THEN Return(c) ELSE Goto(c, next)

\* A mutant of the action below: without the cycle guard.
AddNewEdgeUnguarded(c) ==
  /\ At(c, "add")
  /\ \/ edges' = edges \cup {<<Job(c).new, Job(c).unit>>} /\ Goto(c, "added")
     \/ Faults /\ UNCHANGED edges /\ Goto(c, "fail")
  /\ UNCHANGED jobs

\* AddEdge; an edge that is there already counts as done.
AddNewEdge(c) ==
  LET edge   == <<Job(c).new, Job(c).unit>>
      cyclic == edge[1] = edge[2] \/ edge[1] \in Reachable(edges, edge[2])
  IN  /\ At(c, "add")
      /\ \/ ~cyclic /\ edges' = edges \cup {edge} /\ Goto(c, "added")
         \/ (cyclic \/ Faults) /\ UNCHANGED edges /\ Goto(c, "fail")
      /\ UNCHANGED jobs

AdvanceAdded(c) ==
  At(c, "added") /\ SetStatus(c, "NEW_EDGE_ADDED", "remove") /\ UNCHANGED edges

\* A mutant of the action below: an edge that is gone already is an error.
RemoveOldEdgeStrict(c) ==
  /\ At(c, "remove")
  /\ IF <<Job(c).old, Job(c).unit>> \in edges
     THEN edges' = edges \ {<<Job(c).old, Job(c).unit>>} /\ Goto(c, "removed")
     ELSE UNCHANGED edges /\ Return(c)
  /\ UNCHANGED jobs

\* RemoveEdge; an edge that is gone already counts as done.
RemoveOldEdge(c) ==
  /\ At(c, "remove")
  /\ \/ edges' = edges \ {<<Job(c).old, Job(c).unit>>} /\ Goto(c, "removed")
     \/ Faults /\ UNCHANGED edges /\ Goto(c, "fail")
  /\ UNCHANGED jobs

AdvanceRemoved(c) ==
  At(c, "removed") /\ SetStatus(c, "OLD_EDGE_REMOVED", "verify") /\ UNCHANGED edges

\* The new parent has to be among the ancestors, at any depth.
Verify(c) ==
  /\ At(c, "verify")
  /\ \/ Job(c).unit \in Reachable(edges, Job(c).new) /\ Goto(c, "verified")
     \/ (Job(c).unit \notin Reachable(edges, Job(c).new) \/ Faults) /\ Goto(c, "fail")
  /\ UNCHANGED <<edges, jobs>>

AdvanceVerified(c) ==
  At(c, "verified") /\ SetStatus(c, "VERIFIED", "idle") /\ UNCHANGED edges

FailMoveJob(c) ==
  At(c, "fail") /\ SetStatus(c, "FAILED", "idle") /\ UNCHANGED edges

\* The process dies, or the request is cancelled, between any two statements.
Crash(c) ==
  /\ ~At(c, "idle")
  /\ Return(c)
  /\ UNCHANGED <<edges, jobs>>

Run(c) ==
  \/ ReadLatestJob(c) \/ ReadNearestAncestor(c) \/ CreateMoveJob(c)
  \/ AddNewEdge(c) \/ AdvanceAdded(c)
  \/ RemoveOldEdge(c) \/ AdvanceRemoved(c)
  \/ Verify(c) \/ AdvanceVerified(c)
  \/ FailMoveJob(c)

Next ==
  \E c \in Callers :
    \/ \E u \in Moves[c], target \in Units : StartMove(c, u, target)
    \/ Run(c)
    \/ Crash(c)

Safety == Init /\ [][Next]_vars

-----------------------------------------------------------------------------
(***************************************************************************)
(* Nothing in the program picks a stopped job up again: only a caller that *)
(* asks for the same move once more does.                                  *)
(***************************************************************************)

\* A call that works on a job takes its next step, unless it dies first; and
\* calls do not keep dying at the same step for ever.
CallsRun ==
  \A c \in Callers :
    /\ SF_vars(AddNewEdge(c)) /\ SF_vars(AdvanceAdded(c))
    /\ SF_vars(RemoveOldEdge(c)) /\ SF_vars(AdvanceRemoved(c))
    /\ SF_vars(Verify(c)) /\ SF_vars(AdvanceVerified(c))
    /\ SF_vars(FailMoveJob(c))

\* A caller whose unit has a live job repeats the request.
Resume(c) ==
  \E u \in Moves[c] : \E j \in LiveJobs(u) : StartMove(c, u, jobs[j].new)

Retried == Safety /\ CallsRun /\ \A c \in Callers : WF_vars(Resume(c))

-----------------------------------------------------------------------------
TypeOK ==
  /\ edges \subseteq Units \X (Units \ {Root})
  /\ jobs \in Seq([unit : Units \ {Root}, old : Units, new : Units,
                   status : {"PENDING", "NEW_EDGE_ADDED", "OLD_EDGE_REMOVED"} \cup Terminal])
  /\ Len(jobs) <= MaxJobs
  /\ \A c \in Callers :
       /\ Me(c).unit \in Units /\ Me(c).target \in Units /\ Me(c).old \in Units
       /\ Me(c).job \in 0 .. Len(jobs)
       /\ Me(c).job = 0 <=> Me(c).step \in {"idle", "latest", "nearest", "create"}
       /\ Me(c).job # 0 => /\ Me(c).step \in {"add", "added", "remove", "removed",
                                               "verify", "verified", "fail"}
                           /\ Job(c).unit = Me(c).unit /\ Job(c).new = Me(c).target

\* No unit is ever cut off from the root, not even in the middle of a move: a
\* grant over the root's subtree reaches it throughout.
RootReachesAll == Reachable(edges, Root) = Units

\* A second parent is there only while a job is on its way.
TwoParentsOnlyMidMove ==
  \A u \in Units : Cardinality(Parents(u)) > 1 => LiveJobs(u) # {}

\* Where a unit counts as being: with its old parent until that edge is gone.
ParentOf(u) ==
  IF \E j \in LiveJobs(u) : {jobs[j].old, jobs[j].new} \subseteq Parents(u)
  THEN (CHOOSE job \in {jobs[j] : j \in LiveJobs(u)} : TRUE).old
  ELSE CHOOSE p \in Parents(u) : TRUE

\* Moves of different units, run step by step at the same time and crashed and
\* resumed anywhere, each look like one change of parent that keeps the tree.
Tree == INSTANCE UnitTree WITH parent <- [u \in Units \ {Root} |-> ParentOf(u)]
ImplementsTree == Tree!Spec

\* When callers repeat what did not finish, every job reaches its end.
JobLive(j) == j \in DOMAIN jobs /\ jobs[j].status \notin Terminal
EveryJobEnds == \A j \in 1 .. MaxJobs : JobLive(j) ~> ~JobLive(j)

\* A mid-move unit has "two parents ... rather than momentarily zero"
\* (application/service.go, of Move).
NeverParentless == \A u \in Units \ {Root} : Parents(u) # {}
=============================================================================
