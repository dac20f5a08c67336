--------------------------- MODULE UnitMoveProofs ---------------------------
(***************************************************************************)
(* For any units, callers and number of jobs: while no two callers move    *)
(* the same unit, no unit is ever cut off from the root, whatever fails;   *)
(* and if no statement fails, moves are changes of parent that keep the    *)
(* tree.                                                                   *)
(***************************************************************************)
EXTENDS UnitMove, ClosureStoreTheorems

Early == {"idle", "latest", "nearest", "create"}
Late == {"add", "added", "remove", "removed", "verify", "verified", "fail"}
Call == [step : Early \cup Late, unit : Units, target : Units, old : Units, job : Nat]
Live == {"PENDING", "NEW_EDGE_ADDED", "OLD_EDGE_REMOVED"}
Row == [unit : Units \ {Root}, old : Units, new : Units, status : Live \cup Terminal]

\* What TypeOK leaves open: a call moves a unit it was asked to.
TInv ==
  /\ TypeOK
  /\ caller \in [Callers -> Call]
  /\ \A c \in Callers : ~At(c, "idle") => Me(c).unit \in Moves[c]

-----------------------------------------------------------------------------
(***************************************************************************)
(* Types.                                                                  *)
(***************************************************************************)
LEMMA StatusSplit == Live \cap Terminal = {}
BY DEF Live, Terminal

\* A job's own step knows its job, and an earlier one has none.
LEMMA CallAt ==
  ASSUME TInv, NEW c \in Callers
  PROVE  /\ Me(c) \in Call
         /\ Me(c).step \in Early => Me(c).job = 0
         /\ Me(c).step \in Late =>
              /\ Me(c).job \in DOMAIN jobs /\ Job(c) \in Row
              /\ Job(c).unit = Me(c).unit /\ Job(c).new = Me(c).target
              /\ Me(c).unit \in Moves[c]
<1>1. Me(c) \in Call /\ jobs \in Seq(Row) /\ Me(c).job \in 0 .. Len(jobs)
  BY DEF TInv, TypeOK, Me, Row, Live
<1>2. Me(c).step \in Late => Me(c).job # 0 /\ Me(c).step # "idle"
  BY DEF TInv, TypeOK, Late
<1>3. Me(c).job # 0 => Me(c).job \in 1 .. Len(jobs)
  BY <1>1
<1> QED BY <1>1, <1>2, <1>3 DEF TInv, TypeOK, Early, At, Job, Late

Becomes(c, q) == caller' = [caller EXCEPT ![c] = q]

\* A call that moves, to a step with a job that is there or to one without.
LEMMA CallMoves ==
  ASSUME TInv, NEW c \in Callers, NEW q \in Call, Becomes(c, q),
         edges' \subseteq Units \X (Units \ {Root}), jobs' \in Seq(Row), Len(jobs') <= MaxJobs,
         Len(jobs) <= Len(jobs'),
         \A j \in DOMAIN jobs : jobs'[j].unit = jobs[j].unit /\ jobs'[j].new = jobs[j].new,
         q.step # "idle" => q.unit \in Moves[c],
         q.step \in Early => q.job = 0,
         q.step \in Late => /\ q.job \in DOMAIN jobs'
                            /\ jobs'[q.job].unit = q.unit /\ jobs'[q.job].new = q.target
  PROVE  TInv'
<1>1. caller' \in [Callers -> Call] /\ caller'[c] = q /\ \A d \in Callers \ {c} : caller'[d] = caller[d]
  BY DEF TInv, Becomes
<1>2. jobs \in Seq(Row) /\ Len(jobs) \in Nat /\ Len(jobs') \in Nat
  BY DEF TInv, TypeOK, Row, Live
<1>3. DOMAIN jobs = 1 .. Len(jobs) /\ DOMAIN jobs' = 1 .. Len(jobs')
  BY <1>2
<1>4. Early \cap Late = {}
  BY DEF Early, Late
<1>5. ASSUME NEW d \in Callers
      PROVE  /\ Me(d)'.unit \in Units /\ Me(d)'.target \in Units /\ Me(d)'.old \in Units
             /\ Me(d)'.job \in 0 .. Len(jobs')
             /\ Me(d)'.job = 0 <=> Me(d)'.step \in Early
             /\ Me(d)'.job # 0 => /\ Me(d)'.step \in Late
                                  /\ jobs'[Me(d)'.job].unit = Me(d)'.unit
                                  /\ jobs'[Me(d)'.job].new = Me(d)'.target
             /\ Me(d)'.step # "idle" => Me(d)'.unit \in Moves[d]
  <2>1. CASE d = c
    <3>1. Me(d)' = q
      BY <1>1, <2>1 DEF Me
    <3>2. q.unit \in Units /\ q.target \in Units /\ q.old \in Units /\ q.step \in Early \cup Late /\ q.job \in Nat
      BY DEF Call
    <3> HIDE DEF Me
    <3> QED BY <1>2, <1>3, <1>4, <2>1, <3>1, <3>2
  <2>2. CASE d # c
    <3>1. Me(d)' = Me(d) /\ Me(d).step \in Early \cup Late
      BY <1>1, <2>2, CallAt DEF Me, Call
    <3>2. Me(d).step \in Early => Me(d).job = 0
      BY CallAt
    <3>3. Me(d).step \in Late => Me(d).job \in DOMAIN jobs /\ Job(d).unit = Me(d).unit /\ Job(d).new = Me(d).target
      BY CallAt
    <3>4. Me(d).unit \in Units /\ Me(d).target \in Units /\ Me(d).old \in Units
          /\ (Me(d).step # "idle" => Me(d).unit \in Moves[d])
      BY DEF TInv, TypeOK, At
    <3> QED BY <1>2, <1>3, <1>4, <3>1, <3>2, <3>3, <3>4 DEF Job
  <2> QED BY <2>1, <2>2
<1>6. \A d \in Callers : ~At(d, "idle")' => Me(d)'.unit \in Moves[d]
  BY <1>5 DEF At
<1>7. TypeOK'
  BY <1>2, <1>3, <1>5 DEF TypeOK, Early, Late, Row, Live, Job
<1> QED BY <1>1, <1>6, <1>7 DEF TInv

\* The ways a call moves, written out.
LEMMA CallForms ==
  ASSUME caller \in [Callers -> Call], NEW c \in Callers, NEW s, NEW o, NEW j
  PROVE  LET m == Me(c) IN
         /\ Goto(c, s) => Becomes(c, [step |-> s, unit |-> m.unit, target |-> m.target,
                                      old |-> m.old, job |-> m.job])
         /\ caller' = [caller EXCEPT ![c].step = s, ![c].old = o] =>
              Becomes(c, [step |-> s, unit |-> m.unit, target |-> m.target, old |-> o, job |-> m.job])
         /\ caller' = [caller EXCEPT ![c].step = s, ![c].job = j] =>
              Becomes(c, [step |-> s, unit |-> m.unit, target |-> m.target, old |-> m.old, job |-> j])
<1> DEFINE m == caller[c]
<1>1. m = [step |-> m.step, unit |-> m.unit, target |-> m.target, old |-> m.old, job |-> m.job]
  BY DEF Call
<1>2. caller' = [caller EXCEPT ![c].step = s, ![c].old = o] =>
        Becomes(c, [step |-> s, unit |-> m.unit, target |-> m.target, old |-> o, job |-> m.job])
  BY <1>1 DEF Becomes
<1>3. caller' = [caller EXCEPT ![c].step = s, ![c].job = j] =>
        Becomes(c, [step |-> s, unit |-> m.unit, target |-> m.target, old |-> m.old, job |-> j])
  BY <1>1 DEF Becomes
<1>4. Goto(c, s) =>
        Becomes(c, [step |-> s, unit |-> m.unit, target |-> m.target, old |-> m.old, job |-> m.job])
  BY <1>1 DEF Goto, Becomes
<1> QED BY <1>2, <1>3, <1>4 DEF Me

\* A call that only changes its step, and the old parent it has found, keeps its job.
LEMMA StepMoves ==
  ASSUME TInv, NEW c \in Callers, NEW s, NEW o \in Units,
         \/ Goto(c, s) \/ caller' = [caller EXCEPT ![c].step = s, ![c].old = o],
         (Me(c).step \in Early \ {"idle"} /\ s \in Early) \/ (Me(c).step \in Late /\ s \in Late),
         edges' \subseteq Units \X (Units \ {Root}), jobs' \in Seq(Row), Len(jobs') = Len(jobs),
         \A j \in DOMAIN jobs : jobs'[j].unit = jobs[j].unit /\ jobs'[j].new = jobs[j].new
  PROVE  TInv'
<1> DEFINE m == Me(c)
<1>1. m \in Call
  BY CallAt
<1>2. m.unit \in Units /\ m.target \in Units /\ m.old \in Units /\ m.job \in Nat /\ m.unit \in Moves[c]
  BY <1>1 DEF Call, TInv, At, Early, Late
<1>3. PICK old \in Units :
        Becomes(c, [step |-> s, unit |-> m.unit, target |-> m.target, old |-> old, job |-> m.job])
  BY <1>2, CallForms DEF TInv
<1> DEFINE q == [step |-> s, unit |-> m.unit, target |-> m.target, old |-> old, job |-> m.job]
<1>4. q \in Call
  BY <1>2 DEF Call
<1>5. /\ q.step = s /\ q.unit = m.unit /\ q.target = m.target /\ q.job = m.job
  OBVIOUS
<1>6. s \in Early => q.job = 0
  BY <1>5, CallAt DEF Early, Late
<1>7. s \in Late => q.job \in DOMAIN jobs /\ jobs[q.job].unit = q.unit /\ jobs[q.job].new = q.target
  BY <1>5, CallAt DEF Early, Late, Job
<1>8. jobs \in Seq(Row) /\ Len(jobs) <= MaxJobs /\ Len(jobs) \in Nat
  BY DEF TInv, TypeOK, Row, Live
<1>9. DOMAIN jobs' = DOMAIN jobs
  BY <1>8
<1>10. Becomes(c, q)
  BY <1>3
<1> HIDE DEF q
<1> QED BY <1>2, <1>4, <1>5, <1>6, <1>7, <1>8, <1>9, <1>10, CallMoves

\* One that returns, however it ends.
LEMMA ReturnMoves ==
  ASSUME TInv, NEW c \in Callers, Return(c),
         edges' \subseteq Units \X (Units \ {Root}), jobs' \in Seq(Row), Len(jobs') = Len(jobs),
         \A j \in DOMAIN jobs : jobs'[j].unit = jobs[j].unit /\ jobs'[j].new = jobs[j].new
  PROVE  TInv'
<1>1. Nowhere \in Call /\ Nowhere.step = "idle" /\ Nowhere.job = 0 /\ Becomes(c, Nowhere)
  BY MoveAssumption DEF Nowhere, Call, Early, Return, Becomes
<1>2. jobs \in Seq(Row) /\ Len(jobs) <= MaxJobs /\ Len(jobs) \in Nat
  BY DEF TInv, TypeOK, Row, Live
<1> QED BY <1>1, <1>2, CallMoves DEF Late

\* Jobs whose status is written stay what they are otherwise.
LEMMA StatusWritten ==
  ASSUME jobs \in Seq(Row), NEW j \in DOMAIN jobs, NEW s \in Live \cup Terminal,
         jobs' = [jobs EXCEPT ![j].status = s]
  PROVE  /\ jobs' \in Seq(Row) /\ Len(jobs') = Len(jobs) /\ DOMAIN jobs' = DOMAIN jobs
         /\ jobs'[j].status = s
         /\ \A k \in DOMAIN jobs : /\ jobs'[k].unit = jobs[k].unit /\ jobs'[k].old = jobs[k].old
                                   /\ jobs'[k].new = jobs[k].new
                                   /\ k # j => jobs'[k] = jobs[k]
<1> DEFINE r == jobs[j]
           row == [unit |-> r.unit, old |-> r.old, new |-> r.new, status |-> s]
<1>1. r \in Row /\ DOMAIN jobs = 1 .. Len(jobs)
  OBVIOUS
<1>2. r = [unit |-> r.unit, old |-> r.old, new |-> r.new, status |-> r.status] /\ row \in Row
  BY <1>1 DEF Row
<1>3. [r EXCEPT !.status = s] = row
  BY <1>2
<1>4. jobs' = [jobs EXCEPT ![j] = row]
  BY <1>3
<1>5. row.unit = r.unit /\ row.old = r.old /\ row.new = r.new /\ row.status = s
  OBVIOUS
<1> HIDE DEF row
<1>6. jobs' \in Seq(Row) /\ Len(jobs') = Len(jobs) /\ DOMAIN jobs' = DOMAIN jobs
  BY <1>1, <1>2, <1>4
<1>7. jobs'[j] = row /\ \A k \in DOMAIN jobs \ {j} : jobs'[k] = jobs[k]
  BY <1>1, <1>4
<1> QED BY <1>5, <1>6, <1>7

LEMMA InitTypes == Init => TInv
<1> SUFFICES ASSUME Init
             PROVE  TInv
  OBVIOUS
<1> USE MoveAssumption
<1>1. Nowhere \in Call
  BY DEF Nowhere, Call, Early
<1>2. edges \subseteq Units \X (Units \ {Root})
  BY DEF Init
<1>3. jobs \in Seq(Row) /\ Len(jobs) = 0
  BY DEF Init
<1>4. \A c \in Callers : Me(c) = Nowhere
  BY DEF Init, Me
<1>5. Nowhere.unit = Root /\ Nowhere.target = Root /\ Nowhere.old = Root /\ Nowhere.job = 0 /\ Nowhere.step = "idle"
  BY DEF Nowhere
<1>6. TypeOK
  BY <1>2, <1>3, <1>4, <1>5 DEF TypeOK, Row, Live
<1> QED BY <1>1, <1>4, <1>5, <1>6 DEF TInv, Init, At

-----------------------------------------------------------------------------
\* A set of naturals under a bound has a greatest member.
LEMMA GreatestExists ==
  ASSUME NEW n \in Nat, NEW S, S \subseteq 0 .. n, S # {}
  PROVE  \E m \in S : \A k \in S : k <= m
<1> DEFINE T == {n - k : k \in S}
<1>0. S \subseteq Nat
  OBVIOUS
<1>1. T \subseteq Nat /\ T # {}
  OBVIOUS
<1>2. PICK x \in T : \A y \in T : x <= y
  <2> HIDE DEF T
  <2> QED BY <1>1, Least
<1>3. PICK m \in S : x = n - m
  OBVIOUS
<1>4. ASSUME NEW k \in S
      PROVE  k <= m
  <2>1. x <= n - k
    BY <1>2
  <2>2. k \in Nat /\ m \in Nat
    BY <1>0
  <2> QED BY <1>3, <2>1, <2>2
<1> QED BY <1>4

LEMMA StartTypes ==
  ASSUME TInv, NEW c \in Callers, NEW u \in Moves[c], NEW target \in Units, StartMove(c, u, target)
  PROVE  TInv'
<1>1. u \in Units /\ u \in Units \ {Root}
  BY MoveAssumption
<1>2. /\ UNCHANGED <<edges, jobs>> /\ jobs \in Seq(Row) /\ Len(jobs) <= MaxJobs /\ Len(jobs) \in Nat
      /\ edges \subseteq Units \X (Units \ {Root})
  BY DEF StartMove, TInv, TypeOK, Row, Live
<1>3. ASSUME caller' = [caller EXCEPT ![c] =
               [step |-> "latest", unit |-> u, target |-> target, old |-> Root, job |-> 0]]
      PROVE  TInv'
  <2> DEFINE q == [step |-> "latest", unit |-> u, target |-> target, old |-> Root, job |-> 0]
  <2>1. q \in Call /\ q.step = "latest" /\ q.unit = u /\ q.job = 0
    BY <1>1, MoveAssumption DEF Call, Early
  <2> HIDE DEF q
  <2>2. Becomes(c, q)
    BY <1>3 DEF q, Becomes
  <2> QED BY <1>2, <2>1, <2>2, CallMoves DEF Late
<1>4. ASSUME NEW j \in LiveJobs(u), jobs[j].new = target,
             caller' = [caller EXCEPT ![c] = [step |-> EntryStep(jobs[j].status), unit |-> u,
                                              target |-> target, old |-> jobs[j].old, job |-> j]]
      PROVE  TInv'
  <2> DEFINE s == EntryStep(jobs[j].status)
             q == [step |-> s, unit |-> u, target |-> target, old |-> jobs[j].old, job |-> j]
  <2>0. j \in DOMAIN jobs /\ jobs[j].unit = u /\ jobs[j].status \notin Terminal
    BY <1>4 DEF LiveJobs, JobsOf
  <2>1. jobs[j] \in Row /\ jobs[j].status \in Live
    <3>1. jobs[j] \in Row
      BY <1>2, <2>0
    <3> QED BY <2>0, <3>1 DEF Row
  <2>2. s \in {"add", "remove", "verify"}
    BY <2>1 DEF EntryStep, Live
  <2>3. j \in Nat
    BY <1>2, <2>0
  <2>4. q \in Call /\ q.step \in Late /\ q.unit = u /\ q.job = j /\ q.target = target
    BY <1>1, <2>1, <2>2, <2>3 DEF Call, Late, Row
  <2> HIDE DEF s, q
  <2>5. Becomes(c, q)
    BY <1>4 DEF q, s, Becomes
  <2> QED BY <1>2, <1>4, <2>0, <2>4, <2>5, CallMoves DEF Early, Late
<1> QED BY <1>3, <1>4 DEF StartMove

\* The latest job of a unit is one of them.
LEMMA LatestIs ==
  ASSUME jobs \in Seq(Row), NEW u, JobsOf(u) # {}
  PROVE  LET latest == Max(JobsOf(u))
         IN  latest \in DOMAIN jobs /\ latest \in JobsOf(u) /\ \A j \in JobsOf(u) : j <= latest
<1>1. Len(jobs) \in Nat /\ JobsOf(u) \subseteq 0 .. Len(jobs) /\ JobsOf(u) \subseteq DOMAIN jobs
  BY DEF JobsOf
<1>2. \E m \in JobsOf(u) : \A j \in JobsOf(u) : m >= j
  BY <1>1, GreatestExists
<1>3. Max(JobsOf(u)) \in JobsOf(u) /\ \A j \in JobsOf(u) : Max(JobsOf(u)) >= j
  BY <1>2 DEF Max
<1> QED BY <1>1, <1>3

LEMMA CreateTypes ==
  ASSUME TInv, NEW c \in Callers, CreateMoveJob(c),
         ~(Me(c).old = Me(c).target \/ LiveJobs(Me(c).unit) # {})
  PROVE  TInv'
<1> DEFINE m == Me(c)
           row == [unit |-> m.unit, old |-> m.old, new |-> m.target, status |-> "PENDING"]
           n == Len(jobs) + 1
           q == [step |-> "add", unit |-> m.unit, target |-> m.target, old |-> m.old, job |-> n]
<1>1. /\ jobs \in Seq(Row) /\ Len(jobs) \in Nat
      /\ edges \subseteq Units \X (Units \ {Root}) /\ UNCHANGED edges
  BY DEF TInv, TypeOK, Row, Live, CreateMoveJob
<1>2. m \in Call /\ m.unit \in Moves[c]
  BY CallAt DEF CreateMoveJob, TInv, At
<1>3. /\ m.unit \in Units \ {Root} /\ m.unit \in Units /\ m.target \in Units /\ m.old \in Units
      /\ row \in Row /\ row.unit = m.unit /\ row.new = m.target
  BY <1>2, MoveAssumption DEF Call, Row, Live
<1>4. q \in Call /\ q.step = "add" /\ q.unit = m.unit /\ q.target = m.target /\ q.job = n
  BY <1>1, <1>3 DEF Call, Late
<1>5. Len(jobs) < MaxJobs /\ jobs' = Append(jobs, row) /\ Becomes(c, q)
  BY CallForms DEF CreateMoveJob, TInv
<1> HIDE DEF row, q, m
<1>6. /\ jobs' \in Seq(Row) /\ Len(jobs') = n /\ n \in DOMAIN jobs' /\ jobs'[n] = row
      /\ \A j \in DOMAIN jobs : jobs'[j] = jobs[j]
  BY <1>1, <1>3, <1>5
<1> QED BY <1>1, <1>2, <1>3, <1>4, <1>5, <1>6, MoveAssumption, CallMoves DEF Early

LEMMA RunTypes ==
  ASSUME TInv, NEW c \in Callers, Run(c) \/ Crash(c)
  PROVE  TInv'
<1>1. /\ jobs \in Seq(Row) /\ Len(jobs) <= MaxJobs /\ Len(jobs) \in Nat
      /\ edges \subseteq Units \X (Units \ {Root}) /\ DOMAIN jobs = 1 .. Len(jobs)
  BY DEF TInv, TypeOK, Row, Live
<1>2. Me(c) \in Call /\ Me(c).old \in Units
  BY CallAt DEF Call
<1>3. CASE Return(c) /\ UNCHANGED <<edges, jobs>>
  BY <1>1, <1>3, ReturnMoves
<1>4. ASSUME NEW s, NEW o \in Units, Goto(c, s) \/ caller' = [caller EXCEPT ![c].step = s, ![c].old = o],
             \/ Me(c).step \in Early \ {"idle"} /\ s \in Early
             \/ Me(c).step \in Late /\ s \in Late,
             jobs' = jobs, edges' \subseteq Units \X (Units \ {Root})
      PROVE  TInv'
  BY <1>1, <1>4, StepMoves
<1>5. CASE ReadLatestJob(c)
  <2> DEFINE latest == Max(JobsOf(Me(c).unit))
  <2>1. CASE JobsOf(Me(c).unit) # {} /\ jobs[latest].status = "VERIFIED"
    <3>1. caller' = [caller EXCEPT ![c].step = "create", ![c].old = jobs[latest].new]
      BY <1>5, <2>1 DEF ReadLatestJob
    <3>2. latest \in DOMAIN jobs
      BY <1>1, <2>1, LatestIs
    <3>3. jobs[latest] \in Row
      BY <1>1, <3>2
    <3>4. jobs[latest].new \in Units
      BY <3>3 DEF Row
    <3> HIDE DEF latest
    <3> QED BY <1>1, <1>4, <1>5, <3>1, <3>4 DEF ReadLatestJob, At, Early
  <2>2. CASE ~(JobsOf(Me(c).unit) # {} /\ jobs[latest].status = "VERIFIED")
    BY <1>1, <1>2, <1>4, <1>5, <2>2 DEF ReadLatestJob, At, Early
  <2> QED BY <2>1, <2>2
<1>6. CASE ReadNearestAncestor(c)
  <2>1. ASSUME NEW p \in Parents(Me(c).unit),
               caller' = [caller EXCEPT ![c].step = "create", ![c].old = p]
        PROVE  TInv'
    BY <1>1, <1>4, <1>6, <2>1 DEF ReadNearestAncestor, At, Early, Parents
  <2> QED BY <1>3, <1>6, <2>1 DEF ReadNearestAncestor
<1>7. CASE CreateMoveJob(c)
  <2>1. CASE Return(c) /\ UNCHANGED jobs
    BY <1>3, <1>7, <2>1 DEF CreateMoveJob
  <2>2. CASE ~(Me(c).old = Me(c).target \/ LiveJobs(Me(c).unit) # {})
    BY <1>7, <2>2, CreateTypes
  <2> QED BY <1>7, <2>1, <2>2 DEF CreateMoveJob
<1>8. CASE AddNewEdge(c)
  <2>1. Me(c).step \in Late
    BY <1>8 DEF AddNewEdge, At, Late
  <2>2. edges' \subseteq Units \X (Units \ {Root})
    BY <1>1, <1>8, <2>1, CallAt DEF AddNewEdge, Row
  <2> QED BY <1>2, <1>4, <1>8, <2>1, <2>2 DEF AddNewEdge, Late
<1>9. CASE RemoveOldEdge(c)
  <2>1. edges' \subseteq Units \X (Units \ {Root})
    BY <1>1, <1>9 DEF RemoveOldEdge
  <2> QED BY <1>2, <1>4, <1>9, <2>1 DEF RemoveOldEdge, Late, At
<1>10. CASE Verify(c)
  BY <1>1, <1>2, <1>4, <1>10 DEF Verify, Late, At
<1>11. ASSUME NEW s \in Live \cup Terminal, NEW next \in Late \cup {"idle"},
              Me(c).step \in Late, SetStatus(c, s, next), UNCHANGED edges
       PROVE  TInv'
  <2>1. \/ Return(c) /\ UNCHANGED jobs
        \/ /\ jobs' = [jobs EXCEPT ![Me(c).job].status = s]
           /\ Return(c) \/ (next \in Late /\ Goto(c, next))
    BY <1>11 DEF SetStatus
  <2>2. CASE jobs' = [jobs EXCEPT ![Me(c).job].status = s] /\ (Return(c) \/ (next \in Late /\ Goto(c, next)))
    <3>1. /\ jobs' \in Seq(Row) /\ Len(jobs') = Len(jobs)
          /\ \A k \in DOMAIN jobs : jobs'[k].unit = jobs[k].unit /\ jobs'[k].new = jobs[k].new
      BY <1>1, <1>11, <2>2, CallAt, StatusWritten
    <3>2. edges' \subseteq Units \X (Units \ {Root})
      BY <1>1, <1>11
    <3>3. CASE Return(c)
      BY <3>1, <3>2, <3>3, ReturnMoves
    <3>4. CASE next \in Late /\ Goto(c, next)
      BY <1>2, <1>11, <3>1, <3>2, <3>4, StepMoves
    <3> QED BY <2>2, <3>3, <3>4
  <2> QED BY <1>3, <1>11, <2>1, <2>2
<1>12. CASE AdvanceAdded(c) \/ AdvanceRemoved(c) \/ AdvanceVerified(c) \/ FailMoveJob(c)
  <2>1. Me(c).step \in Late /\ UNCHANGED edges
    BY <1>12 DEF AdvanceAdded, AdvanceRemoved, AdvanceVerified, FailMoveJob, At, Late
  <2>2. /\ "NEW_EDGE_ADDED" \in Live /\ "OLD_EDGE_REMOVED" \in Live
        /\ "VERIFIED" \in Terminal /\ "FAILED" \in Terminal
        /\ "remove" \in Late /\ "verify" \in Late
    BY DEF Live, Terminal, Late
  <2> QED BY <1>11, <1>12, <2>1, <2>2 DEF AdvanceAdded, AdvanceRemoved, AdvanceVerified, FailMoveJob
<1>13. CASE Crash(c)
  BY <1>3, <1>13 DEF Crash
<1> QED BY <1>5, <1>6, <1>7, <1>8, <1>9, <1>10, <1>12, <1>13 DEF Run

LEMMA TypesInductive == TInv /\ [Next]_vars => TInv'
<1> SUFFICES ASSUME TInv, [Next]_vars
             PROVE  TInv'
  OBVIOUS
<1>1. CASE UNCHANGED vars
  BY <1>1 DEF vars, TInv, TypeOK, At, Me, Job
<1> QED BY <1>1, StartTypes, RunTypes DEF Next

\* Edges, jobs and calls keep their shapes, and a call still has the job of the unit
\* and the target it was asked for.
THEOREM TypeCorrect == Safety => []TypeOK
<1>1. TInv => TypeOK
  BY DEF TInv
<1> QED BY <1>1, InitTypes, TypesInductive, PTL DEF Safety

-----------------------------------------------------------------------------
(***************************************************************************)
(* Trees.                                                                  *)
(***************************************************************************)
\* Whoever is reachable from elsewhere is reached through one of its parents.
LEMMA ReachableLast ==
  ASSUME NEW E, NEW a, NEW n \in Reachable(E, a), n # a
  PROVE  \E e \in E : e[2] = n /\ e[1] \in Reachable(E, a)
<1> SUFFICES ASSUME \A e \in E : e[2] = n => e[1] \notin Reachable(E, a)
             PROVE  FALSE
  OBVIOUS
<1> DEFINE S == Reachable(E, a) \ {n}
<1>1. ClosedUnder(E, S)
  BY ReachableClosed DEF ClosedUnder
<1>2. a \in S
  BY ReachableRefl
<1> HIDE DEF S
<1>3. Reachable(E, a) \subseteq S
  BY <1>1, <1>2, ReachableLeast
<1> QED BY <1>3 DEF S

\* One parent each, none for the root, and everything below the root: no cycle.
LEMMA TreeAcyclic ==
  ASSUME NEW E, \A e \in E : e = <<e[1], e[2]>> /\ e[1] \in Units /\ e[2] \in Units \ {Root},
         \A e, f \in E : e[2] = f[2] => e = f,
         Reachable(E, Root) = Units
  PROVE  Acyclic(E)
<1>1. ASSUME NEW C \in SUBSET (Units \ {Root}), C # {}, \A n \in C : \E e \in E : e[2] = n /\ e[1] \in C
      PROVE  FALSE
  <2> DEFINE S == Units \ C
  <2>1. ClosedUnder(E, S)
    <3> SUFFICES ASSUME NEW e \in E, e[1] \in S
                 PROVE  e[2] \in S
      BY DEF ClosedUnder
    <3>1. CASE e[2] \in C
      <4>1. PICK f \in E : f[2] = e[2] /\ f[1] \in C
        BY <1>1, <3>1
      <4>2. f = e
        BY <4>1
      <4> QED BY <4>1, <4>2
    <3> QED BY <3>1
  <2>2. Root \in S
    BY MoveAssumption
  <2> HIDE DEF S
  <2>3. Units \subseteq S
    BY <2>1, <2>2, ReachableLeast
  <2> QED BY <1>1, <2>3 DEF S
<1>2. ASSUME NEW e \in E, e[1] = e[2]
      PROVE  FALSE
  <2> DEFINE C == {e[2]}
  <2>1. C \in SUBSET (Units \ {Root}) /\ C # {}
    OBVIOUS
  <2>2. \A n \in C : \E f \in E : f[2] = n /\ f[1] \in C
    BY <1>2
  <2> HIDE DEF C
  <2> QED BY <1>1, <2>1, <2>2
<1>3. ASSUME NEW a, NEW b \in Reachable(E, a), a \in Reachable(E, b), a # b
      PROVE  FALSE
  <2> DEFINE C == {n \in Reachable(E, a) : a \in Reachable(E, n)}
  <2>1. \A n \in C : Reachable(E, n) = Reachable(E, a)
    BY ReachableTrans
  <2>2. a \in C /\ b \in C
    BY <1>3, ReachableRefl
  <2>3. ASSUME NEW n \in C
        PROVE  \E e \in E : e[2] = n /\ e[1] \in C
    <3>1. PICK m \in C : m # n
      BY <1>3, <2>2
    <3>2. n \in Reachable(E, m)
      BY <2>1, <3>1
    <3>3. PICK e \in E : e[2] = n /\ e[1] \in Reachable(E, m)
      BY <3>1, <3>2, ReachableLast
    <3>4. e[2] \in Reachable(E, e[1])
      BY ReachableRefl, ReachableClosed DEF ClosedUnder
    <3>5. a \in Reachable(E, e[1])
      BY <3>3, <3>4, ReachableTrans
    <3>6. e[1] \in Reachable(E, a)
      BY <2>1, <3>1, <3>3
    <3> QED BY <3>3, <3>5, <3>6
  <2>4. C \subseteq Units \ {Root}
    BY <2>3
  <2> HIDE DEF C
  <2> QED BY <1>1, <2>2, <2>3, <2>4
<1> QED BY <1>2, <1>3 DEF Acyclic

\* A second parent keeps a unit, and so all of them, below the root.
LEMMA OtherParentHolds ==
  ASSUME NEW E, Acyclic(E), NEW r, NEW p, NEW q, NEW c, p # q, <<q, c>> \in E, q \in Reachable(E, r)
  PROVE  Reachable(E \ {<<p, c>>}, r) = Reachable(E, r)
<1> DEFINE F == E \ {<<p, c>>}
<1>1. Reachable(F, r) \subseteq Reachable(E, r)
  BY ReachableMono
<1>2. CASE <<p, c>> \notin E
  BY <1>2, F = E
<1>3. CASE <<p, c>> \in E
  <2>1. c \in Reachable(E, q)
    BY ReachableRefl, ReachableClosed, <<q, c>>[1] = q, <<q, c>>[2] = c DEF ClosedUnder
  <2>2. q \notin Reachable(E, c)
    BY <2>1, AcyclicAntisym DEF Acyclic
  <2>3. q \in Reachable(F, r)
    BY <1>3, <2>2, ReachableRemoveBelow
  <2>4. <<q, c>> \in F
    OBVIOUS
  <2> HIDE DEF F
  <2>5. c \in Reachable(F, r)
    BY <2>3, <2>4, ReachableClosed, <<q, c>>[1] = q, <<q, c>>[2] = c DEF ClosedUnder
  <2>6. ClosedUnder(E, Reachable(F, r))
    <3>1. \A e \in E : e \in F \/ e[2] = c
      BY DEF F
    <3> QED BY <2>5, <3>1, ReachableClosed DEF ClosedUnder
  <2>7. Reachable(E, r) \subseteq Reachable(F, r)
    BY <2>6, ReachableRefl, ReachableLeast
  <2> QED BY <1>1, <2>7 DEF F
<1> QED BY <1>2, <1>3

Initially == {<<InitialParent[u], u>> : u \in Units \ {Root}}

LEMMA InitialTree == Acyclic(Initially) /\ Reachable(Initially, Root) = Units
<1>1. Reachable(Initially, Root) = Units
  BY MoveAssumption DEF Initially
<1>2. \A e \in Initially : e = <<e[1], e[2]>> /\ e[1] \in Units /\ e[2] \in Units \ {Root}
  BY MoveAssumption DEF Initially
<1>3. \A e, f \in Initially : e[2] = f[2] => e = f
  BY DEF Initially
<1> QED BY <1>1, <1>2, <1>3, TreeAcyclic

-----------------------------------------------------------------------------
(***************************************************************************)
(* While no two callers move the same unit, a live job's unit and its      *)
(* edges are its one caller's, whatever fails.                             *)
(***************************************************************************)
\* No two callers move the same unit.
MoversApart == \A c, d \in Callers : c # d => Moves[c] \cap Moves[d] = {}

\* A live job still has to go somewhere else, and keeps the edge it has recorded.
JobOnTrack(j) ==
  JobLive(j) => /\ jobs[j].old # jobs[j].new
                /\ jobs[j].status # "PENDING" => <<jobs[j].new, jobs[j].unit>> \in edges

OneLiveJob(u) == \A j, k \in LiveJobs(u) : j = k

\* A call's step is the one its job's status says, or the writing of the next status.
CallOnTrack(c) ==
  /\ Me(c).step \in {"add", "added"} => Job(c).status = "PENDING"
  /\ Me(c).step \in {"remove", "removed"} => Job(c).status = "NEW_EDGE_ADDED"
  /\ Me(c).step \in {"verify", "verified"} => Job(c).status = "OLD_EDGE_REMOVED"
  /\ Me(c).step = "fail" => Job(c).status \in Live
  /\ Me(c).step = "added" => <<Job(c).new, Job(c).unit>> \in edges

IsTree == Acyclic(edges) /\ RootReachesAll

JInv ==
  /\ \A u \in Units : OneLiveJob(u) /\ \A j \in JobsOf(u) : JobOnTrack(j)
  /\ \A c \in Callers : CallOnTrack(c)
  /\ IsTree

\* What a step does to the edges and the jobs of a unit, and to nothing else.
Local(c, u) ==
  /\ \A d \in Callers \ {c} : caller'[d] = caller[d]
  /\ jobs \in Seq(Row) /\ jobs' \in Seq(Row) /\ Len(jobs) <= Len(jobs')
  /\ \A j \in DOMAIN jobs : jobs[j].unit # u => jobs'[j] = jobs[j]
  /\ \A j \in DOMAIN jobs : jobs'[j].unit = jobs[j].unit
  /\ \A j \in DOMAIN jobs' \ DOMAIN jobs : jobs'[j].unit = u
  /\ \A p, v : v # u => (<<p, v>> \in edges' <=> <<p, v>> \in edges)

\* What the rest of the invariants say of another unit is as true as it was.
LEMMA OtherUnits ==
  ASSUME NEW c, NEW u, Local(c, u), NEW v, v # u
  PROVE  /\ JobsOf(v)' = JobsOf(v) /\ LiveJobs(v)' = LiveJobs(v) /\ Parents(v)' = Parents(v)
         /\ \A j \in JobsOf(v) : jobs'[j] = jobs[j] /\ (JobOnTrack(j)' <=> JobOnTrack(j))
<1>1. Len(jobs) \in Nat /\ Len(jobs') \in Nat /\ DOMAIN jobs = 1 .. Len(jobs) /\ DOMAIN jobs' = 1 .. Len(jobs')
  BY DEF Local
<1>2. JobsOf(v)' = JobsOf(v)
  BY <1>1 DEF Local, JobsOf
<1>3. \A j \in JobsOf(v) : jobs'[j] = jobs[j] /\ jobs[j].unit = v /\ j \in DOMAIN jobs /\ j \in DOMAIN jobs'
  BY <1>1 DEF Local, JobsOf
<1>4. LiveJobs(v)' = LiveJobs(v)
  BY <1>2, <1>3 DEF LiveJobs
<1>5. Parents(v)' = Parents(v)
  BY DEF Local, Parents
<1>6. \A j \in JobsOf(v) : JobOnTrack(j)' <=> JobOnTrack(j)
  BY <1>3 DEF Local, JobOnTrack, JobLive
<1> QED BY <1>2, <1>3, <1>4, <1>5, <1>6

\* Another caller moves another unit.
LEMMA OtherCalls ==
  ASSUME TInv, MoversApart, NEW c \in Callers, NEW u \in Moves[c], Local(c, u),
         NEW d \in Callers, d # c
  PROVE  /\ Me(d)' = Me(d)
         /\ ~At(d, "idle") => Me(d).unit # u
         /\ Me(d).step \in Late => /\ Job(d)' = Job(d)
                                  /\ \A p : <<p, Job(d).unit>> \in edges' <=> <<p, Job(d).unit>> \in edges
<1>1. Me(d)' = Me(d)
  BY DEF Local, Me
<1>2. ~At(d, "idle") => Me(d).unit # u
  BY DEF TInv, MoversApart
<1>3. ASSUME Me(d).step \in Late
      PROVE  /\ Job(d)' = Job(d)
             /\ \A p : <<p, Job(d).unit>> \in edges' <=> <<p, Job(d).unit>> \in edges
  <2>1. ~At(d, "idle")
    BY <1>3 DEF At, Late
  <2>2. Me(d).job \in DOMAIN jobs /\ Job(d).unit = Me(d).unit
    BY <1>3, CallAt
  <2>3. jobs'[Me(d).job] = jobs[Me(d).job]
    BY <1>2, <2>1, <2>2 DEF Local, Job
  <2> QED BY <1>1, <1>2, <2>1, <2>2, <2>3 DEF Local, Job
<1> QED BY <1>1, <1>2, <1>3

LEMMA Tracked ==
  ASSUME TInv, MoversApart, JInv, NEW c \in Callers, NEW u \in Moves[c], Local(c, u),
         OneLiveJob(u)', \A j \in JobsOf(u)' : JobOnTrack(j)', CallOnTrack(c)', IsTree'
  PROVE  JInv'
<1>1. ASSUME NEW v \in Units
      PROVE  OneLiveJob(v)' /\ \A j \in JobsOf(v)' : JobOnTrack(j)'
  <2>1. CASE v # u
    <3>1. LiveJobs(v)' = LiveJobs(v) /\ JobsOf(v)' = JobsOf(v)
          /\ \A j \in JobsOf(v) : JobOnTrack(j)' <=> JobOnTrack(j)
      BY <2>1, OtherUnits
    <3> QED BY <3>1 DEF JInv, OneLiveJob
  <2> QED BY <2>1
<1>2. ASSUME NEW d \in Callers, d # c
      PROVE  CallOnTrack(d)'
  <2>1. Me(d)' = Me(d) /\ CallOnTrack(d)
    BY <1>2, OtherCalls DEF JInv
  <2>2. CASE Me(d).step \notin Late
    BY <2>1, <2>2 DEF CallOnTrack, Late
  <2>3. CASE Me(d).step \in Late
    <3>1. Job(d)' = Job(d) /\ \A p : <<p, Job(d).unit>> \in edges' <=> <<p, Job(d).unit>> \in edges
      BY <1>2, <2>3, OtherCalls
    <3> QED BY <2>1, <3>1 DEF CallOnTrack
  <2> QED BY <2>2, <2>3
<1> QED BY <1>1, <1>2 DEF JInv

\* A step that leaves edges and jobs alone only has to bring its own call on track.
LEMMA ReadsTrack ==
  ASSUME TInv, MoversApart, JInv, NEW c \in Callers, NEW u \in Moves[c], UNCHANGED <<edges, jobs>>,
         \A d \in Callers \ {c} : caller'[d] = caller[d], CallOnTrack(c)'
  PROVE  Local(c, u) /\ JInv'
<1>1. jobs \in Seq(Row) /\ Len(jobs) \in Nat
  BY DEF TInv, TypeOK, Row, Live
<1>2. Local(c, u)
  BY <1>1 DEF Local
<1>3. u \in Units
  BY MoveAssumption
<1>4. OneLiveJob(u)' /\ \A j \in JobsOf(u)' : JobOnTrack(j)'
  BY <1>3 DEF JInv, OneLiveJob, LiveJobs, JobsOf, JobOnTrack, JobLive
<1>5. IsTree'
  BY DEF JInv, IsTree, RootReachesAll
<1> QED BY <1>2, <1>4, <1>5, Tracked

\* A call that has moved is where it says, and the others are where they were.
LEMMA CallIs ==
  ASSUME caller \in [Callers -> Call], NEW c \in Callers
  PROVE  /\ \A q : Becomes(c, q) => Me(c)' = q /\ \A d \in Callers \ {c} : caller'[d] = caller[d]
         /\ \A s : Goto(c, s) => /\ Me(c)'.step = s /\ Me(c)'.unit = Me(c).unit /\ Me(c)'.job = Me(c).job
                                /\ Me(c)'.old = Me(c).old /\ Me(c)'.target = Me(c).target
                                /\ \A d \in Callers \ {c} : caller'[d] = caller[d]
         /\ Return(c) => /\ Me(c)' = Nowhere /\ Me(c)'.step = "idle"
                         /\ \A d \in Callers \ {c} : caller'[d] = caller[d]
<1>1. \A q : Becomes(c, q) => Me(c)' = q /\ \A d \in Callers \ {c} : caller'[d] = caller[d]
  BY DEF Becomes, Me
<1>2. ASSUME NEW s, Goto(c, s)
      PROVE  /\ Me(c)'.step = s /\ Me(c)'.unit = Me(c).unit /\ Me(c)'.job = Me(c).job
             /\ Me(c)'.old = Me(c).old /\ Me(c)'.target = Me(c).target
             /\ \A d \in Callers \ {c} : caller'[d] = caller[d]
  <2>1. Becomes(c, [step |-> s, unit |-> Me(c).unit, target |-> Me(c).target,
                    old |-> Me(c).old, job |-> Me(c).job])
    BY <1>2, CallForms
  <2>2. Me(c)' = [step |-> s, unit |-> Me(c).unit, target |-> Me(c).target,
                  old |-> Me(c).old, job |-> Me(c).job]
    BY <1>1, <2>1
  <2> QED BY <1>1, <2>1, <2>2
<1>3. Return(c) => Becomes(c, Nowhere) /\ Nowhere.step = "idle"
  BY DEF Return, Becomes, Nowhere
<1> QED BY <1>1, <1>2, <1>3

LEMMA StartTracks ==
  ASSUME TInv, MoversApart, JInv, NEW c \in Callers, NEW u \in Moves[c], NEW target \in Units,
         StartMove(c, u, target)
  PROVE  Local(c, u) /\ JInv'
<1>1. UNCHANGED <<edges, jobs>> /\ caller \in [Callers -> Call] /\ jobs \in Seq(Row)
  BY DEF StartMove, TInv, TypeOK, Row, Live
<1>2. ASSUME NEW q, Becomes(c, q), q.step = "latest"
      PROVE  Local(c, u) /\ JInv'
  <2>1. Me(c)'.step = "latest" /\ \A d \in Callers \ {c} : caller'[d] = caller[d]
    BY <1>1, <1>2, CallIs
  <2>2. CallOnTrack(c)'
    BY <2>1 DEF CallOnTrack
  <2> QED BY <1>1, <2>1, <2>2, ReadsTrack
<1>3. ASSUME NEW j \in LiveJobs(u), NEW q, Becomes(c, q),
             q.step = EntryStep(jobs[j].status), q.job = j
      PROVE  Local(c, u) /\ JInv'
  <2>1. Me(c)'.step = EntryStep(jobs[j].status) /\ Me(c)'.job = j
        /\ \A d \in Callers \ {c} : caller'[d] = caller[d]
    BY <1>1, <1>3, CallIs
  <2>2. j \in DOMAIN jobs /\ jobs[j].status \notin Terminal
    BY <1>3 DEF LiveJobs, JobsOf
  <2>3. jobs[j] \in Row
    BY <1>1, <2>2
  <2>4. jobs[j].status \in Live
    BY <2>2, <2>3 DEF Row
  <2>5. Job(c)'.status = jobs[j].status
    BY <1>1, <2>1 DEF Job
  <2>6. CallOnTrack(c)'
    BY <2>1, <2>4, <2>5 DEF CallOnTrack, EntryStep, Live
  <2> QED BY <1>1, <2>1, <2>6, ReadsTrack
<1>4. CASE caller' = [caller EXCEPT ![c] =
             [step |-> "latest", unit |-> u, target |-> target, old |-> Root, job |-> 0]]
  <2> DEFINE q == [step |-> "latest", unit |-> u, target |-> target, old |-> Root, job |-> 0]
  <2>1. q.step = "latest" /\ Becomes(c, q)
    BY <1>4 DEF Becomes
  <2> HIDE DEF q
  <2> QED BY <1>2, <2>1
<1>5. ASSUME NEW j \in LiveJobs(u),
             caller' = [caller EXCEPT ![c] = [step |-> EntryStep(jobs[j].status), unit |-> u,
                                              target |-> target, old |-> jobs[j].old, job |-> j]]
      PROVE  Local(c, u) /\ JInv'
  <2> DEFINE q == [step |-> EntryStep(jobs[j].status), unit |-> u,
                   target |-> target, old |-> jobs[j].old, job |-> j]
  <2>1. q.step = EntryStep(jobs[j].status) /\ q.job = j /\ Becomes(c, q)
    BY <1>5 DEF Becomes
  <2> HIDE DEF q
  <2> QED BY <1>3, <2>1
<1> QED BY <1>4, <1>5 DEF StartMove

LEMMA QuietTracks ==
  ASSUME TInv, MoversApart, JInv, NEW c \in Callers, NEW u, u = Me(c).unit,
         ~At(c, "idle"), UNCHANGED <<edges, jobs>>,
         \/ Return(c)
         \/ Goto(c, "nearest")
         \/ \E p : caller' = [caller EXCEPT ![c].step = "create", ![c].old = p]
         \/ At(c, "verify") /\ (Goto(c, "verified") \/ Goto(c, "fail"))
         \/ At(c, "add") /\ Goto(c, "fail")
         \/ At(c, "remove") /\ Goto(c, "fail")
  PROVE  Local(c, u) /\ JInv'
<1>1. u \in Moves[c] /\ caller \in [Callers -> Call] /\ jobs \in Seq(Row)
  BY DEF TInv, TypeOK, Row, Live
<1>2. ASSUME \A d \in Callers \ {c} : caller'[d] = caller[d], Me(c)'.step \in Early
      PROVE  Local(c, u) /\ JInv'
  <2>1. CallOnTrack(c)'
    BY <1>2 DEF CallOnTrack, Early
  <2> QED BY <1>1, <1>2, <2>1, ReadsTrack
<1>3. CASE Return(c) \/ Goto(c, "nearest")
  BY <1>1, <1>2, <1>3, CallIs DEF Early
<1>4. ASSUME NEW p, caller' = [caller EXCEPT ![c].step = "create", ![c].old = p]
      PROVE  Local(c, u) /\ JInv'
  <2>1. Becomes(c, [step |-> "create", unit |-> Me(c).unit, target |-> Me(c).target,
                    old |-> p, job |-> Me(c).job])
    BY <1>1, <1>4, CallForms
  <2>2. Me(c)'.step = "create" /\ \A d \in Callers \ {c} : caller'[d] = caller[d]
    BY <1>1, <2>1, CallIs
  <2> QED BY <1>2, <2>2 DEF Early
<1>5. ASSUME NEW s \in {"verified", "fail"}, Goto(c, s), Me(c).step \in {"add", "remove", "verify"},
             s = "verified" => At(c, "verify")
      PROVE  Local(c, u) /\ JInv'
  <2>1. /\ Me(c)'.step = s /\ Me(c)'.job = Me(c).job
        /\ \A d \in Callers \ {c} : caller'[d] = caller[d]
    BY <1>1, <1>5, CallIs
  <2>2. Job(c)' = Job(c) /\ CallOnTrack(c)
    BY <2>1 DEF Job, JInv
  <2>3. Job(c).status \in Live
    BY <1>5, <2>2 DEF CallOnTrack, Live
  <2>4. CallOnTrack(c)'
    BY <1>5, <2>1, <2>2, <2>3 DEF CallOnTrack, At
  <2> QED BY <1>1, <2>1, <2>4, ReadsTrack
<1> QED BY <1>3, <1>4, <1>5 DEF At

LEMMA CreateTracks ==
  ASSUME TInv, MoversApart, JInv, NEW c \in Callers, NEW u, u = Me(c).unit, CreateMoveJob(c),
         ~(Me(c).old = Me(c).target \/ LiveJobs(Me(c).unit) # {})
  PROVE  /\ Local(c, u) /\ JInv' /\ edges' = edges
         /\ Me(c)'.step = "add" /\ Me(c)'.unit = u /\ Me(c)'.job = Len(jobs) + 1
         /\ DOMAIN jobs' = DOMAIN jobs \cup {Len(jobs) + 1}
         /\ \A j \in DOMAIN jobs : jobs'[j] = jobs[j]
         /\ jobs'[Len(jobs) + 1] = [unit |-> u, old |-> Me(c).old, new |-> Me(c).target, status |-> "PENDING"]
<1> DEFINE m == Me(c)
           row == [unit |-> u, old |-> m.old, new |-> m.target, status |-> "PENDING"]
           n == Len(jobs) + 1
<1>1. /\ u \in Moves[c] /\ caller \in [Callers -> Call] /\ jobs \in Seq(Row) /\ m \in Call
      /\ edges' = edges /\ LiveJobs(u) = {} /\ m.old # m.target
  BY CallAt DEF TInv, TypeOK, Row, Live, CreateMoveJob, At
<1>2. row \in Row /\ row.unit = u /\ row.status = "PENDING" /\ row.old = m.old /\ row.new = m.target
  BY <1>1, MoveAssumption DEF Call, Row, Live
<1>3. jobs' = Append(jobs, row) /\ caller' = [caller EXCEPT ![c].step = "add", ![c].job = n]
  BY DEF CreateMoveJob
<1>4. /\ Me(c)'.step = "add" /\ Me(c)'.job = n /\ Me(c)'.unit = u
      /\ \A d \in Callers \ {c} : caller'[d] = caller[d]
  <2>1. Becomes(c, [step |-> "add", unit |-> m.unit, target |-> m.target, old |-> m.old, job |-> n])
    BY <1>1, <1>3, CallForms
  <2>2. /\ Me(c)' = [step |-> "add", unit |-> m.unit, target |-> m.target, old |-> m.old, job |-> n]
        /\ \A d \in Callers \ {c} : caller'[d] = caller[d]
    BY <1>1, <2>1, CallIs
  <2> QED BY <2>2
<1>5. Len(jobs) \in Nat /\ DOMAIN jobs = 1 .. Len(jobs)
  BY <1>1
<1> HIDE DEF row, m
<1>6. /\ jobs' \in Seq(Row) /\ Len(jobs') = n /\ DOMAIN jobs' = DOMAIN jobs \cup {n} /\ jobs'[n] = row
      /\ \A j \in DOMAIN jobs : jobs'[j] = jobs[j] /\ n \notin DOMAIN jobs
  BY <1>1, <1>2, <1>3, <1>5
<1>7. Local(c, u)
  BY <1>1, <1>2, <1>4, <1>5, <1>6 DEF Local
<1>8. LiveJobs(u)' = {n}
  <2>1. \A j \in DOMAIN jobs : jobs[j].unit = u => jobs[j].status \in Terminal
    BY <1>1 DEF LiveJobs, JobsOf
  <2> QED BY <1>2, <1>6, <2>1 DEF LiveJobs, JobsOf, Terminal
<1>9. OneLiveJob(u)' /\ \A j \in JobsOf(u)' : JobOnTrack(j)'
  <2>1. OneLiveJob(u)'
    BY <1>8 DEF OneLiveJob
  <2>2. \A j \in JobsOf(u)' : JobLive(j)' => j = n
    BY <1>8 DEF LiveJobs, JobLive
  <2>3. ASSUME NEW j, j = n
        PROVE  JobOnTrack(j)'
    <3>1. jobs'[j] = row
      BY <1>6, <2>3
    <3> QED BY <1>1, <1>2, <3>1 DEF JobOnTrack
  <2>4. \A j : ~JobLive(j)' => JobOnTrack(j)'
    BY DEF JobOnTrack
  <2> QED BY <2>1, <2>2, <2>3, <2>4
<1>10. CallOnTrack(c)'
  BY <1>2, <1>4, <1>6 DEF CallOnTrack, Job
<1>11. IsTree'
  BY <1>1 DEF JInv, IsTree, RootReachesAll
<1> QED BY <1>1, <1>4, <1>6, <1>7, <1>9, <1>10, <1>11, Tracked DEF row, m

\* Edges between units keep whatever is reachable from the root among the units.
LEMMA UnitsBound ==
  ASSUME NEW E, E \subseteq Units \X (Units \ {Root})
  PROVE  Reachable(E, Root) \subseteq Units
<1>1. \A e \in E : e[1] \in Units /\ e[2] \in Units
  OBVIOUS
<1>2. Endpoints(E) \subseteq Units
  BY <1>1 DEF Endpoints
<1> QED BY <1>2, ReachableBound, MoveAssumption

LEMMA AddTracks ==
  ASSUME TInv, MoversApart, JInv, NEW c \in Callers, NEW u, u = Me(c).unit, At(c, "add"),
         NEW edge, edge = <<Job(c).new, Job(c).unit>>,
         ~(edge[1] = edge[2] \/ edge[1] \in Reachable(edges, edge[2])),
         edges' = edges \cup {edge}, Goto(c, "added"), UNCHANGED jobs
  PROVE  /\ Local(c, u) /\ JInv'
         /\ Me(c)'.step = "added" /\ Me(c)'.unit = u /\ Me(c)'.job = Me(c).job
         /\ Job(c).unit = u /\ Job(c).status = "PENDING"
<1>1. /\ u \in Moves[c] /\ caller \in [Callers -> Call] /\ jobs \in Seq(Row) /\ Me(c).step \in Late
      /\ edges \subseteq Units \X (Units \ {Root})
  BY DEF TInv, TypeOK, Row, Live, At, Late
<1>2. Me(c).job \in DOMAIN jobs /\ Job(c) \in Row /\ Job(c).unit = u
  BY <1>1, CallAt
<1>3. /\ Me(c)'.step = "added" /\ Me(c)'.job = Me(c).job /\ Me(c)'.unit = u
      /\ \A d \in Callers \ {c} : caller'[d] = caller[d]
  BY <1>1, CallIs
<1>4. edge[1] = Job(c).new /\ edge[2] = u /\ edge = <<Job(c).new, u>>
  BY <1>2
<1>5. Job(c).status = "PENDING" /\ Acyclic(edges) /\ Reachable(edges, Root) = Units
  BY DEF JInv, CallOnTrack, IsTree, RootReachesAll, At
<1>6. Local(c, u)
  BY <1>1, <1>3, <1>4 DEF Local
<1>7. Acyclic(edges')
  BY <1>4, <1>5, AcyclicAddEdge
<1>8. Reachable(edges', Root) = Units
  <2>1. edges' \subseteq Units \X (Units \ {Root})
    BY <1>1, <1>2, <1>4, MoveAssumption DEF Row
  <2>2. Reachable(edges, Root) \subseteq Reachable(edges', Root)
    BY edges \subseteq edges', ReachableMono
  <2>3. Reachable(edges', Root) \subseteq Units
    BY <2>1, UnitsBound
  <2> QED BY <1>5, <2>2, <2>3
<1>9. OneLiveJob(u)' /\ \A j \in JobsOf(u)' : JobOnTrack(j)'
  <2>1. u \in Units
    BY <1>1, MoveAssumption
  <2> QED BY <2>1 DEF JInv, OneLiveJob, LiveJobs, JobsOf, JobOnTrack, JobLive
<1>10. CallOnTrack(c)'
  BY <1>2, <1>3, <1>4, <1>5 DEF CallOnTrack, Job
<1>11. IsTree'
  BY <1>7, <1>8 DEF IsTree, RootReachesAll
<1> QED BY <1>1, <1>2, <1>3, <1>5, <1>6, <1>9, <1>10, <1>11, Tracked

LEMMA RemoveTracks ==
  ASSUME TInv, MoversApart, JInv, NEW c \in Callers, NEW u, u = Me(c).unit, At(c, "remove"),
         edges' = edges \ {<<Job(c).old, Job(c).unit>>}, Goto(c, "removed"), UNCHANGED jobs
  PROVE  /\ Local(c, u) /\ JInv'
         /\ Me(c)'.step = "removed" /\ Me(c)'.unit = u /\ Me(c)'.job = Me(c).job
         /\ Job(c).unit = u /\ Job(c).status = "NEW_EDGE_ADDED" /\ Job(c).old # Job(c).new
<1> DEFINE o == Job(c).old
           n == Job(c).new
<1>1. /\ u \in Moves[c] /\ caller \in [Callers -> Call] /\ jobs \in Seq(Row) /\ Me(c).step \in Late
      /\ edges \subseteq Units \X (Units \ {Root})
  BY DEF TInv, TypeOK, Row, Live, At, Late
<1>2. Me(c).job \in DOMAIN jobs /\ Job(c) \in Row /\ Job(c).unit = u
  BY <1>1, CallAt
<1>3. /\ Me(c)'.step = "removed" /\ Me(c)'.job = Me(c).job /\ Me(c)'.unit = u
      /\ \A d \in Callers \ {c} : caller'[d] = caller[d]
  BY <1>1, CallIs
<1>4. u \in Units
  BY <1>1, MoveAssumption
<1>5. Job(c).status = "NEW_EDGE_ADDED" /\ Acyclic(edges) /\ Reachable(edges, Root) = Units
  BY DEF JInv, CallOnTrack, IsTree, RootReachesAll, At
<1>6. Me(c).job \in JobsOf(u) /\ Me(c).job \in LiveJobs(u) /\ JobLive(Me(c).job)
  BY <1>2, <1>5 DEF JobsOf, LiveJobs, JobLive, Terminal, Job
<1>7. o # n /\ <<n, u>> \in edges
  BY <1>2, <1>4, <1>5, <1>6 DEF JInv, JobOnTrack, Job
<1>8. n \in Units
  BY <1>2 DEF Row
<1> HIDE DEF o, n
<1>9. edges' = edges \ {<<o, u>>}
  BY <1>2 DEF o
<1>10. Local(c, u)
  BY <1>1, <1>3, <1>9 DEF Local
<1>11. Acyclic(edges') /\ Reachable(edges', Root) = Units
  <2>1. Acyclic(edges')
    BY <1>5, <1>9, edges' \subseteq edges, AcyclicSubset
  <2>2. n \in Reachable(edges, Root)
    BY <1>5, <1>8
  <2>3. Reachable(edges \ {<<o, u>>}, Root) = Reachable(edges, Root)
    BY <1>5, <1>7, <2>2, OtherParentHolds
  <2> QED BY <1>5, <1>9, <2>1, <2>3
<1>12. OneLiveJob(u)'
  BY <1>4 DEF JInv, OneLiveJob, LiveJobs, JobsOf
<1>13. ASSUME NEW j \in JobsOf(u)'
       PROVE  JobOnTrack(j)'
  <2>1. j \in JobsOf(u) /\ j \in DOMAIN jobs /\ jobs'[j] = jobs[j] /\ DOMAIN jobs' = DOMAIN jobs
    BY <1>13 DEF JobsOf
  <2>2. CASE j = Me(c).job
    <3>1. jobs[j] = Job(c)
      BY <2>2 DEF Job
    <3>2. jobs'[j].old = o /\ jobs'[j].new = n /\ jobs'[j].unit = u
      BY <1>2, <2>1, <3>1 DEF o, n
    <3>3. <<n, u>> \in edges'
      BY <1>7, <1>9
    <3> QED BY <1>7, <3>2, <3>3 DEF JobOnTrack
  <2>3. CASE j # Me(c).job
    <3>1. ~JobLive(j)
      BY <1>4, <1>6, <2>1, <2>3 DEF JInv, OneLiveJob, LiveJobs, JobLive
    <3> QED BY <2>1, <3>1 DEF JobOnTrack, JobLive
  <2> QED BY <2>2, <2>3
<1>14. CallOnTrack(c)'
  BY <1>2, <1>3, <1>5 DEF CallOnTrack, Job
<1>15. IsTree'
  BY <1>11 DEF IsTree, RootReachesAll
<1> QED BY <1>1, <1>2, <1>3, <1>5, <1>7, <1>10, <1>12, <1>13, <1>14, <1>15, Tracked DEF o, n

\* A status that is written, to a job still live, leaves at most that one live.
LEMMA StatusTracks ==
  ASSUME TInv, MoversApart, JInv, NEW c \in Callers, NEW u, u = Me(c).unit, Me(c).step \in Late,
         NEW s \in Live \cup Terminal, NEW next, SetStatus(c, s, next), UNCHANGED edges,
         Job(c).status \in Live,
         s \in Live => <<Job(c).new, u>> \in edges,
         \/ s = "NEW_EDGE_ADDED" /\ next = "remove"
         \/ s = "OLD_EDGE_REMOVED" /\ next = "verify"
         \/ s \in Terminal /\ next = "idle"
  PROVE  /\ Local(c, u) /\ JInv' /\ Me(c).job \in DOMAIN jobs /\ Job(c).unit = u
         /\ jobs' = [jobs EXCEPT ![Me(c).job].status = s]
         /\ next = "idle" => Me(c)' = Nowhere
         /\ next # "idle" => Me(c)'.step = next /\ Me(c)'.unit = u /\ Me(c)'.job = Me(c).job
<1> DEFINE j == Me(c).job
<1>1. /\ u \in Moves[c] /\ caller \in [Callers -> Call] /\ jobs \in Seq(Row) /\ Len(jobs) \in Nat
  BY CallAt DEF TInv, TypeOK, Row, Live
<1>2. j \in DOMAIN jobs /\ Job(c) \in Row /\ Job(c).unit = u /\ jobs[j] = Job(c)
  BY <1>1, CallAt DEF Job
<1>3. u \in Units
  BY <1>1, MoveAssumption
<1>4. LiveJobs(u) = {j}
  <2>1. j \in LiveJobs(u)
    BY <1>2, StatusSplit DEF LiveJobs, JobsOf
  <2> QED BY <1>3, <2>1 DEF JInv, OneLiveJob
<1>5. LiveJobs(Job(c).unit) \ {Me(c).job} = {}
  BY <1>2, <1>4
<1>6. jobs' = [jobs EXCEPT ![j].status = s]
  BY <1>5 DEF SetStatus
<1>7. next = "idle" => Return(c)
  BY <1>5 DEF SetStatus
<1>8. next # "idle" => Goto(c, next)
  BY <1>5 DEF SetStatus
<1>9. \A d \in Callers \ {c} : caller'[d] = caller[d]
  BY <1>1, <1>7, <1>8, CallIs
<1>10. /\ next = "idle" => Me(c)' = Nowhere /\ Me(c)'.step = "idle"
       /\ next # "idle" => Me(c)'.step = next /\ Me(c)'.unit = u /\ Me(c)'.job = j
  BY <1>1, <1>7, <1>8, CallIs
<1>11. /\ jobs' \in Seq(Row) /\ Len(jobs') = Len(jobs) /\ DOMAIN jobs' = DOMAIN jobs
       /\ jobs'[j].status = s
       /\ \A k \in DOMAIN jobs : /\ jobs'[k].unit = jobs[k].unit /\ jobs'[k].old = jobs[k].old
                                 /\ jobs'[k].new = jobs[k].new
                                 /\ k # j => jobs'[k] = jobs[k]
  BY <1>1, <1>2, <1>6, StatusWritten
<1> HIDE DEF j
<1>12. Local(c, u)
  BY <1>1, <1>2, <1>9, <1>11 DEF Local
<1>13. LiveJobs(u)' \subseteq {j}
  <2>1. \A k \in DOMAIN jobs : jobs[k].unit = u /\ k # j => jobs[k].status \in Terminal
    BY <1>4 DEF LiveJobs, JobsOf
  <2> QED BY <1>11, <2>1 DEF LiveJobs, JobsOf
<1>14. OneLiveJob(u)'
  BY <1>13 DEF OneLiveJob
<1>15. ASSUME NEW k \in JobsOf(u)'
       PROVE  JobOnTrack(k)'
  <2>1. CASE k # j
    <3>1. ~JobLive(k)'
      BY <1>13, <1>15, <2>1 DEF LiveJobs, JobLive
    <3> QED BY <3>1 DEF JobOnTrack
  <2>2. CASE k = j
    <3>1. j \in JobsOf(u) /\ JobLive(j)
      BY <1>4 DEF LiveJobs, JobsOf, JobLive
    <3>2. JobOnTrack(j)
      BY <1>3, <3>1 DEF JInv
    <3>3. jobs[j].old # jobs[j].new
      BY <3>1, <3>2 DEF JobOnTrack
    <3>4. JobLive(k)' => s \in Live
      BY <1>11, <2>2 DEF JobLive
    <3>5. jobs'[k].new = Job(c).new /\ jobs'[k].unit = u /\ jobs'[k].old = jobs[j].old
      BY <1>2, <1>11, <2>2
    <3> QED BY <1>2, <3>3, <3>4, <3>5 DEF JobOnTrack
  <2> QED BY <2>1, <2>2
<1>16. CallOnTrack(c)'
  <2>1. CASE next = "idle"
    BY <1>10, <2>1 DEF CallOnTrack
  <2>2. CASE next # "idle"
    <3>1. Job(c)'.status = s
      BY <1>10, <1>11, <2>2 DEF Job
    <3> QED BY <1>10, <2>2, <3>1 DEF CallOnTrack
  <2> QED BY <2>1, <2>2
<1>17. IsTree'
  BY DEF JInv, IsTree, RootReachesAll
<1> QED BY <1>1, <1>2, <1>6, <1>10, <1>12, <1>14, <1>15, <1>16, <1>17, Tracked DEF j

\* A step of a call, with the parts of the job's run that can go wrong told apart.
LEMMA RunTracks ==
  ASSUME TInv, MoversApart, JInv, NEW c \in Callers, NEW u, u = Me(c).unit, Run(c) \/ Crash(c)
  PROVE  Local(c, u) /\ JInv'
<1>1. CASE Crash(c)
  BY <1>1, QuietTracks DEF Crash
<1>2. CASE ReadLatestJob(c)
  <2>1. \/ Goto(c, "nearest")
        \/ \E p : caller' = [caller EXCEPT ![c].step = "create", ![c].old = p]
    BY <1>2 DEF ReadLatestJob
  <2>2. ~At(c, "idle") /\ UNCHANGED <<edges, jobs>>
    BY <1>2 DEF ReadLatestJob, At
  <2> QED BY <2>1, <2>2, QuietTracks
<1>3. CASE ReadNearestAncestor(c)
  <2>1. \/ Return(c)
        \/ \E p : caller' = [caller EXCEPT ![c].step = "create", ![c].old = p]
    BY <1>3 DEF ReadNearestAncestor
  <2>2. ~At(c, "idle") /\ UNCHANGED <<edges, jobs>>
    BY <1>3 DEF ReadNearestAncestor, At
  <2> QED BY <2>1, <2>2, QuietTracks
<1>4. CASE CreateMoveJob(c)
  <2>1. CASE Me(c).old = Me(c).target \/ LiveJobs(Me(c).unit) # {}
    <3>1. Return(c) /\ ~At(c, "idle") /\ UNCHANGED <<edges, jobs>>
      BY <1>4, <2>1 DEF CreateMoveJob, At
    <3> QED BY <3>1, QuietTracks
  <2>2. CASE ~(Me(c).old = Me(c).target \/ LiveJobs(Me(c).unit) # {})
    BY <1>4, <2>2, CreateTracks
  <2> QED BY <2>1, <2>2
<1>5. CASE AddNewEdge(c)
  <2> DEFINE edge == <<Job(c).new, Job(c).unit>>
  <2>1. CASE UNCHANGED edges /\ Goto(c, "fail")
    <3>1. ~At(c, "idle") /\ At(c, "add") /\ UNCHANGED <<edges, jobs>>
      BY <1>5, <2>1 DEF AddNewEdge, At
    <3> QED BY <2>1, <3>1, QuietTracks
  <2>2. CASE ~(edge[1] = edge[2] \/ edge[1] \in Reachable(edges, edge[2]))
             /\ edges' = edges \cup {edge} /\ Goto(c, "added")
    <3>1. At(c, "add") /\ UNCHANGED jobs
      BY <1>5 DEF AddNewEdge
    <3> QED BY <2>2, <3>1, AddTracks
  <2> QED BY <1>5, <2>1, <2>2 DEF AddNewEdge
<1>6. CASE RemoveOldEdge(c)
  <2>1. CASE UNCHANGED edges /\ Goto(c, "fail")
    <3>1. ~At(c, "idle") /\ At(c, "remove") /\ UNCHANGED <<edges, jobs>>
      BY <1>6, <2>1 DEF RemoveOldEdge, At
    <3> QED BY <2>1, <3>1, QuietTracks
  <2>2. CASE edges' = edges \ {<<Job(c).old, Job(c).unit>>} /\ Goto(c, "removed")
    <3>1. At(c, "remove") /\ UNCHANGED jobs
      BY <1>6 DEF RemoveOldEdge
    <3> QED BY <2>2, <3>1, RemoveTracks
  <2> QED BY <1>6, <2>1, <2>2 DEF RemoveOldEdge
<1>7. CASE Verify(c)
  <2>1. /\ ~At(c, "idle") /\ At(c, "verify") /\ UNCHANGED <<edges, jobs>>
        /\ Goto(c, "verified") \/ Goto(c, "fail")
    BY <1>7 DEF Verify, At
  <2> QED BY <2>1, QuietTracks
<1>8. CASE AdvanceAdded(c) \/ AdvanceRemoved(c) \/ AdvanceVerified(c) \/ FailMoveJob(c)
  <2>1. /\ Me(c).step \in Late /\ UNCHANGED edges /\ CallOnTrack(c) /\ u \in Units
    BY <1>8, MoveAssumption
       DEF AdvanceAdded, AdvanceRemoved, AdvanceVerified, FailMoveJob, At, Late, JInv, TInv
  <2>2. /\ Me(c).job \in DOMAIN jobs /\ Job(c).unit = u /\ jobs[Me(c).job] = Job(c)
    BY <2>1, CallAt DEF Job
  <2>3. Job(c).status \in Live
    BY <1>8, <2>1
       DEF AdvanceAdded, AdvanceRemoved, AdvanceVerified, FailMoveJob, At, CallOnTrack, Live
  <2>4. Job(c).status # "PENDING" => <<Job(c).new, u>> \in edges
    <3>1. Me(c).job \in JobsOf(u) /\ JobLive(Me(c).job)
      BY <2>2, <2>3, StatusSplit DEF JobsOf, JobLive
    <3> QED BY <2>1, <2>2, <3>1 DEF JInv, JobOnTrack
  <2>5. /\ "NEW_EDGE_ADDED" \in Live /\ "OLD_EDGE_REMOVED" \in Live
        /\ "VERIFIED" \in Terminal /\ "FAILED" \in Terminal
        /\ "VERIFIED" \notin Live /\ "FAILED" \notin Live
    BY DEF Live, Terminal
  <2>6. CASE AdvanceAdded(c)
    <3>1. <<Job(c).new, u>> \in edges
      BY <2>1, <2>2, <2>6 DEF AdvanceAdded, At, CallOnTrack
    <3>2. SetStatus(c, "NEW_EDGE_ADDED", "remove")
      BY <2>6 DEF AdvanceAdded
    <3> QED BY <2>1, <2>3, <2>5, <3>1, <3>2, StatusTracks
  <2>7. CASE AdvanceRemoved(c)
    <3>1. <<Job(c).new, u>> \in edges
      BY <2>1, <2>4, <2>7 DEF AdvanceRemoved, At, CallOnTrack
    <3>2. SetStatus(c, "OLD_EDGE_REMOVED", "verify")
      BY <2>7 DEF AdvanceRemoved
    <3> QED BY <2>1, <2>3, <2>5, <3>1, <3>2, StatusTracks
  <2>8. CASE AdvanceVerified(c)
    BY <2>1, <2>3, <2>5, <2>8, StatusTracks DEF AdvanceVerified
  <2>9. CASE FailMoveJob(c)
    BY <2>1, <2>3, <2>5, <2>9, StatusTracks DEF FailMoveJob
  <2> QED BY <1>8, <2>6, <2>7, <2>8, <2>9
<1> QED BY <1>1, <1>2, <1>3, <1>4, <1>5, <1>6, <1>7, <1>8 DEF Run

LEMMA InitTracks == Init => JInv
<1> SUFFICES ASSUME Init
             PROVE  JInv
  OBVIOUS
<1>1. edges = Initially /\ jobs = <<>> /\ \A c \in Callers : Me(c).step = "idle"
  BY DEF Init, Initially, Me, Nowhere
<1>2. IsTree
  BY <1>1, InitialTree DEF IsTree, RootReachesAll
<1>3. \A u : JobsOf(u) = {} /\ LiveJobs(u) = {}
  BY <1>1 DEF JobsOf, LiveJobs
<1> QED BY <1>1, <1>2, <1>3 DEF JInv, OneLiveJob, CallOnTrack

LEMMA TracksInductive ==
  ASSUME MoversApart
  PROVE  TInv /\ JInv /\ [Next]_vars => JInv'
<1> SUFFICES ASSUME TInv, JInv, [Next]_vars
             PROVE  JInv'
  OBVIOUS
<1>1. CASE UNCHANGED vars
  <2>1. \A j : JobOnTrack(j)' <=> JobOnTrack(j)
    BY <1>1 DEF vars, JobOnTrack, JobLive
  <2>2. \A u : OneLiveJob(u)' <=> OneLiveJob(u)
    BY <1>1 DEF vars, OneLiveJob, LiveJobs, JobsOf
  <2>3. \A c : CallOnTrack(c)' <=> CallOnTrack(c)
    BY <1>1 DEF vars, CallOnTrack, Me, Job
  <2>4. \A u : JobsOf(u)' = JobsOf(u)
    BY <1>1 DEF vars, JobsOf
  <2>5. IsTree' <=> IsTree
    BY <1>1 DEF vars, IsTree, RootReachesAll
  <2> QED BY <2>1, <2>2, <2>3, <2>4, <2>5 DEF JInv
<1>2. ASSUME NEW c \in Callers, NEW u \in Moves[c], NEW target \in Units, StartMove(c, u, target)
      PROVE  JInv'
  BY <1>2, StartTracks
<1>3. ASSUME NEW c \in Callers, Run(c) \/ Crash(c)
      PROVE  JInv'
  BY <1>3, RunTracks
<1> QED BY <1>1, <1>2, <1>3 DEF Next

\* While no two callers move the same unit at once, whatever statements fail and
\* wherever calls die, no unit is ever cut off from the root.
THEOREM RootHoldsAll ==
  ASSUME MoversApart
  PROVE  Safety => []RootReachesAll
<1>1. JInv => RootReachesAll
  BY DEF JInv, IsTree
<1>2. Init => TInv /\ JInv
  BY InitTypes, InitTracks
<1>3. TInv /\ JInv /\ [Next]_vars => (TInv /\ JInv)'
  BY TypesInductive, TracksInductive
<1> QED BY <1>1, <1>2, <1>3, PTL DEF Safety

-----------------------------------------------------------------------------
(***************************************************************************)
(* If, besides, no statement fails, the parents of a unit are known from   *)
(* its latest job: the old one, both, or the new one.                      *)
(***************************************************************************)
Latest(u, j) == j \in JobsOf(u) /\ \A k \in JobsOf(u) : k <= j

\* Where a unit's parents are, by its latest job.
Placed(u) ==
  /\ \A j \in LiveJobs(u) :
       LET o == jobs[j].old
           n == jobs[j].new
       IN  /\ Latest(u, j)
           /\ jobs[j].status = "PENDING" => Parents(u) = {o} \/ Parents(u) = {o, n}
           /\ jobs[j].status = "NEW_EDGE_ADDED" => Parents(u) = {o, n} \/ Parents(u) = {n}
           /\ jobs[j].status = "OLD_EDGE_REMOVED" => Parents(u) = {n}
  /\ LiveJobs(u) = {} => \E p \in Units : Parents(u) = {p}
  /\ \A j : Latest(u, j) /\ jobs[j].status = "VERIFIED" => Parents(u) = {jobs[j].new}

\* What a call knows of its unit's parents.
CallPlaced(c) ==
  /\ Me(c).step \in {"latest", "nearest", "create"} => LiveJobs(Me(c).unit) = {}
  /\ Me(c).step = "create" => Parents(Me(c).unit) = {Me(c).old}
  /\ Me(c).step = "added" => Parents(Me(c).unit) = {Job(c).old, Job(c).new}
  /\ Me(c).step = "removed" => Parents(Me(c).unit) = {Job(c).new}
  /\ Me(c).step = "fail" => Job(c).status = "PENDING" /\ Parents(Me(c).unit) = {Job(c).old}

PInv == (\A u \in Units \ {Root} : Placed(u)) /\ \A c \in Callers : CallPlaced(c)

\* ParentOf, from the jobs, the live ones of the unit, and its parents.
Chosen(J, L, P) ==
  IF \E j \in L : {J[j].old, J[j].new} \subseteq P
  THEN (CHOOSE job \in {J[j] : j \in L} : TRUE).old
  ELSE CHOOSE p \in P : TRUE

LEMMA ParentChosen ==
  ASSUME NEW u
  PROVE  /\ ParentOf(u) = Chosen(jobs, LiveJobs(u), Parents(u))
         /\ ParentOf(u)' = Chosen(jobs', LiveJobs(u)', Parents(u)')
BY DEF ParentOf, Chosen

LEMMA ChosenSame ==
  ASSUME NEW J, NEW K, NEW L, NEW P, \A j \in L : J[j] = K[j]
  PROVE  Chosen(J, L, P) = Chosen(K, L, P)
<1>1. {J[j] : j \in L} = {K[j] : j \in L}
  OBVIOUS
<1>2. (\E j \in L : {J[j].old, J[j].new} \subseteq P) <=> (\E j \in L : {K[j].old, K[j].new} \subseteq P)
  OBVIOUS
<1>3. (CHOOSE job \in {J[j] : j \in L} : TRUE) = (CHOOSE job \in {K[j] : j \in L} : TRUE)
  BY <1>1, Zenon
<1>4. CASE \E j \in L : {J[j].old, J[j].new} \subseteq P
  BY <1>2, <1>3, <1>4, Zenon DEF Chosen
<1>5. CASE ~\E j \in L : {J[j].old, J[j].new} \subseteq P
  <2> DEFINE any == CHOOSE p \in P : TRUE
  <2>1. Chosen(J, L, P) = any
    BY <1>5 DEF Chosen
  <2>2. Chosen(K, L, P) = any
    BY <1>2, <1>5 DEF Chosen
  <2> QED BY <2>1, <2>2
<1> QED BY <1>4, <1>5

\* One parent is the parent.
LEMMA ChosenOne ==
  ASSUME NEW J, NEW L, NEW P, NEW p \in P, P = {p}, \A j \in L : J[j].old # J[j].new
  PROVE  Chosen(J, L, P) = p
<1>1. \A j \in L : ~({J[j].old, J[j].new} \subseteq {p})
  OBVIOUS
<1> QED BY <1>1 DEF Chosen

\* Of two parents, the job's old one.
LEMMA ChosenOld ==
  ASSUME NEW J, NEW L, NEW P, NEW j \in L, L = {j}, P = {J[j].old, J[j].new}
  PROVE  Chosen(J, L, P) = J[j].old
<1>1. {J[k] : k \in L} = {J[j]}
  OBVIOUS
<1>2. (CHOOSE job \in {J[k] : k \in L} : TRUE) = J[j]
  BY <1>1
<1> QED BY <1>2 DEF Chosen

\* How a step changes where a unit counts as being: not, or to one of its parents.
Follows(u) ==
  \/ ParentOf(u)' = ParentOf(u)
  \/ \E n \in Units : <<n, u>> \in edges /\ ParentOf(u)' = n

LEMMA Placing ==
  ASSUME TInv, MoversApart, PInv, NEW c \in Callers, NEW u \in Moves[c], Local(c, u),
         Placed(u)', CallPlaced(c)'
  PROVE  PInv' /\ \A v \in Units \ {Root, u} : ParentOf(v)' = ParentOf(v)
<1>1. ASSUME NEW v \in Units \ {Root}, v # u
      PROVE  Placed(v)' /\ ParentOf(v)' = ParentOf(v)
  <2>1. /\ JobsOf(v)' = JobsOf(v) /\ LiveJobs(v)' = LiveJobs(v) /\ Parents(v)' = Parents(v)
        /\ \A j \in JobsOf(v) : jobs'[j] = jobs[j]
    BY <1>1, OtherUnits
  <2>2. \A j : Latest(v, j)' <=> Latest(v, j)
    BY <2>1 DEF Latest
  <2>3. \A j \in LiveJobs(v) : jobs'[j] = jobs[j]
    BY <2>1 DEF LiveJobs
  <2>4. Placed(v)'
    <3>1. Placed(v)
      BY <1>1 DEF PInv
    <3> QED BY <2>1, <2>2, <2>3, <3>1 DEF Placed, Latest
  <2>5. ParentOf(v)' = ParentOf(v)
    <3>1. /\ ParentOf(v) = Chosen(jobs, LiveJobs(v), Parents(v))
          /\ ParentOf(v)' = Chosen(jobs', LiveJobs(v), Parents(v))
      BY <2>1, ParentChosen
    <3>2. Chosen(jobs', LiveJobs(v), Parents(v)) = Chosen(jobs, LiveJobs(v), Parents(v))
      BY <2>3, ChosenSame
    <3> QED BY <3>1, <3>2
  <2> QED BY <2>4, <2>5
<1>2. ASSUME NEW d \in Callers, d # c
      PROVE  CallPlaced(d)'
  <2>1. /\ Me(d)' = Me(d) /\ CallPlaced(d) /\ (~At(d, "idle") => Me(d).unit # u)
        /\ Me(d).step \in Late => Job(d)' = Job(d)
    BY <1>2, OtherCalls DEF PInv
  <2>2. CASE At(d, "idle")
    BY <2>1, <2>2 DEF At, CallPlaced
  <2>3. CASE ~At(d, "idle")
    <3>1. PICK v : v = Me(d).unit
      OBVIOUS
    <3>2. LiveJobs(v)' = LiveJobs(v) /\ Parents(v)' = Parents(v)
      BY <2>1, <2>3, <3>1, OtherUnits
    <3>3. LiveJobs(Me(d).unit)' = LiveJobs(v)' /\ Parents(Me(d).unit)' = Parents(v)'
      BY <2>1, <3>1
    <3> QED BY <2>1, <3>1, <3>2, <3>3 DEF CallPlaced, Late
  <2> QED BY <2>2, <2>3
<1> QED BY <1>1, <1>2 DEF PInv

\* A step that leaves edges and jobs alone only has to place its own call.
LEMMA QuietPlaces ==
  ASSUME TInv, MoversApart, PInv, NEW c \in Callers, NEW u \in Moves[c], UNCHANGED <<edges, jobs>>,
         \A d \in Callers \ {c} : caller'[d] = caller[d], CallPlaced(c)'
  PROVE  PInv' /\ Follows(u) /\ \A v \in Units \ {Root, u} : ParentOf(v)' = ParentOf(v)
<1>1. jobs \in Seq(Row) /\ Len(jobs) \in Nat
  BY DEF TInv, TypeOK, Row, Live
<1>2. Local(c, u)
  BY <1>1 DEF Local
<1>3. Placed(u)'
  <2>1. Placed(u)
    BY MoveAssumption DEF PInv
  <2> QED BY <2>1 DEF Placed, Latest, LiveJobs, JobsOf, Parents
<1>4. ParentOf(u)' = ParentOf(u)
  BY DEF ParentOf, LiveJobs, JobsOf, Parents
<1> QED BY <1>2, <1>3, <1>4, Placing DEF Follows

\* A call on a live job, and all there is to know of its unit.
LEMMA JobNow ==
  ASSUME TInv, JInv, PInv, NEW c \in Callers, Me(c).step \in Late, Job(c).status \in Live
  PROVE  LET u == Me(c).unit
             j == Me(c).job
             o == Job(c).old
             n == Job(c).new
         IN  /\ u \in Moves[c] /\ u \in Units \ {Root} /\ j \in DOMAIN jobs /\ jobs[j] = Job(c)
             /\ Job(c).unit = u /\ jobs[j].unit = u /\ LiveJobs(u) = {j} /\ Latest(u, j)
             /\ o # n /\ o \in Units /\ n \in Units
             /\ Job(c).status = "PENDING" => Parents(u) = {o} \/ Parents(u) = {o, n}
             /\ Job(c).status = "NEW_EDGE_ADDED" => Parents(u) = {o, n} \/ Parents(u) = {n}
             /\ Job(c).status = "OLD_EDGE_REMOVED" => Parents(u) = {n}
             /\ jobs \in Seq(Row) /\ JobsOf(u) \subseteq Nat /\ j \in Nat
<1>0. PICK u, j, o, n : u = Me(c).unit /\ j = Me(c).job /\ o = Job(c).old /\ n = Job(c).new
  OBVIOUS
<1>1. jobs \in Seq(Row) /\ Len(jobs) \in Nat /\ DOMAIN jobs = 1 .. Len(jobs)
  BY DEF TInv, TypeOK, Row, Live
<1>2. u \in Moves[c] /\ j \in DOMAIN jobs /\ Job(c) \in Row /\ Job(c).unit = u /\ jobs[j] = Job(c)
  BY <1>0, CallAt DEF Job
<1>3. u \in Units \ {Root}
  BY <1>2, MoveAssumption DEF Row
<1>4. j \in LiveJobs(u) /\ j \in JobsOf(u) /\ JobLive(j)
  BY <1>2, StatusSplit DEF LiveJobs, JobsOf, JobLive
<1>5. LiveJobs(u) = {j} /\ jobs[j].old # jobs[j].new
  <2>1. OneLiveJob(u) /\ JobOnTrack(j)
    BY <1>3, <1>4 DEF JInv
  <2>2. LiveJobs(u) = {j}
    BY <1>4, <2>1 DEF OneLiveJob
  <2> QED BY <1>4, <2>1, <2>2 DEF JobOnTrack
<1>6. Placed(u)
  BY <1>3 DEF PInv
<1>7. o \in Units /\ n \in Units
  <2>1. Job(c).old \in Units /\ Job(c).new \in Units
    BY <1>2 DEF Row
  <2> QED BY <1>0, <2>1
<1>8. JobsOf(u) \subseteq Nat /\ j \in Nat
  BY <1>1, <1>2 DEF JobsOf
<1> QED BY <1>0, <1>1, <1>2, <1>3, <1>4, <1>5, <1>6, <1>7, <1>8 DEF Placed

\* A unit is placed by its latest job, when no other can be live.
LEMMA JobPlaces ==
  ASSUME NEW u, NEW j \in Nat, JobsOf(u)' \subseteq Nat, Latest(u, j)',
         LiveJobs(u)' \subseteq {j},
         NEW o, o = jobs'[j].old, NEW n, n = jobs'[j].new, NEW P, P = Parents(u)',
         NEW s, s = jobs'[j].status, s \in Live \cup Terminal,
         s = "PENDING" => P = {o} \/ P = {o, n},
         s = "NEW_EDGE_ADDED" => P = {o, n} \/ P = {n},
         s \in {"OLD_EDGE_REMOVED", "VERIFIED"} => P = {n},
         s = "FAILED" => P = {o},
         o \in Units, n \in Units
  PROVE  Placed(u)'
<1>1. \A k : Latest(u, k)' => k = j
  BY DEF Latest
<1>2. LiveJobs(u)' = {} => s \in Terminal
  BY DEF LiveJobs, Latest, JobsOf
<1>3. LiveJobs(u)' = {} => \E p \in Units : P = {p}
  BY <1>2 DEF Terminal
<1> QED BY <1>1, <1>3 DEF Placed

LEMMA CreatePlaces ==
  ASSUME TInv, MoversApart, JInv, PInv, NEW c \in Callers, NEW u, u = Me(c).unit, CreateMoveJob(c),
         ~(Me(c).old = Me(c).target \/ LiveJobs(Me(c).unit) # {})
  PROVE  PInv' /\ Follows(u) /\ \A v \in Units \ {Root, u} : ParentOf(v)' = ParentOf(v)
<1>1. PICK o, n, j : o = Me(c).old /\ n = Me(c).target /\ j = Len(jobs) + 1
  OBVIOUS
<1>2. /\ Local(c, u) /\ edges' = edges
      /\ Me(c)'.step = "add" /\ Me(c)'.unit = u /\ Me(c)'.job = j
      /\ DOMAIN jobs' = DOMAIN jobs \cup {j}
      /\ \A k \in DOMAIN jobs : jobs'[k] = jobs[k]
      /\ jobs'[j] = [unit |-> u, old |-> o, new |-> n, status |-> "PENDING"]
  BY <1>1, CreateTracks
<1>3. /\ u \in Moves[c] /\ u \in Units \ {Root} /\ jobs \in Seq(Row) /\ Len(jobs) \in Nat
      /\ Me(c) \in Call /\ At(c, "create") /\ LiveJobs(u) = {}
  <2>1. At(c, "create") /\ LiveJobs(u) = {} /\ Me(c) \in Call
    BY CallAt DEF CreateMoveJob
  <2>2. u \in Moves[c]
    BY <2>1 DEF TInv, At
  <2>3. jobs \in Seq(Row) /\ Len(jobs) \in Nat
    BY DEF TInv, TypeOK, Row, Live
  <2> QED BY <2>1, <2>2, <2>3, MoveAssumption
<1>4. o \in Units /\ n \in Units /\ o # n
  BY <1>1, <1>3 DEF Call
<1>5. Parents(u) = {o}
  BY <1>1, <1>3 DEF PInv, CallPlaced, At
<1>6. Parents(u)' = {o}
  BY <1>2, <1>5 DEF Parents
<1>7. DOMAIN jobs = 1 .. Len(jobs) /\ j \in Nat
  BY <1>1, <1>3
<1>8. JobsOf(u)' \subseteq Nat /\ Latest(u, j)'
  <2>1. JobsOf(u)' \subseteq DOMAIN jobs \cup {j} /\ j \in JobsOf(u)'
    BY <1>2 DEF JobsOf
  <2>2. \A k \in DOMAIN jobs : k <= j /\ k \in Nat
    BY <1>1, <1>3, <1>7
  <2> QED BY <1>7, <2>1, <2>2 DEF Latest
<1>9. LiveJobs(u)' \subseteq {j}
  BY <1>2, <1>3 DEF LiveJobs, JobsOf
<1>10. Placed(u)'
  <2>1. jobs'[j].old = o /\ jobs'[j].new = n /\ jobs'[j].status = "PENDING"
    BY <1>2
  <2>2. "PENDING" \in Live
    BY DEF Live
  <2> QED BY <1>4, <1>6, <1>7, <1>8, <1>9, <2>1, <2>2, JobPlaces
<1>11. CallPlaced(c)'
  BY <1>2 DEF CallPlaced
<1>12. ParentOf(u)' = ParentOf(u)
  <2>1. \A k \in LiveJobs(u)' : jobs'[k].old # jobs'[k].new
    BY <1>2, <1>4, <1>9
  <2>2. \A k \in LiveJobs(u) : jobs[k].old # jobs[k].new
    BY <1>3
  <2>3. PICK L, M : L = LiveJobs(u)' /\ M = LiveJobs(u)
    OBVIOUS
  <2>4. Chosen(jobs', L, {o}) = o /\ Chosen(jobs, M, {o}) = o
    BY <2>1, <2>2, <2>3, ChosenOne
  <2> QED BY <1>5, <1>6, <2>3, <2>4, ParentChosen
<1> QED BY <1>2, <1>3, <1>10, <1>11, <1>12, Placing DEF Follows

LEMMA AddPlaces ==
  ASSUME TInv, MoversApart, JInv, PInv, NEW c \in Callers, NEW u, u = Me(c).unit, At(c, "add"),
         NEW edge, edge = <<Job(c).new, Job(c).unit>>,
         ~(edge[1] = edge[2] \/ edge[1] \in Reachable(edges, edge[2])),
         edges' = edges \cup {edge}, Goto(c, "added"), UNCHANGED jobs
  PROVE  PInv' /\ Follows(u) /\ \A v \in Units \ {Root, u} : ParentOf(v)' = ParentOf(v)
<1>1. PICK j, o, n : j = Me(c).job /\ o = Job(c).old /\ n = Job(c).new
  OBVIOUS
<1>2. /\ Local(c, u) /\ Me(c)'.step = "added" /\ Me(c)'.unit = u /\ Me(c)'.job = j
      /\ Job(c).status = "PENDING"
  BY <1>1, AddTracks
<1>3. Me(c).step \in Late /\ Job(c).status \in Live
  BY <1>2 DEF At, Late, Live
<1>4. /\ u \in Moves[c] /\ u \in Units \ {Root} /\ j \in DOMAIN jobs /\ jobs[j] = Job(c)
      /\ Job(c).unit = u /\ jobs[j].unit = u /\ LiveJobs(u) = {j} /\ Latest(u, j)
      /\ o # n /\ o \in Units /\ n \in Units /\ JobsOf(u) \subseteq Nat /\ j \in Nat
      /\ Parents(u) = {o} \/ Parents(u) = {o, n}
  BY <1>1, <1>2, <1>3, JobNow
<1>5. Parents(u)' = {o, n}
  <2>1. \A p : <<p, u>> \in edges' <=> <<p, u>> \in edges \/ p = n
    BY <1>1, <1>4
  <2>2. Parents(u)' = Parents(u) \cup {n}
    BY <1>4, <2>1 DEF Parents
  <2> QED BY <1>4, <2>2
<1>6. JobsOf(u)' = JobsOf(u) /\ LiveJobs(u)' = LiveJobs(u) /\ Latest(u, j)'
  BY <1>4 DEF JobsOf, LiveJobs, Latest
<1>7. Placed(u)'
  <2>1. jobs'[j].old = o /\ jobs'[j].new = n /\ jobs'[j].status = "PENDING"
    BY <1>1, <1>2, <1>4
  <2>2. "PENDING" \in Live
    BY DEF Live
  <2>3. LiveJobs(u)' \subseteq {j} /\ JobsOf(u)' \subseteq Nat
    BY <1>4, <1>6
  <2> QED BY <1>4, <1>5, <1>6, <2>1, <2>2, <2>3, JobPlaces
<1>8. CallPlaced(c)'
  <2>1. Job(c)' = Job(c)
    BY <1>1, <1>2 DEF Job
  <2>2. Parents(Me(c).unit)' = Parents(u)'
    BY <1>2
  <2> QED BY <1>1, <1>2, <1>5, <2>1, <2>2 DEF CallPlaced
<1>9. ParentOf(u)' = ParentOf(u)
  <2>1. jobs[j].old = o /\ jobs[j].new = n
    BY <1>1, <1>4
  <2>2. Chosen(jobs, {j}, {o, n}) = o
    BY <2>1, ChosenOld
  <2>3. Chosen(jobs, {j}, {o}) = o
    BY <1>4, <2>1, ChosenOne
  <2>4. ParentOf(u)' = o /\ ParentOf(u) = o
    BY <1>4, <1>5, <1>6, <2>2, <2>3, ParentChosen
  <2> QED BY <2>4
<1> QED BY <1>2, <1>4, <1>7, <1>8, <1>9, Placing DEF Follows

LEMMA RemovePlaces ==
  ASSUME TInv, MoversApart, JInv, PInv, NEW c \in Callers, NEW u, u = Me(c).unit, At(c, "remove"),
         edges' = edges \ {<<Job(c).old, Job(c).unit>>}, Goto(c, "removed"), UNCHANGED jobs
  PROVE  PInv' /\ Follows(u) /\ \A v \in Units \ {Root, u} : ParentOf(v)' = ParentOf(v)
<1>1. PICK j, o, n : j = Me(c).job /\ o = Job(c).old /\ n = Job(c).new
  OBVIOUS
<1>2. /\ Local(c, u) /\ Me(c)'.step = "removed" /\ Me(c)'.unit = u /\ Me(c)'.job = j
      /\ Job(c).status = "NEW_EDGE_ADDED"
  BY <1>1, RemoveTracks
<1>3. Me(c).step \in Late /\ Job(c).status \in Live
  BY <1>2 DEF At, Late, Live
<1>4. /\ u \in Moves[c] /\ u \in Units \ {Root} /\ j \in DOMAIN jobs /\ jobs[j] = Job(c)
      /\ Job(c).unit = u /\ jobs[j].unit = u /\ LiveJobs(u) = {j} /\ Latest(u, j)
      /\ o # n /\ o \in Units /\ n \in Units /\ JobsOf(u) \subseteq Nat /\ j \in Nat
      /\ Parents(u) = {o, n} \/ Parents(u) = {n}
  BY <1>1, <1>2, <1>3, JobNow
<1>5. Parents(u)' = {n}
  <2>1. \A p : <<p, u>> \in edges' <=> <<p, u>> \in edges /\ p # o
    BY <1>1, <1>4
  <2>2. Parents(u)' = Parents(u) \ {o}
    BY <1>4, <2>1 DEF Parents
  <2> QED BY <1>4, <2>2
<1>6. JobsOf(u)' = JobsOf(u) /\ LiveJobs(u)' = LiveJobs(u) /\ Latest(u, j)'
  BY <1>4 DEF JobsOf, LiveJobs, Latest
<1>7. jobs'[j].old = o /\ jobs'[j].new = n /\ jobs'[j].status = "NEW_EDGE_ADDED"
  BY <1>1, <1>2, <1>4
<1>8. Placed(u)'
  <2>1. "NEW_EDGE_ADDED" \in Live
    BY DEF Live
  <2>2. LiveJobs(u)' \subseteq {j} /\ JobsOf(u)' \subseteq Nat
    BY <1>4, <1>6
  <2> QED BY <1>4, <1>5, <1>6, <1>7, <2>1, <2>2, JobPlaces
<1>9. CallPlaced(c)'
  <2>1. Job(c)' = Job(c)
    BY <1>1, <1>2 DEF Job
  <2>2. Parents(Me(c).unit)' = Parents(u)'
    BY <1>2
  <2> QED BY <1>1, <1>2, <1>5, <2>1, <2>2 DEF CallPlaced
<1>10. ParentOf(u)' = n
  <2>1. Chosen(jobs', {j}, {n}) = n
    BY <1>4, <1>7, ChosenOne
  <2> QED BY <1>4, <1>5, <1>6, <2>1, ParentChosen
<1>11. <<n, u>> \in edges
  BY <1>4 DEF Parents
<1> QED BY <1>2, <1>4, <1>8, <1>9, <1>10, <1>11, Placing DEF Follows

LEMMA StatusPlaces ==
  ASSUME TInv, MoversApart, JInv, PInv, NEW c \in Callers, NEW u, u = Me(c).unit, Me(c).step \in Late,
         Job(c).status \in Live, UNCHANGED edges, Local(c, u),
         NEW s \in Live \cup Terminal, jobs' = [jobs EXCEPT ![Me(c).job].status = s],
         s = "NEW_EDGE_ADDED" => Parents(u) = {Job(c).old, Job(c).new},
         s \in {"OLD_EDGE_REMOVED", "VERIFIED"} => Parents(u) = {Job(c).new},
         s = "FAILED" => Parents(u) = {Job(c).old}, s # "PENDING",
         Me(c)'.step \in {"idle", "remove", "verify"}
  PROVE  PInv' /\ Follows(u) /\ \A v \in Units \ {Root, u} : ParentOf(v)' = ParentOf(v)
<1>0. PICK j, o, n : j = Me(c).job /\ o = Job(c).old /\ n = Job(c).new
  OBVIOUS
<1>1. /\ u \in Moves[c] /\ u \in Units \ {Root} /\ j \in DOMAIN jobs /\ jobs[j] = Job(c)
      /\ LiveJobs(u) = {j} /\ Latest(u, j) /\ jobs \in Seq(Row)
      /\ o # n /\ o \in Units /\ n \in Units /\ JobsOf(u) \subseteq Nat /\ j \in Nat
      /\ jobs[j].old = o /\ jobs[j].new = n
      /\ jobs' = [jobs EXCEPT ![j].status = s]
      /\ s = "NEW_EDGE_ADDED" => Parents(u) = {o, n}
      /\ s \in {"OLD_EDGE_REMOVED", "VERIFIED"} => Parents(u) = {n}
      /\ s = "FAILED" => Parents(u) = {o}
  BY <1>0, JobNow
<1>2. /\ DOMAIN jobs' = DOMAIN jobs /\ jobs'[j].status = s
      /\ \A k \in DOMAIN jobs : /\ jobs'[k].unit = jobs[k].unit /\ jobs'[k].old = jobs[k].old
                                /\ jobs'[k].new = jobs[k].new
                                /\ k # j => jobs'[k] = jobs[k]
  BY <1>1, StatusWritten
<1>3. JobsOf(u)' = JobsOf(u) /\ Latest(u, j)'
  BY <1>1, <1>2 DEF JobsOf, Latest
<1>4. LiveJobs(u)' \subseteq {j}
  <2>0. \A k \in JobsOf(u) : k # j => jobs[k].status \in Terminal
    BY <1>1 DEF LiveJobs
  <2>1. \A k \in JobsOf(u) : k # j => jobs'[k].status \in Terminal
    <3> SUFFICES ASSUME NEW k \in JobsOf(u), k # j
                 PROVE  jobs'[k].status \in Terminal
      OBVIOUS
    <3>1. k \in DOMAIN jobs
      BY DEF JobsOf
    <3>2. jobs'[k] = jobs[k]
      BY <1>2, <3>1
    <3> QED BY <2>0, <3>2
  <2> QED BY <1>3, <2>1 DEF LiveJobs
<1>5. jobs'[j].old = o /\ jobs'[j].new = n
  BY <1>1, <1>2
<1>6. Parents(u)' = Parents(u)
  BY DEF Parents
<1>7. Placed(u)'
  BY <1>1, <1>2, <1>3, <1>4, <1>5, <1>6, JobPlaces
<1>8. CallPlaced(c)'
  BY DEF CallPlaced
<1>9. ParentOf(u)' = ParentOf(u)
  <2>1. CASE s = "NEW_EDGE_ADDED"
    <3>1. LiveJobs(u)' = {j}
      <4>1. j \in JobsOf(u)' /\ s \notin Terminal
        BY <1>1, <1>3, <2>1 DEF Latest, Terminal
      <4> QED BY <1>2, <1>4, <4>1 DEF LiveJobs
    <3>2. PICK J, L, P : J = jobs' /\ L = {j} /\ P = {o, n}
      OBVIOUS
    <3>3. PICK K : K = jobs
      OBVIOUS
    <3>4. P = {J[j].old, J[j].new} /\ P = {K[j].old, K[j].new} /\ j \in L
      BY <1>1, <1>5, <3>2, <3>3
    <3>5. Chosen(J, L, P) = J[j].old /\ Chosen(K, L, P) = K[j].old
      <4>1. L = {j}
        BY <3>2
      <4> QED BY ONLY <3>4, <4>1, ChosenOld
    <3>6. P = Parents(u) /\ L = LiveJobs(u) /\ J[j].old = o /\ K[j].old = o
      BY <1>1, <1>5, <2>1, <3>2, <3>3
    <3> QED BY <1>6, <3>1, <3>2, <3>3, <3>5, <3>6, ParentChosen
  <2>2. CASE s # "NEW_EDGE_ADDED"
    <3>1. PICK p : Parents(u) = {p}
      BY <1>1, <2>2 DEF Live, Terminal
    <3>2. PICK L, M, P : L = LiveJobs(u)' /\ M = LiveJobs(u) /\ P = {p}
      OBVIOUS
    <3>3. (\A k \in L : jobs'[k].old # jobs'[k].new) /\ \A k \in M : jobs[k].old # jobs[k].new
      BY <1>1, <1>4, <1>5, <3>2
    <3>4. Chosen(jobs', L, P) = p /\ Chosen(jobs, M, P) = p
      <4>1. p \in P /\ P = {p}
        BY <3>2
      <4> QED BY ONLY <3>3, <4>1, ChosenOne
    <3> QED BY <1>6, <3>1, <3>2, <3>4, ParentChosen
  <2> QED BY <2>1, <2>2
<1> QED BY <1>1, <1>7, <1>8, <1>9, Placing DEF Follows

\* A call that has only moved, to a step it knows nothing new for.
LEMMA MovedPlaces ==
  ASSUME TInv, MoversApart, JInv, PInv, NEW c \in Callers, NEW u \in Moves[c], UNCHANGED <<edges, jobs>>,
         \A d \in Callers \ {c} : caller'[d] = caller[d],
         \/ Me(c)'.step \in {"idle", "add", "remove", "verify", "verified"}
         \/ /\ Me(c)'.step \in {"latest", "nearest"} /\ Me(c)'.unit = u /\ LiveJobs(u) = {}
         \/ /\ Me(c)'.step = "create" /\ Me(c)'.unit = u /\ LiveJobs(u) = {}
            /\ Parents(u) = {Me(c)'.old}
  PROVE  PInv' /\ Follows(u) /\ \A v \in Units \ {Root, u} : ParentOf(v)' = ParentOf(v)
<1>1. CASE Me(c)'.step \in {"idle", "add", "remove", "verify", "verified"}
  <2>1. CallPlaced(c)'
    BY <1>1 DEF CallPlaced
  <2> QED BY <2>1, QuietPlaces
<1>2. CASE /\ Me(c)'.unit = u /\ LiveJobs(u) = {}
           /\ \/ Me(c)'.step \in {"latest", "nearest"}
              \/ Me(c)'.step = "create" /\ Parents(u) = {Me(c)'.old}
  <2>1. LiveJobs(Me(c).unit)' = LiveJobs(u) /\ Parents(Me(c).unit)' = Parents(u)
    BY <1>2 DEF LiveJobs, JobsOf, Parents
  <2>2. CallPlaced(c)'
    BY <1>2, <2>1 DEF CallPlaced
  <2> QED BY <2>2, QuietPlaces
<1> QED BY <1>1, <1>2

LEMMA StartPlaces ==
  ASSUME TInv, MoversApart, JInv, PInv, NEW c \in Callers, NEW u \in Moves[c], NEW target \in Units,
         StartMove(c, u, target)
  PROVE  PInv' /\ Follows(u) /\ \A v \in Units \ {Root, u} : ParentOf(v)' = ParentOf(v)
<1>1. UNCHANGED <<edges, jobs>> /\ caller \in [Callers -> Call] /\ jobs \in Seq(Row)
  BY DEF StartMove, TInv, TypeOK, Row, Live
<1>2. CASE LiveJobs(u) = {} /\ caller' = [caller EXCEPT ![c] =
             [step |-> "latest", unit |-> u, target |-> target, old |-> Root, job |-> 0]]
  <2> DEFINE q == [step |-> "latest", unit |-> u, target |-> target, old |-> Root, job |-> 0]
  <2>1. q.step = "latest" /\ q.unit = u /\ Becomes(c, q)
    BY <1>2 DEF Becomes
  <2> HIDE DEF q
  <2>2. Me(c)' = q /\ \A d \in Callers \ {c} : caller'[d] = caller[d]
    BY <1>1, <2>1, CallIs
  <2> QED BY <1>1, <1>2, <2>1, <2>2, MovedPlaces
<1>3. ASSUME NEW j \in LiveJobs(u),
             caller' = [caller EXCEPT ![c] = [step |-> EntryStep(jobs[j].status), unit |-> u,
                                              target |-> target, old |-> jobs[j].old, job |-> j]]
      PROVE  PInv' /\ Follows(u) /\ \A v \in Units \ {Root, u} : ParentOf(v)' = ParentOf(v)
  <2> DEFINE q == [step |-> EntryStep(jobs[j].status), unit |-> u,
                   target |-> target, old |-> jobs[j].old, job |-> j]
  <2>1. q.step = EntryStep(jobs[j].status) /\ Becomes(c, q)
    BY <1>3 DEF Becomes
  <2> HIDE DEF q
  <2>2. Me(c)' = q /\ \A d \in Callers \ {c} : caller'[d] = caller[d]
    BY <1>1, <2>1, CallIs
  <2>3. j \in DOMAIN jobs /\ jobs[j].status \notin Terminal
    BY <1>3 DEF LiveJobs, JobsOf
  <2>4. jobs[j] \in Row
    BY <1>1, <2>3
  <2>5. jobs[j].status \in Live
    BY <2>3, <2>4 DEF Row
  <2>6. Me(c)'.step \in {"add", "remove", "verify"}
    BY <2>1, <2>2, <2>5 DEF EntryStep, Live
  <2> QED BY <1>1, <2>2, <2>6, MovedPlaces
<1> QED BY <1>2, <1>3 DEF StartMove

\* What the current parent is read as is the one parent there is.
LEMMA ReadPlaces ==
  ASSUME TInv, MoversApart, JInv, PInv, NEW c \in Callers, NEW u, u = Me(c).unit,
         ReadLatestJob(c) \/ ReadNearestAncestor(c)
  PROVE  PInv' /\ Follows(u) /\ \A v \in Units \ {Root, u} : ParentOf(v)' = ParentOf(v)
<1>1. UNCHANGED <<edges, jobs>> /\ caller \in [Callers -> Call] /\ jobs \in Seq(Row)
  BY DEF ReadLatestJob, ReadNearestAncestor, TInv, TypeOK, Row, Live
<1>2. Me(c).step \in {"latest", "nearest"}
  BY DEF ReadLatestJob, ReadNearestAncestor, At
<1>3. u \in Moves[c]
  BY <1>2 DEF TInv, At
<1>4. u \in Units \ {Root}
  BY <1>3, MoveAssumption
<1>5. LiveJobs(u) = {} /\ Placed(u)
  BY <1>2, <1>4 DEF PInv, CallPlaced
<1>6. ASSUME NEW p, caller' = [caller EXCEPT ![c].step = "create", ![c].old = p], Parents(u) = {p}
      PROVE  PInv' /\ Follows(u) /\ \A v \in Units \ {Root, u} : ParentOf(v)' = ParentOf(v)
  <2>1. Becomes(c, [step |-> "create", unit |-> Me(c).unit, target |-> Me(c).target,
                    old |-> p, job |-> Me(c).job])
    BY <1>1, <1>6, CallForms
  <2>2. /\ Me(c)'.step = "create" /\ Me(c)'.unit = u /\ Me(c)'.old = p
        /\ \A d \in Callers \ {c} : caller'[d] = caller[d]
    <3>1. /\ Me(c)' = [step |-> "create", unit |-> Me(c).unit, target |-> Me(c).target,
                       old |-> p, job |-> Me(c).job]
          /\ \A d \in Callers \ {c} : caller'[d] = caller[d]
      BY <1>1, <2>1, CallIs
    <3> QED BY <3>1
  <2> QED BY <1>1, <1>3, <1>5, <1>6, <2>2, MovedPlaces
<1>7. CASE Goto(c, "nearest") \/ Return(c)
  <2>1. /\ Me(c)'.step = "idle" \/ (Me(c)'.step = "nearest" /\ Me(c)'.unit = u)
        /\ \A d \in Callers \ {c} : caller'[d] = caller[d]
    BY <1>1, <1>7, CallIs
  <2> QED BY <1>1, <1>3, <1>5, <2>1, MovedPlaces
<1>8. CASE ReadLatestJob(c)
  <2>1. PICK latest : latest = Max(JobsOf(u))
    OBVIOUS
  <2>2. CASE JobsOf(u) # {} /\ jobs[latest].status = "VERIFIED"
    <3>1. Latest(u, latest)
      BY <1>1, <2>1, <2>2, LatestIs DEF Latest
    <3>2. Parents(u) = {jobs[latest].new}
      BY <1>5, <2>2, <3>1 DEF Placed
    <3>3. caller' = [caller EXCEPT ![c].step = "create", ![c].old = jobs[latest].new]
      BY <1>8, <2>1, <2>2 DEF ReadLatestJob
    <3> QED BY <1>6, <3>2, <3>3
  <2>3. CASE ~(JobsOf(u) # {} /\ jobs[latest].status = "VERIFIED")
    BY <1>7, <1>8, <2>1, <2>3 DEF ReadLatestJob
  <2> QED BY <2>2, <2>3
<1>9. CASE ReadNearestAncestor(c)
  <2>1. PICK q : Parents(u) = {q}
    BY <1>5 DEF Placed
  <2>2. caller' = [caller EXCEPT ![c].step = "create", ![c].old = q]
    BY <1>9, <2>1 DEF ReadNearestAncestor
  <2> QED BY <1>6, <2>1, <2>2
<1> QED BY <1>8, <1>9

\* A new edge that would close a cycle is not one the unit has: its one parent is the old one.
LEMMA RefusedPlaces ==
  ASSUME TInv, MoversApart, JInv, PInv, NEW c \in Callers, NEW u, u = Me(c).unit, At(c, "add"),
         Job(c).new = Job(c).unit \/ Job(c).new \in Reachable(edges, Job(c).unit),
         UNCHANGED <<edges, jobs>>, Goto(c, "fail")
  PROVE  PInv' /\ Follows(u) /\ \A v \in Units \ {Root, u} : ParentOf(v)' = ParentOf(v)
<1>1. PICK o, n : o = Job(c).old /\ n = Job(c).new
  OBVIOUS
<1>2. Job(c).status = "PENDING" /\ Acyclic(edges) /\ caller \in [Callers -> Call]
  BY DEF JInv, CallOnTrack, IsTree, At, TInv
<1>3. Me(c).step \in Late /\ Job(c).status \in Live
  BY <1>2 DEF At, Late, Live
<1>4. /\ u \in Moves[c] /\ Job(c).unit = u /\ o # n
      /\ Parents(u) = {o} \/ Parents(u) = {o, n}
  BY <1>1, <1>2, <1>3, JobNow
<1>5. <<n, u>> \notin edges
  <2> SUFFICES ASSUME <<n, u>> \in edges
               PROVE  FALSE
    OBVIOUS
  <2>1. n # u
    BY <1>2, <<n, u>>[1] = n, <<n, u>>[2] = u DEF Acyclic
  <2>2. u \in Reachable(edges, n)
    BY ReachableRefl, ReachableClosed, <<n, u>>[1] = n, <<n, u>>[2] = u DEF ClosedUnder
  <2>3. n \in Reachable(edges, u)
    BY <1>1, <1>4, <2>1
  <2> QED BY <1>2, <2>1, <2>2, <2>3, AcyclicAntisym
<1>6. Parents(u) = {o}
  BY <1>4, <1>5 DEF Parents
<1>7. /\ Me(c)'.step = "fail" /\ Me(c)'.unit = u /\ Me(c)'.job = Me(c).job
      /\ \A d \in Callers \ {c} : caller'[d] = caller[d]
  BY <1>2, CallIs
<1>8. CallPlaced(c)'
  <2>1. Job(c)' = Job(c)
    BY <1>7 DEF Job
  <2>2. Parents(Me(c).unit)' = Parents(u)
    BY <1>7 DEF Parents
  <2> QED BY <1>1, <1>2, <1>6, <1>7, <2>1, <2>2 DEF CallPlaced
<1> QED BY <1>4, <1>7, <1>8, QuietPlaces

LEMMA RunPlaces ==
  ASSUME ~Faults, TInv, MoversApart, JInv, PInv, NEW c \in Callers, NEW u, u = Me(c).unit,
         Run(c) \/ Crash(c)
  PROVE  PInv' /\ Follows(u) /\ \A v \in Units \ {Root, u} : ParentOf(v)' = ParentOf(v)
<1>1. caller \in [Callers -> Call] /\ (~At(c, "idle") => u \in Moves[c])
  BY DEF TInv
<1>2. CASE ~At(c, "idle") /\ Return(c) /\ UNCHANGED <<edges, jobs>>
  <2>1. Me(c)'.step = "idle" /\ \A d \in Callers \ {c} : caller'[d] = caller[d]
    BY <1>1, <1>2, CallIs
  <2> QED BY <1>1, <1>2, <2>1, MovedPlaces
<1>3. CASE CreateMoveJob(c)
  <2>1. CASE Me(c).old = Me(c).target \/ LiveJobs(Me(c).unit) # {}
    BY <1>2, <1>3, <2>1 DEF CreateMoveJob, At
  <2>2. CASE ~(Me(c).old = Me(c).target \/ LiveJobs(Me(c).unit) # {})
    BY <1>3, <2>2, CreatePlaces
  <2> QED BY <2>1, <2>2
<1>4. CASE AddNewEdge(c)
  <2>0. PICK edge : edge = <<Job(c).new, Job(c).unit>>
    OBVIOUS
  <2>1. CASE edge[1] = edge[2] \/ edge[1] \in Reachable(edges, edge[2])
    <3>1. At(c, "add") /\ Goto(c, "fail") /\ UNCHANGED <<edges, jobs>>
      BY <1>4, <2>0, <2>1 DEF AddNewEdge
    <3> QED BY <2>0, <2>1, <3>1, RefusedPlaces
  <2>2. CASE ~(edge[1] = edge[2] \/ edge[1] \in Reachable(edges, edge[2]))
    <3>1. At(c, "add") /\ Goto(c, "added") /\ edges' = edges \cup {edge} /\ UNCHANGED jobs
      BY <1>4, <2>0, <2>2 DEF AddNewEdge
    <3> QED BY <2>0, <2>2, <3>1, AddPlaces
  <2> QED BY <2>1, <2>2
<1>5. CASE RemoveOldEdge(c)
  BY <1>5, RemovePlaces DEF RemoveOldEdge
<1>6. CASE Verify(c)
  <2>1. Job(c).status = "OLD_EDGE_REMOVED"
    BY <1>6 DEF Verify, At, JInv, CallOnTrack
  <2>2. Me(c).step \in Late /\ Job(c).status \in Live
    BY <1>6, <2>1 DEF Verify, At, Late, Live
  <2>3. Parents(Me(c).unit) = {Job(c).new} /\ Job(c).unit = Me(c).unit
    BY <2>1, <2>2, JobNow
  <2>4. PICK n, v : n = Job(c).new /\ v = Job(c).unit
    OBVIOUS
  <2>5. <<n, v>> \in edges
    BY <2>3, <2>4 DEF Parents
  <2>6. v \in Reachable(edges, n)
    BY <2>5, ReachableRefl, ReachableClosed, <<n, v>>[1] = n, <<n, v>>[2] = v DEF ClosedUnder
  <2>7. Goto(c, "verified") /\ UNCHANGED <<edges, jobs>> /\ ~At(c, "idle")
    BY <1>6, <2>4, <2>6 DEF Verify, At
  <2>8. Me(c)'.step = "verified" /\ \A d \in Callers \ {c} : caller'[d] = caller[d]
    BY <1>1, <2>7, CallIs
  <2> QED BY <1>1, <2>7, <2>8, MovedPlaces
<1>7. CASE AdvanceAdded(c) \/ AdvanceRemoved(c) \/ AdvanceVerified(c) \/ FailMoveJob(c)
  <2>1. Me(c).step \in Late /\ UNCHANGED edges /\ CallOnTrack(c) /\ CallPlaced(c)
    BY <1>7 DEF AdvanceAdded, AdvanceRemoved, AdvanceVerified, FailMoveJob, At, Late, JInv, PInv
  <2>2. Job(c).status \in Live
    BY <1>7, <2>1
       DEF AdvanceAdded, AdvanceRemoved, AdvanceVerified, FailMoveJob, At, CallOnTrack, Live
  <2>3. PICK j, o, n : j = Me(c).job /\ o = Job(c).old /\ n = Job(c).new
    OBVIOUS
  <2>4. Local(c, u)
    BY <1>7, RunTracks DEF Run
  <2>5. ASSUME NEW s \in Live \cup Terminal, NEW next \in {"remove", "verify", "idle"},
               SetStatus(c, s, next), s # "PENDING",
               s = "NEW_EDGE_ADDED" => Parents(u) = {o, n},
               s \in {"OLD_EDGE_REMOVED", "VERIFIED"} => Parents(u) = {n},
               s = "FAILED" => Parents(u) = {o}
        PROVE  PInv' /\ Follows(u) /\ \A v \in Units \ {Root, u} : ParentOf(v)' = ParentOf(v)
    <3>1. LiveJobs(u) = {j} /\ Job(c).unit = u
      BY <2>1, <2>2, <2>3, JobNow
    <3>2. jobs' = [jobs EXCEPT ![j].status = s] /\ (Return(c) \/ Goto(c, next))
      BY <2>3, <2>5, <3>1 DEF SetStatus
    <3>3. Me(c)'.step \in {"idle", "remove", "verify"}
      BY <1>1, <2>5, <3>2, CallIs
    <3>4. jobs' = [jobs EXCEPT ![Me(c).job].status = s]
      BY <2>3, <3>2
    <3> QED BY <2>1, <2>2, <2>3, <2>4, <2>5, <3>3, <3>4, StatusPlaces
  <2>6. CASE AdvanceAdded(c)
    <3>1. Parents(u) = {o, n}
      BY <2>1, <2>3, <2>6 DEF AdvanceAdded, At, CallPlaced
    <3> QED BY <2>5, <2>6, <3>1 DEF AdvanceAdded, Live
  <2>7. CASE AdvanceRemoved(c)
    <3>1. Parents(u) = {n}
      BY <2>1, <2>3, <2>7 DEF AdvanceRemoved, At, CallPlaced
    <3> QED BY <2>5, <2>7, <3>1 DEF AdvanceRemoved, Live
  <2>8. CASE AdvanceVerified(c)
    <3>1. Job(c).status = "OLD_EDGE_REMOVED"
      BY <2>1, <2>8 DEF AdvanceVerified, At, CallOnTrack
    <3>2. Parents(u) = {n}
      BY <2>1, <2>2, <2>3, <3>1, JobNow
    <3> QED BY <2>5, <2>8, <3>2 DEF AdvanceVerified, Terminal
  <2>9. CASE FailMoveJob(c)
    <3>1. Parents(u) = {o}
      BY <2>1, <2>3, <2>9 DEF FailMoveJob, At, CallPlaced
    <3> QED BY <2>5, <2>9, <3>1 DEF FailMoveJob, Terminal
  <2> QED BY <1>7, <2>6, <2>7, <2>8, <2>9
<1>8. CASE Crash(c)
  BY <1>2, <1>8 DEF Crash
<1> QED BY <1>3, <1>4, <1>5, <1>6, <1>7, <1>8, ReadPlaces DEF Run

LEMMA InitPlaces == Init => PInv
<1> SUFFICES ASSUME Init
             PROVE  PInv
  OBVIOUS
<1>1. /\ \A u : JobsOf(u) = {} /\ LiveJobs(u) = {}
      /\ \A c \in Callers : Me(c).step = "idle"
  BY DEF Init, Me, Nowhere, JobsOf, LiveJobs
<1>2. ASSUME NEW u \in Units \ {Root}
      PROVE  Parents(u) = {InitialParent[u]} /\ InitialParent[u] \in Units
  BY <1>2, MoveAssumption DEF Init, Parents
<1>3. \A u \in Units \ {Root} : Placed(u)
  BY <1>1, <1>2 DEF Placed, Latest
<1> QED BY <1>1, <1>3 DEF PInv, CallPlaced

\* What holds together while no statement fails and no two callers move the same unit.
MInv == TInv /\ JInv /\ PInv

LEMMA StepPlaces ==
  ASSUME ~Faults, MoversApart, MInv, [Next]_vars
  PROVE  /\ MInv'
         /\ \/ UNCHANGED vars
            \/ \E u \in Units \ {Root} : Follows(u) /\ \A v \in Units \ {Root, u} : ParentOf(v)' = ParentOf(v)
<1>1. CASE UNCHANGED vars
  <2>1. \A u : /\ Parents(u)' = Parents(u) /\ LiveJobs(u)' = LiveJobs(u)
               /\ \A j : Latest(u, j)' <=> Latest(u, j)
    BY <1>1 DEF vars, Parents, LiveJobs, JobsOf, Latest
  <2>2. \A u : Placed(u)' <=> Placed(u)
    BY <1>1, <2>1 DEF vars, Placed
  <2>3. \A c : CallPlaced(c)' <=> CallPlaced(c)
    BY <1>1 DEF vars, CallPlaced, Parents, LiveJobs, JobsOf, Me, Job
  <2>4. PInv'
    BY <2>2, <2>3 DEF MInv, PInv
  <2> QED BY <1>1, <2>4, TypesInductive, TracksInductive DEF MInv
<1>2. ASSUME NEW c \in Callers, NEW u \in Moves[c], NEW target \in Units, StartMove(c, u, target)
      PROVE  PInv' /\ \E v \in Units \ {Root} :
                        Follows(v) /\ \A w \in Units \ {Root, v} : ParentOf(w)' = ParentOf(w)
  <2>1. PInv' /\ Follows(u) /\ \A w \in Units \ {Root, u} : ParentOf(w)' = ParentOf(w)
    BY <1>2, StartPlaces DEF MInv
  <2>2. u \in Units \ {Root}
    BY MoveAssumption
  <2> QED BY <2>1, <2>2
<1>3. ASSUME NEW c \in Callers, Run(c) \/ Crash(c)
      PROVE  PInv' /\ \E v \in Units \ {Root} :
                        Follows(v) /\ \A w \in Units \ {Root, v} : ParentOf(w)' = ParentOf(w)
  <2>1. PICK u : u = Me(c).unit
    OBVIOUS
  <2>2. PInv' /\ Follows(u) /\ \A w \in Units \ {Root, u} : ParentOf(w)' = ParentOf(w)
    BY <1>3, <2>1, RunPlaces DEF MInv
  <2>3. ~At(c, "idle")
    BY <1>3 DEF Run, Crash, At, ReadLatestJob, ReadNearestAncestor, CreateMoveJob, AddNewEdge,
                AdvanceAdded, RemoveOldEdge, AdvanceRemoved, Verify, AdvanceVerified, FailMoveJob
  <2>4. u \in Units \ {Root}
    BY <2>1, <2>3, MoveAssumption DEF MInv, TInv
  <2> QED BY <2>2, <2>4
<1> QED BY <1>1, <1>2, <1>3, TypesInductive, TracksInductive DEF Next, MInv

LEMMA Placement ==
  ASSUME ~Faults, MoversApart
  PROVE  Safety => []MInv
<1>1. Init => MInv
  BY InitTypes, InitTracks, InitPlaces DEF MInv
<1>2. MInv /\ [Next]_vars => MInv'
  BY StepPlaces
<1> QED BY <1>1, <1>2, PTL DEF Safety

\* While no two callers move the same unit and no statement fails, a unit has two
\* parents only while a job of its is on the way, wherever calls die.
THEOREM ParentsWhileMoving ==
  ASSUME ~Faults, MoversApart
  PROVE  Safety => []TwoParentsOnlyMidMove
<1>1. ASSUME MInv, NEW u \in Units, LiveJobs(u) = {}
      PROVE  ~(Cardinality(Parents(u)) > 1)
  <2>1. CASE u = Root
    <3>1. Parents(u) = {}
      BY <1>1, <2>1 DEF MInv, TInv, TypeOK, Parents
    <3> QED BY <3>1, FS_EmptySet
  <2>2. CASE u # Root
    <3>1. Placed(u)
      BY <1>1, <2>2 DEF MInv, PInv
    <3>2. PICK p : Parents(u) = {p}
      BY <1>1, <3>1 DEF Placed
    <3> QED BY <3>2, FS_Singleton
  <2> QED BY <2>1, <2>2
<1>2. MInv => TwoParentsOnlyMidMove
  BY <1>1 DEF TwoParentsOnlyMidMove
<1> QED BY <1>2, Placement, PTL

-----------------------------------------------------------------------------
(***************************************************************************)
(* So that every move is a change of parent that keeps the tree.           *)
(***************************************************************************)
\* A unit counts as being with one of its parents.
LEMMA WithAParent ==
  ASSUME MInv, NEW u \in Units \ {Root}
  PROVE  ParentOf(u) \in Units /\ <<ParentOf(u), u>> \in edges
<1>1. Placed(u) /\ OneLiveJob(u) /\ \A j \in LiveJobs(u) : JobOnTrack(j) /\ jobs[j].status \in Live
      /\ jobs[j].old \in Units
  <2>1. jobs \in Seq(Row)
    BY DEF MInv, TInv, TypeOK, Row, Live
  <2>2. ASSUME NEW j \in LiveJobs(u)
        PROVE  jobs[j].status \in Live /\ jobs[j].old \in Units
    <3>1. j \in DOMAIN jobs /\ jobs[j].status \notin Terminal
      BY <2>2 DEF LiveJobs, JobsOf
    <3>2. jobs[j] \in Row
      BY <2>1, <3>1
    <3> QED BY <3>1, <3>2 DEF Row
  <2> QED BY <2>2 DEF MInv, JInv, PInv, LiveJobs
<1>2. ParentOf(u) \in Parents(u)
  <2>1. CASE \E p : Parents(u) = {p}
    <3>1. PICK P, p : P = Parents(u) /\ P = {p}
      BY <2>1
    <3>2. \A j \in LiveJobs(u) : jobs[j].old # jobs[j].new
      BY <1>1 DEF JobOnTrack, JobLive, LiveJobs, JobsOf
    <3>3. p \in P
      BY <3>1
    <3>4. Chosen(jobs, LiveJobs(u), P) = p
      BY ONLY <3>1, <3>2, <3>3, ChosenOne
    <3> QED BY <3>1, <3>4, ParentChosen
  <2>2. CASE ~\E p : Parents(u) = {p}
    <3>1. PICK j : LiveJobs(u) = {j} /\ Parents(u) = {jobs[j].old, jobs[j].new}
      <4>1. PICK j \in LiveJobs(u) : TRUE
        BY <1>1, <2>2 DEF Placed
      <4>2. LiveJobs(u) = {j}
        BY <1>1, <4>1 DEF OneLiveJob
      <4> QED BY <1>1, <2>2, <4>1, <4>2 DEF Placed, Live
    <3>2. PICK L, P : L = LiveJobs(u) /\ P = Parents(u)
      OBVIOUS
    <3>3. j \in L /\ L = {j} /\ P = {jobs[j].old, jobs[j].new}
      BY <3>1, <3>2
    <3>4. Chosen(jobs, L, P) = jobs[j].old
      BY ONLY <3>3, ChosenOld
    <3> QED BY <3>2, <3>3, <3>4, ParentChosen
  <2> QED BY <2>1, <2>2
<1> QED BY <1>2 DEF Parents

LEMMA SameReachable == \A E, a : Tree!Reachable(E, a) = Reachable(E, a)
BY DEF Tree!Reachable, Tree!ClosedSets, Tree!ClosedUnder, Tree!Endpoints,
       Reachable, ClosedSets, ClosedUnder, Endpoints

LEMMA TreeStarts == Init => Tree!Init
<1> SUFFICES ASSUME Init
             PROVE  Tree!Init
  OBVIOUS
<1> DEFINE parent == [u \in Units \ {Root} |-> ParentOf(u)]
<1>1. ASSUME NEW u \in Units \ {Root}
      PROVE  ParentOf(u) = InitialParent[u]
  <2>1. LiveJobs(u) = {}
    BY DEF Init, LiveJobs, JobsOf
  <2>2. Parents(u) = {InitialParent[u]}
    BY <1>1, MoveAssumption DEF Init, Parents
  <2> QED BY <2>1, <2>2 DEF ParentOf
<1>2. parent = InitialParent
  BY <1>1, MoveAssumption
<1>3. Tree!ParentEdges = {<<InitialParent[u], u>> : u \in Units \ {Root}}
  BY <1>1 DEF Tree!ParentEdges
<1> QED BY <1>2, <1>3, MoveAssumption, SameReachable DEF Tree!Init

LEMMA TreeSteps ==
  ASSUME ~Faults, MoversApart, MInv, [Next]_vars
  PROVE  [Tree!Next]_([u \in Units \ {Root} |-> ParentOf(u)])
<1> DEFINE parent == [u \in Units \ {Root} |-> ParentOf(u)]
<1>1. CASE UNCHANGED vars
  <2>1. \A u : ParentOf(u)' = ParentOf(u)
    BY <1>1 DEF vars, ParentOf, LiveJobs, JobsOf, Parents
  <2> QED BY <2>1
<1>2. ASSUME NEW u \in Units \ {Root}, Follows(u),
             \A v \in Units \ {Root, u} : ParentOf(v)' = ParentOf(v)
      PROVE  [Tree!Next]_parent
  <2>1. CASE ParentOf(u)' = ParentOf(u)
    <3>1. \A v \in Units \ {Root} : ParentOf(v)' = ParentOf(v)
      BY <1>2, <2>1
    <3> QED BY <3>1
  <2>2. ASSUME NEW n \in Units, <<n, u>> \in edges, ParentOf(u)' = n
        PROVE  Tree!Reparent(u, n)
    <3>1. Acyclic(edges)
      BY DEF MInv, JInv, IsTree
    <3>2. Tree!ParentEdges \subseteq edges
      BY WithAParent DEF Tree!ParentEdges
    <3>3. n \notin Reachable(edges, u)
      <4>1. n # u
        BY <2>2, <3>1, <<n, u>>[1] = n, <<n, u>>[2] = u DEF Acyclic
      <4>2. u \in Reachable(edges, n)
        BY <2>2, ReachableRefl, ReachableClosed, <<n, u>>[1] = n, <<n, u>>[2] = u DEF ClosedUnder
      <4> QED BY <3>1, <4>1, <4>2, AcyclicAntisym
    <3>4. n \notin Reachable(Tree!ParentEdges, u)
      BY <3>2, <3>3, ReachableMono
    <3>5. parent' = [parent EXCEPT ![u] = n]
      BY <1>2, <2>2
    <3> QED BY <3>4, <3>5, SameReachable DEF Tree!Reparent
  <2> QED BY <1>2, <2>1, <2>2 DEF Follows, Tree!Next
<1> QED BY <1>1, <1>2, StepPlaces

\* Under the same two conditions the step-by-step moves, however they are
\* interleaved and wherever calls die, implement the tree whose units change
\* their parent in one step and never to one of their own descendants.
THEOREM MovesImplementTree ==
  ASSUME ~Faults, MoversApart
  PROVE  Safety => ImplementsTree
BY TreeStarts, TreeSteps, Placement, PTL DEF Safety, ImplementsTree, Tree!Spec
=============================================================================
