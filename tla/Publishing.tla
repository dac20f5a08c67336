----------------------------- MODULE Publishing -----------------------------
(***************************************************************************)
(* One document of a congregation's site: its draft, its checkpoints and   *)
(* what the public sees of it.  Editors save, restore and move the         *)
(* document through its states; each call reads the document first and     *)
(* writes later, and nothing in the write looks at the state again.  No    *)
(* job ever publishes a scheduled document: readers compare its date with  *)
(* the clock.                                                              *)
(***************************************************************************)
EXTENDS Integers, FiniteSets

CONSTANTS Editors, Contents,   \* callers, and what a blocks snapshot can say
          Empty,               \* the snapshot a new document starts from
          KeepCount,           \* revisionKeepCount
          MaxRevision,         \* bound on revision numbers
          MaxTime              \* bound on the clock

ASSUME PublishingAssumption ==
  /\ Empty \in Contents
  /\ KeepCount \in Nat \ {0} /\ MaxRevision \in Nat \ {0} /\ MaxTime \in Nat \ {0}

VARIABLES doc,         \* the document's row
          revisions,   \* its revisions: data by number
          now,         \* the database's clock
          editor       \* each editor's call

vars == <<doc, revisions, now, editor>>

Draft == 1       \* the revision draft_revision_id points at, for good
Unset == 0       \* NULL, of a date and of published_revision_id
Checkpoints == DOMAIN revisions \ {Draft}
Newest(numbers) == CHOOSE n \in numbers : \A m \in numbers : m <= n

Idle == [step |-> "idle", next |-> "DRAFT", at |-> Unset, first |-> FALSE,
         data |-> Empty, no |-> Unset]

\* InsertDocument: the row, its only draft revision and the pointer, in one transaction.
Init ==
  /\ doc = [state |-> "DRAFT", publishAt |-> Unset, publishedAt |-> Unset, published |-> Unset]
  /\ revisions = [r \in {Draft} |-> Empty]
  /\ now = 1
  /\ editor = [e \in Editors |-> Idle]

-----------------------------------------------------------------------------
\* A mutant of the operator below: the stored state, as if a job kept it up to date.
StoredState(d, time) == d.state

EffectiveState(d, time) ==
  IF d.state = "SCHEDULED" /\ d.publishAt <= time THEN "PUBLISHED" ELSE d.state

IsPubliclyVisible(d, time) ==
  EffectiveState(d, time) = "PUBLISHED" \/ d.state = "UNLISTED"

\* GetPublicBlocks: ErrDocumentNotFound, or the published revision's data.
PublicBlocks ==
  IF IsPubliclyVisible(doc, now) /\ doc.published # Unset
  THEN {revisions[doc.published]} ELSE {}

transitions(state) ==
  CASE state \in {"DRAFT", "UNLISTED"} -> {"PUBLISHED", "SCHEDULED"}
    [] state = "PUBLISHED"             -> {"DRAFT", "UNLISTED"}
    [] state = "SCHEDULED"             -> {"PUBLISHED", "DRAFT"}

-----------------------------------------------------------------------------
Return(e) == editor' = [editor EXCEPT ![e] = Idle]

\* A mutant of the action below: the save also reaches the published revision.
PutBlocksInPlace(data) ==
  /\ revisions' = [r \in DOMAIN revisions |->
                     IF r \in {Draft, doc.published} THEN data ELSE revisions[r]]
  /\ UNCHANGED <<doc, now, editor>>

\* Every save, and with a checkpoint's data RestoreRevision: the draft's row,
\* in place.  (What it reads before, the draft's id, never changes.)
PutBlocks(data) ==
  /\ revisions' = [revisions EXCEPT ![Draft] = data]
  /\ UNCHANGED <<doc, now, editor>>

RestoreRevision == \E r \in Checkpoints : PutBlocks(revisions[r])

\* TransitionDocument's read: the action is looked up in the effective state.
BeginTransition(e, next, at) ==
  /\ editor[e] = Idle
  /\ next \in transitions(EffectiveState(doc, now))
  /\ IF next = "SCHEDULED" THEN at > now ELSE at = Unset
  /\ editor' = [editor EXCEPT ![e] =
       [Idle EXCEPT !.step  = IF next \in {"PUBLISHED", "SCHEDULED"} THEN "draft" ELSE "state",
                    !.next  = next,
                    !.at    = at,
                    !.first = next = "PUBLISHED" /\ doc.publishedAt = Unset]]
  /\ UNCHANGED <<doc, revisions, now>>

\* UpdateDocumentState, by id: the date is cleared, published_at set once.
Written(e, d) ==
  [d EXCEPT !.state = editor[e].next,
            !.publishAt = editor[e].at,
            !.publishedAt = IF editor[e].first THEN now ELSE @]

\* Revert to draft, or unlist: one statement.
UpdateDocumentState(e) ==
  /\ editor[e].step = "state"
  /\ doc' = Written(e, doc)
  /\ Return(e)
  /\ UNCHANGED <<revisions, now>>

\* snapshotAndPromote, statement by statement: the draft is read ...
ReadDraft(e) ==
  /\ editor[e].step = "draft"
  /\ editor' = [editor EXCEPT ![e].step = "number", ![e].data = revisions[Draft]]
  /\ UNCHANGED <<doc, revisions, now>>

\* ... then the next number ...
NextRevisionNo(e) ==
  /\ editor[e].step = "number"
  /\ Newest(DOMAIN revisions) < MaxRevision
  /\ editor' = [editor EXCEPT ![e].step = "promote", ![e].no = Newest(DOMAIN revisions) + 1]
  /\ UNCHANGED <<doc, revisions, now>>

\* A mutant of the operator below: the draft is pruned like any other row.
PruneDraftToo(rows, published) ==
  {r \in DOMAIN rows : \/ r = published
                       \/ Cardinality({s \in DOMAIN rows : s > r}) < KeepCount}

\* PruneCheckpointRevisions keeps the KeepCount newest rows, the draft and the published one.
Kept(rows, published) ==
  {r \in DOMAIN rows : \/ r \in {Draft, published}
                       \/ Cardinality({s \in DOMAIN rows : s > r}) < KeepCount}

\* A mutant of the action below: the draft's own row is published.
PromoteDraftRow(e) ==
  /\ editor[e].step = "promote"
  /\ doc' = [Written(e, doc) EXCEPT !.published = Draft]
  /\ Return(e)
  /\ UNCHANGED <<revisions, now>>

\* A bound: KeepCount (fifty) publications do not complete between two statements
\* of another one, which could then insert a number that is pruned already.
NotOvertaken(e) ==
  \A f \in Editors : editor[f].step = "promote" => editor[e].no - editor[f].no < KeepCount

\* InsertRevision: the rows with the new one.
Inserted(e) ==
  [r \in DOMAIN revisions \union {editor[e].no} |->
     IF r = editor[e].no THEN editor[e].data ELSE revisions[r]]

\* A mutant of the action below: without the index on document and number.
PromoteUnindexed(e) ==
  /\ editor[e].step = "promote" /\ NotOvertaken(e)
  /\ doc' = [Written(e, doc) EXCEPT !.published = editor[e].no]
  /\ revisions' = [r \in Kept(Inserted(e), editor[e].no) |-> Inserted(e)[r]]
  /\ Return(e)
  /\ UNCHANGED now

\* ... then the insert, both pointers and the state, and the pruning, visible
\* at the commit.  A number taken in the meantime fails the call.
Promote(e) ==
  /\ editor[e].step = "promote" /\ NotOvertaken(e)
  /\ IF editor[e].no \in DOMAIN revisions
     THEN UNCHANGED <<doc, revisions>>
     ELSE /\ doc' = [Written(e, doc) EXCEPT !.published = editor[e].no]
          /\ revisions' = [r \in Kept(Inserted(e), editor[e].no) |-> Inserted(e)[r]]
  /\ Return(e)
  /\ UNCHANGED now

\* The request is cancelled or the process dies; the transaction rolls back.
Crash(e) == editor[e] # Idle /\ Return(e) /\ UNCHANGED <<doc, revisions, now>>

Tick == now < MaxTime /\ now' = now + 1 /\ UNCHANGED <<doc, revisions, editor>>

Next ==
  \/ \E data \in Contents : PutBlocks(data)
  \/ RestoreRevision
  \/ \E e \in Editors :
       \/ \E next \in {"DRAFT", "PUBLISHED", "UNLISTED", "SCHEDULED"}, at \in 0 .. MaxTime :
            BeginTransition(e, next, at)
       \/ UpdateDocumentState(e)
       \/ ReadDraft(e) \/ NextRevisionNo(e) \/ Promote(e)
       \/ Crash(e)
  \/ Tick

\* Time passes.  Nothing else is owed: no job runs.
Spec == Init /\ [][Next]_vars /\ WF_vars(Tick)

-----------------------------------------------------------------------------
TypeOK ==
  /\ doc \in [state : {"DRAFT", "PUBLISHED", "UNLISTED", "SCHEDULED"}, publishAt : 0 .. MaxTime,
              publishedAt : 0 .. MaxTime, published : 0 .. MaxRevision]
  /\ DOMAIN revisions \subseteq 1 .. MaxRevision /\ Draft \in DOMAIN revisions
  /\ \A r \in DOMAIN revisions : revisions[r] \in Contents
  /\ now \in 1 .. MaxTime
  /\ \A e \in Editors : editor[e].data \in Contents /\ editor[e].no \in 0 .. MaxRevision

\* Whatever becomes visible, with nobody acting when a date is reached, has a
\* checkpoint to serve, and never the row the editors are writing to.
VisibleHasSnapshot ==
  doc.state # "DRAFT" => doc.published \in Checkpoints

\* "Publishing a document never mutates what's already live": what visitors
\* read changes only when an editor's transition is written, or when a
\* scheduled document falls due, which shows what was hidden and hides nothing.
EditsStayPrivate ==
  [][PublicBlocks' # PublicBlocks /\ doc' = doc => now' # now /\ PublicBlocks = {}]_vars

\* A checkpoint says for ever what it said when it was made, also while other
\* publications, saves and restores are under way, and pruning keeps the
\* newest: the number of a checkpoint is never used a second time.
CheckpointsImmutable ==
  [][/\ \A r \in Checkpoints \cap Checkpoints' : revisions'[r] = revisions[r]
     /\ \A r \in Checkpoints' \ Checkpoints : \A s \in Checkpoints : s < r]_vars

\* A scheduled document that is left alone goes live.
ScheduledGoesLive ==
  doc.state = "SCHEDULED" ~> PublicBlocks # {} \/ doc.state # "SCHEDULED"

\* "The fixed document-state machine" (application/service.go, of transitions).
FixedStateMachine ==
  [][EffectiveState(doc', now) # EffectiveState(doc, now)
       => EffectiveState(doc', now) \in transitions(EffectiveState(doc, now))]_vars
=============================================================================
