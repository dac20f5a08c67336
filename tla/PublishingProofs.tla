-------------------------- MODULE PublishingProofs --------------------------
(***************************************************************************)
(* For any number of editors, whatever a document says and however many    *)
(* checkpoints are kept: what is visible has a checkpoint to serve, edits  *)
(* stay private, and a checkpoint never changes.                           *)
(***************************************************************************)
EXTENDS Publishing, FiniteSetTheorems, TLAPS

States == {"DRAFT", "PUBLISHED", "UNLISTED", "SCHEDULED"}
Steps == {"idle", "state", "draft", "number", "promote"}
Calls == [step : Steps, next : States, at : 0 .. MaxTime, first : BOOLEAN,
          data : Contents, no : 0 .. MaxRevision]

\* The published revision is never the draft, and once there is one, there is one for good.
PointerOnTrack ==
  /\ doc.published # Unset => doc.published \in Checkpoints
  /\ doc.state # "DRAFT" => doc.published # Unset

\* A call unlists what is published, and publishes a draft under a checkpoint's number.
CallsOnTrack ==
  \A e \in Editors :
    /\ editor[e].step = "state" => /\ editor[e].next \in {"DRAFT", "UNLISTED"}
                                   /\ editor[e].next = "UNLISTED" => doc.published # Unset
    /\ editor[e].step = "promote" => editor[e].no > Draft

\* The number a call has read follows the newest of its time, and all that were
\* used since are still there: an insert of a number that was used fails.
NumbersOnTrack ==
  \A e \in Editors : editor[e].step = "promote" =>
    /\ \E r \in DOMAIN revisions : editor[e].no <= r + 1
    /\ \A r \in DOMAIN revisions : editor[e].no .. r \subseteq DOMAIN revisions

IInv ==
  /\ TypeOK
  /\ editor \in [Editors -> Calls]
  /\ PointerOnTrack
  /\ CallsOnTrack
  /\ NumbersOnTrack

-----------------------------------------------------------------------------
\* A set of naturals under a bound has a greatest member.
LEMMA GreatestExists ==
  ASSUME NEW n \in Nat, NEW S, S \subseteq 0 .. n, S # {}
  PROVE  \E m \in S : \A k \in S : k <= m
<1> DEFINE above == {k .. n : k \in S}
<1>1. IsFiniteSet(0 .. n)
  BY FS_Interval
<1>2. \A B \in above : B \subseteq 0 .. n
  OBVIOUS
<1>3. above \subseteq FiniteSubsetsOf(0 .. n)
  BY <1>1, <1>2, FS_Subset DEF FiniteSubsetsOf
<1>4. above # {}
  OBVIOUS
<1>5. IsWellFoundedOn(StrictSubsetOrdering(0 .. n), FiniteSubsetsOf(0 .. n))
  BY FS_StrictSubsetOrderingWellFounded
<1>6. PICK B \in above : \A C \in above : <<C, B>> \notin StrictSubsetOrdering(0 .. n)
  <2> HIDE DEF above
  <2> QED BY <1>3, <1>4, <1>5, WFMin
<1>7. PICK m \in S : B = m .. n
  OBVIOUS
<1>8. ASSUME NEW k \in S, m < k
      PROVE  FALSE
  <2>1. k .. n \in above
    OBVIOUS
  <2>2. k .. n \subseteq m .. n /\ m \in m .. n /\ m \notin k .. n
    BY <1>8
  <2>3. k .. n \subseteq 0 .. n /\ m .. n \subseteq 0 .. n
    OBVIOUS
  <2>4. <<k .. n, m .. n>> \in StrictSubsetOrdering(0 .. n)
    <3> DEFINE ss == <<k .. n, m .. n>>
    <3>1. ss \in (SUBSET (0 .. n)) \X (SUBSET (0 .. n))
      BY <2>3
    <3>2. ss[1] \subseteq ss[2] /\ ss[1] # ss[2]
      BY <2>2
    <3> QED BY <3>1, <3>2 DEF StrictSubsetOrdering
  <2> QED BY <1>6, <1>7, <2>1, <2>4
<1> QED BY <1>8

\* The newest number is one of the numbers, and none is newer.
LEMMA NewestIs ==
  ASSUME TypeOK
  PROVE  /\ Newest(DOMAIN revisions) \in DOMAIN revisions
         /\ \A r \in DOMAIN revisions : r <= Newest(DOMAIN revisions)
<1>1. DOMAIN revisions \subseteq 0 .. MaxRevision /\ DOMAIN revisions # {} /\ MaxRevision \in Nat
  BY PublishingAssumption DEF TypeOK
<1>2. \E m \in DOMAIN revisions : \A k \in DOMAIN revisions : k <= m
  BY <1>1, GreatestExists
<1> QED BY <1>2 DEF Newest

-----------------------------------------------------------------------------
LEMMA InitInvariant == Init => IInv
<1> SUFFICES ASSUME Init
             PROVE  IInv
  OBVIOUS
<1>1. DOMAIN revisions = {Draft} /\ revisions[Draft] = Empty
  BY DEF Init
<1>2. TypeOK
  BY <1>1, PublishingAssumption DEF Init, TypeOK, Idle, Draft, Unset
<1>3. editor \in [Editors -> Calls]
  BY PublishingAssumption DEF Init, Idle, Calls, Steps, States, Unset
<1> QED BY <1>2, <1>3 DEF Init, IInv, PointerOnTrack, CallsOnTrack, NumbersOnTrack, Idle

\* What changes only the draft's row disturbs nothing.
LEMMA PutKeepsInvariant ==
  ASSUME IInv, NEW data \in Contents, PutBlocks(data)
  PROVE  IInv'
<1>1. DOMAIN revisions' = DOMAIN revisions
  BY DEF PutBlocks
<1>2. \A r \in DOMAIN revisions : revisions'[r] \in Contents
  BY DEF PutBlocks, IInv, TypeOK
<1>3. UNCHANGED <<doc, now, editor>>
  BY DEF PutBlocks
<1>4. TypeOK'
  BY <1>1, <1>2, <1>3 DEF IInv, TypeOK
<1>5. PointerOnTrack' /\ CallsOnTrack' /\ NumbersOnTrack'
  BY <1>1, <1>3 DEF IInv, PointerOnTrack, CallsOnTrack, NumbersOnTrack, Checkpoints
<1> QED BY <1>3, <1>4, <1>5 DEF IInv

\* A call goes on to its next step, or ends, and nothing is written.
LEMMA CallKeepsInvariant ==
  ASSUME IInv, NEW e \in Editors, NEW call \in Calls,
         editor' = [editor EXCEPT ![e] = call],
         UNCHANGED <<doc, revisions, now>>,
         call.step = "state" => /\ call.next \in {"DRAFT", "UNLISTED"}
                                /\ call.next = "UNLISTED" => doc.published # Unset,
         call.step = "promote" => /\ call.no > Draft
                                  /\ \E r \in DOMAIN revisions : call.no <= r + 1
                                  /\ \A r \in DOMAIN revisions : call.no .. r \subseteq DOMAIN revisions
  PROVE  IInv'
<1>1. editor' \in [Editors -> Calls] /\ \A f \in Editors : editor'[f] = IF f = e THEN call ELSE editor[f]
  BY DEF IInv
<1>2. TypeOK'
  BY <1>1 DEF IInv, TypeOK, Calls
<1>3. PointerOnTrack'
  BY DEF IInv, PointerOnTrack, Checkpoints
<1>4. CallsOnTrack'
  BY <1>1 DEF IInv, CallsOnTrack
<1>5. NumbersOnTrack'
  BY <1>1 DEF IInv, NumbersOnTrack
<1> QED BY <1>1, <1>2, <1>3, <1>4, <1>5 DEF IInv

LEMMA IdleIsCall == Idle \in Calls
BY PublishingAssumption DEF Idle, Calls, Steps, States, Unset

LEMMA BeginKeepsInvariant ==
  ASSUME IInv, NEW e \in Editors, NEW next \in States, NEW at \in 0 .. MaxTime,
         BeginTransition(e, next, at)
  PROVE  IInv'
<1> DEFINE call == [Idle EXCEPT !.step  = IF next \in {"PUBLISHED", "SCHEDULED"} THEN "draft" ELSE "state",
                                !.next  = next,
                                !.at    = at,
                                !.first = next = "PUBLISHED" /\ doc.publishedAt = Unset]
<1>1. editor' = [editor EXCEPT ![e] = call] /\ UNCHANGED <<doc, revisions, now>>
  BY DEF BeginTransition
<1>2. call \in Calls
  BY IdleIsCall DEF Calls, Steps
<1>3. call.step \in {"state", "draft"} /\ call.next = next
  BY DEF Idle
<1>4. call.step = "state" => next \in {"DRAFT", "UNLISTED"}
  BY DEF Idle, States
<1>5. next = "UNLISTED" => doc.published # Unset
  <2> SUFFICES ASSUME next = "UNLISTED"
               PROVE  doc.state # "DRAFT"
    BY DEF IInv, PointerOnTrack
  <2> QED BY DEF BeginTransition, transitions, EffectiveState
<1> HIDE DEF call
<1> QED BY <1>1, <1>2, <1>3, <1>4, <1>5, CallKeepsInvariant

LEMMA UpdateKeepsInvariant ==
  ASSUME IInv, NEW e \in Editors, UpdateDocumentState(e)
  PROVE  IInv'
<1>1. /\ editor[e] \in Calls /\ editor[e].next \in {"DRAFT", "UNLISTED"}
      /\ editor[e].next = "UNLISTED" => doc.published # Unset
  BY DEF UpdateDocumentState, IInv, CallsOnTrack
<1>2. doc' \in [state : States, publishAt : 0 .. MaxTime, publishedAt : 0 .. MaxTime, published : 0 .. MaxRevision]
  <2>1. now \in 0 .. MaxTime
    BY DEF IInv, TypeOK
  <2>2. doc \in [state : States, publishAt : 0 .. MaxTime, publishedAt : 0 .. MaxTime, published : 0 .. MaxRevision]
    BY DEF IInv, TypeOK, States
  <2> QED BY <1>1, <2>1, <2>2 DEF UpdateDocumentState, Written, Calls
<1>3. doc'.published = doc.published /\ doc'.state = editor[e].next
  BY DEF UpdateDocumentState, Written, IInv, TypeOK
<1>4. editor' = [editor EXCEPT ![e] = Idle] /\ UNCHANGED <<revisions, now>>
  BY DEF UpdateDocumentState, Return
<1>5. editor' \in [Editors -> Calls] /\ \A f \in Editors : editor'[f] = IF f = e THEN Idle ELSE editor[f]
  BY <1>4, IdleIsCall DEF IInv
<1>6. TypeOK'
  BY <1>2, <1>4, <1>5 DEF IInv, TypeOK, Calls, States
<1>7. PointerOnTrack' /\ CallsOnTrack' /\ NumbersOnTrack'
  BY <1>1, <1>3, <1>4, <1>5 DEF IInv, PointerOnTrack, CallsOnTrack, NumbersOnTrack, Checkpoints, Idle
<1> QED BY <1>5, <1>6, <1>7 DEF IInv

LEMMA ReadKeepsInvariant ==
  ASSUME IInv, NEW e \in Editors, ReadDraft(e) \/ Crash(e)
  PROVE  IInv'
<1>1. CASE ReadDraft(e)
  <2> DEFINE call == [editor[e] EXCEPT !.step = "number", !.data = revisions[Draft]]
  <2>1. editor' = [editor EXCEPT ![e] = call] /\ UNCHANGED <<doc, revisions, now>>
    BY <1>1 DEF ReadDraft, IInv
  <2>2. call \in Calls /\ call.step = "number"
    BY DEF IInv, TypeOK, Calls, Steps
  <2> HIDE DEF call
  <2> QED BY <2>1, <2>2, CallKeepsInvariant
<1>2. CASE Crash(e)
  BY <1>2, IdleIsCall, CallKeepsInvariant DEF Crash, Return, Idle
<1> QED BY <1>1, <1>2

LEMMA NumberKeepsInvariant ==
  ASSUME IInv, NEW e \in Editors, NextRevisionNo(e)
  PROVE  IInv'
<1> DEFINE newest == Newest(DOMAIN revisions)
           call == [editor[e] EXCEPT !.step = "promote", !.no = newest + 1]
<1>1. newest \in DOMAIN revisions /\ \A r \in DOMAIN revisions : r <= newest
  BY NewestIs DEF IInv
<1>2. newest \in 1 .. MaxRevision /\ newest < MaxRevision /\ DOMAIN revisions \subseteq 1 .. MaxRevision
  BY <1>1 DEF NextRevisionNo, IInv, TypeOK
<1>3. editor' = [editor EXCEPT ![e] = call] /\ UNCHANGED <<doc, revisions, now>>
  BY DEF NextRevisionNo, IInv
<1>4. call \in Calls /\ call.step = "promote" /\ call.no = newest + 1
  <2>1. editor[e] \in Calls /\ newest + 1 \in 0 .. MaxRevision
    BY <1>2, PublishingAssumption DEF IInv
  <2> HIDE DEF newest
  <2> QED BY <2>1 DEF Calls, Steps
<1>5. /\ call.no > Draft
      /\ call.no <= newest + 1
      /\ \A r \in DOMAIN revisions : call.no .. r = {}
  BY <1>1, <1>2, <1>4 DEF Draft
<1> HIDE DEF call, newest
<1> QED BY <1>1, <1>3, <1>4, <1>5, CallKeepsInvariant

-----------------------------------------------------------------------------
(***************************************************************************)
(* A publication.  Its number is new only if it is the next one, and the   *)
(* pruning keeps the numbers that publications under way may try to use.   *)
(***************************************************************************)
LEMMA NumbersAreNatural ==
  ASSUME IInv
  PROVE  /\ DOMAIN revisions \subseteq 1 .. MaxRevision
         /\ \A e \in Editors : editor[e].no \in Nat
BY DEF IInv, TypeOK, Calls

\* A number that is not in use follows all that are, and directly the newest.
LEMMA UnusedIsNext ==
  ASSUME IInv, NEW e \in Editors, editor[e].step = "promote", editor[e].no \notin DOMAIN revisions
  PROVE  /\ \A r \in DOMAIN revisions : r < editor[e].no
         /\ editor[e].no - 1 \in DOMAIN revisions
<1>1. ASSUME NEW r \in DOMAIN revisions, editor[e].no <= r
      PROVE  FALSE
  <2>1. editor[e].no .. r \subseteq DOMAIN revisions
    BY DEF IInv, NumbersOnTrack
  <2>2. editor[e].no \in editor[e].no .. r
    BY <1>1, NumbersAreNatural
  <2> QED BY <2>1, <2>2
<1>2. PICK r \in DOMAIN revisions : editor[e].no <= r + 1
  BY DEF IInv, NumbersOnTrack
<1> QED BY <1>1, <1>2, NumbersAreNatural

\* The rows after the pruning: the new one is kept and points nowhere else.
LEMMA KeptRows ==
  ASSUME NEW rows, NEW published
  PROVE  /\ Kept(rows, published) \subseteq DOMAIN rows
         /\ Draft \in DOMAIN rows => Draft \in Kept(rows, published)
         /\ published \in DOMAIN rows => published \in Kept(rows, published)
         /\ \A r \in DOMAIN rows :
              Cardinality({s \in DOMAIN rows : s > r}) < KeepCount => r \in Kept(rows, published)
BY DEF Kept

\* Fewer than KeepCount numbers lie between a number and the newest: it is kept.
LEMMA RecentIsKept ==
  ASSUME NEW rows, NEW published \in Nat, NEW k \in DOMAIN rows, k \in Nat,
         \A r \in DOMAIN rows : r \in Nat /\ r <= published,
         published - k < KeepCount, k <= published
  PROVE  k \in Kept(rows, published)
<1> DEFINE newer == {s \in DOMAIN rows : s > k}
<1>1. newer \subseteq (k + 1) .. published
  OBVIOUS
<1>2. /\ IsFiniteSet((k + 1) .. published)
      /\ Cardinality((k + 1) .. published) = IF k + 1 > published THEN 0 ELSE published - (k + 1) + 1
  <2>1. k + 1 \in Int /\ published \in Int
    OBVIOUS
  <2> QED BY <2>1, FS_Interval
<1>3. Cardinality((k + 1) .. published) = published - k
  BY <1>2
<1>4. Cardinality(newer) <= published - k /\ Cardinality(newer) \in Nat
  BY <1>1, <1>2, <1>3, FS_Subset, FS_CardinalityType
<1>5. Cardinality(newer) < KeepCount
  BY <1>4, PublishingAssumption
<1> QED BY <1>5 DEF Kept

\* What a publication that comes through leaves: the new row, the draft, the
\* rest unchanged, and every row that another publication counts on.
LEMMA PromotedRows ==
  ASSUME IInv, NEW e \in Editors, Promote(e), editor[e].no \notin DOMAIN revisions
  PROVE  /\ DOMAIN revisions' \subseteq DOMAIN revisions \union {editor[e].no}
         /\ editor[e].no \in DOMAIN revisions' /\ Draft \in DOMAIN revisions'
         /\ revisions'[editor[e].no] = editor[e].data
         /\ \A r \in DOMAIN revisions \intersect DOMAIN revisions' : revisions'[r] = revisions[r]
         /\ \A f \in Editors : editor[f].step = "promote" =>
              \A k \in DOMAIN revisions : editor[f].no <= k => k \in DOMAIN revisions'
<1> DEFINE no == editor[e].no
<1>1. /\ DOMAIN Inserted(e) = DOMAIN revisions \union {no}
      /\ \A r \in DOMAIN Inserted(e) : Inserted(e)[r] = IF r = no THEN editor[e].data ELSE revisions[r]
  BY DEF Inserted
<1>2. revisions' = [r \in Kept(Inserted(e), no) |-> Inserted(e)[r]]
  BY DEF Promote
<1>3. DOMAIN revisions' = Kept(Inserted(e), no)
  BY <1>2
<1>4. no \in Kept(Inserted(e), no) /\ Draft \in Kept(Inserted(e), no)
      /\ Kept(Inserted(e), no) \subseteq DOMAIN Inserted(e)
  BY <1>1, KeptRows DEF IInv, TypeOK
<1>5. \A r \in DOMAIN revisions' : revisions'[r] = Inserted(e)[r]
  BY <1>2, <1>3
<1>6. ASSUME NEW f \in Editors, editor[f].step = "promote", NEW k \in DOMAIN revisions, editor[f].no <= k
      PROVE  k \in Kept(Inserted(e), no)
  <2>1. no \in Nat /\ k \in Nat /\ editor[f].no \in Nat
    BY NumbersAreNatural
  <2>2. k < no /\ \A r \in DOMAIN revisions : r \in Nat /\ r < no
    BY UnusedIsNext, NumbersAreNatural DEF Promote
  <2>3. no - editor[f].no < KeepCount
    BY <1>6 DEF Promote, NotOvertaken
  <2>4. no - k < KeepCount
    BY <1>6, <2>1, <2>3, PublishingAssumption
  <2>5. \A r \in DOMAIN Inserted(e) : r \in Nat /\ r <= no
    BY <1>1, <2>1, <2>2
  <2> HIDE DEF no
  <2> QED BY <1>1, <2>1, <2>2, <2>4, <2>5, RecentIsKept
<1> QED BY <1>1, <1>3, <1>4, <1>5, <1>6

LEMMA PromoteKeepsInvariant ==
  ASSUME IInv, NEW e \in Editors, Promote(e)
  PROVE  IInv'
<1>1. editor' = [editor EXCEPT ![e] = Idle] /\ now' = now /\ editor[e].step = "promote"
  BY DEF Promote, Return
<1>2. CASE editor[e].no \in DOMAIN revisions
  BY <1>1, <1>2, IdleIsCall, CallKeepsInvariant DEF Promote, Idle
<1>3. CASE editor[e].no \notin DOMAIN revisions
  <2> DEFINE no == editor[e].no
  <2>1. editor' \in [Editors -> Calls] /\ \A f \in Editors : editor'[f] = IF f = e THEN Idle ELSE editor[f]
    BY <1>1, IdleIsCall DEF IInv
  <2>2. editor[e] \in Calls /\ no > Draft
    BY <1>1 DEF IInv, CallsOnTrack
  <2>3. doc' = [Written(e, doc) EXCEPT !.published = no]
    BY <1>3 DEF Promote
  <2>4. /\ doc' \in [state : States, publishAt : 0 .. MaxTime, publishedAt : 0 .. MaxTime, published : 0 .. MaxRevision]
        /\ doc'.published = no
    <3>1. now \in 0 .. MaxTime
      BY DEF IInv, TypeOK
    <3>2. doc \in [state : States, publishAt : 0 .. MaxTime, publishedAt : 0 .. MaxTime, published : 0 .. MaxRevision]
      BY DEF IInv, TypeOK, States
    <3> QED BY <2>2, <2>3, <3>1, <3>2 DEF Written, Calls
  <2>5. /\ DOMAIN revisions' \subseteq DOMAIN revisions \union {no}
        /\ no \in DOMAIN revisions' /\ Draft \in DOMAIN revisions'
        /\ revisions'[no] = editor[e].data
        /\ \A r \in DOMAIN revisions \intersect DOMAIN revisions' : revisions'[r] = revisions[r]
        /\ \A f \in Editors : editor[f].step = "promote" =>
             \A k \in DOMAIN revisions : editor[f].no <= k => k \in DOMAIN revisions'
    BY <1>3, PromotedRows
  <2>6. no \in 1 .. MaxRevision
    BY <2>2 DEF Calls, Draft
  <2>7. TypeOK'
    <3>1. DOMAIN revisions' \subseteq 1 .. MaxRevision
      BY <2>5, <2>6 DEF IInv, TypeOK
    <3>2. \A r \in DOMAIN revisions' : revisions'[r] \in Contents
      BY <2>2, <2>5 DEF IInv, TypeOK, Calls
    <3>3. now' \in 1 .. MaxTime
      BY <1>1 DEF IInv, TypeOK
    <3> QED BY <2>1, <2>4, <2>5, <3>1, <3>2, <3>3 DEF TypeOK, Calls, States
  <2>8. PointerOnTrack'
    BY <2>2, <2>4, <2>5, <2>6 DEF PointerOnTrack, Checkpoints, Unset, Draft
  <2>9. CallsOnTrack'
    BY <2>1, <2>4, <2>6 DEF IInv, CallsOnTrack, Idle, Unset
  <2>10. NumbersOnTrack'
    <3> SUFFICES ASSUME NEW f \in Editors, editor'[f].step = "promote"
                 PROVE  /\ \E r \in DOMAIN revisions' : editor'[f].no <= r + 1
                        /\ \A r \in DOMAIN revisions' : editor'[f].no .. r \subseteq DOMAIN revisions'
      BY DEF NumbersOnTrack
    <3>1. editor'[f] = editor[f] /\ editor[f].step = "promote" /\ editor[f].no \in Nat
      BY <2>1, NumbersAreNatural DEF Idle
    <3>2. \A r \in DOMAIN revisions : r < no
      BY <1>1, <1>3, UnusedIsNext
    <3>3. no - 1 \in DOMAIN revisions
      BY <1>1, <1>3, UnusedIsNext
    <3>4. \E r \in DOMAIN revisions' : editor[f].no <= r + 1
      <4>1. PICK r \in DOMAIN revisions : editor[f].no <= r + 1
        BY <3>1 DEF IInv, NumbersOnTrack
      <4> QED BY <2>5, <2>6, <3>1, <3>2, <4>1, NumbersAreNatural
    <3>5. ASSUME NEW r \in DOMAIN revisions', NEW k \in editor[f].no .. r
          PROVE  k \in DOMAIN revisions'
      <4>1. r \in Nat /\ r <= no /\ k \in Nat /\ k <= r /\ editor[f].no <= k
        BY <2>5, <2>6, <3>1, <3>2, <3>5, NumbersAreNatural
      <4>2. CASE k = no
        BY <2>5, <4>2
      <4>3. CASE k # no
        <5>1. k \in editor[f].no .. (no - 1)
          BY <2>6, <3>1, <4>1, <4>3
        <5>2. k \in DOMAIN revisions
          BY <3>1, <3>3, <5>1 DEF IInv, NumbersOnTrack
        <5> QED BY <2>5, <3>1, <4>1, <5>2
      <4> QED BY <4>2, <4>3
    <3> QED BY <3>1, <3>4, <3>5
  <2> QED BY <2>1, <2>7, <2>8, <2>9, <2>10 DEF IInv
<1> QED BY <1>2, <1>3

LEMMA NextInvariant == IInv /\ [Next]_vars => IInv'
<1> SUFFICES ASSUME IInv, [Next]_vars
             PROVE  IInv'
  OBVIOUS
<1>1. ASSUME NEW data \in Contents, PutBlocks(data)
      PROVE  IInv'
  BY <1>1, PutKeepsInvariant
<1>2. CASE RestoreRevision
  BY <1>2, PutKeepsInvariant DEF RestoreRevision, Checkpoints, IInv, TypeOK
<1>3. ASSUME NEW e \in Editors, NEW next \in States, NEW at \in 0 .. MaxTime,
             BeginTransition(e, next, at)
      PROVE  IInv'
  BY <1>3, BeginKeepsInvariant
<1>4. ASSUME NEW e \in Editors,
             UpdateDocumentState(e) \/ ReadDraft(e) \/ NextRevisionNo(e) \/ Promote(e) \/ Crash(e)
      PROVE  IInv'
  BY <1>4, UpdateKeepsInvariant, ReadKeepsInvariant, NumberKeepsInvariant, PromoteKeepsInvariant
<1>5. CASE Tick
  BY <1>5, PublishingAssumption DEF Tick, IInv, TypeOK, PointerOnTrack, CallsOnTrack, NumbersOnTrack, Checkpoints
<1>6. CASE UNCHANGED vars
  BY <1>6 DEF vars, IInv, TypeOK, PointerOnTrack, CallsOnTrack, NumbersOnTrack, Checkpoints
<1> QED BY <1>1, <1>2, <1>3, <1>4, <1>5, <1>6 DEF Next, States

-----------------------------------------------------------------------------
\* The inductive invariant holds in every reachable state.
THEOREM Invariant == Spec => []IInv
BY InitInvariant, NextInvariant, PTL DEF Spec

\* Rows, revisions and calls keep their shapes.
THEOREM TypeCorrect == Spec => []TypeOK
<1>1. IInv => TypeOK
  BY DEF IInv
<1> QED BY <1>1, Invariant, PTL

\* Whatever editors do at once, a document that visitors may see has a
\* checkpoint to show, and never the row that is being written to.
THEOREM VisibleIsServed == Spec => []VisibleHasSnapshot
<1>1. IInv => VisibleHasSnapshot
  BY DEF IInv, PointerOnTrack, VisibleHasSnapshot
<1> QED BY <1>1, Invariant, PTL

-----------------------------------------------------------------------------
\* A checkpoint keeps its row but for the draft's, and its number is new.
LEMMA CheckpointsStep ==
  ASSUME IInv, [Next]_vars
  PROVE  /\ \A r \in Checkpoints \intersect Checkpoints' : revisions'[r] = revisions[r]
         /\ \A r \in Checkpoints' \ Checkpoints : \A s \in Checkpoints : s < r
<1>1. ASSUME NEW data, PutBlocks(data)
      PROVE  /\ DOMAIN revisions' = DOMAIN revisions
             /\ \A r \in Checkpoints : revisions'[r] = revisions[r]
  BY <1>1 DEF PutBlocks, Checkpoints
<1>2. CASE \E data : PutBlocks(data)
  BY <1>1, <1>2 DEF Checkpoints
<1>3. ASSUME NEW e \in Editors, Promote(e), editor[e].no \notin DOMAIN revisions
      PROVE  /\ \A r \in Checkpoints \intersect Checkpoints' : revisions'[r] = revisions[r]
             /\ \A r \in Checkpoints' \ Checkpoints : \A s \in Checkpoints : s < r
  BY <1>3, PromotedRows, UnusedIsNext DEF Checkpoints, Promote
<1>4. CASE UNCHANGED revisions
  BY <1>4 DEF Checkpoints
<1>5. ASSUME NEW e \in Editors, NEW next \in States, NEW at \in 0 .. MaxTime,
             BeginTransition(e, next, at)
      PROVE  UNCHANGED revisions
  BY <1>5 DEF BeginTransition
<1>6. ASSUME NEW e \in Editors,
             \/ UpdateDocumentState(e) \/ ReadDraft(e) \/ NextRevisionNo(e) \/ Crash(e)
             \/ Promote(e) /\ editor[e].no \in DOMAIN revisions
      PROVE  UNCHANGED revisions
  BY <1>6 DEF UpdateDocumentState, ReadDraft, NextRevisionNo, Crash, Promote
<1>7. CASE Tick \/ UNCHANGED vars
  BY <1>4, <1>7 DEF Tick, vars
<1> QED BY <1>2, <1>3, <1>4, <1>5, <1>6, <1>7 DEF Next, States, RestoreRevision

\* "A checkpoint is immutable", whoever publishes, saves, restores and prunes at once.
THEOREM CheckpointsNeverChange == Spec => CheckpointsImmutable
BY CheckpointsStep, Invariant, PTL DEF Spec, CheckpointsImmutable

-----------------------------------------------------------------------------
\* Time hides nothing that visitors could see.
LEMMA StaysVisible ==
  ASSUME IInv, now' = now + 1, doc' = doc, revisions' = revisions, PublicBlocks # {}
  PROVE  PublicBlocks' = PublicBlocks
<1>1. now \in Int /\ doc.publishAt \in Int
  BY DEF IInv, TypeOK
<1>2. IsPubliclyVisible(doc, now) /\ doc.published # Unset
  BY DEF PublicBlocks
<1>3. IsPubliclyVisible(doc, now)'
  BY <1>1, <1>2 DEF IsPubliclyVisible, EffectiveState
<1> QED BY <1>2, <1>3 DEF PublicBlocks

LEMMA EditsStep ==
  ASSUME IInv, [Next]_vars
  PROVE  PublicBlocks' # PublicBlocks /\ doc' = doc => now' # now /\ PublicBlocks = {}
<1> SUFFICES ASSUME PublicBlocks' # PublicBlocks, doc' = doc
             PROVE  now' # now /\ PublicBlocks = {}
  OBVIOUS
<1>1. ASSUME NEW data, PutBlocks(data)
      PROVE  PublicBlocks' = PublicBlocks
  <2>1. doc.published # Unset => revisions'[doc.published] = revisions[doc.published]
    BY <1>1 DEF PutBlocks, IInv, PointerOnTrack, Checkpoints
  <2>2. UNCHANGED <<doc, now>>
    BY <1>1 DEF PutBlocks
  <2> QED BY <2>1, <2>2 DEF PublicBlocks, IsPubliclyVisible, EffectiveState
<1>2. ASSUME UNCHANGED <<revisions, now>>
      PROVE  PublicBlocks' = PublicBlocks
  BY <1>2 DEF PublicBlocks, IsPubliclyVisible, EffectiveState
<1>3. ASSUME NEW e \in Editors, NEW next \in States, NEW at \in 0 .. MaxTime,
             BeginTransition(e, next, at)
      PROVE  UNCHANGED <<revisions, now>>
  BY <1>3 DEF BeginTransition
<1>4. ASSUME NEW e \in Editors,
             \/ UpdateDocumentState(e) \/ ReadDraft(e) \/ NextRevisionNo(e) \/ Crash(e)
             \/ Promote(e) /\ editor[e].no \in DOMAIN revisions
      PROVE  UNCHANGED <<revisions, now>>
  BY <1>4 DEF UpdateDocumentState, ReadDraft, NextRevisionNo, Crash, Promote
<1>5. ASSUME NEW e \in Editors, Promote(e), editor[e].no \notin DOMAIN revisions
      PROVE  FALSE
  <2>1. doc'.published = editor[e].no
    BY <1>5 DEF Promote, Written, IInv, TypeOK
  <2>2. editor[e].no # Unset
    BY <1>5 DEF Promote, IInv, CallsOnTrack, Draft, Unset
  <2> QED BY <1>5, <2>1, <2>2 DEF IInv, PointerOnTrack, Checkpoints
<1>6. CASE Tick
  <2>1. now' # now
    BY <1>6 DEF Tick, IInv, TypeOK
  <2> QED BY <1>6, <2>1, StaysVisible DEF Tick
<1>7. CASE UNCHANGED vars
  BY <1>2, <1>7 DEF vars
<1> QED BY <1>1, <1>2, <1>3, <1>4, <1>5, <1>6, <1>7 DEF Next, States, RestoreRevision

\* What visitors read changes only with a transition, or when a date is reached.
THEOREM EditsArePrivate == Spec => EditsStayPrivate
BY EditsStep, Invariant, PTL DEF Spec, EditsStayPrivate
=============================================================================
