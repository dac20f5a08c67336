----------------------------- MODULE TrustProofs -----------------------------
(***************************************************************************)
(* For any number of moderators, guarantors and rows: what the ledger of   *)
(* actions says of reports and reversals is so, and a revocation that      *)
(* succeeds has reported every vouch there was.                            *)
(***************************************************************************)
EXTENDS Vouching, SequenceTheorems, TLAPS

ReportRow == [target : Targets, status : {"OPEN", "ACTIONED"}]
ActionRow == [actor : Moderators, report : Nat, target : Targets, reverses : Nat]
AppealRow == [action : Nat, status : {"OPEN", "DECIDED"}]
CallRow   == [step : {"idle", "act", "mark", "reverse"}, row : Nat]

LedgerOK ==
  /\ reports \in Seq(ReportRow) /\ actions \in Seq(ActionRow) /\ appeals \in Seq(AppealRow)
  /\ \A j \in 1 .. Len(actions) : actions[j].report <= Len(reports) /\ actions[j].reverses <= Len(actions)
  /\ \A k \in 1 .. Len(appeals) : appeals[k].action \in 1 .. Len(actions)
  /\ expired \in 0 .. Len(actions)

HasAction(i, ledger, target) ==
  \E j \in 1 .. Len(ledger) : ledger[j].report = i /\ ledger[j].target = target

\* What a moderator's call has established by its first reads, and rests on until it
\* returns.  Whether someone else reverses the action meanwhile is not part of it.
CallRight(call, files, ledger) ==
  /\ call.step = "idle" => call.row = 0
  /\ call.step \in {"act", "mark"} => call.row \in 1 .. Len(files)
  /\ call.step = "mark" => HasAction(call.row, ledger, files[call.row].target)
  /\ call.step = "reverse" => call.row \in 1 .. Len(ledger) /\ ledger[call.row].reverses = 0

CallsOK ==
  /\ mod \in [Moderators -> CallRow]
  /\ \A m \in Moderators : CallRight(mod[m], reports, actions)

ModerationInv == LedgerOK /\ CallsOK /\ ActionedHasAction /\ ReversedOnce

-----------------------------------------------------------------------------
LEMMA SeqOf ==
  ASSUME NEW S, NEW T, NEW s \in Seq(S), \A i \in 1 .. Len(s) : s[i] \in T
  PROVE  s \in Seq(T)
<1>1. s \in [1 .. Len(s) -> T] /\ Len(s) \in Nat
  BY LenProperties
<1> QED BY <1>1, IsASeq

LEMMA Appended ==
  ASSUME NEW S, NEW s \in Seq(S), NEW e \in S
  PROVE  /\ Append(s, e) \in Seq(S) /\ Len(Append(s, e)) = Len(s) + 1
         /\ \A i \in 1 .. Len(s) : Append(s, e)[i] = s[i]
         /\ Append(s, e)[Len(s) + 1] = e
BY AppendProperties, LenProperties

LEMMA LedgerImpliesTypeOK == LedgerOK /\ CallsOK => ModerationTypeOK
<1> SUFFICES ASSUME LedgerOK, CallsOK
             PROVE  ModerationTypeOK
  OBVIOUS
<1>1. /\ Len(reports) \in Nat /\ Len(actions) \in Nat
      /\ DOMAIN reports = 1 .. Len(reports) /\ DOMAIN actions = 1 .. Len(actions)
      /\ DOMAIN appeals = 1 .. Len(appeals)
  BY LenProperties DEF LedgerOK
<1>2. actions \in Seq([actor : Moderators, report : 0 .. Len(reports),
                       target : Targets, reverses : 0 .. Len(actions)])
  <2>1. ASSUME NEW j \in 1 .. Len(actions)
        PROVE  actions[j] \in [actor : Moderators, report : 0 .. Len(reports),
                               target : Targets, reverses : 0 .. Len(actions)]
    <3>1. actions[j] \in ActionRow
      BY ElementOfSeq DEF LedgerOK
    <3> QED BY <1>1, <3>1 DEF LedgerOK, ActionRow
  <2> QED BY <2>1, SeqOf DEF LedgerOK
<1>3. appeals \in Seq([action : DOMAIN actions, status : {"OPEN", "DECIDED"}])
  <2>1. ASSUME NEW k \in 1 .. Len(appeals)
        PROVE  appeals[k] \in [action : DOMAIN actions, status : {"OPEN", "DECIDED"}]
    <3>1. appeals[k] \in AppealRow
      BY ElementOfSeq DEF LedgerOK
    <3> QED BY <1>1, <3>1 DEF LedgerOK, AppealRow
  <2> QED BY <2>1, SeqOf DEF LedgerOK
<1>4. mod \in [Moderators -> {NoMod} \union [step : {"act", "mark"}, row : DOMAIN reports]
                                     \union [step : {"reverse"}, row : DOMAIN actions]]
  <2>1. ASSUME NEW m \in Moderators
        PROVE  mod[m] \in {NoMod} \union [step : {"act", "mark"}, row : DOMAIN reports]
                                  \union [step : {"reverse"}, row : DOMAIN actions]
    <3>1. mod[m] \in CallRow /\ CallRight(mod[m], reports, actions)
      BY DEF CallsOK
    <3> QED BY <1>1, <3>1 DEF CallRow, CallRight, NoMod
  <2> QED BY <2>1 DEF CallsOK
<1> QED BY <1>2, <1>3, <1>4 DEF LedgerOK, ReportRow, ModerationTypeOK

LEMMA ModerationInitInv == ModerationInit => ModerationInv
BY EmptySeq DEF ModerationInit, ModerationInv, LedgerOK, CallsOK, CallRow, CallRight, ActionedHasAction, ReversedOnce, NoMod

-----------------------------------------------------------------------------
\* Reports keep their targets, actions stay as they are.
LedgerGrows ==
  /\ Len(reports) <= Len(reports') /\ Len(actions) <= Len(actions')
  /\ \A i \in 1 .. Len(reports) : reports'[i].target = reports[i].target
  /\ \A j \in 1 .. Len(actions) : actions'[j] = actions[j]

LEMMA CallStaysRight ==
  ASSUME LedgerOK, LedgerOK', LedgerGrows, NEW call \in CallRow, CallRight(call, reports, actions)
  PROVE  CallRight(call, reports', actions')
<1>1. /\ Len(reports) \in Nat /\ Len(actions) \in Nat /\ Len(reports') \in Nat /\ Len(actions') \in Nat
  BY LenProperties DEF LedgerOK
<1>2. ASSUME call.step = "mark"
      PROVE  HasAction(call.row, actions', reports'[call.row].target)
  <2>1. PICK j \in 1 .. Len(actions) : actions[j].report = call.row /\ actions[j].target = reports[call.row].target
    BY <1>2 DEF CallRight, HasAction
  <2>2. call.row \in 1 .. Len(reports)
    BY <1>2 DEF CallRight
  <2>3. /\ j \in 1 .. Len(actions')
        /\ actions'[j].report = call.row /\ actions'[j].target = reports'[call.row].target
    BY <1>1, <2>1, <2>2 DEF LedgerGrows
  <2> QED BY <2>3 DEF HasAction
<1> QED BY <1>1, <1>2 DEF CallRight, CallRow, LedgerGrows

LEMMA OneCallMoves ==
  ASSUME LedgerOK, CallsOK, LedgerOK', LedgerGrows,
         NEW m \in Moderators, NEW call \in CallRow, mod' = [mod EXCEPT ![m] = call],
         CallRight(call, reports', actions')
  PROVE  CallsOK'
<1>1. ASSUME NEW n \in Moderators
      PROVE  CallRight(mod'[n], reports', actions')
  <2>1. CASE n = m
    BY <2>1 DEF CallsOK
  <2>2. CASE n # m
    <3>1. mod'[n] = mod[n] /\ mod[n] \in CallRow /\ CallRight(mod[n], reports, actions)
      BY <2>2 DEF CallsOK
    <3> QED BY <3>1, CallStaysRight
  <2> QED BY <2>1, <2>2
<1> QED BY <1>1 DEF CallsOK

LEMMA NoCallMoves ==
  ASSUME LedgerOK, CallsOK, LedgerOK', LedgerGrows, mod' = mod
  PROVE  CallsOK'
BY CallStaysRight DEF CallsOK

-----------------------------------------------------------------------------
\* FileReport, by anyone.
LEMMA FilingKeepsInv ==
  ASSUME ModerationInv, NEW target \in Targets, FileReport(target), UNCHANGED <<actions, appeals, expired, mod>>
  PROVE  ModerationInv' /\ LedgerGrows /\ \E i \in 1 .. Len(reports') : reports'[i].target = target
<1> DEFINE new == [target |-> target, status |-> "OPEN"]
<1>1. new \in ReportRow /\ reports \in Seq(ReportRow) /\ reports' = Append(reports, new)
  BY DEF ModerationInv, LedgerOK, ReportRow, FileReport
<1>2. /\ reports' \in Seq(ReportRow) /\ Len(reports') = Len(reports) + 1
      /\ \A i \in 1 .. Len(reports) : reports'[i] = reports[i]
      /\ reports'[Len(reports) + 1] = new
  BY <1>1, Appended
<1>3. Len(reports) \in Nat /\ Len(actions) \in Nat /\ DOMAIN reports = 1 .. Len(reports) /\ DOMAIN reports' = 1 .. Len(reports')
  BY <1>1, <1>2, LenProperties DEF ModerationInv, LedgerOK
<1>4. LedgerGrows
  BY <1>2, <1>3 DEF LedgerGrows
<1>5. LedgerOK'
  <2>1. \A j \in 1 .. Len(actions) : actions[j].report \in 0 .. Len(reports)
    <3>1. \A j \in 1 .. Len(actions) : actions[j] \in ActionRow
      BY ElementOfSeq DEF ModerationInv, LedgerOK
    <3> QED BY <1>3, <3>1 DEF ModerationInv, LedgerOK, ActionRow
  <2>2. \A j \in 1 .. Len(actions) : actions[j].report <= Len(reports')
    BY <1>2, <1>3, <2>1
  <2> QED BY <1>2, <2>2 DEF ModerationInv, LedgerOK
<1>6. CallsOK'
  BY <1>4, <1>5, NoCallMoves DEF ModerationInv
<1>7. ActionedHasAction'
  BY <1>2, <1>3 DEF ModerationInv, ActionedHasAction
<1>8. ReversedOnce'
  BY DEF ModerationInv, ReversedOnce
<1> QED BY <1>2, <1>3, <1>4, <1>5, <1>6, <1>7, <1>8 DEF ModerationInv

\* InsertAction, of an action that reverses nothing, or one that nothing has reversed.
LEMMA InsertKeepsLedger ==
  ASSUME ModerationInv, NEW m \in Moderators, NEW report \in 0 .. Len(reports), NEW target \in Targets,
         NEW reverses \in 0 .. Len(actions), InsertAction(m, report, target, reverses),
         reverses # 0 => ~Reversed(reverses) /\ actions[reverses].reverses = 0,
         UNCHANGED <<reports, appeals, expired>>
  PROVE  /\ LedgerOK' /\ LedgerGrows /\ ActionedHasAction' /\ ReversedOnce'
         /\ HasAction(report, actions', target)
<1> DEFINE new == [actor |-> m, report |-> report, target |-> target, reverses |-> reverses]
<1>1. actions \in Seq(ActionRow) /\ Len(reports) \in Nat /\ Len(actions) \in Nat
  BY LenProperties DEF ModerationInv, LedgerOK
<1>2. new \in ActionRow /\ actions' = Append(actions, new)
  BY <1>1 DEF ActionRow, InsertAction
<1>3. /\ actions' \in Seq(ActionRow) /\ Len(actions') = Len(actions) + 1
      /\ \A j \in 1 .. Len(actions) : actions'[j] = actions[j]
      /\ actions'[Len(actions) + 1] = new
  BY <1>1, <1>2, Appended
<1>4. DOMAIN actions = 1 .. Len(actions) /\ DOMAIN actions' = 1 .. Len(actions')
  BY <1>1, <1>3, LenProperties
<1>5. LedgerGrows
  BY <1>1, <1>3 DEF LedgerGrows
<1>6. \A j \in 1 .. Len(actions) : actions[j] \in ActionRow
  BY <1>1, ElementOfSeq
<1>7. LedgerOK'
  <2>1. \A j \in 1 .. Len(actions') : actions'[j].report <= Len(reports') /\ actions'[j].reverses <= Len(actions')
    <3> SUFFICES ASSUME NEW j \in 1 .. Len(actions')
                 PROVE  actions'[j].report <= Len(reports) /\ actions'[j].reverses <= Len(actions')
      OBVIOUS
    <3>1. CASE j = Len(actions) + 1
      BY <1>1, <1>3, <3>1
    <3>2. CASE j # Len(actions) + 1
      <4>1. j \in 1 .. Len(actions) /\ actions'[j] = actions[j]
        BY <1>1, <1>3, <3>2
      <4>2. /\ actions[j].report <= Len(reports)
            /\ actions[j].reverses \in Nat /\ actions[j].reverses <= Len(actions)
        BY <1>6, <4>1 DEF ModerationInv, LedgerOK, ActionRow
      <4> QED BY <1>1, <1>3, <4>1, <4>2
    <3> QED BY <3>1, <3>2
  <2>2. \A k \in 1 .. Len(appeals') : appeals'[k].action \in 1 .. Len(actions')
    BY <1>1, <1>3 DEF ModerationInv, LedgerOK
  <2> QED BY <1>1, <1>3, <2>1, <2>2 DEF ModerationInv, LedgerOK
<1>8. ActionedHasAction'
  BY <1>1, <1>3, <1>4 DEF ModerationInv, ActionedHasAction
<1>9. ReversedOnce'
  <2> SUFFICES ASSUME NEW k \in 1 .. Len(actions'), NEW l \in 1 .. Len(actions'), actions'[k].reverses # 0
               PROVE  /\ actions'[actions'[k].reverses].reverses = 0
                      /\ actions'[l].reverses = actions'[k].reverses => k = l
    BY <1>4 DEF ReversedOnce
  <2>1. \A j \in 1 .. Len(actions) : actions[j].reverses \in 0 .. Len(actions)
    BY <1>1, <1>6 DEF ModerationInv, LedgerOK, ActionRow
  <2>2. actions'[Len(actions) + 1].reverses = reverses
    BY <1>3
  <2>3. \A j, i \in 1 .. Len(actions) : actions[j].reverses # 0 =>
          actions[actions[j].reverses].reverses = 0 /\ (actions[i].reverses = actions[j].reverses => j = i)
    BY <1>4 DEF ModerationInv, ReversedOnce
  <2>4. reverses # 0 => /\ actions[reverses].reverses = 0
                        /\ \A j \in 1 .. Len(actions) : actions[j].reverses # reverses
    BY <1>4 DEF Reversed
  <2>5. CASE k = Len(actions) + 1
    BY <1>1, <1>3, <2>2, <2>4, <2>5
  <2>6. CASE k # Len(actions) + 1
    <3>1. k \in 1 .. Len(actions) /\ actions'[k] = actions[k]
      BY <1>1, <1>3, <2>6
    <3>2. actions'[actions'[k].reverses].reverses = 0
      BY <1>3, <2>1, <2>3, <3>1
    <3>3. CASE l = Len(actions) + 1
      BY <2>2, <2>4, <3>1, <3>2, <3>3
    <3>4. CASE l # Len(actions) + 1
      BY <1>1, <1>3, <2>3, <3>1, <3>2, <3>4
    <3> QED BY <3>3, <3>4
  <2> QED BY <2>5, <2>6
<1>10. HasAction(report, actions', target)
  BY <1>1, <1>3 DEF HasAction
<1> QED BY <1>5, <1>7, <1>8, <1>9, <1>10

-----------------------------------------------------------------------------
(***************************************************************************)
(* The moderators' steps.                                                  *)
(***************************************************************************)
LEMMA Unmoved ==
  ASSUME UNCHANGED <<reports, actions>>
  PROVE  LedgerGrows /\ (ActionedHasAction => ActionedHasAction') /\ (ReversedOnce => ReversedOnce')
<1>1. Len(reports) <= Len(reports') /\ Len(actions) <= Len(actions')
  OBVIOUS
<1> QED BY <1>1 DEF LedgerGrows, ActionedHasAction, ReversedOnce

LEMMA CallsKeepInv ==
  ASSUME ModerationInv, NEW m \in Moderators,
         \/ \E i \in DOMAIN reports : GetReport(m, i)
         \/ \E j \in DOMAIN actions : CanReverse(m, j)
         \/ Crash(m)
  PROVE  ModerationInv' /\ LedgerGrows
<1>1. UNCHANGED <<reports, actions, appeals, expired>>
  BY DEF GetReport, CanReverse, Crash
<1>2. LedgerGrows /\ LedgerOK' /\ ActionedHasAction' /\ ReversedOnce'
  BY <1>1, Unmoved DEF ModerationInv, LedgerOK
<1>3. PICK call \in CallRow : mod' = [mod EXCEPT ![m] = call] /\ CallRight(call, reports, actions)
  <2>1. ASSUME NEW i \in DOMAIN reports, GetReport(m, i)
        PROVE  [step |-> "act", row |-> i] \in CallRow /\ CallRight([step |-> "act", row |-> i], reports, actions)
    BY LenProperties DEF ModerationInv, LedgerOK, CallRow, CallRight
  <2>2. ASSUME NEW j \in DOMAIN actions, CanReverse(m, j)
        PROVE  /\ [step |-> "reverse", row |-> j] \in CallRow
               /\ CallRight([step |-> "reverse", row |-> j], reports, actions)
    BY <2>2, LenProperties DEF ModerationInv, LedgerOK, CallRow, CallRight, CanReverse
  <2>3. NoMod \in CallRow /\ CallRight(NoMod, reports, actions)
    BY DEF NoMod, CallRow, CallRight
  <2> QED BY <2>1, <2>2, <2>3 DEF GetReport, CanReverse, Crash, Call, Return
<1>4. CallsOK'
  BY <1>1, <1>2, <1>3, OneCallMoves DEF ModerationInv
<1> QED BY <1>2, <1>4 DEF ModerationInv

LEMMA ActingKeepsInv ==
  ASSUME ModerationInv, NEW m \in Moderators, ActOnReport(m)
  PROVE  ModerationInv' /\ LedgerGrows
<1> DEFINE i == mod[m].row
           call == [step |-> "mark", row |-> i]
<1>1. /\ mod[m].step = "act" /\ mod' = [mod EXCEPT ![m] = call]
      /\ InsertAction(m, i, reports[i].target, 0) /\ UNCHANGED <<reports, appeals, expired>>
  BY DEF ActOnReport, At, Call
<1>2. i \in 1 .. Len(reports) /\ i \in 0 .. Len(reports)
  BY <1>1, LenProperties DEF ModerationInv, LedgerOK, CallsOK, CallRight
<1>3. reports[i].target \in Targets
  <2>1. reports[i] \in ReportRow
    BY <1>2, ElementOfSeq DEF ModerationInv, LedgerOK
  <2> QED BY <2>1 DEF ReportRow
<1>4. 0 \in 0 .. Len(actions)
  BY LenProperties DEF ModerationInv, LedgerOK
<1>5. LedgerOK' /\ LedgerGrows /\ ActionedHasAction' /\ ReversedOnce' /\ HasAction(i, actions', reports[i].target)
  <2> DEFINE target == reports[i].target
  <2>1. target \in Targets /\ InsertAction(m, i, target, 0) /\ i \in 0 .. Len(reports)
    BY <1>1, <1>2, <1>3
  <2> HIDE DEF i, target
  <2> QED BY <1>1, <1>4, <2>1, InsertKeepsLedger DEF target
<1>6. call \in CallRow
  BY <1>2 DEF CallRow
<1>7. CallRight(call, reports', actions')
  BY <1>1, <1>2, <1>5 DEF CallRight
<1>8. CallsOK'
  BY <1>1, <1>5, <1>6, <1>7, OneCallMoves DEF ModerationInv
<1> QED BY <1>5, <1>8 DEF ModerationInv

LEMMA TakingKeepsInv ==
  ASSUME ModerationInv, NEW m \in Moderators, TakeAction(m)
  PROVE  ModerationInv' /\ LedgerGrows
<1>1. InsertAction(m, 0, Congregation, 0) /\ UNCHANGED <<reports, appeals, expired, mod>>
  BY DEF TakeAction
<1>2. 0 \in 0 .. Len(reports) /\ 0 \in 0 .. Len(actions) /\ Congregation \in Targets
  BY LenProperties, ModerationAssumption DEF ModerationInv, LedgerOK
<1>3. LedgerOK' /\ LedgerGrows /\ ActionedHasAction' /\ ReversedOnce'
  BY <1>1, <1>2, InsertKeepsLedger
<1> QED BY <1>1, <1>3, NoCallMoves DEF ModerationInv

LEMMA ReversingKeepsInv ==
  ASSUME ModerationInv, NEW m \in Moderators, ReverseAction(m)
  PROVE  ModerationInv' /\ LedgerGrows
<1> DEFINE j == mod[m].row
<1>1. /\ mod[m].step = "reverse" /\ mod' = [mod EXCEPT ![m] = NoMod]
      /\ UNCHANGED <<reports, appeals, expired>>
  BY DEF ReverseAction, At, Return
<1>2. j \in 1 .. Len(actions) /\ actions[j].reverses = 0 /\ j \in 0 .. Len(actions)
  BY <1>1, LenProperties DEF ModerationInv, LedgerOK, CallsOK, CallRight
<1>3. LedgerOK' /\ LedgerGrows /\ ActionedHasAction' /\ ReversedOnce'
  <2>1. CASE UNCHANGED actions
    BY <1>1, <2>1, Unmoved DEF ModerationInv, LedgerOK
  <2>2. CASE ~Reversed(j) /\ InsertAction(m, 0, actions[j].target, j)
    <3> DEFINE target == actions[j].target
    <3>1. target \in Targets
      <4>1. actions[j] \in ActionRow
        BY <1>2, ElementOfSeq DEF ModerationInv, LedgerOK
      <4> QED BY <4>1 DEF ActionRow
    <3>2. 0 \in 0 .. Len(reports)
      BY LenProperties DEF ModerationInv, LedgerOK
    <3>3. InsertAction(m, 0, target, j)
      BY <2>2
    <3> HIDE DEF j, target
    <3> QED BY <1>1, <1>2, <2>2, <3>1, <3>2, <3>3, InsertKeepsLedger
  <2> QED BY <2>1, <2>2 DEF ReverseAction
<1>4. NoMod \in CallRow /\ CallRight(NoMod, reports', actions')
  BY DEF NoMod, CallRow, CallRight
<1> QED BY <1>1, <1>3, <1>4, OneCallMoves DEF ModerationInv

LEMMA MarkingKeepsInv ==
  ASSUME ModerationInv, NEW m \in Moderators, MarkReportStatus(m)
  PROVE  ModerationInv' /\ LedgerGrows
<1> DEFINE i == mod[m].row
           row == [reports[i] EXCEPT !.status = "ACTIONED"]
<1>1. /\ mod[m].step = "mark" /\ mod' = [mod EXCEPT ![m] = NoMod]
      /\ reports' = [reports EXCEPT ![i] = row]
      /\ UNCHANGED <<actions, appeals, expired>>
  BY DEF MarkReportStatus, At, Return
<1>2. i \in 1 .. Len(reports) /\ HasAction(i, actions, reports[i].target)
  BY <1>1 DEF ModerationInv, CallsOK, CallRight
<1>3. row \in ReportRow /\ row.target = reports[i].target
  <2>1. reports[i] \in ReportRow
    BY <1>2, ElementOfSeq DEF ModerationInv, LedgerOK
  <2> QED BY <2>1 DEF ReportRow
<1> HIDE DEF row
<1>4. /\ reports' \in Seq(ReportRow) /\ Len(reports') = Len(reports)
      /\ reports'[i] = row /\ \A k \in 1 .. Len(reports) : k # i => reports'[k] = reports[k]
  <2>1. reports \in Seq(ReportRow)
    BY DEF ModerationInv, LedgerOK
  <2> HIDE DEF i
  <2> QED BY <1>1, <1>2, <1>3, <2>1, ExceptSeq
<1>5. /\ Len(reports) \in Nat /\ Len(actions) \in Nat
      /\ DOMAIN reports = 1 .. Len(reports) /\ DOMAIN reports' = 1 .. Len(reports)
      /\ DOMAIN actions = 1 .. Len(actions)
  BY <1>4, LenProperties DEF ModerationInv, LedgerOK
<1>6. \A k \in 1 .. Len(reports) : reports'[k].target = reports[k].target
  BY <1>3, <1>4
<1>7. LedgerGrows
  BY <1>1, <1>4, <1>5, <1>6 DEF LedgerGrows
<1>8. LedgerOK'
  BY <1>1, <1>4 DEF ModerationInv, LedgerOK
<1>9. NoMod \in CallRow /\ CallRight(NoMod, reports', actions')
  BY DEF NoMod, CallRow, CallRight
<1>10. CallsOK'
  BY <1>1, <1>7, <1>8, <1>9, OneCallMoves DEF ModerationInv
<1>11. ActionedHasAction'
  <2> SUFFICES ASSUME NEW k \in 1 .. Len(reports), reports'[k].status = "ACTIONED"
               PROVE  \E j \in DOMAIN actions : actions[j].report = k /\ actions[j].target = reports'[k].target
    BY <1>1, <1>5 DEF ActionedHasAction
  <2>1. CASE k = i
    BY <1>2, <1>5, <1>6, <2>1 DEF HasAction
  <2>2. CASE k # i
    BY <1>4, <1>5, <2>2 DEF ModerationInv, ActionedHasAction
  <2> QED BY <2>1, <2>2
<1>12. ReversedOnce'
  BY <1>1 DEF ModerationInv, ReversedOnce
<1> QED BY <1>7, <1>8, <1>10, <1>11, <1>12 DEF ModerationInv

LEMMA AppealsKeepInv ==
  ASSUME ModerationInv,
         \/ GraceWindowEnds
         \/ \E j \in DOMAIN actions : FileAppeal(j)
         \/ \E m \in Moderators, k \in DOMAIN appeals : DecideAppeal(m, k)
  PROVE  ModerationInv' /\ LedgerGrows
<1>1. UNCHANGED <<reports, actions, mod>>
  BY DEF GraceWindowEnds, FileAppeal, DecideAppeal
<1>2. LedgerGrows /\ ActionedHasAction' /\ ReversedOnce'
  BY <1>1, Unmoved DEF ModerationInv
<1>3. expired' \in 0 .. Len(actions)
  <2>1. expired \in 0 .. Len(actions) /\ Len(actions) \in Nat
    BY LenProperties DEF ModerationInv, LedgerOK
  <2>2. expired' = expired \/ (expired < Len(actions) /\ expired' = expired + 1)
    BY DEF GraceWindowEnds, FileAppeal, DecideAppeal
  <2> QED BY <2>1, <2>2
<1>4. appeals' \in Seq(AppealRow) /\ \A k \in 1 .. Len(appeals') : appeals'[k].action \in 1 .. Len(actions)
  <2>1. appeals \in Seq(AppealRow) /\ \A k \in 1 .. Len(appeals) : appeals[k].action \in 1 .. Len(actions)
    BY DEF ModerationInv, LedgerOK
  <2>2. Len(appeals) \in Nat /\ DOMAIN appeals = 1 .. Len(appeals)
    BY <2>1, LenProperties
  <2>3. CASE GraceWindowEnds
    BY <2>1, <2>3 DEF GraceWindowEnds
  <2>4. ASSUME NEW j \in DOMAIN actions, FileAppeal(j)
        PROVE  appeals' \in Seq(AppealRow) /\ \A k \in 1 .. Len(appeals') : appeals'[k].action \in 1 .. Len(actions)
    <3> DEFINE new == [action |-> j, status |-> "OPEN"]
    <3>1. j \in 1 .. Len(actions) /\ new \in AppealRow /\ appeals' = Append(appeals, new)
      BY <2>4, LenProperties DEF ModerationInv, LedgerOK, AppealRow, FileAppeal
    <3>2. /\ appeals' \in Seq(AppealRow) /\ Len(appeals') = Len(appeals) + 1
          /\ \A i \in 1 .. Len(appeals) : appeals'[i] = appeals[i]
          /\ appeals'[Len(appeals) + 1] = new
      <4> HIDE DEF new
      <4> QED BY <2>1, <3>1, Appended
    <3> QED BY <2>1, <2>2, <3>1, <3>2
  <2>5. ASSUME NEW m \in Moderators, NEW k \in DOMAIN appeals, DecideAppeal(m, k)
        PROVE  appeals' \in Seq(AppealRow) /\ \A i \in 1 .. Len(appeals') : appeals'[i].action \in 1 .. Len(actions)
    <3> DEFINE row == [appeals[k] EXCEPT !.status = "DECIDED"]
    <3>1. k \in 1 .. Len(appeals) /\ appeals[k] \in AppealRow /\ appeals' = [appeals EXCEPT ![k] = row]
      BY <2>1, <2>2, <2>5, ElementOfSeq DEF DecideAppeal
    <3>2. row \in AppealRow /\ row.action = appeals[k].action
      BY <3>1 DEF AppealRow
    <3> HIDE DEF row
    <3>3. /\ appeals' \in Seq(AppealRow) /\ Len(appeals') = Len(appeals)
          /\ appeals'[k] = row /\ \A i \in 1 .. Len(appeals) : i # k => appeals'[i] = appeals[i]
      BY <2>1, <3>1, <3>2, ExceptSeq
    <3> QED BY <2>1, <3>1, <3>2, <3>3
  <2> QED BY <2>3, <2>4, <2>5
<1>5. LedgerOK'
  BY <1>1, <1>3, <1>4 DEF ModerationInv, LedgerOK
<1>6. CallsOK'
  BY <1>1, <1>2, <1>5, NoCallMoves DEF ModerationInv
<1> QED BY <1>2, <1>5, <1>6 DEF ModerationInv

LEMMA ModerationKeepsInv ==
  ASSUME ModerationInv, ModerationNext
  PROVE  ModerationInv' /\ LedgerGrows
<1>1. ASSUME NEW target \in Targets, AnyoneReports(target)
      PROVE  ModerationInv' /\ LedgerGrows
  BY <1>1, FilingKeepsInv DEF AnyoneReports
<1> QED BY <1>1, CallsKeepInv, ActingKeepsInv, TakingKeepsInv, ReversingKeepsInv, MarkingKeepsInv, AppealsKeepInv
        DEF ModerationNext

-----------------------------------------------------------------------------
(***************************************************************************)
(* Vouches and revocations.                                                *)
(***************************************************************************)
FanoutRow ==
  [guarantor : Guarantors, step : {"list", "report"}, todo : SUBSET Nat, prior : SUBSET Nat, failed : BOOLEAN]

\* What a revocation has before it: its guarantor's vouches, and no prior one
\* left out but those it has reported, until a report fails.
FanoutRight(fan, gone, book, files) ==
  fan = NoFanout \/
    /\ fan \in FanoutRow /\ fan.guarantor \in gone
    /\ \A v \in fan.todo \union fan.prior : v \in 1 .. Len(book) /\ book[v] = fan.guarantor
    /\ fan.step = "report" /\ ~fan.failed =>
         \A v \in fan.prior \ fan.todo : \E i \in 1 .. Len(files) : files[i].target = v

TrustInv ==
  /\ vouches \in Seq(Guarantors) /\ Len(vouches) <= MaxVouches
  /\ revoked \subseteq Guarantors /\ vouching \subseteq Guarantors
  /\ \A r \in Revokers : FanoutRight(fanout[r], revoked, vouches, reports)
  /\ fanout \in [Revokers -> {NoFanout} \union FanoutRow]

IInv == ModerationInv /\ TrustInv

LEMMA VouchesOfGuarantor ==
  ASSUME TrustInv
  PROVE  \A g : \A v : v \in VouchesOf(g) <=> v \in 1 .. Len(vouches) /\ vouches[v] = g
BY LenProperties DEF TrustInv, VouchesOf

\* Vouches and revocations are never taken back.
TrustGrows ==
  /\ revoked \subseteq revoked' /\ Len(vouches) <= Len(vouches')
  /\ \A v \in 1 .. Len(vouches) : vouches'[v] = vouches[v]

LEMMA FanoutStaysRight ==
  ASSUME IInv, Len(reports') \in Nat, Len(vouches') \in Nat, LedgerGrows, TrustGrows,
         NEW fan, FanoutRight(fan, revoked, vouches, reports)
  PROVE  FanoutRight(fan, revoked', vouches', reports')
<1> SUFFICES ASSUME fan # NoFanout
             PROVE  FanoutRight(fan, revoked', vouches', reports')
  BY DEF FanoutRight
<1>1. Len(reports) \in Nat /\ Len(vouches) \in Nat
  BY LenProperties DEF IInv, ModerationInv, LedgerOK, TrustInv
<1>2. /\ fan \in FanoutRow /\ fan.guarantor \in revoked'
      /\ \A v \in fan.todo \union fan.prior : v \in 1 .. Len(vouches') /\ vouches'[v] = fan.guarantor
  BY <1>1 DEF FanoutRight, TrustGrows
<1>3. ASSUME fan.step = "report", ~fan.failed, NEW v \in fan.prior \ fan.todo
      PROVE  \E i \in 1 .. Len(reports') : reports'[i].target = v
  <2>1. PICK i \in 1 .. Len(reports) : reports[i].target = v
    BY <1>3 DEF FanoutRight
  <2>2. i \in 1 .. Len(reports') /\ reports'[i].target = v
    BY <1>1, <2>1 DEF LedgerGrows
  <2> QED BY <2>2
<1> QED BY <1>2, <1>3 DEF FanoutRight

LEMMA OneFanoutMoves ==
  ASSUME IInv, Len(reports') \in Nat, Len(vouches') \in Nat, LedgerGrows, TrustGrows,
         NEW r \in Revokers, NEW fan, fanout' = [fanout EXCEPT ![r] = fan],
         FanoutRight(fan, revoked', vouches', reports')
  PROVE  /\ \A q \in Revokers : FanoutRight(fanout'[q], revoked', vouches', reports')
         /\ fanout' \in [Revokers -> {NoFanout} \union FanoutRow]
<1>1. fan \in {NoFanout} \union FanoutRow
  BY DEF FanoutRight
<1>2. fanout' \in [Revokers -> {NoFanout} \union FanoutRow] /\ fanout'[r] = fan
  BY <1>1 DEF IInv, TrustInv
<1>3. ASSUME NEW q \in Revokers, q # r
      PROVE  FanoutRight(fanout'[q], revoked', vouches', reports')
  <2>1. fanout'[q] = fanout[q] /\ FanoutRight(fanout[q], revoked, vouches, reports)
    BY <1>3 DEF IInv, TrustInv
  <2> QED BY <2>1, FanoutStaysRight
<1> QED BY <1>2, <1>3

LEMMA NoFanoutMoves ==
  ASSUME IInv, Len(reports') \in Nat, Len(vouches') \in Nat, LedgerGrows, TrustGrows, fanout' = fanout
  PROVE  /\ \A q \in Revokers : FanoutRight(fanout'[q], revoked', vouches', reports')
         /\ fanout' \in [Revokers -> {NoFanout} \union FanoutRow]
BY FanoutStaysRight DEF IInv, TrustInv

LEMMA Untouched ==
  ASSUME IInv, UNCHANGED moderation
  PROVE  ModerationInv' /\ LedgerGrows /\ Len(reports') \in Nat
<1>1. UNCHANGED <<reports, actions, appeals, expired, mod>>
  BY DEF moderation
<1>2. LedgerGrows /\ LedgerOK' /\ ActionedHasAction' /\ ReversedOnce'
  BY <1>1, Unmoved DEF IInv, ModerationInv, LedgerOK
<1>3. CallsOK'
  BY <1>1, <1>2, NoCallMoves DEF IInv, ModerationInv
<1> QED BY <1>2, <1>3, LenProperties DEF ModerationInv, LedgerOK

LEMMA ModerationStepKeepsInv ==
  ASSUME IInv, ModerationNext, UNCHANGED trust
  PROVE  IInv'
<1>1. ModerationInv' /\ LedgerGrows
  BY ModerationKeepsInv DEF IInv
<1>2. Len(reports') \in Nat /\ Len(vouches') \in Nat
  BY <1>1, LenProperties DEF ModerationInv, LedgerOK, IInv, TrustInv, trust
<1>3. UNCHANGED <<vouches, revoked, vouching, fanout>>
  BY DEF trust
<1>4. TrustGrows
  BY <1>2, <1>3 DEF TrustGrows
<1> QED BY <1>1, <1>2, <1>3, <1>4, NoFanoutMoves DEF IInv, TrustInv

LEMMA VouchingKeepsInv ==
  ASSUME IInv, NEW g \in Guarantors, CanVouch(g) \/ InsertVouch(g) \/ CrashVouch(g)
  PROVE  IInv'
<1>1. UNCHANGED <<moderation, revoked, fanout>> /\ vouching' \subseteq Guarantors
  BY DEF CanVouch, InsertVouch, CrashVouch, IInv, TrustInv
<1>2. ModerationInv' /\ LedgerGrows /\ Len(reports') \in Nat
  BY <1>1, Untouched
<1>3. vouches \in Seq(Guarantors) /\ Len(vouches) \in Nat /\ Len(vouches) <= MaxVouches
  BY LenProperties DEF IInv, TrustInv
<1>4. /\ vouches' \in Seq(Guarantors) /\ Len(vouches') <= MaxVouches /\ Len(vouches') \in Nat
      /\ TrustGrows
  <2>1. CASE vouches' = vouches
    BY <1>1, <1>3, <2>1 DEF TrustGrows
  <2>2. CASE Len(vouches) < MaxVouches /\ vouches' = Append(vouches, g)
    <3>1. /\ vouches' \in Seq(Guarantors) /\ Len(vouches') = Len(vouches) + 1
          /\ \A v \in 1 .. Len(vouches) : vouches'[v] = vouches[v]
      BY <1>3, <2>2, Appended
    <3> QED BY <1>1, <1>3, <2>2, <3>1, VouchingAssumption DEF TrustGrows
  <2> QED BY <2>1, <2>2 DEF CanVouch, InsertVouch, CrashVouch
<1> QED BY <1>1, <1>2, <1>4, NoFanoutMoves DEF IInv, TrustInv

LEMMA RevokingKeepsInv ==
  ASSUME IInv, NEW r \in Revokers,
         \/ \E g \in Guarantors : UpsertRevoked(r, g)
         \/ ListVouchesByGuarantor(r) \/ ReturnStatus(r) \/ CrashFanout(r)
  PROVE  IInv'
<1>1. UNCHANGED <<moderation, vouches, vouching>> /\ revoked \subseteq revoked' /\ revoked' \subseteq Guarantors
  BY DEF UpsertRevoked, ListVouchesByGuarantor, ReturnStatus, CrashFanout, IInv, TrustInv
<1>2. ModerationInv' /\ LedgerGrows /\ Len(reports') \in Nat
  BY <1>1, Untouched
<1>3. Len(vouches') \in Nat /\ TrustGrows
  BY <1>1, LenProperties DEF IInv, TrustInv, TrustGrows
<1>4. \A g : VouchesOf(g) \in SUBSET Nat
  BY VouchesOfGuarantor DEF IInv
<1>5. PICK fan : fanout' = [fanout EXCEPT ![r] = fan] /\ FanoutRight(fan, revoked', vouches, reports)
  <2>1. ASSUME NEW g \in Guarantors, UpsertRevoked(r, g)
        PROVE  \E fan : fanout' = [fanout EXCEPT ![r] = fan] /\ FanoutRight(fan, revoked', vouches, reports)
    <3> DEFINE fan == [guarantor |-> g, step |-> "list", todo |-> {}, prior |-> VouchesOf(g), failed |-> FALSE]
    <3>1. fanout' = [fanout EXCEPT ![r] = fan] /\ g \in revoked'
      BY <2>1 DEF UpsertRevoked
    <3>2. fan \in FanoutRow
      BY <1>4 DEF FanoutRow
    <3>3. FanoutRight(fan, revoked', vouches, reports)
      BY <3>1, <3>2, VouchesOfGuarantor DEF IInv, FanoutRight
    <3> QED BY <3>1, <3>3
  <2>2. CASE ListVouchesByGuarantor(r)
    <3> DEFINE old == fanout[r]
               fan == [old EXCEPT !.step = "report", !.todo = VouchesOf(old.guarantor)]
    <3>1. old.step = "list" /\ revoked' = revoked /\ FanoutRight(old, revoked, vouches, reports)
      BY <2>2 DEF ListVouchesByGuarantor, IInv, TrustInv
    <3>2. old \in FanoutRow
      BY <3>1 DEF FanoutRight, NoFanout
    <3>3. fan \in FanoutRow /\ fan.todo = VouchesOf(old.guarantor) /\ fan.prior = old.prior /\ fan.guarantor = old.guarantor
      BY <1>4, <3>2 DEF FanoutRow
    <3>4. \A v : v \in VouchesOf(old.guarantor) <=> v \in 1 .. Len(vouches) /\ vouches[v] = old.guarantor
      BY VouchesOfGuarantor DEF IInv
    <3>5. /\ old.guarantor \in revoked
          /\ \A v \in old.prior : v \in 1 .. Len(vouches) /\ vouches[v] = old.guarantor
      BY <3>1, <3>2 DEF FanoutRight, NoFanout
    <3>6. fanout' = [fanout EXCEPT ![r] = fan]
      BY <2>2, <3>2 DEF ListVouchesByGuarantor, FanoutRow, IInv, TrustInv
    <3>7. FanoutRight(fan, revoked', vouches, reports)
      <4> HIDE DEF fan, old
      <4> QED BY <3>1, <3>3, <3>4, <3>5 DEF FanoutRight
    <3> QED BY <3>6, <3>7
  <2>3. CASE ReturnStatus(r) \/ CrashFanout(r)
    BY <2>3 DEF ReturnStatus, CrashFanout, FanoutRight
  <2> QED BY <2>1, <2>2, <2>3
<1>6. UNCHANGED <<vouches, reports, vouching>>
  BY <1>1 DEF moderation
<1> QED BY <1>1, <1>2, <1>3, <1>5, <1>6, OneFanoutMoves DEF IInv, TrustInv

LEMMA ReportingKeepsInv ==
  ASSUME IInv, NEW r \in Revokers, NEW v \in DOMAIN vouches, ReportGuarantorRevoked(r, v) \/ ReportFails(r, v)
  PROVE  IInv'
<1> DEFINE old == fanout[r]
<1>1. /\ old.step = "report" /\ v \in old.todo
      /\ UNCHANGED <<vouches, revoked, vouching, actions, appeals, expired, mod>>
  BY DEF ReportGuarantorRevoked, ReportFails, Reporting
<1>2. old \in FanoutRow /\ FanoutRight(old, revoked, vouches, reports)
  BY <1>1 DEF IInv, TrustInv, NoFanout
<1>3. v \in Targets
  BY VouchingAssumption, LenProperties DEF IInv, TrustInv
<1>4. /\ ModerationInv' /\ LedgerGrows
      /\ ReportGuarantorRevoked(r, v) => \E i \in 1 .. Len(reports') : reports'[i].target = v
  <2>1. CASE ReportGuarantorRevoked(r, v)
    BY <1>1, <1>3, <2>1, FilingKeepsInv DEF IInv, ReportGuarantorRevoked
  <2>2. CASE ReportFails(r, v) /\ ~ReportGuarantorRevoked(r, v)
    BY <1>1, <2>2, Untouched DEF ReportFails, moderation
  <2> QED BY <2>1, <2>2
<1>5. Len(reports') \in Nat /\ Len(vouches') \in Nat /\ Len(vouches) \in Nat /\ Len(reports) \in Nat
  BY <1>1, <1>4, LenProperties DEF IInv, TrustInv, ModerationInv, LedgerOK
<1>6. TrustGrows
  BY <1>1, <1>5 DEF TrustGrows
<1>7. PICK fan : fanout' = [fanout EXCEPT ![r] = fan] /\ FanoutRight(fan, revoked', vouches', reports')
  <2>1. FanoutRight(old, revoked', vouches', reports')
    BY <1>2, <1>4, <1>5, <1>6, FanoutStaysRight
  <2>2. CASE ReportGuarantorRevoked(r, v)
    <3> DEFINE fan == [old EXCEPT !.todo = @ \ {v}]
    <3>1. fanout' = [fanout EXCEPT ![r] = fan]
      BY <1>2, <2>2 DEF ReportGuarantorRevoked, IInv, TrustInv, FanoutRow
    <3>2. /\ fan \in FanoutRow /\ fan.todo = old.todo \ {v} /\ fan.prior = old.prior /\ fan.failed = old.failed
          /\ fan.guarantor = old.guarantor /\ fan.step = "report"
      BY <1>1, <1>2 DEF FanoutRow
    <3>3. old # NoFanout
      BY <1>1 DEF NoFanout
    <3>4. FanoutRight(fan, revoked', vouches', reports')
      <4> HIDE DEF fan, old
      <4> QED BY <1>1, <1>4, <2>1, <2>2, <3>2, <3>3 DEF FanoutRight
    <3> QED BY <3>1, <3>4
  <2>3. CASE ReportFails(r, v)
    <3> DEFINE fan == [old EXCEPT !.todo = @ \ {v}, !.failed = TRUE]
    <3>1. fanout' = [fanout EXCEPT ![r] = fan]
      BY <1>2, <2>3 DEF ReportFails, IInv, TrustInv, FanoutRow
    <3>2. /\ fan \in FanoutRow /\ fan.todo = old.todo \ {v} /\ fan.prior = old.prior /\ fan.failed
          /\ fan.guarantor = old.guarantor
      BY <1>2 DEF FanoutRow
    <3>3. old # NoFanout
      BY <1>1 DEF NoFanout
    <3>4. FanoutRight(fan, revoked', vouches', reports')
      <4> HIDE DEF fan, old
      <4> QED BY <2>1, <3>2, <3>3 DEF FanoutRight
    <3> QED BY <3>1, <3>4
  <2> QED BY <2>2, <2>3
<1>8. TrustInv'
  BY <1>1, <1>4, <1>5, <1>6, <1>7, OneFanoutMoves DEF IInv, TrustInv
<1> QED BY <1>4, <1>8 DEF IInv

LEMMA InvariantIsInductive == IInv /\ [Next]_vars => IInv'
<1> SUFFICES ASSUME IInv, [Next]_vars
             PROVE  IInv'
  OBVIOUS
<1>1. CASE UNCHANGED vars
  <2>1. UNCHANGED <<moderation, vouches, revoked, vouching, fanout>> /\ UNCHANGED reports
    BY <1>1 DEF vars, trust, moderation
  <2>2. ModerationInv'
    BY <2>1, Untouched
  <2> QED BY <2>1, <2>2 DEF IInv, TrustInv
<1> QED BY <1>1, ModerationStepKeepsInv, VouchingKeepsInv, RevokingKeepsInv, ReportingKeepsInv DEF Next

LEMMA InitInvariant == Init => IInv
<1> SUFFICES ASSUME Init
             PROVE  IInv
  OBVIOUS
<1>1. ModerationInv
  BY ModerationInitInv DEF Init
<1>2. vouches \in Seq(Guarantors) /\ Len(vouches) = 0 /\ 0 <= MaxVouches
  BY EmptySeq, VouchingAssumption DEF Init
<1>3. TrustInv
  BY <1>2 DEF Init, TrustInv, FanoutRight
<1> QED BY <1>1, <1>3 DEF IInv

THEOREM Invariant == Spec => []IInv
<1>1. Init => IInv
  BY InitInvariant
<1>2. IInv /\ [Next]_vars => IInv'
  BY InvariantIsInductive
<1> QED BY <1>1, <1>2, PTL DEF Spec

-----------------------------------------------------------------------------
\* Rows refer to rows there are, and a revocation only to its guarantor's vouches.
THEOREM TypeCorrect == Spec => []TypeOK
<1>1. ASSUME IInv
      PROVE  TypeOK
  <2>1. ModerationTypeOK
    BY <1>1, LedgerImpliesTypeOK DEF IInv, ModerationInv
  <2>2. ASSUME NEW r \in Revokers, fanout[r] # NoFanout
        PROVE  /\ fanout[r].guarantor \in revoked
               /\ fanout[r].todo \union fanout[r].prior \subseteq VouchesOf(fanout[r].guarantor)
    <3>1. FanoutRight(fanout[r], revoked, vouches, reports)
      BY <1>1 DEF IInv, TrustInv
    <3> QED BY <1>1, <2>2, <3>1, VouchesOfGuarantor DEF IInv, FanoutRight
  <2> QED BY <1>1, <2>1, <2>2 DEF IInv, TrustInv, TypeOK
<1>2. IInv => TypeOK
  BY <1>1
<1> QED BY <1>2, Invariant, PTL

\* TakeActionOnReport marks a report only when its action is on the ledger.
THEOREM ActionedReportsHaveActions == Spec => []ActionedHasAction
<1>1. IInv => ActionedHasAction
  BY DEF IInv, ModerationInv
<1> QED BY <1>1, Invariant, PTL

\* ReverseAction, by however many moderators at once, undoes an action once.
THEOREM ReversalsAreUnique == Spec => []ReversedOnce
<1>1. IInv => ReversedOnce
  BY DEF IInv, ModerationInv
<1> QED BY <1>1, Invariant, PTL

\* RevokeGuarantor reports success only when each vouch its guarantor had made
\* before is reported.
THEOREM RevocationsReachModerators == Spec => FanoutCoversPrior
<1>1. ASSUME IInv, NEW r \in Revokers, fanout[r].step = "report", fanout[r].todo = {}, ~fanout[r].failed
      PROVE  fanout[r].prior \subseteq {reports[i].target : i \in DOMAIN reports}
  <2>1. FanoutRight(fanout[r], revoked, vouches, reports) /\ fanout[r] # NoFanout
    BY <1>1 DEF IInv, TrustInv, NoFanout
  <2>2. DOMAIN reports = 1 .. Len(reports)
    BY <1>1, LenProperties DEF IInv, ModerationInv, LedgerOK
  <2> QED BY <1>1, <2>1, <2>2 DEF FanoutRight
<1>2. IInv =>
        [\A r \in Revokers :
           fanout[r].step = "report" /\ fanout[r].todo = {} /\ ~fanout[r].failed /\ fanout'[r] = NoFanout
             => fanout[r].prior \subseteq {reports[i].target : i \in DOMAIN reports}]_vars
  BY <1>1
<1> QED BY <1>2, Invariant, PTL DEF FanoutCoversPrior
=============================================================================
