----------------------------- MODULE Moderation -----------------------------
(***************************************************************************)
(* Reports, moderators' actions and appeals (internal/moderation).  The    *)
(* rows of each table are numbered as they come; actions are never edited, *)
(* so that undoing one is one more.  A moderator has one call at a time.   *)
(***************************************************************************)
EXTENDS Naturals, Sequences, FiniteSets

CONSTANTS Moderators,
          Targets,      \* what can be reported, Congregation among them
          Congregation,
          MaxRows       \* bound on the three tables together

ASSUME ModerationAssumption ==
  Congregation \in Targets /\ MaxRows \in Nat

VARIABLES reports, actions, appeals,
          expired,      \* the first so many actions' grace windows are over
          mod           \* each moderator's call: its step, and the row it is about

moderation == <<reports, actions, appeals, expired, mod>>

NoMod == [step |-> "idle", row |-> 0]

ModerationInit ==
  /\ reports = <<>> /\ actions = <<>> /\ appeals = <<>> /\ expired = 0
  /\ mod = [m \in Moderators |-> NoMod]

HasRoom == Len(reports) + Len(actions) + Len(appeals) < MaxRows

At(m, step) == mod[m].step = step
Call(m, step, row) == mod' = [mod EXCEPT ![m] = [step |-> step, row |-> row]]
Return(m) == mod' = [mod EXCEPT ![m] = NoMod]

FileReport(target) ==
  /\ HasRoom
  /\ reports' = Append(reports, [target |-> target, status |-> "OPEN"])

AnyoneReports(target) == FileReport(target) /\ UNCHANGED <<actions, appeals, expired, mod>>

InsertAction(m, report, target, reverses) ==
  /\ HasRoom
  /\ actions' = Append(actions, [actor |-> m, report |-> report, target |-> target, reverses |-> reverses])

\* TakeActionOnReport reads the report, whatever its status, ...
GetReport(m, i) ==
  /\ At(m, "idle") /\ Call(m, "act", i) /\ UNCHANGED <<reports, actions, appeals, expired>>

\* A mutant of the action below: an insert that fails does not stop the call.
ActOnReportOrNot(m) ==
  /\ At(m, "act") /\ Call(m, "mark", mod[m].row)
  /\ \/ InsertAction(m, mod[m].row, reports[mod[m].row].target, 0)
     \/ UNCHANGED actions
  /\ UNCHANGED <<reports, appeals, expired>>

\* ... inserts the action, ...
ActOnReport(m) ==
  /\ At(m, "act") /\ Call(m, "mark", mod[m].row)
  /\ InsertAction(m, mod[m].row, reports[mod[m].row].target, 0)
  /\ UNCHANGED <<reports, appeals, expired>>

\* ... and then marks the report.
MarkReportStatus(m) ==
  /\ At(m, "mark") /\ Return(m)
  /\ reports' = [reports EXCEPT ![mod[m].row].status = "ACTIONED"]
  /\ UNCHANGED <<actions, appeals, expired>>

\* With no report, about a congregation.
TakeAction(m) ==
  /\ At(m, "idle") /\ InsertAction(m, 0, Congregation, 0)
  /\ UNCHANGED <<reports, appeals, expired, mod>>

GraceWindowEnds ==
  expired < Len(actions) /\ expired' = expired + 1 /\ UNCHANGED <<reports, actions, appeals, mod>>

\* reverses_action_id is unique.
Reversed(j) == \E k \in DOMAIN actions : actions[k].reverses = j

\* ReverseAction reads the action and its reversal: CanReverse.
CanReverse(m, j) ==
  /\ At(m, "idle")
  /\ actions[j].reverses = 0 /\ ~Reversed(j) /\ j > expired
  /\ Call(m, "reverse", j)
  /\ UNCHANGED <<reports, actions, appeals, expired>>

\* A mutant of the action below: no unique index.
ReverseAgain(m) ==
  /\ At(m, "reverse") /\ Return(m)
  /\ InsertAction(m, 0, actions[mod[m].row].target, mod[m].row)
  /\ UNCHANGED <<reports, appeals, expired>>

\* Another reversal may have come first: an error.
ReverseAction(m) ==
  /\ At(m, "reverse") /\ Return(m)
  /\ IF Reversed(mod[m].row) THEN UNCHANGED actions
     ELSE InsertAction(m, 0, actions[mod[m].row].target, mod[m].row)
  /\ UNCHANGED <<reports, appeals, expired>>

FileAppeal(j) ==
  /\ actions[j].target = Congregation /\ HasRoom
  /\ appeals' = Append(appeals, [action |-> j, status |-> "OPEN"])
  /\ UNCHANGED <<reports, actions, expired, mod>>

\* CanDecideAppeal; what an appeal is about does not change, and its status is not looked at.
\* UPHELD and OVERTURNED differ in nothing but the name.
DecideAppeal(m, k) ==
  /\ At(m, "idle")
  /\ actions[appeals[k].action].actor # m
  /\ appeals' = [appeals EXCEPT ![k].status = "DECIDED"]
  /\ UNCHANGED <<reports, actions, expired, mod>>

Crash(m) == ~At(m, "idle") /\ Return(m) /\ UNCHANGED <<reports, actions, appeals, expired>>

ModerationNext ==
  \/ \E target \in Targets : AnyoneReports(target)
  \/ GraceWindowEnds
  \/ \E j \in DOMAIN actions : FileAppeal(j)
  \/ \E m \in Moderators :
       \/ \E i \in DOMAIN reports : GetReport(m, i)
       \/ ActOnReport(m) \/ MarkReportStatus(m)
       \/ TakeAction(m)
       \/ (\E j \in DOMAIN actions : CanReverse(m, j)) \/ ReverseAction(m)
       \/ \E k \in DOMAIN appeals : DecideAppeal(m, k)
       \/ Crash(m)

-----------------------------------------------------------------------------
ModerationTypeOK ==
  /\ reports \in Seq([target : Targets, status : {"OPEN", "ACTIONED"}])
  /\ actions \in Seq([actor : Moderators, report : 0 .. Len(reports),
                      target : Targets, reverses : 0 .. Len(actions)])
  /\ appeals \in Seq([action : DOMAIN actions, status : {"OPEN", "DECIDED"}])
  /\ expired \in 0 .. Len(actions)
  /\ mod \in [Moderators -> {NoMod} \union [step : {"act", "mark"}, row : DOMAIN reports]
                                    \union [step : {"reverse"}, row : DOMAIN actions]]

\* A report that counts as dealt with has its action, about the same target, on
\* the ledger, wherever the call that took it died.
ActionedHasAction ==
  \A i \in DOMAIN reports : reports[i].status = "ACTIONED" =>
    \E j \in DOMAIN actions : actions[j].report = i /\ actions[j].target = reports[i].target

\* However many moderators reverse it at once, an action is undone once, and
\* what undoes it is never undone.
ReversedOnce ==
  \A k, l \in DOMAIN actions : actions[k].reverses # 0 =>
    /\ actions[actions[k].reverses].reverses = 0
    /\ actions[l].reverses = actions[k].reverses => k = l
=============================================================================
