------------------------------ MODULE Vouching ------------------------------
(***************************************************************************)
(* Vouches (internal/vouching), and what happens to those of a guarantor   *)
(* who is no longer trusted: nothing, but each is reported to moderation,  *)
(* one call after another, after the revocation is committed.  The two     *)
(* modules run together here, on one table of reports.                     *)
(***************************************************************************)
EXTENDS Moderation

CONSTANTS Guarantors,
          Revokers,     \* RevokeGuarantor calls that may run at once
          MaxVouches

ASSUME VouchingAssumption == MaxVouches \in Nat /\ 1 .. MaxVouches \subseteq Targets

VARIABLES vouches,      \* by number, who vouched
          revoked,      \* guarantors whose status is revoked
          vouching,     \* guarantors whose CreateVouch has passed its check
          fanout        \* each revocation under way

trust == <<vouches, revoked, vouching, fanout>>
vars  == <<moderation, trust>>

\* prior: the vouches there were when the revocation was committed.
NoFanout == [step |-> "idle", todo |-> {}, prior |-> {}, failed |-> FALSE]

Init ==
  /\ ModerationInit
  /\ vouches = <<>> /\ revoked = {} /\ vouching = {}
  /\ fanout = [r \in Revokers |-> NoFanout]

VouchesOf(g) == {v \in DOMAIN vouches : vouches[v] = g}

\* CreateVouch: GetGuarantorStatus and CanVouch, ...
CanVouch(g) ==
  /\ g \notin revoked \union vouching
  /\ vouching' = vouching \union {g}
  /\ UNCHANGED <<moderation, vouches, revoked, fanout>>

\* ... then the insert, or none.
InsertVouch(g) ==
  /\ g \in vouching /\ vouching' = vouching \ {g}
  /\ vouches' = IF Len(vouches) < MaxVouches THEN Append(vouches, g) ELSE vouches
  /\ UNCHANGED <<moderation, revoked, fanout>>

CrashVouch(g) ==
  /\ g \in vouching /\ vouching' = vouching \ {g}
  /\ UNCHANGED <<moderation, vouches, revoked, fanout>>

\* RevokeGuarantor, also of one that is revoked already.
UpsertRevoked(r, g) ==
  /\ fanout[r].step = "idle"
  /\ revoked' = revoked \union {g}
  /\ fanout' = [fanout EXCEPT ![r] =
                  [guarantor |-> g, step |-> "list", todo |-> {}, prior |-> VouchesOf(g), failed |-> FALSE]]
  /\ UNCHANGED <<moderation, vouches, vouching>>

\* A mutant of the action below: no WHERE.
ListVouches(r) ==
  /\ fanout[r].step = "list"
  /\ fanout' = [fanout EXCEPT ![r].step = "report", ![r].todo = DOMAIN vouches]
  /\ UNCHANGED <<moderation, vouches, revoked, vouching>>

ListVouchesByGuarantor(r) ==
  /\ fanout[r].step = "list"
  /\ fanout' = [fanout EXCEPT ![r].step = "report", ![r].todo = VouchesOf(fanout[r].guarantor)]
  /\ UNCHANGED <<moderation, vouches, revoked, vouching>>

\* The reports go out in the order of the vouches.
Reporting(r, v) ==
  /\ fanout[r].step = "report" /\ v \in fanout[r].todo /\ \A w \in fanout[r].todo : v <= w
  /\ UNCHANGED <<vouches, revoked, vouching, actions, appeals, expired, mod>>

ReportGuarantorRevoked(r, v) ==
  Reporting(r, v) /\ FileReport(v) /\ fanout' = [fanout EXCEPT ![r].todo = @ \ {v}]

\* A mutant of the action below: the error is not kept.
ReportFailsQuietly(r, v) ==
  Reporting(r, v) /\ fanout' = [fanout EXCEPT ![r].todo = @ \ {v}] /\ UNCHANGED reports

\* A report that fails does not keep the others from being filed.
ReportFails(r, v) ==
  /\ Reporting(r, v)
  /\ fanout' = [fanout EXCEPT ![r].todo = @ \ {v}, ![r].failed = TRUE]
  /\ UNCHANGED reports

\* ErrGuarantorRevokeFanoutIncomplete if one failed.
ReturnStatus(r) ==
  /\ fanout[r].step = "report" /\ fanout[r].todo = {}
  /\ fanout' = [fanout EXCEPT ![r] = NoFanout]
  /\ UNCHANGED <<moderation, vouches, revoked, vouching>>

\* A crash, or the list's error.
CrashFanout(r) ==
  /\ fanout[r].step # "idle"
  /\ fanout' = [fanout EXCEPT ![r] = NoFanout]
  /\ UNCHANGED <<moderation, vouches, revoked, vouching>>

Next ==
  \/ ModerationNext /\ UNCHANGED trust
  \/ \E g \in Guarantors : CanVouch(g) \/ InsertVouch(g) \/ CrashVouch(g)
  \/ \E r \in Revokers :
       \/ \E g \in Guarantors : UpsertRevoked(r, g)
       \/ ListVouchesByGuarantor(r)
       \/ \E v \in DOMAIN vouches : ReportGuarantorRevoked(r, v) \/ ReportFails(r, v)
       \/ ReturnStatus(r) \/ CrashFanout(r)

Spec == Init /\ [][Next]_vars

-----------------------------------------------------------------------------
TypeOK ==
  /\ ModerationTypeOK
  /\ vouches \in Seq(Guarantors) /\ revoked \subseteq Guarantors /\ vouching \subseteq Guarantors
  /\ \A r \in Revokers : fanout[r] = NoFanout \/
       /\ fanout[r].guarantor \in revoked
       /\ fanout[r].todo \union fanout[r].prior \subseteq VouchesOf(fanout[r].guarantor)

\* A revocation that reports success has put every vouch its guarantor had made
\* before it to the moderators, whatever else was filed, vouched, or failed.
FanoutCoversPrior ==
  [][\A r \in Revokers :
       fanout[r].step = "report" /\ fanout[r].todo = {} /\ ~fanout[r].failed /\ fanout'[r] = NoFanout
         => fanout[r].prior \subseteq {reports[i].target : i \in DOMAIN reports}]_vars
=============================================================================
