-------------------------- MODULE RequestLifecycle --------------------------
(***************************************************************************)
(* What a registration request promises its submitter: it is submitted,    *)
(* then either rejected or given one unit of its own, which it keeps until *)
(* it is approved with it.  A decision is never taken back.                *)
(***************************************************************************)
CONSTANTS Requests, Units, NoUnit

VARIABLES status,   \* of each request; "NONE" before it is submitted
          unitOf    \* its created_unit_id

vars == <<status, unitOf>>

Init ==
  /\ status = [r \in Requests |-> "NONE"]
  /\ unitOf = [r \in Requests |-> NoUnit]

To(r, from, to) == status[r] = from /\ status' = [status EXCEPT ![r] = to]

Submit(r) == To(r, "NONE", "PENDING") /\ UNCHANGED unitOf

Provision(r, u) ==
  /\ \A other \in Requests : unitOf[other] # u
  /\ To(r, "PENDING", "PROVISIONING")
  /\ unitOf' = [unitOf EXCEPT ![r] = u]

Approve(r) == To(r, "PROVISIONING", "APPROVED") /\ UNCHANGED unitOf
Reject(r) == To(r, "PENDING", "REJECTED") /\ UNCHANGED unitOf

Next == \E r \in Requests : Submit(r) \/ Approve(r) \/ Reject(r) \/ \E u \in Units : Provision(r, u)

Spec == Init /\ [][Next]_vars
=============================================================================
