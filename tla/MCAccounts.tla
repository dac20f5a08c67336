----------------------------- MODULE MCAccounts -----------------------------
(***************************************************************************)
(* Accounts with a seeded person and one to invite, and two logins that    *)
(* carry the first one's code; the second may be invited at their address. *)
(***************************************************************************)
EXTENDS Accounts, TLC

CONSTANTS p1, p2, l1, l2, a1, a2, s1, q1, q2

TwoPersons == {p1, p2}
OneSeeded == {p1}
TwoLogins == {l1, l2}
SameCode == [l \in TwoLogins |-> p1]
TwoAccounts == {a1, a2}
OneSession == {s1}
TwoRequests == {q1, q2}

\* Ids that nothing distinguishes.
Symmetry == Permutations(AccountIds) \union Permutations(Requests) \union Permutations(Logins)
=============================================================================
