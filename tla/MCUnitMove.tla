----------------------------- MODULE MCUnitMove -----------------------------
(***************************************************************************)
(* UnitMove with three units under the root.                               *)
(***************************************************************************)
EXTENDS UnitMove, TLC

CONSTANTS A, B, C, c1, c2

MCUnits == {Root, A, B, C}
UnderRoot == [u \in MCUnits \ {Root} |-> Root]

\* Each caller moves a unit of its own.
OwnUnits == (c1 :> {A}) @@ (c2 :> {B})

\* Both callers move the same unit.
SameUnit == (c1 :> {A}) @@ (c2 :> {A})

BothCallers == {c1, c2}
OneCaller == {c1}
OwnUnit == c1 :> {A}
=============================================================================
