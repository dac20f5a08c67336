---------------------------- MODULE MCPublishing ----------------------------
(* Publishing with two editors and two things a document can say. *)
EXTENDS Publishing

CONSTANTS e1, e2, blank, text

TwoEditors == {e1, e2}
TwoContents == {blank, text}
=============================================================================
