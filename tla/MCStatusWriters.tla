--------------------------- MODULE MCStatusWriters ---------------------------
(***************************************************************************)
(* Instances of StatusWriters for TLC.                                     *)
(***************************************************************************)
EXTENDS StatusWriters

AnyVerdict == BOOLEAN
Healthy == {TRUE}
=============================================================================
