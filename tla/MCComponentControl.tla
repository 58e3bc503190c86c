------------------------- MODULE MCComponentControl -------------------------
(***************************************************************************)
(* Instances of ComponentControl for TLC.                                  *)
(***************************************************************************)
EXTENDS ComponentControl, TLC

Symmetric == Permutations(Workers)

=============================================================================
