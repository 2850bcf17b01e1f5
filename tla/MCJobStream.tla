---------------------------- MODULE MCJobStream ----------------------------
(***************************************************************************)
(* The constants of the model-checking runs of JobStream.                  *)
(***************************************************************************)
EXTENDS JobStream

CONSTANT j1

OneJob == {j1}
=============================================================================
