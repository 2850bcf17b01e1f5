------------------------- MODULE MCFrontendSession -------------------------
(***************************************************************************)
(* The constants of the model-checking run of FrontendSession.             *)
(***************************************************************************)
EXTENDS FrontendSession

CONSTANTS j1, j2

TwoJobs   == {j1, j2}
SecondJob == {j2}
=============================================================================
