--------------------------- MODULE MCWorkflowJobs ---------------------------
(***************************************************************************)
(* The constants of the model-checking runs of WorkflowJobs.               *)
(***************************************************************************)
EXTENDS WorkflowJobs, TLC

CONSTANTS j1, j2, w1, w2

TwoJobs    == {j1, j2}
OneWorker  == {w1}
TwoWorkers == {w1, w2}
NoFaults   == {}
LostCalls  == {"lost"}
AllFaults  == {"lost", "ambiguous"}

\* Neither job nor worker identities matter to the code.
Symmetry == Permutations(TwoJobs) \cup Permutations(TwoWorkers)
=============================================================================
