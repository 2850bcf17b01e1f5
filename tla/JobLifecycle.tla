---------------------------- MODULE JobLifecycle ----------------------------
(***************************************************************************)
(* What a workflow job promises to the people who wait for it: the row of  *)
(* table workflow_jobs as the API shows it, without the worker that moves  *)
(* it.  A job is accepted once, started in order of submission, closed     *)
(* once, and nothing of a closed row ever changes again.  WorkflowJobs is  *)
(* the worker that has to keep this promise; JobStream is a reader of it.  *)
(***************************************************************************)
EXTENDS Naturals

CONSTANTS Jobs,      \* identities of the jobs that may be submitted
          MaxSteps   \* bound on the number of workflow steps a job reports

ASSUME MaxStepsAssumption == MaxSteps \in Nat

\* Error codes the service stores, and the absence of one (SQL NULL).
ErrorCodes == {"VALIDATION_FAILED", "AGENT_EXECUTION_FAILED",
               "AGENT_TIMEOUT", "WORKER_RESTARTED"}
NoCode == "none"

Statuses == {"absent", "queued", "running", "succeeded", "failed"}
Open     == {"queued", "running"}
Terminal == {"succeeded", "failed"}

VARIABLES
    status,       \* column status, "absent" before the INSERT
    submittedAt,  \* column submitted_at, as the rank of the submission
    errorCode,    \* column error_code
    hasResult,    \* column result_json IS NOT NULL
    progress,     \* column step_summary_json: its "completed" count
    clock         \* number of submissions so far, the source of submittedAt

row  == <<status, errorCode, hasResult, progress>>
vars == <<status, submittedAt, errorCode, hasResult, progress, clock>>

TypeOK ==
    /\ status \in [Jobs -> Statuses]
    /\ submittedAt \in [Jobs -> Nat]
    /\ errorCode \in [Jobs -> ErrorCodes \cup {NoCode}]
    /\ hasResult \in [Jobs -> BOOLEAN]
    /\ progress \in [Jobs -> 0..MaxSteps]
    /\ clock \in Nat

Init ==
    /\ status = [j \in Jobs |-> "absent"]
    /\ submittedAt = [j \in Jobs |-> 0]
    /\ errorCode = [j \in Jobs |-> NoCode]
    /\ hasResult = [j \in Jobs |-> FALSE]
    /\ progress = [j \in Jobs |-> 0]
    /\ clock = 0

\* ORDER BY submitted_at LIMIT 1 over the queued rows.
FirstInLine(j) ==
    /\ status[j] = "queued"
    /\ \A k \in Jobs : status[k] = "queued" => submittedAt[j] <= submittedAt[k]

Submit(j) ==
    /\ status[j] = "absent"
    /\ clock' = clock + 1
    /\ submittedAt' = [submittedAt EXCEPT ![j] = clock + 1]
    /\ status' = [status EXCEPT ![j] = "queued"]
    /\ UNCHANGED <<errorCode, hasResult, progress>>

Start(j) ==
    /\ FirstInLine(j)
    /\ status' = [status EXCEPT ![j] = "running"]
    /\ UNCHANGED <<submittedAt, errorCode, hasResult, progress, clock>>

Report(j, n) ==
    /\ status[j] = "running"
    /\ n >= progress[j]
    /\ progress' = [progress EXCEPT ![j] = n]
    /\ UNCHANGED <<status, submittedAt, errorCode, hasResult, clock>>

Succeed(j, n) ==
    /\ status[j] = "running"
    /\ n >= progress[j]
    /\ status' = [status EXCEPT ![j] = "succeeded"]
    /\ hasResult' = [hasResult EXCEPT ![j] = TRUE]
    /\ progress' = [progress EXCEPT ![j] = n]
    /\ UNCHANGED <<submittedAt, errorCode, clock>>

Fail(j, code) ==
    /\ status[j] = "running"
    /\ status' = [status EXCEPT ![j] = "failed"]
    /\ errorCode' = [errorCode EXCEPT ![j] = code]
    /\ UNCHANGED <<submittedAt, hasResult, progress, clock>>

\* A restart of the server closes every job that was still open.
Abandon ==
    /\ status' = [j \in Jobs |-> IF status[j] \in Open THEN "failed" ELSE status[j]]
    /\ errorCode' = [j \in Jobs |->
                        IF status[j] \in Open THEN "WORKER_RESTARTED" ELSE errorCode[j]]
    /\ UNCHANGED <<submittedAt, hasResult, progress, clock>>

Next ==
    \/ \E j \in Jobs :
          \/ Submit(j)
          \/ Start(j)
          \/ \E n \in 0..MaxSteps : Report(j, n) \/ Succeed(j, n)
          \/ \E code \in ErrorCodes : Fail(j, code)
    \/ Abandon

Spec == Init /\ [][Next]_vars
=============================================================================
