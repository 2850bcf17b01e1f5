------------------------- MODULE WorkflowJobs_proofs -------------------------
(***************************************************************************)
(* Proofs about the job layer, for every set of jobs and workers, every    *)
(* bound, with or without overlapping processes and ambiguous commits.     *)
(***************************************************************************)
EXTENDS WorkflowJobs, TLAPS

\* A call of the repository keeps the count of faults within its bound.
LEMMA ReplyType ==
    ASSUME NEW r, Reply(r), dbFaults \in 0..MaxDbFaults
    PROVE  dbFaults' \in 0..MaxDbFaults
  BY FaultsAssumption DEF Reply

\* Rows that are not written keep their types.
LEMMA RowsUnchanged ==
    ASSUME Life!TypeOK, UNCHANGED rowVars
    PROVE  Life!TypeOK'
  BY DEF Life!TypeOK, rowVars

\* The INSERT of create_workflow_job keeps the types of the rows.
LEMMA CreateRowType ==
    ASSUME Life!TypeOK, NEW j \in Jobs, CreateRow(j)
    PROVE  Life!TypeOK'
  BY DEF Life!TypeOK, CreateRow, Life!Statuses

\* So does the UPDATE of claim_workflow_job,
LEMMA ClaimRowType ==
    ASSUME Life!TypeOK, NEW j \in Jobs, ClaimRow(j)
    PROVE  Life!TypeOK'
  BY DEF Life!TypeOK, ClaimRow, Life!Statuses

\* that of update_workflow_job_progress,
LEMMA ProgressRowType ==
    ASSUME Life!TypeOK, NEW j \in Jobs, NEW n \in 0..MaxSteps, ProgressRow(j, n)
    PROVE  Life!TypeOK'
  BY DEF Life!TypeOK, ProgressRow

\* that of complete_workflow_job,
LEMMA CompleteRowType ==
    ASSUME Life!TypeOK, NEW j \in Jobs, NEW n \in 0..MaxSteps, CompleteRow(j, n)
    PROVE  Life!TypeOK'
  BY DEF Life!TypeOK, CompleteRow, Life!Statuses

\* that of fail_workflow_job for a code the service stores,
LEMMA FailRowType ==
    ASSUME Life!TypeOK, NEW j \in Jobs,
           NEW code \in Life!ErrorCodes \cup {Life!NoCode}, FailRow(j, code)
    PROVE  Life!TypeOK'
  BY DEF Life!TypeOK, FailRow, Life!Statuses

\* and that of fail_incomplete_workflow_jobs.
LEMMA FailIncompleteRowsType ==
    ASSUME Life!TypeOK, FailIncompleteRows
    PROVE  Life!TypeOK'
  BY DEF Life!TypeOK, FailIncompleteRows, Life!Statuses, Life!ErrorCodes
-----------------------------------------------------------------------------
\* The invariant holds of an empty table without a process.
LEMMA InitJobsInv == Init => JobsInv
  BY FaultsAssumption, StepsAssumption
     DEF Init, JobsInv, TypeOK, Life!Init, Life!TypeOK, Life!Statuses, HoldsJob,
         HoldsOutcome, WorkIsClaimed, SingleExecutor, RowsAgree, WorkingOn,
         Executing, Positions, Life!NoCode, Life!Open

USE DEF JobsInv

\* The clean-up at start leaves failed jobs behind; zombies of an overlapping
\* process stay on theirs.
LEMMA BootStep ==
    ASSUME JobsInv, NEW w \in Workers, Boot(w)
    PROVE  JobsInv'
<1>1. PICK r \in Replies : Statement(r, FailIncompleteRows)
  BY DEF Boot
<1>2. FailIncompleteRows \/ UNCHANGED rowVars
  BY <1>1 DEF Statement
<1>3. TypeOK'
  <2>1. Life!TypeOK'
    BY <1>2, RowsUnchanged, FailIncompleteRowsType DEF TypeOK
  <2>2. dbFaults' \in 0..MaxDbFaults
    BY <1>1, ReplyType DEF TypeOK, Statement
  <2>. QED
    BY <2>1, <2>2 DEF TypeOK, Boot, Positions
<1>4. HoldsJob' /\ HoldsOutcome'
  BY DEF Boot, HoldsJob, HoldsOutcome, Executing, TypeOK
<1>5. \A v \in Workers : WorkingOn(v)' \subseteq WorkingOn(v)
  BY DEF Boot, WorkingOn, Executing, TypeOK
<1>6. WorkIsClaimed'
  BY <1>2, <1>5 DEF WorkIsClaimed, WorkingOn, FailIncompleteRows, rowVars, Incomplete,
     TypeOK, Life!TypeOK, HoldsJob
<1>7. SingleExecutor'
  BY <1>5 DEF SingleExecutor
<1>8. RowsAgree'
  BY <1>2 DEF RowsAgree, FailIncompleteRows, rowVars, Incomplete, TypeOK,
     Life!TypeOK, Life!NoCode, Life!Open, Life!Statuses
<1>. QED
  BY <1>3, <1>4, <1>6, <1>7, <1>8

\* A step that writes no row and starts no work keeps the invariant as soon as
\* it keeps the types and the loop's own bookkeeping.
LEMMA QuietStep ==
    ASSUME JobsInv, UNCHANGED rowVars, TypeOK', HoldsJob', HoldsOutcome',
           \A v \in Workers : WorkingOn(v)' \subseteq WorkingOn(v)
    PROVE  JobsInv'
<1>1. WorkIsClaimed'
  BY DEF WorkIsClaimed, rowVars
<1>2. SingleExecutor'
  BY DEF SingleExecutor
<1>3. RowsAgree'
  BY DEF RowsAgree, rowVars
<1>. QED
  BY <1>1, <1>2, <1>3

\* stop() raises flags only.
LEMMA RequestStopStep ==
    ASSUME JobsInv, NEW w \in Workers, RequestStop(w)
    PROVE  JobsInv'
<1>1. TypeOK'
  BY RowsUnchanged DEF RequestStop, TypeOK
<1>2. HoldsJob' /\ HoldsOutcome'
  BY DEF RequestStop, HoldsJob, HoldsOutcome
<1>3. \A v \in Workers : WorkingOn(v)' \subseteq WorkingOn(v)
  BY DEF RequestStop, WorkingOn
<1>. QED
  BY <1>1, <1>2, <1>3, QuietStep DEF RequestStop

\* A process that ends or crashes works on nothing any more.
LEMMA ProcessGoneStep ==
    ASSUME JobsInv, NEW w \in Workers, ProcessGone(w)
    PROVE  JobsInv'
<1>1. TypeOK'
  BY RowsUnchanged DEF ProcessGone, TypeOK, Positions
<1>2. HoldsJob' /\ HoldsOutcome'
  BY DEF ProcessGone, HoldsJob, HoldsOutcome, TypeOK, Executing
<1>3. \A v \in Workers : WorkingOn(v)' \subseteq WorkingOn(v)
  BY DEF ProcessGone, WorkingOn, TypeOK, Executing
<1>. QED
  BY <1>1, <1>2, <1>3, QuietStep DEF ProcessGone

\* What a process works on is a job, never NoJob.
LEMMA WorkIsOnJobs ==
    ASSUME JobsInv, NEW v \in Workers, NEW k \in WorkingOn(v)
    PROVE  k \in Jobs
  BY DEF TypeOK, HoldsJob, WorkingOn

\* Nobody works on the absent job that is submitted.
LEMMA SubmitStep ==
    ASSUME JobsInv, NEW w \in Workers, NEW j \in Jobs, Submit(w, j)
    PROVE  JobsInv'
<1>1. PICK r \in Replies : Statement(r, CreateRow(j))
  BY DEF Submit
<1>2. CreateRow(j) \/ UNCHANGED rowVars
  BY <1>1 DEF Statement
<1>3. TypeOK'
  <2>1. Life!TypeOK'
    BY <1>2, RowsUnchanged, CreateRowType DEF TypeOK
  <2>2. dbFaults' \in 0..MaxDbFaults
    BY <1>1, ReplyType DEF TypeOK, Statement
  <2>. QED
    BY <2>1, <2>2 DEF TypeOK, Submit, Positions
<1>4. HoldsJob' /\ HoldsOutcome'
  BY DEF Submit, HoldsJob, HoldsOutcome, Executing, TypeOK
<1>5. \A v \in Workers : WorkingOn(v)' = WorkingOn(v)
  BY DEF Submit, WorkingOn, Executing, TypeOK
<1>6. WorkIsClaimed'
  <2>. SUFFICES ASSUME NEW v \in Workers, NEW k \in WorkingOn(v)
                PROVE  status'[k] \notin {"absent", "queued"}
    BY <1>5 DEF WorkIsClaimed
  <2>1. k \in Jobs /\ k # j
    BY WorkIsOnJobs DEF Submit, WorkIsClaimed
  <2>. QED
    BY <2>1, <1>2 DEF WorkIsClaimed, CreateRow, rowVars, TypeOK, Life!TypeOK
<1>7. SingleExecutor'
  BY <1>5 DEF SingleExecutor
<1>8. RowsAgree'
  BY <1>2 DEF Submit, RowsAgree, CreateRow, rowVars, TypeOK, Life!TypeOK, Life!Open
<1>. QED
  BY <1>3, <1>4, <1>6, <1>7, <1>8

\* The steps of the loop that only move it.
LEMMA MoveStep ==
    ASSUME JobsInv, NEW w \in Workers,
           \/ LeaveLoop(w) \/ ClearWake(w) \/ Woken(w) \/ PollTimeout(w)
           \/ WakeFromSleep(w)
    PROVE  JobsInv'
<1>. USE DEF LeaveLoop, ClearWake, Woken, PollTimeout, WakeFromSleep, Goto
<1>1. UNCHANGED rowVars
  OBVIOUS
<1>2. TypeOK'
  BY RowsUnchanged DEF TypeOK, Positions
<1>3. HoldsJob' /\ HoldsOutcome'
  BY DEF HoldsJob, HoldsOutcome, TypeOK, Executing
<1>4. \A v \in Workers : WorkingOn(v)' \subseteq WorkingOn(v)
  BY DEF WorkingOn, TypeOK, Executing
<1>. QED
  BY <1>1, <1>2, <1>3, <1>4, QuietStep

\* The SELECT gives the loop a job to hold and writes nothing.
LEMMA PollStep ==
    ASSUME JobsInv, NEW w \in Workers, Poll(w)
    PROVE  JobsInv'
<1>1. TypeOK'
  <2>1. dbFaults' \in 0..MaxDbFaults
    BY ReplyType DEF Poll, TypeOK
  <2>. QED
    BY <2>1, RowsUnchanged DEF Poll, TypeOK, Goto, Positions
<1>2. HoldsJob' /\ HoldsOutcome'
  BY DEF Poll, Goto, HoldsJob, HoldsOutcome, TypeOK, Executing
<1>3. \A v \in Workers : WorkingOn(v)' \subseteq WorkingOn(v)
  BY DEF Poll, Goto, WorkingOn, TypeOK, Executing
<1>. QED
  BY <1>1, <1>2, <1>3, QuietStep DEF Poll

\* The conditional UPDATE: the job claimed was queued, so by WorkIsClaimed no
\* other process worked on it.
LEMMA ClaimStep ==
    ASSUME JobsInv, NEW w \in Workers, Claim(w)
    PROVE  JobsInv'
<1>. DEFINE j == cur[w]
<1>1. j \in Jobs
  BY DEF Claim, HoldsJob
<1>2. PICK r \in Replies :
         /\ Statement(r, ClaimRow(j))
         /\ IF r = "ok" /\ Claimable(j)
            THEN /\ Goto(w, "run")
                 /\ reported' = [reported EXCEPT ![j] = 0]
                 /\ UNCHANGED cur
            ELSE /\ Goto(w, IF r = "ok" THEN "poll" ELSE "sleep")
                 /\ cur' = [cur EXCEPT ![w] = NoJob]
                 /\ UNCHANGED reported
  BY DEF Claim
<1>3. ClaimRow(j) \/ UNCHANGED rowVars
  BY <1>2 DEF Statement
<1>4. UNCHANGED <<phase, outcome, wake, threads>>
  BY DEF Claim
<1>5. TypeOK'
  <2>1. Life!TypeOK'
    BY <1>1, <1>3, RowsUnchanged, ClaimRowType DEF TypeOK
  <2>2. dbFaults' \in 0..MaxDbFaults
    BY <1>2, ReplyType DEF TypeOK, Statement
  <2>. QED
    BY <1>1, <1>2, <1>4, <2>1, <2>2, StepsAssumption DEF TypeOK, Goto, Positions
<1>6. HoldsJob' /\ HoldsOutcome'
  BY <1>1, <1>2, <1>4 DEF HoldsJob, HoldsOutcome, Goto, Executing, TypeOK
<1>7. \A v \in Workers : v # w => WorkingOn(v)' = WorkingOn(v)
  BY <1>2, <1>4 DEF Goto, WorkingOn, TypeOK
<1>8. \/ WorkingOn(w)' = WorkingOn(w)
      \/ /\ WorkingOn(w)' = WorkingOn(w) \cup {j}
         /\ status[j] = "queued" /\ ClaimRow(j)
  <2>1. CASE r = "ok" /\ Claimable(j)
    BY <1>2, <1>4, <2>1
       DEF Goto, WorkingOn, TypeOK, Claim, Executing, Claimable, Statement, Writes
  <2>2. CASE ~(r = "ok" /\ Claimable(j))
    BY <1>2, <1>4, <2>2 DEF Goto, WorkingOn, TypeOK, Claim, Executing
  <2>. QED
    BY <2>1, <2>2
<1>9. \A k \in Jobs : status[k] \notin {"absent", "queued"} => status'[k] = status[k]
  BY <1>1, <1>3 DEF ClaimRow, Claimable, rowVars, TypeOK, Life!TypeOK
<1>10. WorkIsClaimed'
  <2>. SUFFICES ASSUME NEW v \in Workers, NEW k \in WorkingOn(v)'
                PROVE  status'[k] \notin {"absent", "queued"}
    BY DEF WorkIsClaimed
  <2>1. CASE k \in WorkingOn(v)
    BY <2>1, <1>9, WorkIsOnJobs DEF WorkIsClaimed
  <2>2. CASE k \notin WorkingOn(v)
    BY <2>2, <1>1, <1>7, <1>8 DEF ClaimRow, Claimable, TypeOK, Life!TypeOK
  <2>. QED
    BY <2>1, <2>2
<1>11. SingleExecutor'
  BY <1>7, <1>8 DEF SingleExecutor, WorkIsClaimed
<1>12. RowsAgree'
  BY <1>1, <1>3 DEF RowsAgree, ClaimRow, Claimable, rowVars, TypeOK, Life!TypeOK, Life!Open
<1>. QED
  BY <1>5, <1>6, <1>10, <1>11, <1>12

\* The thread works on the job the loop holds already.
LEMMA StartThreadStep ==
    ASSUME JobsInv, NEW w \in Workers, StartThread(w)
    PROVE  JobsInv'
<1>1. cur[w] \in Jobs
  BY DEF StartThread, HoldsJob, Executing
<1>2. TypeOK'
  BY <1>1, RowsUnchanged DEF StartThread, TypeOK, Goto, Positions
<1>3. HoldsJob' /\ HoldsOutcome'
  BY DEF StartThread, Goto, HoldsJob, HoldsOutcome, TypeOK, Executing
<1>4. \A v \in Workers : WorkingOn(v)' \subseteq WorkingOn(v)
  BY DEF StartThread, Goto, WorkingOn, TypeOK, Executing
<1>. QED
  BY <1>2, <1>3, <1>4, QuietStep DEF StartThread

\* Progress is written only into a running row.
LEMMA ReportProgressStep ==
    ASSUME JobsInv, NEW w \in Workers, NEW j \in Jobs, ReportProgress(w, j)
    PROVE  JobsInv'
<1>1. PICK r \in Replies : Statement(r, ProgressRow(j, reported[j] + 1))
  BY DEF ReportProgress
<1>2. ProgressRow(j, reported[j] + 1) \/ UNCHANGED rowVars
  BY <1>1 DEF Statement
<1>3. reported[j] + 1 \in 0..MaxSteps
  BY StepsAssumption DEF ReportProgress, TypeOK
<1>4. TypeOK'
  <2>1. Life!TypeOK'
    BY <1>2, <1>3, RowsUnchanged, ProgressRowType DEF TypeOK
  <2>2. dbFaults' \in 0..MaxDbFaults
    BY <1>1, ReplyType DEF TypeOK, Statement
  <2>. QED
    BY <1>3, <2>1, <2>2 DEF TypeOK, ReportProgress, workerVars
<1>5. HoldsJob' /\ HoldsOutcome'
  BY DEF ReportProgress, workerVars, HoldsJob, HoldsOutcome
<1>6. \A v \in Workers : WorkingOn(v)' = WorkingOn(v)
  BY DEF ReportProgress, workerVars, WorkingOn
<1>7. UNCHANGED <<status, errorCode, hasResult>>
  BY <1>2 DEF ProgressRow, rowVars
<1>8. WorkIsClaimed' /\ SingleExecutor' /\ RowsAgree'
  BY <1>6, <1>7 DEF WorkIsClaimed, SingleExecutor, RowsAgree
<1>. QED
  BY <1>4, <1>5, <1>8

\* The end of a workflow, of a zombie and the timeout write no row.
LEMMA ThreadAnswersStep ==
    ASSUME JobsInv, NEW w \in Workers, ThreadAnswers(w)
    PROVE  JobsInv'
<1>. USE DEF ThreadAnswers, Goto
<1>1. cur[w] \in Jobs
  BY DEF HoldsJob, Executing
<1>2. TypeOK'
  BY RowsUnchanged DEF TypeOK, Positions, Life!ErrorCodes
<1>3. HoldsJob' /\ HoldsOutcome'
  BY <1>1 DEF HoldsJob, HoldsOutcome, TypeOK, Executing, Life!ErrorCodes
<1>4. \A v \in Workers : WorkingOn(v)' \subseteq WorkingOn(v)
  BY DEF WorkingOn, TypeOK, Executing
<1>. QED
  BY <1>2, <1>3, <1>4, QuietStep

\* A thread that ends takes work away.
LEMMA ZombieEndsStep ==
    ASSUME JobsInv, NEW w \in Workers, NEW j \in Jobs, ZombieEnds(w, j)
    PROVE  JobsInv'
<1>1. TypeOK'
  BY RowsUnchanged DEF ZombieEnds, TypeOK
<1>2. HoldsJob' /\ HoldsOutcome'
  BY DEF ZombieEnds, HoldsJob, HoldsOutcome
<1>3. \A v \in Workers : WorkingOn(v)' \subseteq WorkingOn(v)
  BY DEF ZombieEnds, WorkingOn, TypeOK
<1>. QED
  BY <1>1, <1>2, <1>3, QuietStep DEF ZombieEnds

\* The timeout leaves the loop with an error code to store.
LEMMA JobTimeoutStep ==
    ASSUME JobsInv, NEW w \in Workers, JobTimeout(w)
    PROVE  JobsInv'
<1>. USE DEF JobTimeout, Goto
<1>1. TypeOK'
  BY RowsUnchanged DEF TypeOK, Positions, Life!ErrorCodes
<1>2. HoldsJob' /\ HoldsOutcome'
  BY DEF HoldsJob, HoldsOutcome, TypeOK, Executing, Life!ErrorCodes
<1>3. \A v \in Workers : WorkingOn(v)' \subseteq WorkingOn(v)
  BY DEF WorkingOn, TypeOK, Executing
<1>. QED
  BY <1>1, <1>2, <1>3, QuietStep

\* What Complete, FailResult and Fail have in common: the loop stores the
\* outcome of the job it holds and then either ends the iteration or enters the
\* except clause.
ClosesCurrent(w) ==
    /\ pc[w] \in {"complete", "failResult", "fail"}
    /\ \/ CompleteRow(cur[w], reported[cur[w]])
       \/ /\ FailRow(cur[w], outcome[w])
          /\ pc[w] \in {"failResult", "fail"}
       \/ UNCHANGED rowVars
    /\ EndIteration(w, "poll") \/ EndIteration(w, "sleep") \/ CatchInTry(w)
    /\ dbFaults' \in 0..MaxDbFaults
    /\ UNCHANGED <<phase, wake, threads, reported>>

\* Storing the outcome closes the row of the job the loop holds; the row was
\* claimed, and the loop ends its iteration or goes on to store an error.
LEMMA ClosesCurrentStep ==
    ASSUME JobsInv, NEW w \in Workers, ClosesCurrent(w)
    PROVE  JobsInv'
<1>. DEFINE j == cur[w]
<1>1. j \in Jobs /\ reported[j] \in 0..MaxSteps
  BY DEF ClosesCurrent, HoldsJob, Executing, TypeOK
<1>2. pc[w] \in {"failResult", "fail"} => outcome[w] \in Life!ErrorCodes
  BY DEF HoldsOutcome
<1>3. TypeOK'
  <2>1. Life!TypeOK'
    BY <1>1, <1>2, RowsUnchanged, CompleteRowType, FailRowType
       DEF TypeOK, ClosesCurrent
  <2>. QED
    BY <2>1 DEF TypeOK, ClosesCurrent, EndIteration, CatchInTry, Goto, Positions,
       Life!ErrorCodes
<1>4. HoldsJob' /\ HoldsOutcome'
  BY <1>1 DEF HoldsJob, HoldsOutcome, ClosesCurrent, EndIteration, CatchInTry, Goto,
     TypeOK, Executing, Life!ErrorCodes
<1>5. \A v \in Workers : WorkingOn(v)' \subseteq WorkingOn(v)
  BY DEF WorkingOn, ClosesCurrent, EndIteration, CatchInTry, Goto, TypeOK, Executing
<1>6. \A k \in Jobs : status'[k] = status[k] \/ status'[k] \in {"succeeded", "failed"}
  BY <1>1 DEF ClosesCurrent, CompleteRow, FailRow, rowVars, TypeOK, Life!TypeOK
<1>7. WorkIsClaimed'
  BY <1>5, <1>6, WorkIsOnJobs DEF WorkIsClaimed
<1>8. SingleExecutor'
  BY <1>5 DEF SingleExecutor
<1>9. RowsAgree'
  <2>1. CASE CompleteRow(j, reported[j])
    BY <1>1, <2>1 DEF RowsAgree, CompleteRow, TypeOK, Life!TypeOK, Life!Open
  <2>2. CASE FailRow(j, outcome[w]) /\ pc[w] \in {"failResult", "fail"}
    BY <1>1, <1>2, <2>2
       DEF RowsAgree, FailRow, TypeOK, Life!TypeOK, Life!Open, Life!ErrorCodes, Life!NoCode
  <2>3. CASE UNCHANGED rowVars
    BY <2>3 DEF RowsAgree, rowVars
  <2>. QED
    BY <2>1, <2>2, <2>3 DEF ClosesCurrent
<1>. QED
  BY <1>3, <1>4, <1>7, <1>8, <1>9

\* The three places that store an outcome are such steps.
LEMMA CloseStep ==
    ASSUME JobsInv, NEW w \in Workers, Complete(w) \/ FailResult(w) \/ Fail(w)
    PROVE  JobsInv'
<1>1. CASE Complete(w)
  <2>1. dbFaults' \in 0..MaxDbFaults
    BY <1>1, ReplyType DEF Complete, Statement, TypeOK
  <2>. QED
    BY <1>1, <2>1, ClosesCurrentStep DEF Complete, ClosesCurrent, Statement
<1>2. CASE FailResult(w)
  <2>1. dbFaults' \in 0..MaxDbFaults
    BY <1>2, ReplyType DEF FailResult, Statement, TypeOK
  <2>. QED
    BY <1>2, <2>1, ClosesCurrentStep DEF FailResult, ClosesCurrent, Statement
<1>3. CASE Fail(w)
  <2>1. dbFaults' \in 0..MaxDbFaults
    BY <1>3, ReplyType DEF Fail, Statement, TypeOK
  <2>. QED
    BY <1>3, <2>1, ClosesCurrentStep DEF Fail, ClosesCurrent, Statement
<1>. QED
  BY <1>1, <1>2, <1>3

\* Every step keeps the invariant.
LEMMA NextJobsInv == JobsInv /\ [Next]_vars => JobsInv'
<1>1. ASSUME JobsInv, Next
      PROVE  JobsInv'
  <2>1. PICK w \in Workers :
           \/ Boot(w) \/ RequestStop(w) \/ FinishStop(w) \/ Crash(w)
           \/ LoopStep(w) \/ ThreadAnswers(w) \/ JobTimeout(w)
           \/ \E j \in Jobs : Submit(w, j) \/ ReportProgress(w, j) \/ ZombieEnds(w, j)
    BY <1>1 DEF Next
  <2>2. CASE Boot(w)
    BY <1>1, <2>2, BootStep
  <2>3. CASE RequestStop(w)
    BY <1>1, <2>3, RequestStopStep
  <2>4. CASE FinishStop(w) \/ Crash(w)
    BY <1>1, <2>4, ProcessGoneStep DEF FinishStop, Crash
  <2>5. CASE LoopStep(w)
    BY <1>1, <2>5, MoveStep, PollStep, ClaimStep, StartThreadStep, CloseStep DEF LoopStep
  <2>6. CASE ThreadAnswers(w)
    BY <1>1, <2>6, ThreadAnswersStep
  <2>7. CASE JobTimeout(w)
    BY <1>1, <2>7, JobTimeoutStep
  <2>8. CASE \E j \in Jobs : Submit(w, j) \/ ReportProgress(w, j) \/ ZombieEnds(w, j)
    BY <1>1, <2>8, SubmitStep, ReportProgressStep, ZombieEndsStep
  <2>. QED
    BY <2>1, <2>2, <2>3, <2>4, <2>5, <2>6, <2>7, <2>8
<1>2. ASSUME JobsInv, UNCHANGED vars
      PROVE  JobsInv'
  <2>1. UNCHANGED <<rowVars, workerVars, dbFaults, reported>>
    BY <1>2 DEF vars
  <2>2. TypeOK'
    BY <1>2, <2>1, RowsUnchanged DEF workerVars, TypeOK
  <2>3. HoldsJob' /\ HoldsOutcome' /\ \A v \in Workers : WorkingOn(v)' \subseteq WorkingOn(v)
    BY <1>2, <2>1 DEF workerVars, HoldsJob, HoldsOutcome, WorkingOn
  <2>. QED
    BY <1>2, <2>1, <2>2, <2>3, QuietStep
<1>. QED
  BY <1>1, <1>2
-----------------------------------------------------------------------------
\* Every reachable state is well typed and satisfies the inductive invariant of
\* the job layer.
THEOREM JobsInvariant == Spec => []JobsInv
  BY InitJobsInv, NextJobsInv, PTL DEF Spec

\* The rows and the workers always have their types.
THEOREM TypeCorrect == Spec => []TypeOK
<1>1. JobsInv => TypeOK
  OBVIOUS
<1>. QED
  BY <1>1, JobsInvariant, PTL

\* No two API processes ever work on the same job, however many overlap and
\* whichever database calls fail before or after their commit: the conditional
\* UPDATE of claim_workflow_job is enough.
THEOREM JobHasSingleExecutor == Spec => []SingleExecutor
<1>1. JobsInv => SingleExecutor
  OBVIOUS
<1>. QED
  BY <1>1, JobsInvariant, PTL

\* The columns of a row always agree with its status, so the result endpoint may
\* trust the status alone, whatever overwrites whatever.
THEOREM RowsAlwaysAgree == Spec => []RowsAgree
<1>1. JobsInv => RowsAgree
  OBVIOUS
<1>. QED
  BY <1>1, JobsInvariant, PTL
-----------------------------------------------------------------------------
\* No row that is closed is open again after this step.
NoneReopened == \A j \in Jobs : status[j] \in Life!Terminal => status'[j] \in Life!Terminal

\* No statement of the repository reopens a row: an INSERT needs an absent row,
\* claim tests the status, and the others write a terminal status or none.
LEMMA StatementReopensNothing ==
    ASSUME TypeOK, NEW j \in Jobs, NEW n, NEW code,
           \/ UNCHANGED rowVars
           \/ CreateRow(j) /\ status[j] = "absent"
           \/ ClaimRow(j) \/ ProgressRow(j, n)
           \/ CompleteRow(j, n) \/ FailRow(j, code) \/ FailIncompleteRows
    PROVE  NoneReopened
  BY DEF NoneReopened, TypeOK, Life!TypeOK, Life!Terminal, rowVars, CreateRow, ClaimRow,
     Claimable, ProgressRow, CompleteRow, FailRow, FailIncompleteRows, Incomplete

\* Every step runs at most one of those statements.
LEMMA NextReopensNothing == JobsInv /\ [Next]_vars => NoneReopened
<1>. SUFFICES ASSUME JobsInv, [Next]_vars
              PROVE  NoneReopened
  OBVIOUS
<1>1. CASE UNCHANGED rowVars
  BY <1>1 DEF NoneReopened, rowVars
<1>2. ASSUME NEW w \in Workers, Boot(w)
      PROVE  NoneReopened
  <2>1. FailIncompleteRows \/ UNCHANGED rowVars
    BY <1>2 DEF Boot, Statement
  <2>. QED
    BY <2>1 DEF NoneReopened, FailIncompleteRows, Incomplete, Life!Terminal, rowVars,
       TypeOK, Life!TypeOK
<1>3. ASSUME NEW w \in Workers, NEW j \in Jobs, Submit(w, j)
      PROVE  NoneReopened
  <2>1. status[j] = "absent" /\ (CreateRow(j) \/ UNCHANGED rowVars)
    BY <1>3 DEF Submit, Statement
  <2>. QED
    BY <2>1, StatementReopensNothing
<1>4. ASSUME NEW w \in Workers, NEW j \in Jobs, ReportProgress(w, j)
      PROVE  NoneReopened
  <2>1. ProgressRow(j, reported[j] + 1) \/ UNCHANGED rowVars
    BY <1>4 DEF ReportProgress, Statement
  <2>. QED
    BY <2>1, StatementReopensNothing
<1>5. ASSUME NEW w \in Workers, Claim(w) \/ Complete(w) \/ FailResult(w) \/ Fail(w)
      PROVE  NoneReopened
  <2>1. cur[w] \in Jobs
    BY <1>5 DEF HoldsJob, Executing, Claim, Complete, FailResult, Fail
  <2>2. \/ ClaimRow(cur[w]) \/ CompleteRow(cur[w], reported[cur[w]])
        \/ FailRow(cur[w], outcome[w]) \/ UNCHANGED rowVars
    BY <1>5 DEF Claim, Complete, FailResult, Fail, Statement
  <2>. QED
    BY <2>1, <2>2, StatementReopensNothing
<1>6. ASSUME Next, ~UNCHANGED rowVars
      PROVE  NoneReopened
  <2>1. PICK w \in Workers :
           \/ Boot(w) \/ Claim(w) \/ Complete(w) \/ FailResult(w) \/ Fail(w)
           \/ \E j \in Jobs : Submit(w, j) \/ ReportProgress(w, j)
    BY <1>6 DEF Next, LoopStep, RequestStop, FinishStop, Crash, ProcessGone, LeaveLoop,
       Poll, ClearWake, Woken, PollTimeout, WakeFromSleep, StartThread, ThreadAnswers,
       JobTimeout, ZombieEnds
  <2>. QED
    BY <2>1, <1>2, <1>3, <1>4, <1>5
<1>. QED
  BY <1>1, <1>6 DEF vars

\* A closed job is never open again, whatever fails, however many processes work
\* on the table and whenever they restart: no late claim, no progress of a zombie
\* and no clean-up reopens it.
THEOREM ClosedJobStaysClosed == Spec => ClosedStaysClosed
<1>1. JobsInv /\ [Next]_vars =>
         [\A j \in Jobs : status[j] \in Life!Terminal => status'[j] \in Life!Terminal]_vars
  BY NextReopensNothing DEF NoneReopened
<1>. QED
  BY <1>1, JobsInvariant, PTL DEF Spec, ClosedStaysClosed
-----------------------------------------------------------------------------
(* A failed job never becomes a success *)

Late == DownIsIdle /\ AwaitedIsOpen

\* A step after which every awaited job was awaited before, and which closes none
\* of them but by giving up what is open, leaves the awaited jobs open.
LEMMA AwaitedStaysOpen ==
    ASSUME AwaitedIsOpen,
           \A w \in Workers :
              pc'[w] \in {"run", "running", "complete"} =>
                 /\ pc[w] \in {"run", "running", "complete"} /\ cur'[w] = cur[w]
                 /\ \/ status'[cur[w]] = status[cur[w]] /\ errorCode'[cur[w]] = errorCode[cur[w]]
                    \/ /\ status'[cur[w]] = "failed" /\ AllowOverlap
                       /\ errorCode'[cur[w]] = "WORKER_RESTARTED"
    PROVE  AwaitedIsOpen'
  BY DEF AwaitedIsOpen

\* Whoever executes a job is up.
LEMMA ExecutesUp ==
    ASSUME DownIsIdle, NEW w \in Workers, pc[w] # "off"
    PROVE  phase[w] # "down"
  BY DEF DownIsIdle

LEMMA BootLate ==
    ASSUME JobsInv, Late, NEW w \in Workers, Boot(w)
    PROVE  Late'
<1>. USE DEF Late
<1>1. DownIsIdle'
  BY DEF Boot, DownIsIdle, TypeOK
<1>2. FailIncompleteRows \/ UNCHANGED rowVars
  BY DEF Boot, Statement
<1>3. ASSUME NEW v \in Workers, pc'[v] \in {"run", "running", "complete"}
      PROVE  /\ pc[v] \in {"run", "running", "complete"} /\ cur'[v] = cur[v]
             /\ AllowOverlap /\ cur[v] \in Jobs
  BY <1>3, ExecutesUp DEF Boot, TypeOK, HoldsJob, Executing
<1>4. ASSUME NEW j \in Jobs
      PROVE  \/ status'[j] = status[j] /\ errorCode'[j] = errorCode[j]
             \/ status'[j] = "failed" /\ errorCode'[j] = "WORKER_RESTARTED"
  BY <1>2 DEF FailIncompleteRows, rowVars, TypeOK, Life!TypeOK
<1>. QED
  BY <1>1, <1>3, <1>4, AwaitedStaysOpen

\* Steps that write no row and begin no execution.
LEMMA QuietLate ==
    ASSUME JobsInv, Late, NEW w \in Workers,
           \/ RequestStop(w) \/ ProcessGone(w) \/ LeaveLoop(w) \/ Poll(w) \/ ClearWake(w)
           \/ Woken(w) \/ PollTimeout(w) \/ WakeFromSleep(w) \/ JobTimeout(w)
           \/ \E j \in Jobs : ZombieEnds(w, j)
    PROVE  Late'
<1>. USE DEF Late
<1>1. UNCHANGED rowVars
  BY DEF RequestStop, ProcessGone, LeaveLoop, Poll, ClearWake, Woken, PollTimeout,
     WakeFromSleep, JobTimeout, ZombieEnds
<1>2. DownIsIdle'
  BY DEF RequestStop, ProcessGone, LeaveLoop, Poll, ClearWake, Woken, PollTimeout,
     WakeFromSleep, JobTimeout, ZombieEnds, Goto, DownIsIdle, TypeOK
<1>3. \A v \in Workers :
         pc'[v] \in {"run", "running", "complete"} =>
            pc[v] \in {"run", "running", "complete"} /\ cur'[v] = cur[v]
  BY DEF RequestStop, ProcessGone, LeaveLoop, Poll, ClearWake, Woken, PollTimeout,
     WakeFromSleep, JobTimeout, ZombieEnds, Goto, TypeOK
<1>. QED
  BY <1>1, <1>2, <1>3, AwaitedStaysOpen DEF rowVars

\* The thread of an execution begins and ends without a write.
LEMMA ThreadLate ==
    ASSUME JobsInv, Late, NEW w \in Workers, StartThread(w) \/ ThreadAnswers(w)
    PROVE  Late'
<1>. USE DEF Late
<1>1. UNCHANGED rowVars
  BY DEF StartThread, ThreadAnswers
<1>2. DownIsIdle'
  BY DEF StartThread, ThreadAnswers, Goto, DownIsIdle, TypeOK
<1>3. \A v \in Workers :
         pc'[v] \in {"run", "running", "complete"} =>
            pc[v] \in {"run", "running", "complete"} /\ cur'[v] = cur[v]
  BY DEF StartThread, ThreadAnswers, Goto, TypeOK
<1>. QED
  BY <1>1, <1>2, <1>3, AwaitedStaysOpen DEF rowVars

\* An absent row and the progress of a running one are nobody's answer.
LEMMA WriteLate ==
    ASSUME JobsInv, Late, NEW w \in Workers, NEW j \in Jobs,
           Submit(w, j) \/ ReportProgress(w, j)
    PROVE  Late'
<1>. USE DEF Late
<1>1. CASE Submit(w, j)
  <2>1. CreateRow(j) \/ UNCHANGED rowVars
    BY <1>1 DEF Submit, Statement
  <2>2. DownIsIdle'
    BY <1>1 DEF Submit, DownIsIdle, TypeOK
  <2>3. \A v \in Workers :
           pc'[v] \in {"run", "running", "complete"} =>
              pc[v] \in {"run", "running", "complete"} /\ cur'[v] = cur[v]
    BY <1>1 DEF Submit, TypeOK
  <2>4. \A v \in Workers :
           pc[v] \in {"run", "running", "complete"} => cur[v] # j /\ cur[v] \in Jobs
    BY <1>1 DEF Submit, AwaitedIsOpen, HoldsJob, Executing
  <2>5. \A k \in Jobs \ {j} : status'[k] = status[k] /\ errorCode'[k] = errorCode[k]
    BY <2>1 DEF CreateRow, rowVars, TypeOK, Life!TypeOK
  <2>. QED
    BY <2>2, <2>3, <2>4, <2>5, AwaitedStaysOpen
<1>2. CASE ReportProgress(w, j)
  <2>1. UNCHANGED <<status, errorCode, phase, pc, cur, threads>>
    BY <1>2 DEF ReportProgress, Statement, ProgressRow, rowVars, workerVars
  <2>. QED
    BY <2>1, AwaitedStaysOpen DEF DownIsIdle
<1>. QED
  BY <1>1, <1>2

\* A claim opens the row it begins to execute; the other executions are of rows
\* that were not queued.
LEMMA ClaimLate ==
    ASSUME JobsInv, Late, NEW w \in Workers, Claim(w)
    PROVE  Late'
<1>. USE DEF Late
<1>. DEFINE j == cur[w]
<1>1. j \in Jobs
  BY DEF Claim, HoldsJob
<1>2. DownIsIdle'
  BY DEF Claim, Goto, DownIsIdle, TypeOK
<1>3. \A k \in Jobs : status[k] # "queued" => status'[k] = status[k]
  BY <1>1 DEF Claim, Statement, ClaimRow, Claimable, rowVars, TypeOK, Life!TypeOK
<1>4. UNCHANGED errorCode
  BY DEF Claim, Statement, ClaimRow, rowVars
<1>5. ASSUME NEW v \in Workers, v # w, pc'[v] \in {"run", "running", "complete"}
      PROVE  pc[v] \in {"run", "running", "complete"} /\ cur'[v] = cur[v] /\ cur[v] \in Jobs
  BY <1>5 DEF Claim, Goto, TypeOK, HoldsJob, Executing
<1>6. ASSUME pc'[w] \in {"run", "running", "complete"}
      PROVE  cur'[w] = j /\ status'[j] = "running"
  BY <1>1, <1>6 DEF Claim, Goto, Statement, Writes, ClaimRow, Claimable, TypeOK, Life!TypeOK
<1>. QED
  BY <1>2, <1>3, <1>4, <1>5, <1>6 DEF AwaitedIsOpen

\* Storing an outcome ends the wait for it, and nobody else waits for that job.
LEMMA CloseLate ==
    ASSUME JobsInv, Late, NEW w \in Workers, Complete(w) \/ FailResult(w) \/ Fail(w)
    PROVE  Late'
<1>. USE DEF Late
<1>. DEFINE j == cur[w]
<1>1. j \in Jobs /\ pc[w] \in Executing
  BY DEF Complete, FailResult, Fail, HoldsJob, Executing
<1>2. DownIsIdle'
  BY DEF Complete, FailResult, Fail, EndIteration, CatchInTry, Goto, DownIsIdle, TypeOK
<1>3. pc'[w] \notin {"run", "running", "complete"}
  BY DEF Complete, FailResult, Fail, EndIteration, CatchInTry, Goto, TypeOK
<1>4. \/ CompleteRow(j, reported[j]) \/ FailRow(j, outcome[w]) \/ UNCHANGED rowVars
  BY DEF Complete, FailResult, Fail, Statement
<1>5. \A k \in Jobs \ {j} : status'[k] = status[k] /\ errorCode'[k] = errorCode[k]
  BY <1>1, <1>4 DEF CompleteRow, FailRow, rowVars, TypeOK, Life!TypeOK
<1>6. ASSUME NEW v \in Workers, v # w, pc'[v] \in {"run", "running", "complete"}
      PROVE  /\ pc[v] \in {"run", "running", "complete"} /\ cur'[v] = cur[v]
             /\ cur[v] \in Jobs \ {j}
  <2>1. pc[v] \in {"run", "running", "complete"} /\ cur'[v] = cur[v] /\ cur[v] \in Jobs
    BY <1>6 DEF Complete, FailResult, Fail, EndIteration, CatchInTry, Goto, TypeOK,
       HoldsJob, Executing
  <2>2. cur[v] # j
    BY <1>1, <1>6, <2>1 DEF SingleExecutor, WorkingOn, Executing
  <2>. QED
    BY <2>1, <2>2
<1>. QED
  BY <1>2, <1>3, <1>5, <1>6, AwaitedStaysOpen

LEMMA NextLate == JobsInv /\ Late /\ [Next]_vars => Late'
<1>1. ASSUME JobsInv, Late, UNCHANGED vars PROVE Late'
  BY <1>1 DEF vars, rowVars, workerVars, Late, DownIsIdle, AwaitedIsOpen
<1>. QED
  BY <1>1, BootLate, QuietLate, ThreadLate, WriteLate, ClaimLate, CloseLate
     DEF Next, LoopStep, FinishStop, Crash

\* A job that has failed is a success after this step only if another process gave it
\* up while its own was still at it.
NoneRevived ==
    \A j \in Jobs :
       status[j] = "failed" =>
          \/ status'[j] = "failed"
          \/ AllowOverlap /\ errorCode[j] = "WORKER_RESTARTED"

LEMMA NextRevivesNone == JobsInv /\ Late /\ [Next]_vars => NoneRevived
<1>. SUFFICES ASSUME JobsInv, Late, [Next]_vars
              PROVE  NoneRevived
  OBVIOUS
<1>1. CASE UNCHANGED rowVars
  BY <1>1 DEF NoneRevived, rowVars
<1>2. ASSUME NEW w \in Workers, Boot(w)
      PROVE  NoneRevived
  BY <1>2 DEF NoneRevived, Boot, Statement, FailIncompleteRows, Incomplete, rowVars
<1>3. ASSUME NEW w \in Workers, NEW j \in Jobs, Submit(w, j) \/ ReportProgress(w, j)
      PROVE  NoneRevived
  BY <1>3 DEF NoneRevived, Submit, ReportProgress, Statement, CreateRow, ProgressRow,
     rowVars, TypeOK, Life!TypeOK
<1>4. ASSUME NEW w \in Workers, Claim(w)
      PROVE  NoneRevived
  BY <1>4 DEF NoneRevived, Claim, HoldsJob, Statement, ClaimRow, Claimable, rowVars, TypeOK,
     Life!TypeOK
<1>5. ASSUME NEW w \in Workers, FailResult(w) \/ Fail(w)
      PROVE  NoneRevived
  BY <1>5 DEF NoneRevived, FailResult, Fail, HoldsJob, Executing, Statement, FailRow,
     rowVars, TypeOK, Life!TypeOK
<1>6. ASSUME NEW w \in Workers, Complete(w)
      PROVE  NoneRevived
  <2>1. /\ CompleteRow(cur[w], reported[cur[w]]) \/ UNCHANGED rowVars
        /\ cur[w] \in Jobs
    BY <1>6 DEF Complete, Statement, HoldsJob, Executing
  <2>2. status[cur[w]] = "failed" => AllowOverlap /\ errorCode[cur[w]] = "WORKER_RESTARTED"
    BY <1>6 DEF Complete, Late, AwaitedIsOpen
  <2>. QED
    BY <2>1, <2>2 DEF NoneRevived, CompleteRow, rowVars, TypeOK, Life!TypeOK
<1>7. ASSUME Next, ~UNCHANGED rowVars
      PROVE  NoneRevived
  <2>1. PICK w \in Workers :
           \/ Boot(w) \/ Claim(w) \/ Complete(w) \/ FailResult(w) \/ Fail(w)
           \/ \E j \in Jobs : Submit(w, j) \/ ReportProgress(w, j)
    BY <1>7 DEF Next, LoopStep, RequestStop, FinishStop, Crash, ProcessGone, LeaveLoop,
       Poll, ClearWake, Woken, PollTimeout, WakeFromSleep, StartThread, ThreadAnswers,
       JobTimeout, ZombieEnds
  <2>. QED
    BY <2>1, <1>2, <1>3, <1>4, <1>5, <1>6
<1>. QED
  BY <1>1, <1>7 DEF vars

\* A failed job is never published as a success, neither by the answer that arrives
\* after its timeout nor after a failure stored by a call that raised; only what a
\* booting process gave up while the old one was at it may still succeed.
THEOREM FailedJobStaysFailed == Spec => FailedStaysFailed
<1>1. Init => Late
  BY DEF Init, Late, DownIsIdle, AwaitedIsOpen
<1>2. JobsInv /\ Late /\ [Next]_vars =>
         [\A j \in Jobs :
             status[j] = "failed" =>
                \/ status'[j] = "failed"
                \/ AllowOverlap /\ errorCode[j] = "WORKER_RESTARTED"]_vars
  BY NextRevivesNone DEF NoneRevived
<1>. QED
  BY <1>1, <1>2, NextLate, JobsInvariant, PTL DEF Spec, FailedStaysFailed
-----------------------------------------------------------------------------
(* One process at a time, whose failing calls did not commit, implements the      *)
(* promise: each step of the worker is a step of JobLifecycle or none.            *)

\* A call of such a process returns or writes nothing.
LEMMA AloneCalls ==
    ASSUME Alone, NEW r \in Replies, Reply(r)
    PROVE  (r = "ok" /\ Writes(r)) \/ (r = "lost" /\ ~Writes(r))
  BY DEF Alone, Reply, Replies, Writes

\* Rows that stay as they are stay in order, if reports are not taken back.
LEMMA SameRowsInOrder ==
    ASSUME RowsInOrder, UNCHANGED rowVars,
           \A j \in Jobs : status[j] = "running" => reported'[j] = reported[j]
    PROVE  RowsInOrder'
  BY DEF RowsInOrder, rowVars

\* The first in line stays the first, whoever is submitted behind it.
LEMMA FirstStaysFirst ==
    ASSUME JobsInv, RowsInOrder, NEW j \in Jobs, NEW k \in Jobs, NextQueued(k),
           CreateRow(j), status[j] = "absent"
    PROVE  NextQueued(k)'
<1>1. submittedAt[k] <= clock /\ submittedAt[k] \in Nat /\ clock \in Nat
  BY DEF RowsInOrder, TypeOK, Life!TypeOK
<1>2. k # j
  BY DEF NextQueued
<1>. QED
  BY <1>1, <1>2 DEF NextQueued, CreateRow, TypeOK, Life!TypeOK

\* The start of the process is the clean-up of the promise.
LEMMA BootAlone ==
    ASSUME Alone, JobsInv, AloneInv, NEW w \in Workers, Boot(w)
    PROVE  AloneInv' /\ [Life!Next]_(Life!vars)
<1>. USE DEF AloneInv
<1>1. \A v \in Workers : phase[v] = "down" /\ pc[v] = "off" /\ threads[v] = {}
  BY DEF Boot, Alone, DownIsIdle
<1>2. PICK r \in Replies :
         /\ Statement(r, FailIncompleteRows)
         /\ IF r = "ok"
            THEN /\ phase' = [phase EXCEPT ![w] = "up"]
                 /\ pc' = [pc EXCEPT ![w] = "poll"]
                 /\ wake' = [wake EXCEPT ![w] = TRUE]
            ELSE UNCHANGED <<phase, pc, wake>>
  BY DEF Boot
<1>3. FailIncompleteRows \/ UNCHANGED rowVars
  BY <1>2 DEF Statement
<1>4. DownIsIdle' /\ AloneOnTheTable'
  BY <1>1, <1>2 DEF Boot, DownIsIdle, AloneOnTheTable, TypeOK, Executing
<1>5. RowsInOrder'
  <2>1. UNCHANGED reported
    BY DEF Boot
  <2>. QED
    BY <1>3, <2>1, SameRowsInOrder
       DEF RowsInOrder, FailIncompleteRows, Incomplete, TypeOK, Life!TypeOK
<1>6. [Life!Next]_(Life!vars)
  <2>1. CASE FailIncompleteRows
    <3>1. Life!Abandon
      BY <2>1 DEF FailIncompleteRows, Incomplete, Life!Abandon, Life!Open
    <3>. QED
      BY <3>1 DEF Life!Next
  <2>2. CASE UNCHANGED rowVars
    BY <2>2 DEF rowVars, Life!vars
  <2>. QED
    BY <1>3, <2>1, <2>2
<1>. QED
  BY <1>4, <1>5, <1>6

\* Steps that write no row.
LEMMA QuietAlone ==
    ASSUME JobsInv, AloneInv, NEW w \in Workers,
           \/ RequestStop(w) \/ ProcessGone(w) \/ LeaveLoop(w) \/ Poll(w) \/ ClearWake(w)
           \/ Woken(w) \/ PollTimeout(w) \/ WakeFromSleep(w) \/ JobTimeout(w)
           \/ StartThread(w) \/ ThreadAnswers(w) \/ \E j \in Jobs : ZombieEnds(w, j)
    PROVE  AloneInv' /\ [Life!Next]_(Life!vars)
<1>. USE DEF AloneInv
<1>1. UNCHANGED rowVars /\ UNCHANGED reported
  BY DEF RequestStop, ProcessGone, LeaveLoop, Poll, ClearWake, Woken, PollTimeout,
     WakeFromSleep, JobTimeout, StartThread, ThreadAnswers, ZombieEnds
<1>2. DownIsIdle'
  BY DEF RequestStop, ProcessGone, LeaveLoop, Poll, ClearWake, Woken, PollTimeout,
     WakeFromSleep, JobTimeout, StartThread, ThreadAnswers, ZombieEnds, Goto, DownIsIdle,
     TypeOK
<1>3. \A v \in Workers : phase'[v] # "down" => phase[v] # "down"
  BY DEF RequestStop, ProcessGone, LeaveLoop, Poll, ClearWake, Woken, PollTimeout,
     WakeFromSleep, JobTimeout, StartThread, ThreadAnswers, ZombieEnds, TypeOK
<1>4. ASSUME NEW v \in Workers
      PROVE  /\ pc'[v] \in Executing => pc[v] \in Executing /\ cur'[v] = cur[v]
             /\ pc'[v] = "claim" => \/ pc[v] = "claim" /\ cur'[v] = cur[v]
                                    \/ NextQueued(cur'[v])
  <2>1. CASE Poll(w)
    BY <2>1 DEF Poll, Goto, TypeOK, Executing
  <2>2. CASE ~Poll(w)
    BY <2>2 DEF RequestStop, ProcessGone, LeaveLoop, ClearWake, Woken, PollTimeout,
       WakeFromSleep, JobTimeout, StartThread, ThreadAnswers, ZombieEnds, Goto, TypeOK,
       Executing
  <2>. QED
    BY <2>1, <2>2
<1>5. AloneOnTheTable'
  BY <1>1, <1>3, <1>4 DEF AloneOnTheTable, NextQueued, rowVars
<1>6. RowsInOrder'
  BY <1>1, SameRowsInOrder
<1>. QED
  BY <1>1, <1>2, <1>5, <1>6 DEF rowVars, Life!vars

\* A job that is accepted takes its place at the end of the queue.
LEMMA SubmitAlone ==
    ASSUME Alone, JobsInv, AloneInv, NEW w \in Workers, NEW j \in Jobs, Submit(w, j)
    PROVE  AloneInv' /\ [Life!Next]_(Life!vars)
<1>. USE DEF AloneInv
<1>1. CreateRow(j) \/ UNCHANGED rowVars
  BY DEF Submit, Statement
<1>2. status[j] = "absent" /\ UNCHANGED <<phase, cur, threads, reported>>
  BY DEF Submit
<1>3. DownIsIdle'
  BY DEF Submit, DownIsIdle, TypeOK
<1>4. ASSUME NEW v \in Workers
      PROVE  /\ pc'[v] \in Executing => pc[v] \in Executing
             /\ pc'[v] = "claim" => pc[v] = "claim"
  BY DEF Submit, TypeOK, Executing
<1>5. CASE UNCHANGED rowVars
  <2>1. AloneOnTheTable'
    BY <1>2, <1>4, <1>5 DEF AloneOnTheTable, NextQueued, rowVars
  <2>. QED
    BY <1>2, <1>3, <1>5, <2>1, SameRowsInOrder DEF rowVars, Life!vars
<1>6. CASE CreateRow(j)
  <2>1. \A k \in Jobs : status[k] = "running" => status'[k] = "running"
    BY <1>2, <1>6 DEF CreateRow, TypeOK, Life!TypeOK
  <2>2. AloneOnTheTable'
    BY <1>2, <1>4, <1>6, <2>1, FirstStaysFirst DEF AloneOnTheTable, HoldsJob
  <2>3. RowsInOrder'
    BY <1>2, <1>6 DEF RowsInOrder, CreateRow, TypeOK, Life!TypeOK
  <2>4. Life!Submit(j)
    BY <1>2, <1>6 DEF CreateRow, Life!Submit
  <2>. QED
    BY <1>3, <2>2, <2>3, <2>4 DEF Life!Next
<1>. QED
  BY <1>1, <1>5, <1>6

\* What is claimed is still the first in line.
LEMMA ClaimAlone ==
    ASSUME Alone, JobsInv, AloneInv, NEW w \in Workers, Claim(w)
    PROVE  AloneInv' /\ [Life!Next]_(Life!vars)
<1>. USE DEF AloneInv
<1>. DEFINE j == cur[w]
<1>1. j \in Jobs /\ NextQueued(j) /\ status[j] = "queued" /\ Claimable(j)
  BY DEF Claim, HoldsJob, AloneOnTheTable, NextQueued, Claimable
<1>2. PICK r \in Replies :
         /\ Statement(r, ClaimRow(j))
         /\ IF r = "ok" /\ Claimable(j)
            THEN /\ Goto(w, "run")
                 /\ reported' = [reported EXCEPT ![j] = 0]
                 /\ UNCHANGED cur
            ELSE /\ Goto(w, IF r = "ok" THEN "poll" ELSE "sleep")
                 /\ cur' = [cur EXCEPT ![w] = NoJob]
                 /\ UNCHANGED reported
  BY DEF Claim
<1>3. UNCHANGED <<phase, threads>> /\ DownIsIdle'
  BY DEF Claim, Goto, DownIsIdle, TypeOK
<1>4. \A v \in Workers : v # w => pc[v] = "off" /\ pc'[v] = "off"
  <2>1. phase[w] # "down"
    BY ExecutesUp DEF Claim
  <2>2. \A v \in Workers : v # w => pc[v] = "off"
    BY <2>1 DEF AloneOnTheTable, DownIsIdle
  <2>. QED
    BY <1>2, <2>2 DEF Goto, TypeOK
<1>5. CASE r = "ok" /\ ClaimRow(j)
  <2>1. /\ status' = [status EXCEPT ![j] = "running"]
        /\ UNCHANGED <<submittedAt, errorCode, hasResult, progress, clock>>
        /\ pc'[w] = "run" /\ cur' = cur /\ reported' = [reported EXCEPT ![j] = 0]
    BY <1>1, <1>2, <1>5 DEF ClaimRow, Goto, TypeOK
  <2>2. AloneOnTheTable'
    BY <1>1, <1>3, <1>4, <2>1 DEF AloneOnTheTable, Executing, TypeOK, Life!TypeOK
  <2>3. RowsInOrder'
    BY <1>1, <2>1 DEF RowsInOrder, TypeOK, Life!TypeOK
  <2>4. Life!Start(j)
    BY <1>1, <2>1 DEF Life!Start, Life!FirstInLine, NextQueued
  <2>. QED
    BY <1>1, <1>3, <2>2, <2>3, <2>4 DEF Life!Next
<1>6. CASE r = "lost" /\ UNCHANGED rowVars
  <2>1. pc'[w] = "sleep" /\ UNCHANGED reported
    BY <1>2, <1>6 DEF Goto, TypeOK
  <2>2. AloneOnTheTable'
    BY <1>3, <1>4, <2>1 DEF AloneOnTheTable, Executing
  <2>. QED
    BY <1>3, <1>6, <2>1, <2>2, SameRowsInOrder DEF rowVars, Life!vars
<1>. QED
  BY <1>2, <1>5, <1>6, AloneCalls DEF Statement

\* A report counts one step more than the last, also from a thread nobody awaits.
LEMMA ReportAlone ==
    ASSUME JobsInv, AloneInv, NEW w \in Workers, NEW j \in Jobs, ReportProgress(w, j)
    PROVE  AloneInv' /\ [Life!Next]_(Life!vars)
<1>. USE DEF AloneInv
<1>. DEFINE n == reported[j] + 1
<1>1. n \in 0..MaxSteps /\ reported' = [reported EXCEPT ![j] = n]
  BY StepsAssumption DEF ReportProgress, TypeOK
<1>2. ProgressRow(j, n) \/ UNCHANGED rowVars
  BY DEF ReportProgress, Statement
<1>3. UNCHANGED <<status, submittedAt, errorCode, hasResult, clock, phase, pc, cur, threads>>
  BY <1>2 DEF ReportProgress, workerVars, ProgressRow, rowVars
<1>4. \/ UNCHANGED progress
      \/ status[j] = "running" /\ progress' = [progress EXCEPT ![j] = n]
  BY <1>2 DEF ProgressRow, rowVars
<1>5. DownIsIdle' /\ AloneOnTheTable'
  BY <1>3 DEF DownIsIdle, AloneOnTheTable, NextQueued
<1>6. RowsInOrder'
  BY <1>1, <1>3, <1>4 DEF RowsInOrder, TypeOK, Life!TypeOK
<1>7. [Life!Next]_(Life!vars)
  <2>1. CASE UNCHANGED progress
    BY <1>3, <2>1 DEF Life!vars
  <2>2. CASE status[j] = "running" /\ progress' = [progress EXCEPT ![j] = n]
    <3>1. n >= progress[j]
      BY <1>1, <2>2 DEF RowsInOrder, TypeOK, Life!TypeOK
    <3>2. Life!Report(j, n)
      BY <1>3, <2>2, <3>1 DEF Life!Report
    <3>. QED
      BY <1>1, <3>2 DEF Life!Next
  <2>. QED
    BY <1>4, <2>1, <2>2
<1>. QED
  BY <1>5, <1>6, <1>7

\* The outcome is stored in a running row, once.
LEMMA CloseAlone ==
    ASSUME Alone, JobsInv, AloneInv, NEW w \in Workers,
           Complete(w) \/ FailResult(w) \/ Fail(w)
    PROVE  AloneInv' /\ [Life!Next]_(Life!vars)
<1>. USE DEF AloneInv
<1>. DEFINE j == cur[w]
             n == reported[j]
<1>1. /\ j \in Jobs /\ n \in 0..MaxSteps /\ pc[w] \in Executing /\ status[j] = "running"
      /\ pc[w] # "off"
  BY DEF Complete, FailResult, Fail, HoldsJob, Executing, AloneOnTheTable, TypeOK
<1>2. UNCHANGED <<phase, threads, reported>> /\ DownIsIdle'
  BY DEF Complete, FailResult, Fail, EndIteration, CatchInTry, Goto, DownIsIdle, TypeOK
<1>3. \A v \in Workers : v # w => pc[v] = "off" /\ pc'[v] = "off"
  <2>1. \A v \in Workers : v # w => pc[v] = "off"
    BY <1>1, ExecutesUp DEF AloneOnTheTable, DownIsIdle
  <2>. QED
    BY <2>1 DEF Complete, FailResult, Fail, EndIteration, CatchInTry, Goto, TypeOK
<1>4. \/ /\ UNCHANGED rowVars
         /\ \/ pc'[w] = "fail" /\ UNCHANGED cur
            \/ pc'[w] \in {"poll", "sleep"}
      \/ /\ CompleteRow(j, n) \/ (FailRow(j, outcome[w]) /\ pc[w] \in {"failResult", "fail"})
         /\ pc'[w] \in {"poll", "sleep"}
  <2>1. CASE Complete(w)
    BY <2>1, AloneCalls DEF Complete, Statement, EndIteration, CatchInTry, Goto, TypeOK
  <2>2. CASE FailResult(w)
    BY <2>2, AloneCalls DEF FailResult, Statement, EndIteration, CatchInTry, Goto, TypeOK
  <2>3. CASE Fail(w)
    BY <2>3, AloneCalls DEF Fail, Statement, EndIteration, Goto, TypeOK
  <2>. QED
    BY <2>1, <2>2, <2>3
<1>5. CASE UNCHANGED rowVars
  <2>1. \/ pc'[w] = "fail" /\ cur'[w] = j
        \/ pc'[w] \notin Executing \cup {"claim"}
    BY <1>4, <1>5, <1>1 DEF Executing, CompleteRow, FailRow
  <2>2. AloneOnTheTable'
    BY <1>1, <1>2, <1>3, <1>5, <2>1 DEF AloneOnTheTable, rowVars, Executing
  <2>. QED
    BY <1>2, <1>5, <2>2, SameRowsInOrder DEF rowVars, Life!vars
<1>6. CASE CompleteRow(j, n) /\ pc'[w] \in {"poll", "sleep"}
  <2>1. AloneOnTheTable'
    BY <1>2, <1>3, <1>6 DEF AloneOnTheTable, Executing
  <2>2. RowsInOrder'
    BY <1>1, <1>2, <1>6 DEF RowsInOrder, CompleteRow, TypeOK, Life!TypeOK
  <2>3. n >= progress[j]
    BY <1>1 DEF RowsInOrder, TypeOK, Life!TypeOK
  <2>4. errorCode' = errorCode
    <3>1. errorCode[j] = Life!NoCode
      BY <1>1 DEF RowsAgree, Life!Open
    <3>. QED
      BY <1>1, <1>6, <3>1 DEF CompleteRow, TypeOK, Life!TypeOK
  <2>5. Life!Succeed(j, n)
    BY <1>1, <1>6, <2>3, <2>4 DEF CompleteRow, Life!Succeed
  <2>. QED
    BY <1>1, <1>2, <2>1, <2>2, <2>5 DEF Life!Next
<1>7. CASE /\ FailRow(j, outcome[w]) /\ pc[w] \in {"failResult", "fail"}
           /\ pc'[w] \in {"poll", "sleep"}
  <2>1. AloneOnTheTable'
    BY <1>2, <1>3, <1>7 DEF AloneOnTheTable, Executing
  <2>2. RowsInOrder'
    BY <1>1, <1>2, <1>7 DEF RowsInOrder, FailRow, TypeOK, Life!TypeOK
  <2>3. outcome[w] \in Life!ErrorCodes
    BY <1>7 DEF HoldsOutcome
  <2>4. Life!Fail(j, outcome[w])
    BY <1>1, <1>7 DEF FailRow, Life!Fail
  <2>. QED
    BY <1>1, <1>2, <2>1, <2>2, <2>3, <2>4 DEF Life!Next
<1>. QED
  BY <1>4, <1>5, <1>6, <1>7

LEMMA NextAlone ==
    ASSUME Alone, JobsInv, AloneInv, [Next]_vars
    PROVE  AloneInv' /\ [Life!Next]_(Life!vars)
<1>1. CASE UNCHANGED vars
  BY <1>1 DEF vars, rowVars, workerVars, AloneInv, DownIsIdle, AloneOnTheTable, NextQueued,
     RowsInOrder, Life!vars
<1>2. CASE Next
  BY <1>2, BootAlone, QuietAlone, SubmitAlone, ClaimAlone, ReportAlone, CloseAlone
     DEF Next, LoopStep, FinishStop, Crash
<1>. QED
  BY <1>1, <1>2

LEMMA InitAlone == Init => AloneInv /\ Life!Init
  BY DEF Init, AloneInv, DownIsIdle, AloneOnTheTable, NextQueued, RowsInOrder, Life!Init,
     Executing

\* A process that has the table to itself, and whose failing calls did not commit,
\* keeps the promise of JobLifecycle whatever else happens to it: lost calls, crashes
\* and restarts, timeouts, threads that outlive them, cancelled workflows.
THEOREM WorkerKeepsLifecycle ==
    ASSUME Alone
    PROVE  Spec => LifecycleKept
<1>1. JobsInv /\ AloneInv /\ [Next]_vars => AloneInv' /\ [Life!Next]_(Life!vars)
  BY NextAlone
<1>. QED
  BY <1>1, InitAlone, JobsInvariant, PTL DEF Spec, LifecycleKept, Life!Spec
-----------------------------------------------------------------------------
(* Nothing is forgotten while no call fails *)

\* A step after which every running row ran before and every execution of one goes
\* on leaves the running rows owned.
LEMMA OwnedStaysOwned ==
    ASSUME RunningIsOwned, UNCHANGED phase,
           \A j \in Jobs : status'[j] = "running" => status[j] = "running",
           \A w \in Workers, j \in Jobs :
              status'[j] = "running" /\ pc[w] \in Executing /\ cur[w] = j =>
                 pc'[w] \in Executing /\ cur'[w] = j
    PROVE  RunningIsOwned'
  BY DEF RunningIsOwned

\* Every step of a process that is alone, calls that do not fail and workflows that
\* are not cancelled leave no running row behind.
LEMMA NextOwned ==
    ASSUME Alone, FaultKinds = {}, ~MayCancel, JobsInv, AloneInv, RunningIsOwned,
           [Next]_vars
    PROVE  RunningIsOwned'
<1>1. \A r \in Replies : Reply(r) => r = "ok" /\ Writes(r)
  BY DEF Replies, Reply, Writes
<1>2. CASE UNCHANGED vars
  BY <1>2 DEF vars, rowVars, workerVars, RunningIsOwned
<1>3. ASSUME NEW w \in Workers, Boot(w)
      PROVE  RunningIsOwned'
  <2>1. FailIncompleteRows
    BY <1>1, <1>3 DEF Boot, Statement
  <2>. QED
    BY <2>1 DEF FailIncompleteRows, Incomplete, RunningIsOwned
<1>4. ASSUME NEW w \in Workers, RequestStop(w)
      PROVE  RunningIsOwned'
  BY <1>4 DEF RequestStop, RunningIsOwned, rowVars, TypeOK
<1>5. ASSUME NEW w \in Workers, FinishStop(w) \/ Crash(w)
      PROVE  RunningIsOwned'
  <2>1. \A v \in Workers : phase[v] # "down" => v = w
    BY <1>5 DEF FinishStop, Crash, AloneInv, AloneOnTheTable
  <2>. QED
    BY <1>5, <2>1 DEF FinishStop, Crash, ProcessGone, RunningIsOwned, TypeOK
<1>6. ASSUME NEW w \in Workers, NEW j \in Jobs, Submit(w, j)
      PROVE  RunningIsOwned'
  <2>1. CreateRow(j) /\ status[j] = "absent" /\ UNCHANGED <<phase, cur>>
    BY <1>1, <1>6 DEF Submit, Statement
  <2>2. \A v \in Workers : pc[v] \in Executing => pc'[v] = pc[v]
    BY <1>6 DEF Submit, Executing, TypeOK
  <2>3. \A k \in Jobs : status'[k] = "running" => status[k] = "running"
    BY <2>1 DEF CreateRow, TypeOK, Life!TypeOK
  <2>. QED
    BY <2>1, <2>2, <2>3, OwnedStaysOwned
<1>7. ASSUME NEW w \in Workers, NEW j \in Jobs, ReportProgress(w, j) \/ ZombieEnds(w, j)
      PROVE  RunningIsOwned'
  <2>1. UNCHANGED <<status, phase, pc, cur>>
    BY <1>7 DEF ReportProgress, ZombieEnds, Statement, ProgressRow, rowVars, workerVars
  <2>. QED
    BY <2>1 DEF RunningIsOwned
<1>8. ASSUME NEW w \in Workers,
             \/ LeaveLoop(w) \/ Poll(w) \/ ClearWake(w) \/ Woken(w) \/ PollTimeout(w)
             \/ WakeFromSleep(w) \/ StartThread(w) \/ ThreadAnswers(w) \/ JobTimeout(w)
      PROVE  RunningIsOwned'
  <2>1. UNCHANGED <<rowVars, phase>>
    BY <1>8 DEF LeaveLoop, Poll, ClearWake, Woken, PollTimeout, WakeFromSleep, StartThread,
       ThreadAnswers, JobTimeout
  <2>2. \A v \in Workers : pc[v] \in Executing => pc'[v] \in Executing /\ cur'[v] = cur[v]
    BY <1>8 DEF LeaveLoop, Poll, ClearWake, Woken, PollTimeout, WakeFromSleep, StartThread,
       ThreadAnswers, JobTimeout, Goto, Executing, TypeOK
  <2>. QED
    BY <2>1, <2>2, OwnedStaysOwned DEF rowVars
<1>9. ASSUME NEW w \in Workers, Claim(w)
      PROVE  RunningIsOwned'
  <2>1. cur[w] \in Jobs /\ Claimable(cur[w])
    BY <1>9 DEF Claim, HoldsJob, AloneInv, AloneOnTheTable, NextQueued, Claimable
  <2>2. /\ status' = [status EXCEPT ![cur[w]] = "running"]
        /\ pc' = [pc EXCEPT ![w] = "run"] /\ UNCHANGED <<phase, cur>>
    BY <1>1, <1>9, <2>1 DEF Claim, Statement, ClaimRow, Goto
  <2>3. \A v \in Workers : pc[v] \in Executing => v # w
    BY <1>9 DEF Claim, Executing
  <2>. QED
    BY <2>1, <2>2, <2>3 DEF RunningIsOwned, Executing, TypeOK, Life!TypeOK
<1>10. ASSUME NEW w \in Workers, Complete(w) \/ FailResult(w) \/ Fail(w)
       PROVE  RunningIsOwned'
  <2>1. cur[w] \in Jobs
    BY <1>10 DEF Complete, FailResult, Fail, HoldsJob, Executing
  <2>2. \/ UNCHANGED rowVars /\ pc'[w] = "fail" /\ cur' = cur
        \/ CompleteRow(cur[w], reported[cur[w]]) \/ FailRow(cur[w], outcome[w])
    BY <1>1, <1>10 DEF Complete, FailResult, Fail, Statement, CatchInTry, Goto, TypeOK
  <2>3. /\ UNCHANGED phase
        /\ \A v \in Workers : v # w => pc'[v] = pc[v] /\ cur'[v] = cur[v]
    BY <1>10 DEF Complete, FailResult, Fail, EndIteration, CatchInTry, Goto, TypeOK
  <2>4. \A k \in Jobs :
           status'[k] = "running" =>
              /\ status[k] = "running"
              /\ k # cur[w] \/ (pc'[w] = "fail" /\ cur' = cur)
    BY <2>1, <2>2 DEF CompleteRow, FailRow, rowVars, TypeOK, Life!TypeOK
  <2>. QED
    BY <2>3, <2>4, OwnedStaysOwned DEF Executing
<1>. QED
  BY <1>2, <1>3, <1>4, <1>5, <1>6, <1>7, <1>8, <1>9, <1>10 DEF Next, LoopStep

\* While a process is alive that has the table to itself, no call fails and no
\* workflow is cancelled, a running row is the job its loop executes.
THEOREM RunningIsAlwaysOwned ==
    ASSUME Alone, FaultKinds = {}, ~MayCancel
    PROVE  Spec => []RunningIsOwned
<1>1. Init => RunningIsOwned
  BY DEF Init, Life!Init, RunningIsOwned
<1>2. JobsInv /\ AloneInv /\ [Next]_vars => AloneInv'
  BY NextAlone
<1>3. JobsInv /\ AloneInv /\ RunningIsOwned /\ [Next]_vars => RunningIsOwned'
  BY NextOwned
<1>. QED
  BY <1>1, <1>2, <1>3, InitAlone, JobsInvariant, PTL DEF Spec
=============================================================================
