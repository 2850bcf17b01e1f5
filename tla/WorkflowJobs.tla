---------------------------- MODULE WorkflowJobs ----------------------------
(***************************************************************************)
(* The asynchronous job layer: WorkflowJobRunner (the background loop of   *)
(* the API process), the job service and the job repository over table     *)
(* workflow_jobs, and the lifespan of the process that owns the loop.      *)
(*                                                                         *)
(* A worker is one API process.  Its event loop runs _run_loop; every      *)
(* database call and every workflow runs in a thread of its default        *)
(* executor.  A workflow that outlives its timeout keeps its thread.       *)
(*                                                                         *)
(* Failures covered: a database call that raises before or after its       *)
(* transaction committed, a workflow that raises, times out, hangs or is   *)
(* cancelled, a process that crashes or stops at any point, two processes  *)
(* alive at once (AllowOverlap), an exhausted executor.                    *)
(* Not covered: loss of committed rows, clocks running backwards.          *)
(***************************************************************************)
EXTENDS Naturals, FiniteSets

CONSTANTS
    Jobs,          \* identities of the jobs that may be submitted
    MaxSteps,      \* bound on the steps a workflow reports
    Workers,       \* API processes that may own a runner
    NoJob,         \* "no job", not an element of Jobs
    PoolSize,      \* threads of the default executor of a process
    FaultKinds,    \* which database faults may happen
    MaxDbFaults,   \* bound on the number of database faults
    AllowOverlap,  \* may a process boot while another one is alive?
    MayCancel      \* may a workflow end with CancelledError?

ASSUME JobsAssumption     == NoJob \notin Jobs
ASSUME StepsAssumption    == MaxSteps \in Nat
ASSUME PoolAssumption     == PoolSize \in Nat \ {0}
ASSUME FaultsAssumption   == /\ FaultKinds \subseteq {"lost", "ambiguous"}
                             /\ MaxDbFaults \in Nat
ASSUME OverlapAssumption  == AllowOverlap \in BOOLEAN
ASSUME CancelAssumption   == MayCancel \in BOOLEAN

VARIABLES
    \* the rows of workflow_jobs
    status, submittedAt, errorCode, hasResult, progress,
    \* the wall clock (as a count of submissions) and the database faults so far
    clock, dbFaults,
    \* one process: its lifespan, its loop, its executor
    phase,     \* "down", "up" or "stopping" (_stop_requested)
    pc,        \* where _run_loop and _execute_job stand
    cur,       \* the local variable job of _run_loop
    outcome,   \* the error code the loop is about to store
    wake,      \* _wake_event.is_set()
    threads,   \* jobs whose workflow occupies a thread of the process
    reported   \* len(progress_steps) of a job's execution

rowVars    == <<status, submittedAt, errorCode, hasResult, progress, clock>>
workerVars == <<phase, pc, cur, outcome, wake, threads>>
vars       == <<rowVars, workerVars, dbFaults, reported>>

Life == INSTANCE JobLifecycle

\* Positions of the loop: "off" no task was created, "poll" before the test of
\* the while, "empty" get_next returned None, "wait" in wait_for(wake), "claim"
\* a job was read, "run" _execute_job called, "running" its thread works,
\* "complete"/"failResult" storing the outcome of a finished workflow, "fail"
\* storing an error from an except clause, "sleep" backing off after an error,
\* "dead" the task ended by itself, "done" the while ended.
Positions == {"off", "poll", "empty", "wait", "claim", "run", "running",
              "complete", "failResult", "fail", "sleep", "dead", "done"}
Executing == {"run", "running", "complete", "failResult", "fail"}

TypeOK ==
    /\ Life!TypeOK
    /\ dbFaults \in 0..MaxDbFaults
    /\ phase \in [Workers -> {"down", "up", "stopping"}]
    /\ pc \in [Workers -> Positions]
    /\ cur \in [Workers -> Jobs \cup {NoJob}]
    /\ outcome \in [Workers -> Life!ErrorCodes \cup {Life!NoCode}]
    /\ wake \in [Workers -> BOOLEAN]
    /\ threads \in [Workers -> SUBSET Jobs]
    /\ reported \in [Jobs -> 0..MaxSteps]

Init ==
    /\ Life!Init
    /\ dbFaults = 0
    /\ phase = [w \in Workers |-> "down"]
    /\ pc = [w \in Workers |-> "off"]
    /\ cur = [w \in Workers |-> NoJob]
    /\ outcome = [w \in Workers |-> Life!NoCode]
    /\ wake = [w \in Workers |-> FALSE]
    /\ threads = [w \in Workers |-> {}]
    /\ reported = [j \in Jobs |-> 0]
-----------------------------------------------------------------------------
(* Database calls *)

\* How a call to the repository ends for its caller: it returns, it raises and
\* nothing was written, or it raises although its transaction committed.
Reply(r) ==
    \/ r = "ok" /\ UNCHANGED dbFaults
    \/ /\ r \in FaultKinds
       /\ dbFaults < MaxDbFaults
       /\ dbFaults' = dbFaults + 1
Replies   == {"ok", "lost", "ambiguous"}
Writes(r) == r # "lost"

\* A statement of the repository, run with a reply.
Statement(r, S) == Reply(r) /\ IF Writes(r) THEN S ELSE UNCHANGED rowVars

\* INSERT of a queued row.
CreateRow(j) ==
    /\ clock' = clock + 1
    /\ submittedAt' = [submittedAt EXCEPT ![j] = clock + 1]
    /\ status' = [status EXCEPT ![j] = "queued"]
    /\ UNCHANGED <<errorCode, hasResult, progress>>

\* SELECT ... WHERE status = 'queued' ORDER BY submitted_at LIMIT 1.
NextQueued(j) ==
    /\ status[j] = "queued"
    /\ \A k \in Jobs : status[k] = "queued" => submittedAt[j] <= submittedAt[k]

\* Variants that forget the condition of the UPDATE below, in part or as a whole.
ClaimableUnlessRunning(j) == status[j] # "running"
ClaimableAlways(j) == TRUE

\* UPDATE ... SET status = 'running' WHERE job_id = j AND status = 'queued';
\* its rowcount is what claim_workflow_job returns.
Claimable(j) == status[j] = "queued"
ClaimRow(j) ==
    /\ status' = IF Claimable(j) THEN [status EXCEPT ![j] = "running"] ELSE status
    /\ UNCHANGED <<submittedAt, errorCode, hasResult, progress, clock>>

\* Variants: a count that is ahead by one; an UPDATE without status = 'running'.
ProgressRowAheadByOne(j, n) ==
    /\ progress' = IF status[j] = "running" THEN [progress EXCEPT ![j] = n + 1]
                                            ELSE progress
    /\ UNCHANGED <<status, submittedAt, errorCode, hasResult, clock>>
ProgressRowUnguarded(j, n) ==
    /\ progress' = [progress EXCEPT ![j] = n]
    /\ UNCHANGED <<status, submittedAt, errorCode, hasResult, clock>>

\* UPDATE ... SET step_summary_json WHERE job_id = j AND status = 'running'.
ProgressRow(j, n) ==
    /\ progress' = IF status[j] = "running" THEN [progress EXCEPT ![j] = n]
                                            ELSE progress
    /\ UNCHANGED <<status, submittedAt, errorCode, hasResult, clock>>

\* Variant: the error of an earlier failure is not cleared.
CompleteRowKeepingCode(j, n) ==
    /\ status' = [status EXCEPT ![j] = "succeeded"]
    /\ hasResult' = [hasResult EXCEPT ![j] = TRUE]
    /\ progress' = [progress EXCEPT ![j] = n]
    /\ UNCHANGED <<submittedAt, errorCode, clock>>

\* UPDATE ... WHERE job_id = j: no condition on the status.
CompleteRow(j, n) ==
    /\ status' = [status EXCEPT ![j] = "succeeded"]
    /\ hasResult' = [hasResult EXCEPT ![j] = TRUE]
    /\ progress' = [progress EXCEPT ![j] = n]
    /\ errorCode' = [errorCode EXCEPT ![j] = Life!NoCode]
    /\ UNCHANGED <<submittedAt, clock>>

\* UPDATE ... WHERE job_id = j: no condition on the status, result_json kept.
FailRow(j, code) ==
    /\ status' = [status EXCEPT ![j] = "failed"]
    /\ errorCode' = [errorCode EXCEPT ![j] = code]
    /\ UNCHANGED <<submittedAt, hasResult, progress, clock>>

\* Variant of the clean-up: only queued rows.
IncompleteQueuedOnly(j) == status[j] = "queued"

\* UPDATE ... WHERE status IN ('queued', 'running') AND finished_at IS NULL
\* (finished_at is set exactly when the status becomes terminal).
Incomplete(j) == status[j] \in {"queued", "running"}
FailIncompleteRows ==
    /\ status' = [j \in Jobs |-> IF Incomplete(j) THEN "failed" ELSE status[j]]
    /\ errorCode' = [j \in Jobs |-> IF Incomplete(j) THEN "WORKER_RESTARTED"
                                                     ELSE errorCode[j]]
    /\ UNCHANGED <<submittedAt, hasResult, progress, clock>>
-----------------------------------------------------------------------------
(* Lifespan of the process *)

\* start(), called before the process serves requests: fail what an earlier
\* process left open, create the loop, set the wake event.  If the statement
\* raises, startup fails and the process is gone again.
Boot(w) ==
    /\ phase[w] = "down"
    /\ AllowOverlap \/ \A v \in Workers : phase[v] = "down"
    /\ \E r \in Replies :
          /\ Statement(r, FailIncompleteRows)
          /\ IF r = "ok"
             THEN /\ phase' = [phase EXCEPT ![w] = "up"]
                  /\ pc' = [pc EXCEPT ![w] = "poll"]
                  /\ wake' = [wake EXCEPT ![w] = TRUE]
             ELSE UNCHANGED <<phase, pc, wake>>
    /\ UNCHANGED <<cur, outcome, threads, reported>>

\* stop(): the flag and the event; the loop is then awaited.
RequestStop(w) ==
    /\ phase[w] = "up"
    /\ phase' = [phase EXCEPT ![w] = "stopping"]
    /\ wake' = [wake EXCEPT ![w] = TRUE]
    /\ UNCHANGED <<rowVars, pc, cur, outcome, threads, dbFaults, reported>>

\* The process is gone: all its volatile state is.
ProcessGone(w) ==
    /\ phase' = [phase EXCEPT ![w] = "down"]
    /\ pc' = [pc EXCEPT ![w] = "off"]
    /\ cur' = [cur EXCEPT ![w] = NoJob]
    /\ outcome' = [outcome EXCEPT ![w] = Life!NoCode]
    /\ wake' = [wake EXCEPT ![w] = FALSE]
    /\ threads' = [threads EXCEPT ![w] = {}]
    /\ UNCHANGED <<rowVars, dbFaults, reported>>

\* stop() returns once the loop ended; the interpreter then joins the threads
\* of the executor before it exits.
FinishStop(w) ==
    /\ phase[w] = "stopping"
    /\ pc[w] \in {"done", "dead"}
    /\ threads[w] = {}
    /\ ProcessGone(w)

Crash(w) == phase[w] # "down" /\ ProcessGone(w)

\* POST /jobs on the event loop: INSERT, then notify_job_submitted, with no
\* await in between.  A dead loop is created anew by the notification.
Submit(w, j) ==
    /\ phase[w] = "up"
    /\ status[j] = "absent"
    /\ \E r \in Replies :
          /\ Statement(r, CreateRow(j))
          /\ IF r = "ok"
             THEN /\ wake' = [wake EXCEPT ![w] = TRUE]
                  /\ pc' = [pc EXCEPT ![w] = IF @ = "dead" THEN "poll" ELSE @]
             ELSE UNCHANGED <<wake, pc>>
    /\ UNCHANGED <<phase, cur, outcome, threads, reported>>
-----------------------------------------------------------------------------
(* The loop *)

\* asyncio.to_thread starts only when the executor has a free thread.
ThreadFree(w) == Cardinality(threads[w]) < PoolSize

Goto(w, p) == pc' = [pc EXCEPT ![w] = p]

\* while not self._stop_requested
LeaveLoop(w) ==
    /\ pc[w] = "poll" /\ phase[w] = "stopping"
    /\ Goto(w, "done")
    /\ UNCHANGED <<rowVars, phase, cur, outcome, wake, threads, dbFaults, reported>>

\* get_next_queued_workflow_job in a thread: a job, None, or an exception.
Poll(w) ==
    /\ pc[w] = "poll" /\ phase[w] = "up"
    /\ ThreadFree(w)
    /\ \/ \E j \in Jobs :
             /\ NextQueued(j)
             /\ Reply("ok")
             /\ cur' = [cur EXCEPT ![w] = j]
             /\ Goto(w, "claim")
       \/ /\ \A j \in Jobs : status[j] # "queued"
          /\ Reply("ok")
          /\ Goto(w, "empty")
          /\ UNCHANGED cur
       \/ /\ Reply("lost")
          /\ Goto(w, "sleep")
          /\ UNCHANGED cur
    /\ UNCHANGED <<rowVars, phase, outcome, wake, threads, reported>>

\* Back on the event loop with None: _wake_event.clear(), then wait for it.  A
\* notification between the SELECT and the clear is lost.
ClearWake(w) ==
    /\ pc[w] = "empty"
    /\ wake' = [wake EXCEPT ![w] = FALSE]
    /\ Goto(w, "wait")
    /\ UNCHANGED <<rowVars, phase, cur, outcome, threads, dbFaults, reported>>

Woken(w) ==
    /\ pc[w] = "wait" /\ wake[w]
    /\ Goto(w, "poll")
    /\ UNCHANGED <<rowVars, phase, cur, outcome, wake, threads, dbFaults, reported>>

\* Variant: wait for the event without a timeout.
PollTimeoutNever(w) == FALSE

\* wait_for raises TimeoutError after poll_interval_seconds.
PollTimeout(w) ==
    /\ pc[w] = "wait"
    /\ Goto(w, "poll")
    /\ UNCHANGED <<rowVars, phase, cur, outcome, wake, threads, dbFaults, reported>>

\* asyncio.sleep(poll_interval_seconds) after a failed poll or iteration.
WakeFromSleep(w) ==
    /\ pc[w] = "sleep"
    /\ Goto(w, "poll")
    /\ UNCHANGED <<rowVars, phase, cur, outcome, wake, threads, dbFaults, reported>>

\* claim_workflow_job: go on only if this process moved the row to running.
Claim(w) ==
    /\ pc[w] = "claim"
    /\ ThreadFree(w)
    /\ LET j == cur[w] IN
       \E r \in Replies :
          /\ Statement(r, ClaimRow(j))
          /\ IF r = "ok" /\ Claimable(j)
             THEN /\ Goto(w, "run")
                  /\ reported' = [reported EXCEPT ![j] = 0]
                  /\ UNCHANGED cur
             ELSE /\ Goto(w, IF r = "ok" THEN "poll" ELSE "sleep")
                  /\ cur' = [cur EXCEPT ![w] = NoJob]
                  /\ UNCHANGED reported
    /\ UNCHANGED <<phase, outcome, wake, threads>>

\* to_thread(run_credit_workflow_in_background).
StartThread(w) ==
    /\ pc[w] = "run"
    /\ ThreadFree(w)
    /\ threads' = [threads EXCEPT ![w] = @ \cup {cur[w]}]
    /\ Goto(w, "running")
    /\ UNCHANGED <<rowVars, phase, cur, outcome, wake, dbFaults, reported>>

\* progress_callback, called in the workflow's thread, also by one that outlived
\* its timeout.  The workflow swallows what the callback raises.
ReportProgress(w, j) ==
    /\ j \in threads[w]
    /\ reported[j] < MaxSteps
    /\ reported' = [reported EXCEPT ![j] = @ + 1]
    /\ \E r \in Replies : Statement(r, ProgressRow(j, reported[j] + 1))
    /\ UNCHANGED workerVars

\* The workflow the loop waits for ends: with a result to publish, with a
\* result of status "failed" (blocked by the validation gate, or all steps
\* failed), with an exception (a TimeoutError counts as the timeout), or with
\* CancelledError, which no except clause of the loop catches.
ThreadAnswers(w) ==
    /\ pc[w] = "running"
    /\ threads' = [threads EXCEPT ![w] = @ \ {cur[w]}]
    /\ \/ /\ Goto(w, "complete")
          /\ UNCHANGED <<cur, outcome>>
       \/ /\ Goto(w, "failResult")
          /\ \E code \in {"VALIDATION_FAILED", "AGENT_EXECUTION_FAILED"} :
                outcome' = [outcome EXCEPT ![w] = code]
          /\ UNCHANGED cur
       \/ /\ Goto(w, "fail")
          /\ \E code \in {"AGENT_EXECUTION_FAILED", "AGENT_TIMEOUT"} :
                outcome' = [outcome EXCEPT ![w] = code]
          /\ UNCHANGED cur
       \/ /\ MayCancel
          /\ Goto(w, "dead")
          /\ cur' = [cur EXCEPT ![w] = NoJob]
          /\ UNCHANGED outcome
    /\ UNCHANGED <<rowVars, phase, wake, dbFaults, reported>>

\* A thread nobody waits for any more ends; its result is dropped.
ZombieEnds(w, j) ==
    /\ j \in threads[w]
    /\ ~(pc[w] = "running" /\ cur[w] = j)
    /\ threads' = [threads EXCEPT ![w] = @ \ {j}]
    /\ UNCHANGED <<rowVars, phase, pc, cur, outcome, wake, dbFaults, reported>>

\* Variant: a timeout is only recorded, as the errors of the loop are.
JobTimeoutUnstored(w) ==
    /\ pc[w] \in {"run", "running"}
    /\ Goto(w, "sleep")
    /\ cur' = [cur EXCEPT ![w] = NoJob]
    /\ UNCHANGED <<rowVars, phase, outcome, wake, threads, dbFaults, reported>>

\* wait_for(..., job_timeout_seconds) gives up.  A thread already started goes
\* on; one still queued in the executor is cancelled.
JobTimeout(w) ==
    /\ pc[w] \in {"run", "running"}
    /\ Goto(w, "fail")
    /\ outcome' = [outcome EXCEPT ![w] = "AGENT_TIMEOUT"]
    /\ UNCHANGED <<rowVars, phase, cur, wake, threads, dbFaults, reported>>

\* The iteration is over: _current_job = None.
EndIteration(w, p) ==
    /\ Goto(w, p)
    /\ cur' = [cur EXCEPT ![w] = NoJob]
    /\ outcome' = [outcome EXCEPT ![w] = Life!NoCode]

\* An exception inside the try of _execute_job: its except clause stores
\* AGENT_EXECUTION_FAILED.
CatchInTry(w) ==
    /\ Goto(w, "fail")
    /\ outcome' = [outcome EXCEPT ![w] = "AGENT_EXECUTION_FAILED"]
    /\ UNCHANGED cur

\* complete_workflow_job: building the response may raise before any statement.
Complete(w) ==
    /\ pc[w] = "complete"
    /\ ThreadFree(w)
    /\ \/ \E r \in Replies :
             /\ Statement(r, CompleteRow(cur[w], reported[cur[w]]))
             /\ IF r = "ok" THEN EndIteration(w, "poll") ELSE CatchInTry(w)
       \/ /\ CatchInTry(w)
          /\ UNCHANGED <<rowVars, dbFaults>>
    /\ UNCHANGED <<phase, wake, threads, reported>>

\* fail_workflow_job for a result of status "failed", inside the try.
FailResult(w) ==
    /\ pc[w] = "failResult"
    /\ ThreadFree(w)
    /\ \E r \in Replies :
          /\ Statement(r, FailRow(cur[w], outcome[w]))
          /\ IF r = "ok" THEN EndIteration(w, "poll") ELSE CatchInTry(w)
    /\ UNCHANGED <<phase, wake, threads, reported>>

\* Variant: the except clause of the timeout does not return.
FailWithoutReturn(w) ==
    /\ pc[w] = "fail"
    /\ ThreadFree(w)
    /\ \E r \in Replies :
          /\ Statement(r, FailRow(cur[w], outcome[w]))
          /\ IF r = "ok" THEN Goto(w, "complete") /\ UNCHANGED <<cur, outcome>>
                         ELSE EndIteration(w, "sleep")
    /\ UNCHANGED <<phase, wake, threads, reported>>

\* fail_workflow_job from an except clause: an exception here leaves
\* _execute_job, and _run_loop only records it and sleeps.
Fail(w) ==
    /\ pc[w] = "fail"
    /\ ThreadFree(w)
    /\ \E r \in Replies :
          /\ Statement(r, FailRow(cur[w], outcome[w]))
          /\ EndIteration(w, IF r = "ok" THEN "poll" ELSE "sleep")
    /\ UNCHANGED <<phase, wake, threads, reported>>
-----------------------------------------------------------------------------
LoopStep(w) ==
    \/ LeaveLoop(w) \/ Poll(w) \/ ClearWake(w) \/ Woken(w) \/ PollTimeout(w)
    \/ WakeFromSleep(w) \/ Claim(w) \/ StartThread(w)
    \/ Complete(w) \/ FailResult(w) \/ Fail(w)

Next ==
    \E w \in Workers :
       \/ Boot(w) \/ RequestStop(w) \/ FinishStop(w) \/ Crash(w)
       \/ LoopStep(w) \/ ThreadAnswers(w) \/ JobTimeout(w)
       \/ \E j \in Jobs : Submit(w, j) \/ ReportProgress(w, j) \/ ZombieEnds(w, j)

Spec == Init /\ [][Next]_vars
-----------------------------------------------------------------------------
(* Fairness: the event loop runs every ready callback and every timer fires;  *)
(* the threads of the executor get to run and, their network calls having     *)
(* timeouts, end; the operator starts the server again when none is alive.    *)
(* Nothing obliges anyone to submit, to stop or to crash.                     *)
Fairness ==
    /\ \A w \in Workers :
          /\ WF_vars(LoopStep(w))
          /\ WF_vars(ThreadAnswers(w) \/ JobTimeout(w))
          /\ WF_vars(FinishStop(w))
          /\ \A j \in Jobs : WF_vars(ZombieEnds(w, j))
    /\ WF_vars(\E w \in Workers : Boot(w))

FairSpec == Spec /\ Fairness
-----------------------------------------------------------------------------
(* Safety *)

\* The columns of a row agree with its status: a succeeded job has a result and
\* no error, a failed one names its error, an open one has neither.  It is what
\* lets GET /result and the public message trust the status alone, although
\* complete and fail overwrite each other's columns without looking.
RowsAgree ==
    \A j \in Jobs :
       /\ status[j] = "succeeded" => hasResult[j] /\ errorCode[j] = Life!NoCode
       /\ status[j] = "failed" => errorCode[j] # Life!NoCode
       /\ status[j] \in Life!Open \cup {"absent"} =>
             ~hasResult[j] /\ errorCode[j] = Life!NoCode

\* The jobs a process is working on: the one its loop executes and those whose
\* thread is still alive.
WorkingOn(w) ==
    threads[w] \cup (IF pc[w] \in Executing THEN {cur[w]} ELSE {})

\* A job is worked on by one process only, even while two processes poll the
\* same table: the claim decides, not the SELECT.
SingleExecutor ==
    \A v, w \in Workers : v # w => WorkingOn(v) \cap WorkingOn(w) = {}

\* While a process is alive and no call fails, a row that says running is the
\* job the loop executes right now: at most one, and never a forgotten one.
RunningIsOwned ==
    \A j \in Jobs :
       status[j] = "running" =>
          \/ \A w \in Workers : phase[w] = "down"
          \/ \E w \in Workers : pc[w] \in Executing /\ cur[w] = j

\* A closed job is never open again, whatever fails and however many processes
\* there are: a zombie's progress, a late claim or a restart cannot reopen it.
ClosedStaysClosed ==
    [][\A j \in Jobs : status[j] \in Life!Terminal => status'[j] \in Life!Terminal]_vars

\* A job once failed never turns into a success: the answer that arrives after the
\* timeout, or after the failure was stored by a call that raised, is not published.
\* Only a job that a booting process gave up while the old process was still at it
\* may succeed after all.
FailedStaysFailed ==
    [][\A j \in Jobs :
          status[j] = "failed" =>
             \/ status'[j] = "failed"
             \/ AllowOverlap /\ errorCode[j] = "WORKER_RESTARTED"]_vars

\* The row moves as the documented lifecycle does, and a closed row is frozen.
LifecycleKept == Life!Spec
-----------------------------------------------------------------------------
(* The inductive invariant behind SingleExecutor and RowsAgree *)

\* From the SELECT to the end of the iteration the loop holds a job.
HoldsJob == \A w \in Workers : pc[w] \in Executing \cup {"claim"} => cur[w] \in Jobs

\* The loop knows which error it is about to store.
HoldsOutcome ==
    \A w \in Workers : pc[w] \in {"failResult", "fail"} => outcome[w] \in Life!ErrorCodes

\* Nobody works on a job whose row was not claimed.
WorkIsClaimed ==
    \A w \in Workers : \A j \in WorkingOn(w) : status[j] \notin {"absent", "queued"}

JobsInv == TypeOK /\ HoldsJob /\ HoldsOutcome /\ WorkIsClaimed /\ SingleExecutor /\ RowsAgree

(* What FailedStaysFailed needs on top of it *)

\* A process that is not alive is at nothing.
DownIsIdle == \A w \in Workers : phase[w] = "down" => pc[w] = "off" /\ threads[w] = {}

\* The job whose answer a loop may still publish is open, or was given up by a
\* process that booted meanwhile.
AwaitedIsOpen ==
    \A w \in Workers :
       pc[w] \in {"run", "running", "complete"} =>
          \/ status[cur[w]] = "running"
          \/ /\ status[cur[w]] = "failed" /\ errorCode[cur[w]] = "WORKER_RESTARTED"
             /\ AllowOverlap

(* What LifecycleKept and RunningIsOwned need, where they hold *)

\* One process at a time, whose failing calls did not commit.
Alone == ~AllowOverlap /\ FaultKinds \subseteq {"lost"}

\* The one process alive executes a running row and claims the first in line.
AloneOnTheTable ==
    /\ \A v, w \in Workers : phase[v] # "down" /\ phase[w] # "down" => v = w
    /\ \A w \in Workers :
          /\ pc[w] \in Executing => status[cur[w]] = "running"
          /\ pc[w] = "claim" => NextQueued(cur[w])

\* Ranks are given out in order, a row that was not claimed has no steps, and no
\* more steps are stored than were reported.
RowsInOrder ==
    \A j \in Jobs :
       /\ submittedAt[j] <= clock
       /\ status[j] \in {"absent", "queued"} => progress[j] = 0
       /\ status[j] = "running" => progress[j] <= reported[j]

AloneInv == DownIsIdle /\ AloneOnTheTable /\ RowsInOrder
-----------------------------------------------------------------------------
(* Liveness *)

\* Every accepted job is closed: by its workflow, by the timeout or by the next
\* start of the server, although wake-ups get lost between SELECT and clear,
\* hung workflows fill the executor, and the process may stop or crash.
EveryJobIsClosed ==
    \A j \in Jobs : status[j] = "queued" ~> status[j] \in Life!Terminal

\* A claimed job is closed, whatever becomes of the queue.
ClaimedJobIsClosed ==
    \A j \in Jobs : status[j] = "running" ~> status[j] \in Life!Terminal

\* A requested stop ends the process: the loop notices the flag even if the
\* wake-up of stop() is the one that is lost.
StopCompletes == \A w \in Workers : phase[w] = "stopping" ~> phase[w] = "down"
=============================================================================
