-------------------------- MODULE FrontendSession --------------------------
(***************************************************************************)
(* One browser session of the Streamlit frontend, following its job on the *)
(* API of JobStream.  The script runs from the top after every interaction *)
(* and after st.rerun, dispatches on the page, and ends; what survives is  *)
(* st.session_state.  A page whose script has ended waits for the user.    *)
(*                                                                         *)
(* Requests take time: the job moves between a request and its answer, and *)
(* at most MaxFaults of them are lost.  The user may ask for another run   *)
(* while one is going on; Streamlit stops the script at its next access to *)
(* the session state.  Every entry is therefore assigned in a step of its  *)
(* own, and a run may end between any two of them.  Reloading the browser  *)
(* starts a new session.                                                   *)
(***************************************************************************)
EXTENDS JobStream

CONSTANTS
    Unknown,    \* jobs whose company the workflow does not find
    LogSize,    \* stream events the page keeps
    MaxFaults,  \* bound on lost requests and on interrupted runs
    MaxClicks,  \* bound on the reviews the user asks for
    NoJob       \* the absence of a job (None)

ASSUME SessionAssumption ==
    /\ Unknown \subseteq Jobs /\ NoJob \notin Jobs
    /\ LogSize \in Nat \ {0} /\ MaxFaults \in Nat /\ MaxClicks \in Nat

VARIABLES
    page,        \* "Search", "Loading" or "Report"
    submitting,  \* submitting_company_name is set
    pending,     \* pending_job_id
    shown,       \* last_result, as the job it belongs to
    notFound,    \* the company-not-found error is set
    log,         \* the stream events kept for the page
    step,        \* where the script is
    posted,      \* the job of a POST whose answer the script has not stored yet
    clicks,      \* reviews the user asked for in this and earlier sessions
    lost,        \* requests whose answer was lost
    interrupts   \* runs the user cut off

sessionVars == <<page, submitting, pending, shown, notFound, log, step, posted,
                 clicks, lost, interrupts>>
allVars     == <<streamVars, sessionVars>>

\* The last four rows are places between the assignments of one handler: what the
\* run has still to do before it ends or starts over.
Steps == {"top", "idle", "posting", "streaming", "reading", "polling", "fetching",
          "posted",
          "starting", "entering",
          "failing", "failed", "storing", "stored", "leaving",
          "dropping", "dropped", "reporting",
          "returning", "returned", "closing", "closed"}

SessionTypeOK ==
    /\ page \in {"Search", "Loading", "Report"}
    /\ submitting \in BOOLEAN /\ notFound \in BOOLEAN
    /\ pending \in Jobs \cup {NoJob} /\ shown \in Jobs \cup {NoJob}
    /\ posted \in Jobs \cup {NoJob}
    /\ step \in Steps
    /\ log \in Seq([job : Jobs, view : Views]) /\ Len(log) <= LogSize
    /\ lost \in 0..MaxFaults /\ interrupts \in 0..MaxFaults
    /\ clicks \in 0..MaxClicks

\* main.py: the defaults of a new session.
NewSession ==
    /\ page' = "Search" /\ submitting' = FALSE /\ pending' = NoJob
    /\ shown' = NoJob /\ notFound' = FALSE /\ log' = <<>>
    /\ step' = "top" /\ posted' = NoJob

SessionInit ==
    /\ StreamInit
    /\ page = "Search" /\ submitting = FALSE /\ pending = NoJob /\ shown = NoJob
    /\ notFound = FALSE /\ log = <<>> /\ step = "top" /\ posted = NoJob
    /\ clicks = 0 /\ lost = 0 /\ interrupts = 0

Counted == UNCHANGED <<clicks, lost, interrupts>>
LoseOne == lost < MaxFaults /\ lost' = lost + 1 /\ UNCHANGED <<clicks, interrupts>>
-----------------------------------------------------------------------------
(* main.py, search.render and loading.render: the top of a run *)

\* Where the Loading page goes on, in the order render() asks.
RenderLoading ==
    /\ step = "top" /\ page = "Loading"
    /\ IF notFound THEN step' = "idle" /\ UNCHANGED <<page, log>>
       ELSE IF submitting THEN step' = "posting" /\ log' = <<>> /\ UNCHANGED page
       ELSE IF pending # NoJob THEN step' = "streaming" /\ UNCHANGED <<page, log>>
       ELSE page' = "Search" /\ UNCHANGED <<step, log>>
    /\ UNCHANGED <<streamVars, submitting, pending, shown, notFound, posted>>
    /\ Counted

\* The Search page leaves for the Loading page while there is something to wait
\* for.  The Report page only shows.
RenderOther ==
    /\ step = "top" /\ page # "Loading"
    /\ IF page = "Search" /\ (submitting \/ pending # NoJob)
       THEN page' = "Loading" /\ UNCHANGED step
       ELSE step' = "idle" /\ UNCHANGED page
    /\ UNCHANGED <<streamVars, submitting, pending, shown, notFound, log, posted>>
    /\ Counted

\* The form: a name was entered, and is stored.
StartReview ==
    /\ step = "idle" /\ page = "Search"
    /\ clicks < MaxClicks /\ clicks' = clicks + 1
    /\ submitting' = TRUE /\ step' = "starting"
    /\ UNCHANGED <<streamVars, page, pending, shown, notFound, log, posted, lost,
                   interrupts>>

\* The button under a report.  last_result is kept.
BackToSearch ==
    /\ step = "idle" /\ page = "Report" /\ shown # NoJob
    /\ page' = "Search" /\ step' = "top"
    /\ UNCHANGED <<streamVars, submitting, pending, shown, notFound, log, posted>>
    /\ Counted

\* The button under the company-not-found message: the first assignment.
ReturnToSearch ==
    /\ step = "idle" /\ page = "Loading" /\ notFound
    /\ shown' = NoJob /\ step' = "returning"
    /\ UNCHANGED <<streamVars, page, submitting, pending, notFound, log, posted>>
    /\ Counted
-----------------------------------------------------------------------------
(* The assignments a handler goes on with *)

\* The job is let go, and where a result was taken or the user returned, so is a
\* name (which is never set there).
LetGo ==
    /\ step \in {"failing", "storing", "dropping", "returning"}
    /\ pending' = NoJob
    /\ submitting' = (step = "failing" /\ submitting)
    /\ step' = CASE step = "failing"  -> "failed"
                 [] step = "storing"  -> "stored"
                 [] step = "dropping" -> "dropped"
                 [] OTHER             -> "returned"
    /\ UNCHANGED <<streamVars, page, shown, notFound, log, posted>> /\ Counted

\* _reset_pending_job_state, and the same lines in the form.  After a failure it
\* is the last assignment and the script ends.
ClearLog ==
    /\ step \in {"starting", "failed", "stored", "dropped", "returned"}
    /\ log' = <<>>
    /\ step' = CASE step = "starting" -> "entering"
                 [] step = "failed"   -> "idle"
                 [] step = "stored"   -> "leaving"
                 [] step = "dropped"  -> "reporting"
                 [] OTHER             -> "closing"
    /\ UNCHANGED <<streamVars, page, submitting, pending, shown, notFound, posted>>
    /\ Counted

\* _clear_company_not_found_error.
ForgetMessage ==
    /\ step = "closing"
    /\ notFound' = FALSE /\ step' = "closed"
    /\ UNCHANGED <<streamVars, page, submitting, pending, shown, log, posted>>
    /\ Counted

\* The message on the Loading page that the company is not found, and a rerun.
ReportNotFound ==
    /\ step = "reporting"
    /\ notFound' = TRUE /\ page' = "Loading" /\ step' = "top"
    /\ UNCHANGED <<streamVars, submitting, pending, shown, log, posted>> /\ Counted

\* The page the rerun shows, always the last assignment.
TurnPage ==
    /\ step \in {"entering", "leaving", "closed"}
    /\ page' = CASE step = "entering" -> "Loading"
                 [] step = "leaving"  -> "Report"
                 [] OTHER             -> "Search"
    /\ step' = "top"
    /\ UNCHANGED <<streamVars, submitting, pending, shown, notFound, log, posted>>
    /\ Counted
-----------------------------------------------------------------------------
(* _submit_pending_job *)

\* The request reaches the API, which accepts a job.
PostJob(j) ==
    /\ step = "posting" /\ posted = NoJob
    /\ Submit(j) /\ UNCHANGED clientVars
    /\ posted' = j
    /\ UNCHANGED <<page, submitting, pending, shown, notFound, log, step>> /\ Counted

\* The answer is there: the name is forgotten ...
ForgetName ==
    /\ step = "posting" /\ posted # NoJob
    /\ submitting' = FALSE /\ step' = "posted"
    /\ UNCHANGED <<streamVars, page, pending, shown, notFound, log, posted>>
    /\ Counted

\* ... and then the job is stored.  A run cut off in between leaves a job nobody
\* follows.
Adopt ==
    /\ step = "posted"
    /\ pending' = posted /\ posted' = NoJob /\ step' = "top"
    /\ UNCHANGED <<streamVars, page, submitting, shown, notFound, log>> /\ Counted

\* Variant: a failed submission is tried again by the next run.
SubmitLostKeepsName ==
    /\ step = "posting" /\ LoseOne
    /\ posted' = NoJob /\ step' = "idle"
    /\ UNCHANGED <<streamVars, page, submitting, pending, shown, notFound, log>>

\* The request or its answer is lost, or the API refuses: the name is forgotten
\* and the script ends on the Loading page.  A job that was accepted is nobody's.
SubmitLost ==
    /\ step = "posting" /\ LoseOne
    /\ posted' = NoJob /\ submitting' = FALSE /\ step' = "idle"
    /\ UNCHANGED <<streamVars, page, pending, shown, notFound, log>>
-----------------------------------------------------------------------------
(* _render_job_progress: one answer about the job *)

\* Variant: every closed job is asked for its result.
ShowFetchesClosed(v) ==
    step' = IF v.status \in Terminal THEN "fetching" ELSE "top"

\* A closed job is fetched or let go; an open one is looked at again after a
\* sleep of two seconds.
Show(v) ==
    step' = CASE v.status = "succeeded" -> "fetching"
              [] v.status = "failed"    -> "failing"
              [] OTHER                  -> "top"

\* _append_workflow_stream_event: the last LogSize events, none twice in a row.
KeepEvent(j, v) ==
    LET event == [job |-> j, view |-> v]
        kept  == IF log # <<>> /\ log[Len(log)] = event THEN log ELSE Append(log, event)
    IN  IF Len(kept) > LogSize THEN Tail(kept) ELSE kept

\* The client closes the connection: the generator is cancelled and its local
\* variables are gone.
Hangup(js) ==
    /\ conn' = [j \in Jobs |-> IF j \in js THEN "closed" ELSE conn[j]]
    /\ held' = [j \in Jobs |-> IF j \in js THEN NoView ELSE held[j]]
    /\ sent' = [j \in Jobs |-> IF j \in js THEN NoView ELSE sent[j]]
    /\ seen' = [j \in Jobs |-> IF j \in js THEN NoView ELSE seen[j]]
    /\ received' = [j \in Jobs |-> IF j \in js THEN <<>> ELSE received[j]]

\* The SSE request is sent; every look at the job is a new connection.
OpenStream ==
    /\ step = "streaming" /\ Connect(pending)
    /\ step' = "reading"
    /\ UNCHANGED <<page, submitting, pending, shown, notFound, log, posted>> /\ Counted

\* The first event is taken and the connection closed.
TakeEvent ==
    LET j == pending
        v == received[j][1]
    IN  /\ step = "reading" /\ received[j] # <<>>
        /\ Show(v)
        /\ log' = KeepEvent(j, v)
        /\ Hangup({j})
        /\ UNCHANGED <<vars, asked, answer, page, submitting, pending, shown,
                       notFound, posted>> /\ Counted

\* No connection, or one that breaks before its first event: fall back on polling.
StreamLost ==
    /\ step \in {"streaming", "reading"} /\ LoseOne
    /\ step' = "polling"
    /\ Hangup({pending})
    /\ UNCHANGED <<vars, asked, answer, page, submitting, pending, shown, notFound,
                   log, posted>>

\* GET /jobs/{job_id}, the fallback.
PollStatus ==
    /\ step = "polling"
    /\ Show(View(pending))
    /\ UNCHANGED <<streamVars, page, submitting, pending, shown, notFound, log,
                   posted>> /\ Counted

\* Variant: a job whose status is lost is given up.
PollLostGivesUp ==
    /\ step = "polling" /\ LoseOne
    /\ pending' = NoJob /\ step' = "idle"
    /\ UNCHANGED <<streamVars, page, submitting, shown, notFound, log, posted>>

\* Both ways are lost: the script ends, the job stays pending.
PollLost ==
    /\ step = "polling" /\ LoseOne
    /\ step' = "idle"
    /\ UNCHANGED <<streamVars, page, submitting, pending, shown, notFound, log, posted>>

\* GET /jobs/{job_id}/result begins: the first of its two reads.
AskResult ==
    /\ step = "fetching" /\ asked[pending] = "idle" /\ answer[pending] = "none"
    /\ CheckStatus(pending) /\ UNCHANGED sessionVars

FinishResult ==
    /\ step = "fetching" /\ ReadResult(pending) /\ UNCHANGED sessionVars

\* Variant: a job without a company is reported like the others.
UnknownToPage(j) == FALSE

\* _handle_company_not_found: the result says the company is not found.
IsUnknown(j) == j \in Unknown

\* The result arrives.  Of a company that was found it is stored, of any other the
\* report is dropped; the job is still the pending one.
TakeResult ==
    LET j == pending
    IN  /\ step = "fetching" /\ answer[j] # "none"
        /\ answer' = [answer EXCEPT ![j] = "none"]
        /\ IF answer[j] # "ok" THEN step' = "idle" /\ UNCHANGED shown
           ELSE IF IsUnknown(j) THEN step' = "dropping" /\ shown' = NoJob
           ELSE step' = "storing" /\ shown' = j
        /\ UNCHANGED <<vars, conn, held, sent, received, seen, asked, page, submitting,
                       pending, notFound, log, posted>>
        /\ Counted

\* The result is lost: the script ends, the job stays pending.
ResultLost ==
    /\ step = "fetching" /\ LoseOne
    /\ step' = "idle"
    /\ asked' = [asked EXCEPT ![pending] = "idle"]
    /\ answer' = [answer EXCEPT ![pending] = "none"]
    /\ UNCHANGED <<vars, conn, held, sent, received, seen,
                   page, submitting, pending, shown, notFound, log, posted>>
-----------------------------------------------------------------------------
(* What the user may do to a run *)

\* The connection and the request of a run that is stopped are dropped.
DropRequests ==
    /\ Hangup(Jobs)
    /\ asked' = [j \in Jobs |-> "idle"]
    /\ answer' = [j \in Jobs |-> "none"]
    /\ UNCHANGED vars

\* Rerun on a page that waits.
RunAgain ==
    /\ step = "idle" /\ step' = "top"
    /\ UNCHANGED <<streamVars, page, submitting, pending, shown, notFound, log, posted>>
    /\ Counted

\* Rerun while the script runs: it stops before its next assignment.
Interrupt ==
    /\ step \notin {"idle", "top"} /\ interrupts < MaxFaults
    /\ interrupts' = interrupts + 1
    /\ step' = "top" /\ posted' = NoJob
    /\ DropRequests
    /\ UNCHANGED <<page, submitting, pending, shown, notFound, log, clicks, lost>>

Reload == NewSession /\ DropRequests /\ Counted
-----------------------------------------------------------------------------
\* What the script and the generators do on their own once they run.
ScriptStep ==
    \/ RenderLoading \/ RenderOther
    \/ (\E j \in Jobs : PostJob(j)) \/ ForgetName \/ Adopt
    \/ OpenStream \/ TakeEvent \/ PollStatus
    \/ AskResult \/ FinishResult \/ TakeResult
    \/ LetGo \/ ClearLog \/ ForgetMessage \/ ReportNotFound \/ TurnPage

\* The worker, and the generators, of which this client only takes the first
\* event.  Every job is submitted by this session.
ServerStep ==
    \/ Next /\ clock' = clock /\ UNCHANGED clientVars
    \/ \E j \in Jobs : Emit(j)

UserStep == StartReview \/ BackToSearch \/ ReturnToSearch \/ RunAgain

SessionNext ==
    \/ ScriptStep
    \/ UserStep
    \/ SubmitLost \/ StreamLost \/ PollLost \/ ResultLost
    \/ Interrupt \/ Reload
    \/ ServerStep /\ UNCHANGED sessionVars

SessionSpec == SessionInit /\ [][SessionNext]_allVars

\* A running script goes on, and so does a generator with an event to send.
\* Nothing is assumed of the user or of the worker.
FairSessionSpec ==
    /\ SessionSpec
    /\ WF_allVars(ScriptStep)
    /\ \A j \in Jobs : WF_allVars(Emit(j) /\ UNCHANGED sessionVars)
-----------------------------------------------------------------------------
(* Properties *)

\* The page lets go of a job only when the job is closed, whatever was lost, read
\* late or interrupted on the way.  Only a reload forgets an open job.
FollowedUntilClosed ==
    [][pending # NoJob /\ pending' # pending =>
          status[pending] \in Terminal \/ Reload]_allVars

\* The report shows a finished job that has a result and a company, and is not
\* turned to before its job was let go.  A job the session follows is younger than
\* the one it last showed, or it is that very job: a run cut off between storing the
\* result and letting go of the job fetches it once more.
ReportIsFinished ==
    /\ page = "Report" =>
          /\ shown # NoJob /\ pending = NoJob
          /\ status[shown] = "succeeded" /\ hasResult[shown]
          /\ shown \notin Unknown
    /\ shown # NoJob /\ pending \notin {NoJob, shown} =>
          submittedAt[shown] < submittedAt[pending]

\* A page that has a job and waits for the user has lost an answer: nothing the
\* API says about a job it follows leaves the page standing.
StandsOnlyAfterLoss == step = "idle" /\ pending # NoJob => lost > 0

\* A review asked for once is submitted once, unless its run was cut off.
OneJobPerClick == clock <= clicks + interrupts

\* A page does not follow a closed job for long: it lets go of it, or it lost an
\* answer and stands.
ClosedJobIsLetGo ==
    \A j \in Jobs :
       pending = j /\ status[j] \in Terminal ~>
          pending # j \/ (step = "idle" /\ lost > 0)
-----------------------------------------------------------------------------
(* The inductive invariant behind the properties of the session *)

\* A view that shows a closed job is true for good.
Settled(j, v) == v.status \in Terminal => status[j] = v.status

ClientTypeOK ==
    /\ conn \in [Jobs -> {"closed", "open", "sleeping"}]
    /\ held \in [Jobs -> Views] /\ sent \in [Jobs -> Views] /\ seen \in [Jobs -> Views]
    /\ received \in [Jobs -> Seq(Views)]
    /\ asked \in [Jobs -> {"idle", "confirmed"}] /\ answer \in [Jobs -> Answers]

\* What the API said is true, and it has a result of every job it is asked for.
ApiIsTrue ==
    \A j \in Jobs :
       /\ \A i \in DOMAIN received[j] : Settled(j, received[j][i])
       /\ conn[j] # "closed" => Settled(j, held[j])
       /\ answer[j] \in {"none", "ok"}
       /\ asked[j] = "confirmed" \/ answer[j] = "ok" => status[j] = "succeeded"
       /\ submittedAt[j] <= clock

\* Which page and which entries of the session state go with a place in the script.
ScriptKnowsItsPlace ==
    /\ step \in {"starting", "entering"} => page = "Search" /\ submitting
    /\ step \notin {"top", "idle", "starting", "entering"} => page = "Loading"
    /\ step \in {"returning", "returned", "closing"} => notFound
    /\ notFound => /\ page = "Loading"
                   /\ step \in {"top", "idle", "returning", "returned", "closing"}
    /\ step = "posting" => submitting
    /\ step = "posted" => posted # NoJob /\ pending = NoJob /\ ~submitting
    /\ step \in {"streaming", "reading", "polling", "fetching", "storing", "dropping",
                 "failing"} => pending # NoJob /\ ~submitting
    /\ step \in {"fetching", "storing", "dropping"} => status[pending] = "succeeded"
    /\ step = "failing" => status[pending] = "failed"
    /\ step \in {"failed", "stored", "leaving", "dropped", "reporting", "returned",
                 "closing", "closed"} => pending = NoJob
    /\ step \in {"storing", "stored", "leaving"} => shown # NoJob
    /\ posted # NoJob => step \in {"posting", "posted"}
    /\ page = "Search" /\ step = "idle" => pending = NoJob
    /\ page = "Report" => shown # NoJob /\ pending = NoJob
    /\ submitting \/ notFound => pending = NoJob

\* What is shown is what is followed, or was finished before that was submitted.
ShownIsFinished ==
    shown # NoJob =>
       /\ status[shown] = "succeeded" /\ shown \notin Unknown
       /\ pending \notin {NoJob, shown} => submittedAt[shown] < submittedAt[pending]
       /\ posted # NoJob => submittedAt[shown] < submittedAt[posted]

\* A name that waits for its submission has a click or an interrupted run to itself.
ClickIsLeft == submitting /\ posted = NoJob => clock < clicks + interrupts

SessionInv ==
    /\ TypeOK /\ RowsSound /\ ClientTypeOK /\ SessionTypeOK
    /\ ApiIsTrue /\ ScriptKnowsItsPlace /\ ShownIsFinished
    /\ ClickIsLeft /\ OneJobPerClick /\ StandsOnlyAfterLoss
=============================================================================
