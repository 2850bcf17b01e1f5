------------------------------ MODULE JobStream ------------------------------
(***************************************************************************)
(* What a waiting client sees of a job: the SSE stream, which polls the     *)
(* row and sends what changed, and the result endpoint, which reads the row *)
(* twice.  Both read while the worker writes, so the module is a reader of  *)
(* JobLifecycle, the promise WorkflowJobs keeps.                            *)
(*                                                                         *)
(* One client per job: it connects, may lose the connection at any time and *)
(* connects again, and asks for the result whenever it likes.               *)
(***************************************************************************)
EXTENDS JobLifecycle, Sequences

VARIABLES
    conn,      \* the generator: "closed", "open" (on the loop) or "sleeping"
    held,      \* its local variable job_status
    sent,      \* last_signature: the view sent last, NoView for none
    received,  \* the views the client received on this connection
    seen,      \* the last view the client ever received
    asked,     \* the result endpoint: "idle", or "confirmed" between its reads
    answer     \* its last answer

clientVars == <<conn, held, sent, received, seen, asked, answer>>
streamVars == <<vars, clientVars>>

\* WorkflowJobStatusResponse: what one read of the row gives.  A job without a
\* step_summary yet has done = 0.
View(j) == [status |-> status[j], code |-> errorCode[j], done |-> progress[j]]
NoView  == [status |-> "absent", code |-> NoCode, done |-> 0]
Views   == [status : Statuses, code : ErrorCodes \cup {NoCode}, done : 0..MaxSteps]

\* The name of the event that carries a view.
EventName(v) ==
    CASE v.status = "succeeded" -> "complete"
      [] v.status = "failed"    -> "error"
      [] v.status = "running" /\ v.done > 0 -> "progress"
      [] OTHER -> v.status

Answers == {"none", "ok", "JOB_NOT_FOUND", "JOB_NOT_COMPLETED", "JOB_FAILED",
            "JOB_RESULT_MISSING"}

\* Every event has one of the five names the API documents.
StreamTypeOK ==
    /\ conn \in [Jobs -> {"closed", "open", "sleeping"}]
    /\ held \in [Jobs -> Views] /\ sent \in [Jobs -> Views]
    /\ seen \in [Jobs -> Views]
    /\ \A j \in Jobs :
          /\ received[j] \in Seq(Views)
          /\ \A i \in DOMAIN received[j] :
                EventName(received[j][i]) \in
                   {"queued", "running", "progress", "complete", "error"}
    /\ asked \in [Jobs -> {"idle", "confirmed"}]
    /\ answer \in [Jobs -> Answers]

StreamInit ==
    /\ Init
    /\ conn = [j \in Jobs |-> "closed"]
    /\ held = [j \in Jobs |-> NoView]
    /\ sent = [j \in Jobs |-> NoView]
    /\ received = [j \in Jobs |-> <<>>]
    /\ seen = [j \in Jobs |-> NoView]
    /\ asked = [j \in Jobs |-> "idle"]
    /\ answer = [j \in Jobs |-> "none"]
-----------------------------------------------------------------------------
(* GET /jobs/{job_id}/stream *)

\* Variant: greet the client with the state every job starts in.
ConnectAsQueued(j) ==
    /\ conn[j] = "closed" /\ status[j] # "absent"
    /\ conn' = [conn EXCEPT ![j] = "open"]
    /\ held' = [held EXCEPT ![j] = [View(j) EXCEPT !.status = "queued"]]
    /\ sent' = [sent EXCEPT ![j] = NoView]
    /\ received' = [received EXCEPT ![j] = <<>>]
    /\ UNCHANGED <<vars, seen, asked, answer>>

\* The handler reads the row and hands it to a new generator.  An unknown job
\* is answered with 404 and leaves nothing behind.
Connect(j) ==
    /\ conn[j] = "closed" /\ status[j] # "absent"
    /\ conn' = [conn EXCEPT ![j] = "open"]
    /\ held' = [held EXCEPT ![j] = View(j)]
    /\ sent' = [sent EXCEPT ![j] = NoView]
    /\ received' = [received EXCEPT ![j] = <<>>]
    /\ UNCHANGED <<vars, seen, asked, answer>>

\* Variant: send every view, changed or not.
EmitAlways(j) ==
    /\ conn[j] = "open"
    /\ received' = [received EXCEPT ![j] = Append(@, held[j])]
    /\ sent' = [sent EXCEPT ![j] = held[j]]
    /\ seen' = [seen EXCEPT ![j] = held[j]]
    /\ conn' = [conn EXCEPT ![j] = IF held[j].status \in Terminal THEN "closed"
                                                                 ELSE "sleeping"]
    /\ UNCHANGED <<vars, held, asked, answer>>

\* One turn of the generator: send the view unless it is the last one sent, end
\* after a closed job, sleep otherwise.
Emit(j) ==
    /\ conn[j] = "open"
    /\ IF held[j] # sent[j]
       THEN /\ received' = [received EXCEPT ![j] = Append(@, held[j])]
            /\ sent' = [sent EXCEPT ![j] = held[j]]
            /\ seen' = [seen EXCEPT ![j] = held[j]]
       ELSE UNCHANGED <<received, sent, seen>>
    /\ conn' = [conn EXCEPT ![j] = IF held[j].status \in Terminal THEN "closed"
                                                                 ELSE "sleeping"]
    /\ UNCHANGED <<vars, held, asked, answer>>

\* Variant: the row that was read is not kept.
RefreshForgotten(j) ==
    /\ conn[j] = "sleeping"
    /\ conn' = [conn EXCEPT ![j] = "open"]
    /\ UNCHANGED <<vars, held, sent, received, seen, asked, answer>>

\* After the sleep the row is read again, in a thread.
Refresh(j) ==
    /\ conn[j] = "sleeping"
    /\ held' = [held EXCEPT ![j] = View(j)]
    /\ conn' = [conn EXCEPT ![j] = "open"]
    /\ UNCHANGED <<vars, sent, received, seen, asked, answer>>

\* The read raises, the client leaves or the server dies: the stream breaks off
\* without a last event.
Break(j) ==
    /\ conn[j] # "closed"
    /\ conn' = [conn EXCEPT ![j] = "closed"]
    /\ UNCHANGED <<vars, held, sent, received, seen, asked, answer>>
-----------------------------------------------------------------------------
(* GET /jobs/{job_id}/result *)

\* Variant: any closed job has a result to look for.
CheckStatusClosed(j) ==
    /\ asked[j] = "idle"
    /\ IF status[j] \in Terminal
       THEN asked' = [asked EXCEPT ![j] = "confirmed"] /\ UNCHANGED answer
       ELSE /\ answer' = [answer EXCEPT ![j] = IF status[j] = "absent"
                                               THEN "JOB_NOT_FOUND"
                                               ELSE "JOB_NOT_COMPLETED"]
            /\ UNCHANGED asked
    /\ UNCHANGED <<vars, conn, held, sent, received, seen>>

\* The first read: only a succeeded job is looked at again.
CheckStatus(j) ==
    /\ asked[j] = "idle"
    /\ IF status[j] = "succeeded"
       THEN asked' = [asked EXCEPT ![j] = "confirmed"] /\ UNCHANGED answer
       ELSE /\ answer' = [answer EXCEPT ![j] =
                             CASE status[j] = "absent" -> "JOB_NOT_FOUND"
                               [] status[j] = "failed" -> "JOB_FAILED"
                               [] OTHER                -> "JOB_NOT_COMPLETED"]
            /\ UNCHANGED asked
    /\ UNCHANGED <<vars, conn, held, sent, received, seen>>

\* The second read checks the status again and loads result_json.
ReadResult(j) ==
    /\ asked[j] = "confirmed"
    /\ asked' = [asked EXCEPT ![j] = "idle"]
    /\ answer' = [answer EXCEPT ![j] =
                     IF status[j] = "succeeded" /\ hasResult[j] THEN "ok"
                                                                ELSE "JOB_RESULT_MISSING"]
    /\ UNCHANGED <<vars, conn, held, sent, received, seen>>
-----------------------------------------------------------------------------
StreamNext ==
    \/ Next /\ UNCHANGED clientVars
    \/ \E j \in Jobs :
          \/ Connect(j) \/ Emit(j) \/ Refresh(j) \/ Break(j)
          \/ CheckStatus(j) \/ ReadResult(j)

StreamSpec == StreamInit /\ [][StreamNext]_streamVars

\* The event loop takes a generator on as soon as its sleep or its thread ends.
FairStreamSpec ==
    /\ StreamSpec
    /\ \A j \in Jobs : WF_streamVars(Emit(j)) /\ WF_streamVars(Refresh(j))
-----------------------------------------------------------------------------
(* Properties *)

Stage(v) == CASE EventName(v) = "queued"   -> 0
              [] EventName(v) = "running"  -> 1
              [] EventName(v) = "progress" -> 2
              [] OTHER                     -> 3

\* On one connection no event comes twice, no stage comes back, the steps only
\* grow, and nothing follows the closing event.
InOrder(views) ==
    \A i, k \in DOMAIN views :
       i < k =>
          /\ Stage(views[i]) < 3
          /\ Stage(views[i]) <= Stage(views[k])
          /\ Stage(views[i]) = Stage(views[k]) => views[i].done < views[k].done

\* The client sees the job advance, on one connection and from one to the next,
\* whatever the worker wrote between two reads: a client that connects again never
\* sees the job older than it saw it before.
EventsAdvance ==
    [][\A j \in Jobs :
          /\ InOrder(received'[j])
          /\ seen'[j] # seen[j] /\ seen[j] # NoView =>
                /\ Stage(seen[j]) <= Stage(seen'[j])
                /\ Stage(seen[j]) < 3
                /\ seen[j].done <= seen'[j].done]_streamVars

\* Between its two reads the result endpoint loses no result.
ResultNeverMissing == \A j \in Jobs : answer[j] # "JOB_RESULT_MISSING"

\* A stream does not outlive its job for long.
StreamEnds ==
    \A j \in Jobs : status[j] \in Terminal /\ conn[j] # "closed" ~> conn[j] = "closed"
-----------------------------------------------------------------------------
(* The inductive invariant behind EventsAdvance and ResultNeverMissing *)

\* A row that was not reported on has no steps, one that did not fail no error,
\* and one that succeeded has a result.
RowsSound ==
    \A j \in Jobs :
       /\ status[j] \in {"absent", "queued"} => progress[j] = 0
       /\ status[j] # "failed" => errorCode[j] = NoCode
       /\ status[j] = "succeeded" => hasResult[j]

\* A view that a row can have given.
SoundView(v) ==
    /\ v \in Views /\ v.status # "absent"
    /\ v.status = "queued" => v.done = 0
    /\ v.status # "failed" => v.code = NoCode

\* The view v may have come before w of the same row.
Precedes(v, w) ==
    v = w \/ (Stage(v) < 3 /\ Stage(v) <= Stage(w) /\ v.done <= w.done)

\* What the generator holds and what the client saw last are views of the row, and
\* the generator never holds an older one than the client saw.
ViewsOfTheRow ==
    \A j \in Jobs :
       /\ seen[j] # NoView =>
             status[j] # "absent" /\ SoundView(seen[j]) /\ Precedes(seen[j], View(j))
       /\ conn[j] # "closed" =>
             /\ status[j] # "absent" /\ SoundView(held[j]) /\ Precedes(held[j], View(j))
             /\ seen[j] # NoView => Precedes(seen[j], held[j])

\* What was sent last closes the list of what was received, and closes the stream
\* if it was a last event.
SentIsLast ==
    \A j \in Jobs :
       /\ InOrder(received[j])
       /\ conn[j] # "closed" =>
             /\ sent[j] = NoView => received[j] = <<>>
             /\ sent[j] # NoView =>
                   /\ received[j] # <<>> /\ sent[j] = received[j][Len(received[j])]
                   /\ sent[j] = seen[j] /\ Stage(sent[j]) < 3
                   /\ \A i \in DOMAIN received[j] : received[j][i].done <= sent[j].done

StreamInv ==
    /\ TypeOK /\ RowsSound
    /\ conn \in [Jobs -> {"closed", "open", "sleeping"}]
    /\ held \in [Jobs -> Views] /\ sent \in [Jobs -> Views] /\ seen \in [Jobs -> Views]
    /\ received \in [Jobs -> Seq(Views)]
    /\ asked \in [Jobs -> {"idle", "confirmed"}] /\ answer \in [Jobs -> Answers]
    /\ \A j \in Jobs : asked[j] = "confirmed" => status[j] = "succeeded"
    /\ ViewsOfTheRow /\ SentIsLast /\ ResultNeverMissing
=============================================================================
