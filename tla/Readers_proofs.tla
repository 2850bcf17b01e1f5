---------------------------- MODULE Readers_proofs ----------------------------
(***************************************************************************)
(* What the readers of a job may rely on, for any jobs, any number of       *)
(* steps, of lost requests, of interrupted runs and of reviews.             *)
(*                                                                         *)
(* The stream: the result endpoint loses no result, and clients see a job   *)
(* advance.  The argument is an order of the views of one row (Precedes):   *)
(* the row only moves forward in it, the generator holds a view not older   *)
(* than the one the client saw, and a changed view is a later one.          *)
(*                                                                         *)
(* The session: the report is a finished one and never older than the job   *)
(* that is followed, one review is one job, a page that stands has lost an  *)
(* answer, and a job is let go of only when it is closed.  Its invariant    *)
(* has two halves.  What the API said (ApiInv) speaks of the rows, the      *)
(* streams and the result endpoint only; what the script remembers speaks   *)
(* of the session, and of the rows it looks at.                             *)
(***************************************************************************)
EXTENDS FrontendSession, TLAPS

(* Views *)

LEMMA StageType ==
    ASSUME NEW v \in Views
    PROVE  Stage(v) \in 0..3
  BY DEF Stage

\* The order of the views of a row is transitive.
LEMMA PrecedesTransitive ==
    ASSUME NEW u \in Views, NEW v \in Views, NEW w \in Views,
           Precedes(u, v), Precedes(v, w)
    PROVE  Precedes(u, w)
  <1>1. /\ Stage(u) \in 0..3 /\ Stage(v) \in 0..3 /\ Stage(w) \in 0..3
    BY StageType
  <1>2. /\ u.done \in Nat /\ v.done \in Nat /\ w.done \in Nat
    BY MaxStepsAssumption DEF Views
  <1> QED BY <1>1, <1>2 DEF Precedes

\* A changed view of the same stage has more steps.
LEMMA ChangeIsProgress ==
    ASSUME NEW v, NEW w, SoundView(v), SoundView(w), Precedes(v, w), v # w
    PROVE  /\ Stage(v) < 3 /\ Stage(v) <= Stage(w) /\ v.done <= w.done
           /\ Stage(v) = Stage(w) => v.done < w.done
  <1>1. v \in Views /\ w \in Views
    BY DEF SoundView
  <1>2. Stage(v) < 3 /\ Stage(v) <= Stage(w) /\ v.done <= w.done
    BY DEF Precedes
  <1>3. v.done \in Nat /\ w.done \in Nat
    BY <1>1, MaxStepsAssumption DEF Views
  <1>4. ASSUME Stage(v) = Stage(w) PROVE v.done # w.done
    <2>1. v.status = w.status /\ v.code = w.code
      BY <1>1, <1>2, <1>3, <1>4 DEF Stage, EventName, SoundView, Views, Statuses
    <2>2. /\ v = [status |-> v.status, code |-> v.code, done |-> v.done]
          /\ w = [status |-> w.status, code |-> w.code, done |-> w.done]
      BY <1>1 DEF Views
    <2> QED BY <2>1, <2>2
  <1> QED BY <1>2, <1>3, <1>4

LEMMA ViewType ==
    ASSUME TypeOK, NEW j \in Jobs
    PROVE  View(j) \in Views
  BY DEF TypeOK, View, Views

\* A job that was submitted gives sound views.
LEMMA ViewIsSound ==
    ASSUME TypeOK, RowsSound, NEW j \in Jobs, status[j] # "absent"
    PROVE  SoundView(View(j))
  BY ViewType DEF TypeOK, RowsSound, View, SoundView

LEMMA NoViewType == NoView \in Views
  BY MaxStepsAssumption DEF NoView, Views, Statuses
-----------------------------------------------------------------------------
(* The row *)

\* The worker keeps the rows sound, never takes a job back and never undoes a
\* success.
LEMMA RowStep ==
    ASSUME TypeOK, RowsSound, Next
    PROVE  /\ TypeOK' /\ RowsSound'
           /\ \A j \in Jobs :
                 /\ status[j] # "absent" => status'[j] # "absent"
                 /\ status[j] = "succeeded" => status'[j] = "succeeded"
                 /\ status[j] # "absent" => Precedes(View(j), View(j)')
  <1> USE MaxStepsAssumption DEF TypeOK, RowsSound
  <1>1. ASSUME NEW k \in Jobs, Submit(k)
        PROVE  /\ TypeOK' /\ RowsSound'
               /\ \A j \in Jobs :
                     /\ status[j] # "absent" => status'[j] # "absent"
                     /\ status[j] = "succeeded" => status'[j] = "succeeded"
                     /\ status[j] # "absent" => Precedes(View(j), View(j)')
    BY <1>1 DEF Submit, Precedes, View, Statuses
  <1>2. ASSUME NEW k \in Jobs, Start(k)
        PROVE  /\ TypeOK' /\ RowsSound'
               /\ \A j \in Jobs :
                     /\ status[j] # "absent" => status'[j] # "absent"
                     /\ status[j] = "succeeded" => status'[j] = "succeeded"
                     /\ status[j] # "absent" => Precedes(View(j), View(j)')
    BY <1>2 DEF Start, FirstInLine, Precedes, View, Statuses, Stage, EventName
  <1>3. ASSUME NEW k \in Jobs, NEW n \in 0..MaxSteps, Report(k, n)
        PROVE  /\ TypeOK' /\ RowsSound'
               /\ \A j \in Jobs :
                     /\ status[j] # "absent" => status'[j] # "absent"
                     /\ status[j] = "succeeded" => status'[j] = "succeeded"
                     /\ status[j] # "absent" => Precedes(View(j), View(j)')
    BY <1>3 DEF Report, Precedes, View, Statuses, Stage, EventName
  <1>4. ASSUME NEW k \in Jobs, NEW n \in 0..MaxSteps, Succeed(k, n)
        PROVE  /\ TypeOK' /\ RowsSound'
               /\ \A j \in Jobs :
                     /\ status[j] # "absent" => status'[j] # "absent"
                     /\ status[j] = "succeeded" => status'[j] = "succeeded"
                     /\ status[j] # "absent" => Precedes(View(j), View(j)')
    BY <1>4 DEF Succeed, Precedes, View, Statuses, Stage, EventName
  <1>5. ASSUME NEW k \in Jobs, NEW code \in ErrorCodes, Fail(k, code)
        PROVE  /\ TypeOK' /\ RowsSound'
               /\ \A j \in Jobs :
                     /\ status[j] # "absent" => status'[j] # "absent"
                     /\ status[j] = "succeeded" => status'[j] = "succeeded"
                     /\ status[j] # "absent" => Precedes(View(j), View(j)')
    BY <1>5 DEF Fail, Precedes, View, Statuses, Stage, EventName
  <1>6. ASSUME Abandon
        PROVE  /\ TypeOK' /\ RowsSound'
               /\ \A j \in Jobs :
                     /\ status[j] # "absent" => status'[j] # "absent"
                     /\ status[j] = "succeeded" => status'[j] = "succeeded"
                     /\ status[j] # "absent" => Precedes(View(j), View(j)')
    BY <1>6 DEF Abandon, Open, Precedes, View, Statuses, Stage, EventName, ErrorCodes
  <1> QED BY <1>1, <1>2, <1>3, <1>4, <1>5, <1>6 DEF Next
-----------------------------------------------------------------------------
(* The events of one connection *)

\* A view that advances on the last one received keeps the events in order.
LEMMA AppendInOrder ==
    ASSUME NEW views \in Seq(Views), NEW v \in Views, InOrder(views),
           views # <<>> =>
              LET last == views[Len(views)]
              IN  /\ Stage(last) < 3 /\ Stage(last) <= Stage(v)
                  /\ Stage(last) = Stage(v) => last.done < v.done
                  /\ \A i \in DOMAIN views : views[i].done <= last.done
    PROVE  InOrder(Append(views, v))
  <1> DEFINE last == views[Len(views)]
             longer == Append(views, v)
  <1> SUFFICES ASSUME NEW i \in DOMAIN longer, NEW k \in DOMAIN longer, i < k
               PROVE  /\ Stage(longer[i]) < 3
                      /\ Stage(longer[i]) <= Stage(longer[k])
                      /\ Stage(longer[i]) = Stage(longer[k]) =>
                            longer[i].done < longer[k].done
    BY DEF InOrder
  <1>1. i \in 1..Len(views) /\ longer[i] = views[i] /\ views[i] \in Views
    OBVIOUS
  <1>2. CASE k \in 1..Len(views)
    <2>1. longer[k] = views[k] /\ k \in DOMAIN views /\ i \in DOMAIN views
      BY <1>1, <1>2
    <2> HIDE DEF longer
    <2> QED BY <1>1, <2>1 DEF InOrder
  <1>3. CASE k = Len(views) + 1
    <2>1. longer[k] = v /\ views # <<>> /\ last \in Views
      BY <1>1, <1>3
    <2>2. i \in DOMAIN views /\ Len(views) \in DOMAIN views
      BY <1>1
    <2>3. i < Len(views) \/ i = Len(views)
      BY <1>1
    <2>4. /\ Stage(last) < 3 /\ Stage(last) <= Stage(v)
          /\ Stage(last) = Stage(v) => last.done < v.done
          /\ views[i].done <= last.done
      BY <2>1, <2>2
    <2>5. Stage(views[i]) < 3 /\ Stage(views[i]) <= Stage(last)
      <3>1. CASE i < Len(views)
        BY <2>2, <3>1 DEF InOrder
      <3>2. CASE i = Len(views)
        BY <2>1, <2>4, <3>2, StageType
      <3> QED BY <2>3, <3>1, <3>2
    <2>6. /\ Stage(v) \in 0..3 /\ Stage(last) \in 0..3 /\ Stage(views[i]) \in 0..3
      BY <1>1, <2>1, StageType
    <2>7. v.done \in Nat /\ last.done \in Nat /\ views[i].done \in Nat
      BY <1>1, <2>1, MaxStepsAssumption DEF Views
    <2> HIDE DEF last, longer
    <2> QED BY <1>1, <2>1, <2>4, <2>5, <2>6, <2>7
  <1> QED BY <1>2, <1>3
-----------------------------------------------------------------------------
(* The invariant *)

LEMMA StreamInitInv == StreamInit => StreamInv
  <1> SUFFICES ASSUME StreamInit PROVE StreamInv
    OBVIOUS
  <1> USE DEF StreamInit
  <1>1. TypeOK /\ RowsSound
    BY MaxStepsAssumption DEF Init, TypeOK, RowsSound, Statuses
  <1>2. ViewsOfTheRow /\ SentIsLast
    BY DEF ViewsOfTheRow, SentIsLast, InOrder
  <1>3. received \in [Jobs -> Seq(Views)]
    OBVIOUS
  <1> QED BY <1>1, <1>2, <1>3, NoViewType DEF StreamInv, ResultNeverMissing, Answers

\* A step of the worker: the clients' views stay views of the row.
LEMMA WorkerStep ==
    ASSUME StreamInv, Next, UNCHANGED clientVars
    PROVE  StreamInv'
  <1> USE DEF clientVars
  <1>1. TypeOK /\ RowsSound
    BY DEF StreamInv
  <1>2. TypeOK' /\ RowsSound'
    BY <1>1, RowStep
  <1>3. ASSUME NEW j \in Jobs, status[j] # "absent", NEW v \in Views,
               Precedes(v, View(j))
        PROVE  status'[j] # "absent" /\ Precedes(v, View(j)')
    <2>1. status'[j] # "absent" /\ Precedes(View(j), View(j)')
      BY <1>1, <1>3, RowStep
    <2>2. View(j) \in Views /\ View(j)' \in Views
      BY <1>1, <1>2, ViewType DEF TypeOK, View, Views
    <2> QED BY <1>3, <2>1, <2>2, PrecedesTransitive
  <1>4. ViewsOfTheRow'
    BY <1>3 DEF StreamInv, ViewsOfTheRow, SoundView
  <1>5. SentIsLast'
    BY DEF StreamInv, SentIsLast
  <1>6. \A j \in Jobs : asked'[j] = "confirmed" => status'[j] = "succeeded"
    BY <1>1, RowStep DEF StreamInv
  <1> QED BY <1>2, <1>4, <1>5, <1>6 DEF StreamInv, ResultNeverMissing

\* The handler hands a view of the row to a new generator.
LEMMA ConnectStep ==
    ASSUME StreamInv, NEW j \in Jobs, Connect(j)
    PROVE  StreamInv'
  <1> USE DEF Connect, vars
  <1>1. SoundView(View(j)) /\ View(j) \in Views
    BY ViewType, ViewIsSound DEF StreamInv
  <1>2. TypeOK' /\ RowsSound' /\ \A k \in Jobs : View(k)' = View(k)
    BY DEF StreamInv, TypeOK, RowsSound, View
  <1>3. ViewsOfTheRow'
    BY <1>1, <1>2 DEF StreamInv, ViewsOfTheRow, Precedes
  <1>4. SentIsLast'
    BY DEF StreamInv, SentIsLast, InOrder
  <1>5. received' \in [Jobs -> Seq(Views)]
    BY DEF StreamInv
  <1> QED BY <1>1, <1>2, <1>3, <1>4, <1>5, NoViewType DEF StreamInv, ResultNeverMissing

\* The generator reads the row again: what it holds is not older than before.
LEMMA RefreshStep ==
    ASSUME StreamInv, NEW j \in Jobs, Refresh(j)
    PROVE  StreamInv'
  <1> USE DEF Refresh, vars
  <1>1. status[j] # "absent"
    BY DEF StreamInv, ViewsOfTheRow
  <1>2. SoundView(View(j)) /\ View(j) \in Views
    BY <1>1, ViewType, ViewIsSound DEF StreamInv
  <1>3. TypeOK' /\ RowsSound' /\ \A k \in Jobs : View(k)' = View(k)
    BY DEF StreamInv, TypeOK, RowsSound, View
  <1>4. ViewsOfTheRow'
    BY <1>2, <1>3 DEF StreamInv, ViewsOfTheRow, Precedes
  <1>5. SentIsLast'
    BY DEF StreamInv, SentIsLast
  <1> QED BY <1>2, <1>3, <1>4, <1>5 DEF StreamInv, ResultNeverMissing

LEMMA BreakStep ==
    ASSUME StreamInv, NEW j \in Jobs, Break(j)
    PROVE  StreamInv'
  <1> USE DEF Break, vars
  <1>1. TypeOK' /\ RowsSound' /\ \A k \in Jobs : View(k)' = View(k)
    BY DEF StreamInv, TypeOK, RowsSound, View
  <1>2. ViewsOfTheRow'
    BY <1>1 DEF StreamInv, ViewsOfTheRow
  <1>3. SentIsLast'
    BY DEF StreamInv, SentIsLast
  <1> QED BY <1>1, <1>2, <1>3 DEF StreamInv, ResultNeverMissing

\* The result endpoint, which writes nothing the stream looks at.
LEMMA ResultStep ==
    ASSUME StreamInv, NEW j \in Jobs, CheckStatus(j) \/ ReadResult(j)
    PROVE  StreamInv'
  <1>1. UNCHANGED <<vars, conn, held, sent, received, seen>>
    BY DEF CheckStatus, ReadResult
  <1>2. TypeOK' /\ RowsSound' /\ \A k \in Jobs : View(k)' = View(k)
    BY <1>1 DEF StreamInv, TypeOK, RowsSound, View, vars
  <1>3. ViewsOfTheRow' /\ SentIsLast'
    BY <1>1, <1>2 DEF StreamInv, ViewsOfTheRow, SentIsLast, vars
  <1>4. /\ asked' \in [Jobs -> {"idle", "confirmed"}] /\ answer' \in [Jobs -> Answers]
        /\ \A k \in Jobs : asked'[k] = "confirmed" => status'[k] = "succeeded"
        /\ ResultNeverMissing'
    <2>1. CASE CheckStatus(j)
      <3>1. CASE status[j] = "succeeded"
        BY <2>1, <3>1 DEF CheckStatus, StreamInv, ResultNeverMissing, vars
      <3>2. CASE status[j] # "succeeded"
        <4>1. PICK x : /\ answer' = [answer EXCEPT ![j] = x] /\ asked' = asked
                       /\ x = CASE status[j] = "absent" -> "JOB_NOT_FOUND"
                                [] status[j] = "failed" -> "JOB_FAILED"
                                [] OTHER                -> "JOB_NOT_COMPLETED"
          BY <2>1, <3>2 DEF CheckStatus
        <4>2. x \in Answers /\ x # "JOB_RESULT_MISSING"
          BY <4>1 DEF Answers
        <4>3. status' = status
          BY <2>1 DEF CheckStatus, vars
        <4>4. /\ asked \in [Jobs -> {"idle", "confirmed"}] /\ answer \in [Jobs -> Answers]
              /\ \A k \in Jobs : asked[k] = "confirmed" => status[k] = "succeeded"
              /\ \A k \in Jobs : answer[k] # "JOB_RESULT_MISSING"
          BY DEF StreamInv, ResultNeverMissing
        <4> QED BY <4>1, <4>2, <4>3, <4>4 DEF ResultNeverMissing
      <3> QED BY <3>1, <3>2
    <2>2. CASE ReadResult(j)
      <3>1. hasResult[j] /\ status[j] = "succeeded"
        BY <2>2 DEF ReadResult, StreamInv, RowsSound
      <3> QED BY <2>2, <3>1 DEF ReadResult, StreamInv, ResultNeverMissing, Answers, vars
    <2> QED BY <2>1, <2>2
  <1> QED BY <1>1, <1>2, <1>3, <1>4 DEF StreamInv

\* One turn of the generator: a changed view is a later one.
LEMMA EmitStep ==
    ASSUME StreamInv, NEW j \in Jobs, Emit(j)
    PROVE  StreamInv'
  <1> USE DEF vars
  <1>1. TypeOK' /\ RowsSound' /\ \A k \in Jobs : View(k)' = View(k)
    BY DEF Emit, StreamInv, TypeOK, RowsSound, View
  <1>2. /\ held[j] \in Views /\ SoundView(held[j]) /\ status[j] # "absent"
        /\ Precedes(held[j], View(j)) /\ seen[j] # NoView => Precedes(seen[j], held[j])
        /\ held[j] # NoView
    BY DEF Emit, StreamInv, ViewsOfTheRow, SoundView, NoView
  <1>3. ViewsOfTheRow'
    BY <1>1, <1>2 DEF Emit, StreamInv, ViewsOfTheRow, Precedes
  <1>4. /\ conn' \in [Jobs -> {"closed", "open", "sleeping"}]
        /\ sent' \in [Jobs -> Views] /\ seen' \in [Jobs -> Views]
        /\ received' \in [Jobs -> Seq(Views)]
    <2>1. received' \in [Jobs -> Seq(Views)]
      <3>1. Append(received[j], held[j]) \in Seq(Views)
        BY <1>2 DEF StreamInv
      <3> QED BY <3>1 DEF Emit, StreamInv
    <2> QED BY <1>2, <2>1 DEF Emit, StreamInv
  <1>5. ASSUME held[j] = sent[j] PROVE SentIsLast'
    BY <1>5 DEF Emit, StreamInv, SentIsLast
  <1>6. ASSUME held[j] # sent[j] PROVE SentIsLast'
    <2>1. ASSUME sent[j] # NoView
          PROVE  /\ Stage(sent[j]) < 3 /\ Stage(sent[j]) <= Stage(held[j])
                 /\ sent[j].done <= held[j].done
                 /\ Stage(sent[j]) = Stage(held[j]) => sent[j].done < held[j].done
      <3>1. SoundView(sent[j]) /\ Precedes(sent[j], held[j])
        BY <1>2, <2>1 DEF Emit, StreamInv, ViewsOfTheRow, SentIsLast
      <3> QED BY <1>2, <1>6, <3>1, ChangeIsProgress
    <2>2. InOrder(received'[j])
      <3>1. received[j] # <<>> => sent[j] # NoView
        BY DEF Emit, StreamInv, SentIsLast
      <3>2. received[j] \in Seq(Views) /\ InOrder(received[j])
        BY DEF StreamInv, SentIsLast
      <3>3. received'[j] = Append(received[j], held[j])
        BY <1>6 DEF Emit, StreamInv
      <3>4. sent[j] # NoView =>
              /\ sent[j] = received[j][Len(received[j])]
              /\ \A i \in DOMAIN received[j] : received[j][i].done <= sent[j].done
        BY DEF Emit, StreamInv, SentIsLast
      <3> QED BY <1>2, <2>1, <3>1, <3>2, <3>3, <3>4, AppendInOrder
    <2>3. conn'[j] # "closed" => Stage(held[j]) < 3
      BY <1>2 DEF Emit, StreamInv, Stage, EventName, SoundView, Views, Statuses, Terminal
    <2>4. \A i \in DOMAIN received'[j] : received'[j][i].done <= held[j].done
      <3>1. received'[j] = Append(received[j], held[j]) /\ received[j] \in Seq(Views)
        BY <1>6 DEF Emit, StreamInv
      <3>2. ASSUME NEW i \in DOMAIN received[j]
            PROVE  received[j][i].done <= held[j].done
        <4>1. received[j] # <<>> /\ sent[j] # NoView
          BY <3>1, <3>2 DEF Emit, StreamInv, SentIsLast
        <4>2. received[j][i].done <= sent[j].done
          BY <4>1, <3>2 DEF Emit, StreamInv, SentIsLast
        <4>3. received[j][i] \in Views /\ sent[j] \in Views /\ held[j] \in Views
          BY <1>2, <3>1, <3>2 DEF StreamInv
        <4>4. received[j][i].done \in Nat /\ sent[j].done \in Nat /\ held[j].done \in Nat
          BY <4>3, MaxStepsAssumption DEF Views
        <4> QED BY <2>1, <4>1, <4>2, <4>4
      <3>3. held[j].done \in Nat
        BY <1>2, MaxStepsAssumption DEF Views
      <3> QED BY <3>1, <3>2, <3>3
    <2>5. /\ received'[j] # <<>> /\ received'[j][Len(received'[j])] = held[j]
          /\ sent'[j] = held[j] /\ seen'[j] = held[j]
      BY <1>6 DEF Emit, StreamInv
    <2>6. ASSUME NEW k \in Jobs, k # j
          PROVE  /\ received'[k] = received[k] /\ conn'[k] = conn[k]
                 /\ sent'[k] = sent[k] /\ seen'[k] = seen[k]
      BY <1>6, <2>6 DEF Emit, StreamInv
    <2>7. sent' \in [Jobs -> Views] /\ SentIsLast
      BY <1>4 DEF StreamInv
    <2>8. ASSUME NEW k \in Jobs, k # j
          PROVE  /\ InOrder(received'[k])
                 /\ conn'[k] # "closed" =>
                       /\ sent'[k] = NoView => received'[k] = <<>>
                       /\ sent'[k] # NoView =>
                             /\ received'[k] # <<>>
                             /\ sent'[k] = received'[k][Len(received'[k])]
                             /\ sent'[k] = seen'[k] /\ Stage(sent'[k]) < 3
                             /\ \A i \in DOMAIN received'[k] : received'[k][i].done <= sent'[k].done
      <3>1. /\ received'[k] = received[k] /\ conn'[k] = conn[k]
            /\ sent'[k] = sent[k] /\ seen'[k] = seen[k]
        BY <2>6, <2>8
      <3> QED BY <2>7, <3>1, Zenon DEF SentIsLast
    <2>9. sent'[j] # NoView
      BY <1>2, <2>5
    <2>10. conn'[j] # "closed" =>
              /\ sent'[j] = received'[j][Len(received'[j])] /\ sent'[j] = seen'[j]
              /\ Stage(sent'[j]) < 3
              /\ \A i \in DOMAIN received'[j] : received'[j][i].done <= sent'[j].done
      BY <2>3, <2>4, <2>5, Zenon
    <2> QED BY <2>2, <2>5, <2>8, <2>9, <2>10, Zenon DEF SentIsLast
  <1>7. SentIsLast'
    BY <1>5, <1>6
  <1> QED BY <1>1, <1>3, <1>4, <1>7 DEF Emit, StreamInv, ResultNeverMissing

LEMMA StreamNextInv == StreamInv /\ [StreamNext]_streamVars => StreamInv'
  <1>1. ASSUME StreamInv, UNCHANGED streamVars PROVE StreamInv'
    BY <1>1 DEF streamVars, clientVars, vars, StreamInv, TypeOK, RowsSound, ViewsOfTheRow,
                SentIsLast, ResultNeverMissing, View
  <1> QED BY <1>1, WorkerStep, ConnectStep, EmitStep, RefreshStep, BreakStep, ResultStep
          DEF StreamNext
-----------------------------------------------------------------------------
(* What the readers of a job may rely on *)

\* What the clients hold are views of the row, in its order, in every reachable
\* state of the stream and the result endpoint.
THEOREM StreamInvariant == StreamSpec => []StreamInv
  <1> QED BY StreamInitInv, StreamNextInv, PTL DEF StreamSpec

\* The result endpoint never answers that the result of a finished job is missing,
\* whatever the worker writes between its two reads.
THEOREM ResultIsNeverMissing == StreamSpec => []ResultNeverMissing
  <1>1. StreamInv => ResultNeverMissing
    BY DEF StreamInv
  <1> QED BY <1>1, StreamInvariant, PTL

\* A client sees its job advance, on one connection and from one to the next.
THEOREM EventsAlwaysAdvance == StreamSpec => EventsAdvance
  <1> DEFINE Advance ==
        \A j \in Jobs :
          /\ InOrder(received'[j])
          /\ seen'[j] # seen[j] /\ seen[j] # NoView =>
                /\ Stage(seen[j]) <= Stage(seen'[j])
                /\ Stage(seen[j]) < 3
                /\ seen[j].done <= seen'[j].done
  <1>1. ASSUME StreamInv, StreamInv', [StreamNext]_streamVars PROVE Advance
    <2> SUFFICES ASSUME NEW j \in Jobs, seen'[j] # seen[j], seen[j] # NoView
                 PROVE  /\ Stage(seen[j]) <= Stage(seen'[j])
                        /\ Stage(seen[j]) < 3
                        /\ seen[j].done <= seen'[j].done
      BY <1>1 DEF StreamInv, SentIsLast
    <2>1. PICK k \in Jobs : Emit(k)
      BY <1>1 DEF StreamNext, streamVars, clientVars, Connect, Refresh, Break, CheckStatus,
                  ReadResult
    <2>2. conn[j] # "closed" /\ seen'[j] = held[j]
      BY <1>1, <2>1 DEF Emit, StreamInv
    <2> QED BY <1>1, <2>2 DEF StreamInv, ViewsOfTheRow, Precedes
  <1> QED BY <1>1, StreamInvariant, PTL DEF StreamSpec, EventsAdvance
-----------------------------------------------------------------------------
(* The session *)

ApiInv == TypeOK /\ RowsSound /\ ClientTypeOK /\ ApiIsTrue

\* The entries of the session state that have to fit each other.
PageInv == /\ SessionTypeOK /\ ScriptKnowsItsPlace /\ ShownIsFinished
           /\ ClickIsLeft /\ OneJobPerClick /\ StandsOnlyAfterLoss

LEMMA SessionInvParts == SessionInv => ApiInv /\ PageInv
  BY DEF SessionInv, ApiInv, PageInv
-----------------------------------------------------------------------------
(* What the API said *)

\* A closed row stays as it is, and time does not run back.
LEMMA ClosedRowStays ==
    ASSUME TypeOK, Next
    PROVE  /\ \A j \in Jobs : status[j] \in Terminal => status'[j] = status[j]
           /\ (\A j \in Jobs : submittedAt[j] <= clock) =>
                 \A j \in Jobs : submittedAt'[j] <= clock'
           /\ clock' = clock => submittedAt' = submittedAt
  <1> USE DEF TypeOK, Terminal
  <1>1. ASSUME NEW k \in Jobs, Submit(k)
        PROVE  /\ \A j \in Jobs : status[j] \in Terminal => status'[j] = status[j]
               /\ (\A j \in Jobs : submittedAt[j] <= clock) =>
                     \A j \in Jobs : submittedAt'[j] <= clock'
               /\ clock' = clock + 1
    BY <1>1 DEF Submit
  <1>2. ASSUME NEW k \in Jobs,
               \/ Start(k)
               \/ \E n \in 0..MaxSteps : Report(k, n) \/ Succeed(k, n)
               \/ \E code \in ErrorCodes : Fail(k, code)
        PROVE  /\ \A j \in Jobs : status[j] \in Terminal => status'[j] = status[j]
               /\ UNCHANGED <<submittedAt, clock>>
    BY <1>2 DEF Start, FirstInLine, Report, Succeed, Fail
  <1>3. ASSUME Abandon
        PROVE  /\ \A j \in Jobs : status[j] \in Terminal => status'[j] = status[j]
               /\ UNCHANGED <<submittedAt, clock>>
    BY <1>3 DEF Abandon, Open
  <1> QED BY <1>1, <1>2, <1>3 DEF Next

\* The worker moves, the clients do not.
LEMMA WorkerKeepsApi ==
    ASSUME ApiInv, Next, UNCHANGED clientVars
    PROVE  ApiInv'
  <1>1. TypeOK' /\ RowsSound' /\ \A j \in Jobs : status[j] = "succeeded" =>
                                                 status'[j] = "succeeded"
    BY RowStep DEF ApiInv
  <1>2. /\ \A j \in Jobs : status[j] \in Terminal => status'[j] = status[j]
        /\ \A j \in Jobs : submittedAt'[j] <= clock'
    BY ClosedRowStays DEF ApiInv, ApiIsTrue
  <1>3. ClientTypeOK /\ ApiIsTrue
    BY DEF ApiInv
  <1>4. /\ conn' = conn /\ held' = held /\ sent' = sent /\ received' = received
        /\ seen' = seen /\ asked' = asked /\ answer' = answer
    BY DEF clientVars
  <1>5. ClientTypeOK'
    BY <1>3, <1>4 DEF ClientTypeOK
  <1>6. ApiIsTrue'
    <2>1. ASSUME NEW j \in Jobs
          PROVE  /\ \A i \in DOMAIN received[j] : Settled(j, received[j][i])'
                 /\ conn[j] # "closed" => Settled(j, held[j])'
                 /\ answer[j] \in {"none", "ok"}
                 /\ asked[j] = "confirmed" \/ answer[j] = "ok" => status'[j] = "succeeded"
      BY <1>1, <1>2, <1>3, <1>4 DEF ApiIsTrue, Settled
    <2> QED BY <1>2, <1>4, <2>1 DEF ApiIsTrue, Settled
  <1> QED BY <1>1, <1>5, <1>6 DEF ApiInv

LEMMA ConnectKeepsApi ==
    ASSUME ApiInv, NEW j \in Jobs, Connect(j)
    PROVE  ApiInv'
  <1> USE DEF ApiInv, Connect, vars
  <1>1. View(j) \in Views /\ NoView \in Views
    BY ViewType, NoViewType
  <1>2. TypeOK' /\ RowsSound'
    BY DEF TypeOK, RowsSound
  <1>3. ClientTypeOK'
    BY <1>1 DEF ClientTypeOK
  <1>4. ApiIsTrue'
    BY DEF ApiIsTrue, ClientTypeOK, Settled, View
  <1> QED BY <1>2, <1>3, <1>4

LEMMA EmitKeepsApi ==
    ASSUME ApiInv, NEW j \in Jobs, Emit(j)
    PROVE  ApiInv'
  <1> USE DEF ApiInv, Emit, vars
  <1>1. TypeOK' /\ RowsSound'
    BY DEF TypeOK, RowsSound
  <1>2. held[j] \in Views /\ received[j] \in Seq(Views) /\ Settled(j, held[j])
    BY DEF ClientTypeOK, ApiIsTrue
  <1>3. Append(received[j], held[j]) \in Seq(Views)
    BY <1>2
  <1>4. received' = IF held[j] # sent[j]
                    THEN [received EXCEPT ![j] = Append(received[j], held[j])]
                    ELSE received
    OBVIOUS
  <1>5. received' \in [Jobs -> Seq(Views)]
    BY <1>3, <1>4 DEF ClientTypeOK
  <1>6. ClientTypeOK'
    BY <1>2, <1>5 DEF ClientTypeOK
  <1>7. ASSUME NEW k \in Jobs, NEW i \in DOMAIN received'[k]
        PROVE  Settled(k, received'[k][i])
    <2>1. CASE k = j /\ held[j] # sent[j]
      <3>1. received'[k] = Append(received[j], held[j])
        BY <1>4, <2>1 DEF ClientTypeOK
      <3>2. \/ i \in DOMAIN received[j] /\ received'[k][i] = received[j][i]
            \/ received'[k][i] = held[j]
        BY <1>2, <3>1
      <3> QED BY <1>2, <2>1, <3>2 DEF ApiIsTrue, Settled
    <2>2. CASE ~(k = j /\ held[j] # sent[j])
      <3>1. received'[k] = received[k]
        BY <1>4, <2>2 DEF ClientTypeOK
      <3> QED BY <3>1 DEF ApiIsTrue, Settled
    <2> QED BY <2>1, <2>2
  <1>8. ApiIsTrue'
    BY <1>7 DEF ApiIsTrue, ClientTypeOK, Settled
  <1> QED BY <1>1, <1>6, <1>8

\* A connection that is closed leaves nothing behind that could be untrue.
LEMMA HangupKeepsApi ==
    ASSUME ApiInv, NEW js, Hangup(js), UNCHANGED vars,
           asked' \in [Jobs -> {"idle", "confirmed"}], answer' \in [Jobs -> Answers],
           \A j \in Jobs :
              /\ answer'[j] \in {"none", "ok"}
              /\ asked'[j] = "confirmed" => asked[j] = "confirmed"
              /\ answer'[j] = "ok" => answer[j] = "ok"
    PROVE  ApiInv'
  <1> USE DEF ApiInv, vars
  <1>1. TypeOK' /\ RowsSound'
    BY DEF TypeOK, RowsSound
  <1>2. ClientTypeOK'
    BY NoViewType DEF ClientTypeOK, Hangup
  <1>3. ApiIsTrue'
    BY DEF ApiIsTrue, Hangup, Settled
  <1> QED BY <1>1, <1>2, <1>3

\* The result endpoint says no more than the rows it read, and of a job that
\* succeeded it has the result.
LEMMA ResultKeepsApi ==
    ASSUME ApiInv, NEW j \in Jobs,
           (status[j] = "succeeded" /\ CheckStatus(j)) \/ ReadResult(j)
    PROVE  ApiInv'
  <1> USE DEF ApiInv
  <1>1. UNCHANGED <<vars, conn, held, sent, received, seen>>
    BY DEF CheckStatus, ReadResult
  <1>2. TypeOK' /\ RowsSound'
    BY <1>1 DEF TypeOK, RowsSound, vars
  <1>3. status[j] = "succeeded" /\ hasResult[j]
    BY DEF ReadResult, ApiIsTrue, RowsSound
  <1>4. /\ asked' \in [Jobs -> {"idle", "confirmed"}] /\ answer' \in [Jobs -> Answers]
        /\ \A k \in Jobs : k # j => asked'[k] = asked[k] /\ answer'[k] = answer[k]
        /\ answer'[j] \in {answer[j], "ok"}
    <2>1. CASE CheckStatus(j)
      BY <1>3, <2>1 DEF CheckStatus, ClientTypeOK
    <2>2. CASE ReadResult(j)
      <3>1. answer' = [answer EXCEPT ![j] = "ok"]
        BY <1>3, <2>2 DEF ReadResult
      <3> QED BY <2>2, <3>1 DEF ReadResult, ClientTypeOK, Answers
    <2> QED BY <2>1, <2>2
  <1>5. ApiIsTrue'
    BY <1>1, <1>3, <1>4 DEF ApiIsTrue, Settled, vars
  <1> QED BY <1>1, <1>2, <1>4, <1>5 DEF ClientTypeOK
-----------------------------------------------------------------------------
(* What the script remembers: the top of a run *)

\* The rows and the page's memory of them, when a step touches neither.
LEMMA RowsStand ==
    ASSUME ApiInv, UNCHANGED vars
    PROVE  /\ status' = status /\ submittedAt' = submittedAt /\ clock' = clock
           /\ TypeOK' /\ RowsSound'
  BY DEF ApiInv, TypeOK, RowsSound, vars

LEMMA ApiStands ==
    ASSUME ApiInv, UNCHANGED streamVars
    PROVE  ApiInv'
  BY DEF ApiInv, TypeOK, RowsSound, ClientTypeOK, ApiIsTrue, Settled, streamVars, vars,
         clientVars

LEMMA EmptyLogFits == <<>> \in Seq([job : Jobs, view : Views]) /\ Len(<<>>) <= LogSize
  <1>1. LogSize \in Nat
    BY SessionAssumption
  <1> QED BY <1>1

LEMMA RenderStep ==
    ASSUME SessionInv, RenderLoading \/ RenderOther
    PROVE  SessionInv'
  <1>1. ApiInv /\ PageInv /\ UNCHANGED streamVars
    BY SessionInvParts DEF RenderLoading, RenderOther
  <1>2. UNCHANGED <<status, submittedAt, clock>>
    BY <1>1 DEF streamVars, vars
  <1>3. UNCHANGED <<submitting, pending, shown, notFound, posted, clicks, lost, interrupts>>
    BY DEF RenderLoading, RenderOther, Counted
  <1>4. log' \in Seq([job : Jobs, view : Views]) /\ Len(log') <= LogSize
    <2>1. log' = log \/ log' = <<>>
      BY DEF RenderLoading, RenderOther
    <2> QED BY <1>1, <2>1, EmptyLogFits DEF PageInv, SessionTypeOK
  <1>5. /\ page' \in {"Search", "Loading", "Report"} /\ step' \in Steps
        /\ step' \in {"top", "idle", "posting", "streaming"}
        /\ page' \in {page, "Search", "Loading"}
    BY <1>1 DEF PageInv, SessionTypeOK, Steps, RenderLoading, RenderOther
  <1>6. SessionTypeOK'
    BY <1>1, <1>3, <1>4, <1>5 DEF PageInv, SessionTypeOK
  <1>7. ScriptKnowsItsPlace'
    BY <1>1, <1>2, <1>3, <1>5 DEF PageInv, ScriptKnowsItsPlace, RenderLoading, RenderOther
  <1>8. (ShownIsFinished /\ ClickIsLeft /\ OneJobPerClick)'
    BY <1>1, <1>2, <1>3 DEF PageInv, ShownIsFinished, ClickIsLeft, OneJobPerClick
  <1>9. StandsOnlyAfterLoss'
    BY <1>1, <1>3 DEF PageInv, ScriptKnowsItsPlace, StandsOnlyAfterLoss, RenderLoading,
                      RenderOther, SessionTypeOK
  <1> QED BY <1>1, <1>6, <1>7, <1>8, <1>9, ApiStands DEF SessionInv, ApiInv, PageInv
-----------------------------------------------------------------------------
(* What the user does to a page that waits, and to a run *)

LEMMA UserKeepsPage ==
    ASSUME SessionInv, UserStep
    PROVE  SessionInv'
  <1>1. ApiInv /\ PageInv /\ UNCHANGED streamVars
    BY SessionInvParts DEF UserStep, StartReview, BackToSearch, ReturnToSearch, RunAgain
  <1>2. UNCHANGED <<status, submittedAt, clock, posted, lost, interrupts>>
    BY <1>1 DEF streamVars, vars, UserStep, StartReview, BackToSearch, ReturnToSearch,
                RunAgain, Counted
  <1>3. /\ UNCHANGED <<log, notFound, pending>>
        /\ page' \in {"Search", "Loading", "Report"} /\ step = "idle"
        /\ step' \in {"top", "starting", "returning"}
        /\ submitting' \in BOOLEAN /\ shown' \in {shown, NoJob}
    BY <1>1 DEF PageInv, SessionTypeOK, UserStep, StartReview, BackToSearch,
                ReturnToSearch, RunAgain, Counted
  <1>4. clicks \in 0..MaxClicks /\ clock \in Nat /\ interrupts \in Nat
    BY <1>1 DEF PageInv, SessionTypeOK, ApiInv, TypeOK
  <1>5. clicks' \in 0..MaxClicks /\ clicks <= clicks'
    BY <1>4, SessionAssumption DEF UserStep, StartReview, BackToSearch, ReturnToSearch,
                                   RunAgain, Counted
  <1>6. SessionTypeOK'
    BY <1>1, <1>2, <1>3, <1>5 DEF PageInv, SessionTypeOK, Steps
  <1>7. posted = NoJob
    BY <1>1, <1>3 DEF PageInv, ScriptKnowsItsPlace
  <1>8. ScriptKnowsItsPlace'
    <2>1. CASE StartReview
      BY <1>1, <1>2, <1>7, <2>1 DEF PageInv, ScriptKnowsItsPlace, StartReview
    <2>2. CASE BackToSearch
      BY <1>1, <1>2, <1>7, <2>2 DEF PageInv, ScriptKnowsItsPlace, BackToSearch, Counted
    <2>3. CASE ReturnToSearch
      BY <1>1, <1>2, <1>7, <2>3 DEF PageInv, ScriptKnowsItsPlace, ReturnToSearch, Counted
    <2>4. CASE RunAgain
      BY <1>1, <1>2, <1>7, <2>4 DEF PageInv, ScriptKnowsItsPlace, RunAgain, Counted
    <2> QED BY <2>1, <2>2, <2>3, <2>4 DEF UserStep
  <1>9. ShownIsFinished'
    BY <1>1, <1>2, <1>3, <1>7 DEF PageInv, ShownIsFinished
  <1>10. OneJobPerClick' /\ ClickIsLeft'
    <2>1. clock <= clicks + interrupts
      BY <1>1 DEF PageInv, OneJobPerClick
    <2>2. CASE StartReview
      BY <1>2, <1>4, <2>1, <2>2 DEF StartReview, ClickIsLeft, OneJobPerClick
    <2>3. CASE ~StartReview
      <3>1. clicks' = clicks /\ (submitting' => submitting)
        BY <2>3 DEF UserStep, BackToSearch, ReturnToSearch, RunAgain, Counted
      <3> QED BY <1>1, <1>2, <3>1 DEF PageInv, ClickIsLeft, OneJobPerClick
    <2> QED BY <2>2, <2>3
  <1>11. StandsOnlyAfterLoss'
    BY <1>3 DEF StandsOnlyAfterLoss
  <1> QED BY <1>1, <1>6, <1>8, <1>9, <1>10, <1>11, ApiStands DEF SessionInv, ApiInv, PageInv

LEMMA DropRequestsKeepsApi ==
    ASSUME ApiInv, DropRequests
    PROVE  ApiInv' /\ UNCHANGED <<status, submittedAt, clock>>
  <1>1. /\ asked' \in [Jobs -> {"idle", "confirmed"}] /\ answer' \in [Jobs -> Answers]
        /\ \A j \in Jobs : asked'[j] = "idle" /\ answer'[j] = "none"
    BY DEF DropRequests, Answers
  <1>2. Hangup(Jobs) /\ UNCHANGED vars
    BY DEF DropRequests
  <1> QED BY <1>1, <1>2, HangupKeepsApi DEF vars

LEMMA InterruptStep ==
    ASSUME SessionInv, Interrupt
    PROVE  SessionInv'
  <1>1. ApiInv /\ PageInv /\ ApiInv' /\ UNCHANGED <<status, submittedAt, clock>>
    BY SessionInvParts, DropRequestsKeepsApi DEF Interrupt
  <1>2. interrupts' \in 0..MaxFaults /\ interrupts' = interrupts + 1 /\ interrupts \in Nat
    BY <1>1, SessionAssumption DEF PageInv, SessionTypeOK, Interrupt
  <1>3. SessionTypeOK'
    BY <1>1, <1>2 DEF PageInv, SessionTypeOK, Interrupt, Steps
  <1>4. (ScriptKnowsItsPlace /\ ShownIsFinished)'
    BY <1>1 DEF PageInv, ScriptKnowsItsPlace, ShownIsFinished, Interrupt
  <1>5. (ClickIsLeft /\ OneJobPerClick)'
    <2>1. clock <= clicks + interrupts /\ clock \in Nat /\ clicks \in Nat
      BY <1>1 DEF PageInv, OneJobPerClick, SessionTypeOK, ApiInv, TypeOK
    <2>2. UNCHANGED <<clock, clicks>>
      BY <1>1 DEF Interrupt
    <2> QED BY <1>2, <2>1, <2>2 DEF ClickIsLeft, OneJobPerClick
  <1>6. StandsOnlyAfterLoss'
    BY DEF Interrupt, StandsOnlyAfterLoss
  <1> QED BY <1>1, <1>3, <1>4, <1>5, <1>6 DEF SessionInv, ApiInv, PageInv

LEMMA ReloadStep ==
    ASSUME SessionInv, Reload
    PROVE  SessionInv'
  <1>1. ApiInv /\ PageInv /\ ApiInv' /\ UNCHANGED <<status, submittedAt, clock>>
    BY SessionInvParts, DropRequestsKeepsApi DEF Reload
  <1>2. SessionTypeOK'
    BY <1>1, EmptyLogFits DEF PageInv, SessionTypeOK, Reload, NewSession, Counted, Steps
  <1>3. (ScriptKnowsItsPlace /\ ShownIsFinished /\ ClickIsLeft /\ StandsOnlyAfterLoss)'
    BY DEF ScriptKnowsItsPlace, ShownIsFinished, ClickIsLeft, StandsOnlyAfterLoss, Reload,
           NewSession
  <1>4. OneJobPerClick'
    BY <1>1 DEF PageInv, OneJobPerClick, Reload, Counted
  <1> QED BY <1>1, <1>2, <1>3, <1>4 DEF SessionInv, ApiInv, PageInv
-----------------------------------------------------------------------------
(* The submission *)

\* The new job is submitted after the one that is shown, and takes the click that
\* was left.
LEMMA PostStep ==
    ASSUME SessionInv, NEW j \in Jobs, PostJob(j)
    PROVE  SessionInv'
  <1>1. ApiInv /\ PageInv /\ Next /\ UNCHANGED clientVars
    BY SessionInvParts DEF PostJob, Next
  <1>2. ApiInv'
    BY <1>1, WorkerKeepsApi
  <1>3. /\ step = "posting" /\ posted = NoJob /\ posted' = j /\ pending = NoJob
        /\ submitting
        /\ UNCHANGED <<page, submitting, pending, shown, notFound, log, step, clicks, lost,
                       interrupts>>
    BY <1>1 DEF PageInv, ScriptKnowsItsPlace, PostJob, Counted
  <1>4. /\ status[j] = "absent" /\ clock' = clock + 1
        /\ submittedAt' = [submittedAt EXCEPT ![j] = clock + 1]
        /\ status' = [status EXCEPT ![j] = "queued"]
    BY DEF PostJob, Submit
  <1>5. SessionTypeOK'
    BY <1>1, <1>3 DEF PageInv, SessionTypeOK
  <1>6. ScriptKnowsItsPlace'
    BY <1>1, <1>3 DEF PageInv, ScriptKnowsItsPlace
  <1>7. ShownIsFinished'
    <2> SUFFICES ASSUME shown # NoJob
                 PROVE  /\ status'[shown] = "succeeded" /\ shown \notin Unknown
                        /\ submittedAt'[shown] < submittedAt'[j]
      BY <1>3, SessionAssumption DEF ShownIsFinished
    <2>1. shown \in Jobs /\ shown # j /\ status[shown] = "succeeded" /\ shown \notin Unknown
      BY <1>1, <1>4 DEF PageInv, SessionTypeOK, ShownIsFinished
    <2>2. submittedAt[shown] <= clock /\ submittedAt[shown] \in Nat /\ clock \in Nat
      BY <1>1, <2>1 DEF ApiInv, ApiIsTrue, TypeOK
    <2>3. submittedAt'[shown] = submittedAt[shown] /\ submittedAt'[j] = clock + 1
          /\ status'[shown] = status[shown]
      BY <1>1, <1>4, <2>1 DEF ApiInv, TypeOK
    <2> QED BY <2>1, <2>2, <2>3
  <1>8. (ClickIsLeft /\ OneJobPerClick)'
    <2>1. clock < clicks + interrupts
      BY <1>1, <1>3 DEF PageInv, ClickIsLeft
    <2>2. clock \in Nat /\ clicks \in Nat /\ interrupts \in Nat /\ posted' # NoJob
      BY <1>1, <1>3, SessionAssumption DEF PageInv, SessionTypeOK, ApiInv, TypeOK
    <2> QED BY <1>3, <1>4, <2>1, <2>2 DEF ClickIsLeft, OneJobPerClick
  <1>9. StandsOnlyAfterLoss'
    BY <1>3 DEF StandsOnlyAfterLoss
  <1> QED BY <1>2, <1>5, <1>6, <1>7, <1>8, <1>9 DEF SessionInv, ApiInv, PageInv

LEMMA AdoptStep ==
    ASSUME SessionInv, ForgetName \/ Adopt
    PROVE  SessionInv'
  <1>1. ApiInv /\ PageInv /\ UNCHANGED streamVars
    BY SessionInvParts DEF ForgetName, Adopt
  <1>2. UNCHANGED <<status, submittedAt, clock>>
    BY <1>1 DEF streamVars, vars
  <1>3. SessionTypeOK'
    BY <1>1 DEF PageInv, SessionTypeOK, ForgetName, Adopt, Counted, Steps
  <1>4. ScriptKnowsItsPlace'
    <2>1. CASE ForgetName
      BY <1>1, <1>2, <2>1 DEF PageInv, ScriptKnowsItsPlace, ForgetName, Counted
    <2>2. CASE Adopt
      BY <1>1, <1>2, <2>2 DEF PageInv, ScriptKnowsItsPlace, Adopt, Counted
    <2> QED BY <2>1, <2>2
  <1>5. ShownIsFinished'
    BY <1>1, <1>2 DEF PageInv, ScriptKnowsItsPlace, ShownIsFinished, ForgetName, Adopt
  <1>6. (OneJobPerClick /\ StandsOnlyAfterLoss /\ ClickIsLeft)'
    BY <1>1, <1>2 DEF PageInv, ScriptKnowsItsPlace, OneJobPerClick, StandsOnlyAfterLoss,
                      ClickIsLeft, ForgetName, Adopt, Counted
  <1> QED BY <1>1, <1>3, <1>4, <1>5, <1>6, ApiStands DEF SessionInv, ApiInv, PageInv
-----------------------------------------------------------------------------
(* The assignments a handler goes on with *)

\* Whatever order they come in, the entries keep fitting each other after each one.
LEMMA AssignStep ==
    ASSUME SessionInv, LetGo \/ ClearLog \/ ForgetMessage \/ ReportNotFound \/ TurnPage
    PROVE  SessionInv'
  <1>1. ApiInv /\ PageInv /\ UNCHANGED streamVars
    BY SessionInvParts DEF LetGo, ClearLog, ForgetMessage, ReportNotFound, TurnPage
  <1>2. UNCHANGED <<status, submittedAt, clock>>
    BY <1>1 DEF streamVars, vars
  <1>3. UNCHANGED <<shown, posted, clicks, lost, interrupts>>
    BY DEF LetGo, ClearLog, ForgetMessage, ReportNotFound, TurnPage, Counted
  <1>4. log' \in Seq([job : Jobs, view : Views]) /\ Len(log') <= LogSize
    <2>1. log' = log \/ log' = <<>>
      BY DEF LetGo, ClearLog, ForgetMessage, ReportNotFound, TurnPage
    <2> QED BY <1>1, <2>1, EmptyLogFits DEF PageInv, SessionTypeOK
  <1>5. /\ pending' \in {pending, NoJob} /\ submitting' \in {submitting, FALSE}
        /\ notFound' \in BOOLEAN /\ page' \in {page, "Search", "Loading", "Report"}
        /\ step' \in Steps
    BY <1>1 DEF PageInv, SessionTypeOK, Steps, LetGo, ClearLog, ForgetMessage,
                ReportNotFound, TurnPage
  <1>6. SessionTypeOK'
    BY <1>1, <1>3, <1>4, <1>5 DEF PageInv, SessionTypeOK
  <1>7. ScriptKnowsItsPlace'
    <2>1. CASE LetGo
      BY <1>1, <1>2, <1>3, <2>1 DEF PageInv, ScriptKnowsItsPlace, LetGo
    <2>2. CASE ClearLog
      BY <1>1, <1>2, <1>3, <2>2 DEF PageInv, ScriptKnowsItsPlace, ClearLog
    <2>3. CASE ForgetMessage \/ ReportNotFound
      BY <1>1, <1>2, <1>3, <2>3
         DEF PageInv, ScriptKnowsItsPlace, ForgetMessage, ReportNotFound
    <2>4. CASE TurnPage
      BY <1>1, <1>2, <1>3, <2>4 DEF PageInv, ScriptKnowsItsPlace, TurnPage
    <2> QED BY <2>1, <2>2, <2>3, <2>4
  <1>8. (ShownIsFinished /\ ClickIsLeft /\ OneJobPerClick)'
    <2>1. ShownIsFinished'
      BY <1>1, <1>2, <1>3, <1>5 DEF PageInv, ShownIsFinished
    <2>2. submitting' => submitting
      BY <1>5
    <2>3. (ClickIsLeft /\ OneJobPerClick)'
      BY <1>1, <1>2, <1>3, <2>2 DEF PageInv, ClickIsLeft, OneJobPerClick
    <2> QED BY <2>1, <2>3
  <1>9. StandsOnlyAfterLoss'
    BY <1>1, <1>3 DEF PageInv, ScriptKnowsItsPlace, StandsOnlyAfterLoss, LetGo, ClearLog,
                      ForgetMessage, ReportNotFound, TurnPage
  <1> QED BY <1>1, <1>6, <1>7, <1>8, <1>9, ApiStands DEF SessionInv, ApiInv, PageInv
-----------------------------------------------------------------------------
(* One answer about the job *)

\* The step that only loses an answer: the script goes on elsewhere, or stands.
LEMMA LossStep ==
    ASSUME SessionInv, SubmitLost \/ StreamLost \/ PollLost \/ ResultLost
    PROVE  SessionInv'
  <1>1. ApiInv /\ PageInv /\ UNCHANGED vars
    BY SessionInvParts DEF SubmitLost, StreamLost, PollLost, ResultLost, streamVars
  <1>2. UNCHANGED <<status, submittedAt, clock>>
    BY <1>1 DEF vars
  <1>3. ApiInv'
    <2>1. CASE SubmitLost \/ PollLost
      BY <1>1, <2>1, ApiStands DEF SubmitLost, PollLost
    <2>2. CASE StreamLost
      BY <1>1, <2>2, HangupKeepsApi DEF StreamLost, ApiInv, ClientTypeOK, ApiIsTrue
    <2>3. CASE ResultLost
      <3>1. TypeOK' /\ RowsSound'
        BY <1>1 DEF ApiInv, TypeOK, RowsSound, vars
      <3>2. ClientTypeOK'
        BY <1>1, <2>3 DEF ApiInv, ClientTypeOK, ResultLost, Answers
      <3>3. ApiIsTrue'
        BY <1>1, <2>3 DEF ApiInv, ClientTypeOK, ApiIsTrue, ResultLost, vars, Settled
      <3> QED BY <3>1, <3>2, <3>3 DEF ApiInv
    <2> QED BY <2>1, <2>2, <2>3
  <1>4. /\ lost' = lost + 1 /\ lost < MaxFaults /\ lost \in Nat
        /\ UNCHANGED <<clicks, interrupts, page, pending, shown, notFound, log>>
        /\ posted' \in {posted, NoJob} /\ step' \in {"idle", "polling"}
        /\ submitting' = submitting \/ submitting' = FALSE
    BY <1>1, SessionAssumption
       DEF PageInv, SessionTypeOK, SubmitLost, StreamLost, PollLost, ResultLost, LoseOne
  <1>5. SessionTypeOK'
    <2>1. lost' \in 0..MaxFaults
      BY <1>4, SessionAssumption
    <2>2. submitting' \in BOOLEAN
      BY <1>1, <1>4 DEF PageInv, SessionTypeOK
    <2> QED BY <1>1, <1>4, <2>1, <2>2 DEF PageInv, SessionTypeOK, Steps
  <1>6. ScriptKnowsItsPlace'
    BY <1>1, <1>2, <1>4 DEF PageInv, ScriptKnowsItsPlace, SubmitLost, StreamLost, PollLost,
                            ResultLost
  <1>7. ShownIsFinished'
    BY <1>1, <1>2, <1>4 DEF PageInv, ShownIsFinished
  <1>8. (ClickIsLeft /\ OneJobPerClick)'
    <2>1. CASE SubmitLost
      BY <1>1, <1>2, <1>4, <2>1 DEF PageInv, ClickIsLeft, OneJobPerClick, SubmitLost
    <2>2. CASE ~SubmitLost
      <3>1. UNCHANGED <<posted, submitting>>
        BY <2>2 DEF StreamLost, PollLost, ResultLost
      <3> QED BY <1>1, <1>2, <1>4, <3>1 DEF PageInv, ClickIsLeft, OneJobPerClick
    <2> QED BY <2>1, <2>2
  <1>9. StandsOnlyAfterLoss'
    BY <1>4 DEF StandsOnlyAfterLoss
  <1> QED BY <1>3, <1>5, <1>6, <1>7, <1>8, <1>9 DEF SessionInv, ApiInv, PageInv

\* The list of events the page keeps is a list of at most LogSize events.
LEMMA KeepEventType ==
    ASSUME SessionTypeOK, NEW j \in Jobs, NEW v \in Views
    PROVE  /\ KeepEvent(j, v) \in Seq([job : Jobs, view : Views])
           /\ Len(KeepEvent(j, v)) <= LogSize
  <1> DEFINE E     == [job : Jobs, view : Views]
             event == [job |-> j, view |-> v]
             kept  == IF log # <<>> /\ log[Len(log)] = event THEN log ELSE Append(log, event)
  <1>1. log \in Seq(E) /\ Len(log) <= LogSize /\ LogSize \in Nat /\ event \in E
    BY SessionAssumption DEF SessionTypeOK
  <1>2. kept \in Seq(E) /\ Len(kept) <= LogSize + 1
    <2> HIDE DEF E, event
    <2>1. Append(log, event) \in Seq(E) /\ Len(Append(log, event)) = Len(log) + 1
      BY <1>1
    <2>2. Len(log) \in Nat
      BY <1>1
    <2> QED BY <1>1, <2>1, <2>2
  <1>3. KeepEvent(j, v) = IF Len(kept) > LogSize THEN Tail(kept) ELSE kept
    BY DEF KeepEvent
  <1>4. ASSUME Len(kept) > LogSize PROVE Tail(kept) \in Seq(E) /\ Len(Tail(kept)) <= LogSize
    <2> HIDE DEF E, kept
    <2>1. kept # <<>> /\ Len(kept) \in Nat
      BY <1>1, <1>2, <1>4
    <2>2. Tail(kept) \in Seq(E) /\ Len(Tail(kept)) = Len(kept) - 1
      BY <1>2, <2>1
    <2> QED BY <1>1, <1>2, <2>1, <2>2
  <1>5. Len(kept) \in Nat
    BY <1>2
  <1> HIDE DEF kept, E
  <1>6. KeepEvent(j, v) \in Seq(E) /\ Len(KeepEvent(j, v)) <= LogSize
    BY <1>1, <1>2, <1>3, <1>4, <1>5
  <1> QED BY <1>6 DEF E

\* What the page does with an answer that is true: it goes on to fetch a job that
\* succeeded or to let a failed one go, and looks at an open one again.
LEMMA ShowStep ==
    ASSUME PageInv, TypeOK, NEW v \in Views, Settled(pending, v), Show(v),
           step \in {"reading", "polling"},
           log' \in Seq([job : Jobs, view : Views]), Len(log') <= LogSize,
           UNCHANGED <<status, submittedAt, clock, page, submitting, pending, shown,
                       notFound, posted, clicks, lost, interrupts>>
    PROVE  PageInv'
  <1>1. /\ pending \in Jobs /\ pending # NoJob /\ ~submitting /\ page = "Loading"
        /\ ~notFound /\ posted = NoJob
    BY DEF PageInv, ScriptKnowsItsPlace, SessionTypeOK
  <1>2. /\ step' \in {"fetching", "failing", "top"}
        /\ step' = "fetching" => status[pending] = "succeeded"
        /\ step' = "failing" => status[pending] = "failed"
    BY DEF Show, Settled, Terminal
  <1>3. SessionTypeOK'
    BY <1>2 DEF PageInv, SessionTypeOK, Steps
  <1>4. ScriptKnowsItsPlace'
    BY <1>1, <1>2 DEF PageInv, ScriptKnowsItsPlace
  <1>5. (ShownIsFinished /\ ClickIsLeft /\ OneJobPerClick)'
    BY <1>1, <1>2 DEF PageInv, ShownIsFinished, ClickIsLeft, OneJobPerClick
  <1>6. StandsOnlyAfterLoss'
    BY <1>2 DEF StandsOnlyAfterLoss
  <1> QED BY <1>3, <1>4, <1>5, <1>6 DEF PageInv

LEMMA OpenStreamStep ==
    ASSUME SessionInv, OpenStream
    PROVE  SessionInv'
  <1>1. ApiInv /\ PageInv /\ pending \in Jobs /\ Connect(pending)
    BY SessionInvParts DEF PageInv, OpenStream, ScriptKnowsItsPlace, SessionTypeOK
  <1>2. ApiInv' /\ UNCHANGED <<status, submittedAt, clock>>
    BY <1>1, ConnectKeepsApi DEF Connect, vars
  <1>3. UNCHANGED <<page, submitting, pending, shown, notFound, log, posted, clicks, lost,
                    interrupts>> /\ step = "streaming" /\ step' = "reading"
    BY DEF OpenStream, Counted
  <1>4. SessionTypeOK'
    BY <1>1, <1>3 DEF PageInv, SessionTypeOK, Steps
  <1>5. (ScriptKnowsItsPlace /\ StandsOnlyAfterLoss)'
    BY <1>1, <1>3 DEF PageInv, ScriptKnowsItsPlace, StandsOnlyAfterLoss
  <1>6. (ShownIsFinished /\ ClickIsLeft /\ OneJobPerClick)'
    BY <1>1, <1>2, <1>3 DEF PageInv, ShownIsFinished, ClickIsLeft, OneJobPerClick
  <1> QED BY <1>2, <1>4, <1>5, <1>6 DEF SessionInv, ApiInv, PageInv

LEMMA TakeEventStep ==
    ASSUME SessionInv, TakeEvent
    PROVE  SessionInv'
  <1> DEFINE v == received[pending][1]
  <1>1. ApiInv /\ PageInv /\ pending \in Jobs
    BY SessionInvParts DEF PageInv, TakeEvent, ScriptKnowsItsPlace, SessionTypeOK
  <1>2. v \in Views /\ Settled(pending, v)
    <2>1. received[pending] \in Seq(Views) /\ received[pending] # <<>>
      BY <1>1 DEF ApiInv, ClientTypeOK, TakeEvent
    <2>2. 1 \in DOMAIN received[pending] /\ v \in Views
      BY <2>1
    <2> QED BY <1>1, <2>2 DEF ApiInv, ApiIsTrue
  <1>3. ApiInv'
    BY <1>1, HangupKeepsApi DEF TakeEvent, ApiInv, ClientTypeOK, ApiIsTrue
  <1>4. UNCHANGED <<status, submittedAt, clock, page, submitting, pending, shown, notFound,
                    posted, clicks, lost, interrupts>> /\ step = "reading" /\ Show(v)
    BY DEF TakeEvent, vars, Counted
  <1>5. log' \in Seq([job : Jobs, view : Views]) /\ Len(log') <= LogSize
    <2>1. log' = KeepEvent(pending, v)
      BY DEF TakeEvent
    <2> HIDE DEF v
    <2> QED BY <1>1, <1>2, <2>1, KeepEventType DEF PageInv
  <1>6. PageInv'
    <2> HIDE DEF v
    <2> QED BY <1>1, <1>2, <1>4, <1>5, ShowStep DEF ApiInv
  <1> QED BY <1>3, <1>6 DEF SessionInv, ApiInv, PageInv

LEMMA PollStep ==
    ASSUME SessionInv, PollStatus
    PROVE  SessionInv'
  <1>1. ApiInv /\ PageInv /\ pending \in Jobs /\ UNCHANGED streamVars
    BY SessionInvParts DEF PageInv, PollStatus, ScriptKnowsItsPlace, SessionTypeOK
  <1>2. View(pending) \in Views /\ Settled(pending, View(pending))
    BY <1>1, ViewType DEF ApiInv, Settled, View
  <1>3. UNCHANGED <<status, submittedAt, clock, page, submitting, pending, shown, notFound,
                    posted, clicks, lost, interrupts>> /\ step = "polling"
        /\ Show(View(pending))
    BY DEF PollStatus, Counted, streamVars, vars
  <1>4. log' \in Seq([job : Jobs, view : Views]) /\ Len(log') <= LogSize
    BY <1>1 DEF PollStatus, PageInv, SessionTypeOK
  <1>5. PageInv'
    BY <1>1, <1>2, <1>3, <1>4, ShowStep DEF ApiInv
  <1> QED BY <1>1, <1>5, ApiStands DEF SessionInv, ApiInv, PageInv
-----------------------------------------------------------------------------
(* The result *)

LEMMA AskStep ==
    ASSUME SessionInv, AskResult \/ FinishResult
    PROVE  SessionInv'
  <1>1. ApiInv /\ PageInv /\ pending \in Jobs /\ status[pending] = "succeeded"
    BY SessionInvParts DEF PageInv, AskResult, FinishResult, ScriptKnowsItsPlace, SessionTypeOK
  <1>2. ApiInv' /\ UNCHANGED <<status, submittedAt, clock>>
    BY <1>1, ResultKeepsApi DEF AskResult, FinishResult, CheckStatus, ReadResult, vars
  <1>3. PageInv'
    BY <1>1, <1>2 DEF AskResult, FinishResult, sessionVars, PageInv, SessionTypeOK,
                      ScriptKnowsItsPlace, ShownIsFinished, ClickIsLeft, OneJobPerClick,
                      StandsOnlyAfterLoss
  <1> QED BY <1>2, <1>3 DEF SessionInv, ApiInv, PageInv

\* A result that arrives is the result: the job succeeded and the endpoint has it.
LEMMA TakeResultStep ==
    ASSUME SessionInv, TakeResult
    PROVE  SessionInv'
  <1>1. ApiInv /\ PageInv /\ pending \in Jobs /\ status[pending] = "succeeded"
        /\ step = "fetching" /\ page = "Loading" /\ posted = NoJob
    BY SessionInvParts DEF PageInv, TakeResult, ScriptKnowsItsPlace, SessionTypeOK
  <1>2. UNCHANGED <<status, submittedAt, clock, page, submitting, pending, notFound, log,
                    posted, clicks, lost, interrupts>>
    BY DEF TakeResult, Counted, vars
  <1>3. answer[pending] = "ok"
    BY <1>1 DEF ApiInv, ApiIsTrue, TakeResult
  <1>4. ApiInv'
    <2>1. TypeOK' /\ RowsSound'
      BY <1>1, RowsStand DEF TakeResult
    <2>2. ClientTypeOK'
      BY <1>1 DEF ApiInv, ClientTypeOK, TakeResult, Answers
    <2>3. ApiIsTrue'
      BY <1>1, <1>2 DEF ApiInv, ClientTypeOK, ApiIsTrue, TakeResult, Settled
    <2> QED BY <2>1, <2>2, <2>3 DEF ApiInv
  <1>5. \/ IsUnknown(pending) /\ shown' = NoJob /\ step' = "dropping"
        \/ ~IsUnknown(pending) /\ shown' = pending /\ step' = "storing"
    BY <1>3 DEF TakeResult
  <1>6. SessionTypeOK'
    BY <1>1, <1>2, <1>5 DEF PageInv, SessionTypeOK, Steps
  <1>7. ScriptKnowsItsPlace'
    BY <1>1, <1>2, <1>5, SessionAssumption DEF ScriptKnowsItsPlace, PageInv
  <1>8. ShownIsFinished'
    BY <1>1, <1>2, <1>5 DEF ShownIsFinished, IsUnknown
  <1>9. (ClickIsLeft /\ OneJobPerClick /\ StandsOnlyAfterLoss)'
    BY <1>1, <1>2, <1>5 DEF PageInv, ClickIsLeft, OneJobPerClick, StandsOnlyAfterLoss
  <1> QED BY <1>4, <1>6, <1>7, <1>8, <1>9 DEF SessionInv, ApiInv, PageInv
-----------------------------------------------------------------------------
(* The worker and the generators *)

LEMMA ServerStepInv ==
    ASSUME SessionInv, ServerStep, UNCHANGED sessionVars
    PROVE  SessionInv'
  <1>1. ApiInv /\ PageInv
    BY SessionInvParts
  <1>2. /\ ApiInv' /\ UNCHANGED <<submittedAt, clock>>
        /\ \A j \in Jobs : status[j] \in Terminal => status'[j] = status[j]
    <2>1. CASE Next /\ clock' = clock /\ UNCHANGED clientVars
      BY <1>1, <2>1, WorkerKeepsApi, ClosedRowStays DEF ApiInv
    <2>2. ASSUME NEW j \in Jobs, Emit(j)
          PROVE  ApiInv' /\ UNCHANGED <<status, submittedAt, clock>>
      BY <1>1, <2>2, EmitKeepsApi DEF Emit, vars
    <2> QED BY <2>1, <2>2 DEF ServerStep
  <1>3. SessionTypeOK'
    BY <1>1 DEF PageInv, SessionTypeOK, sessionVars
  <1>4. (ScriptKnowsItsPlace /\ ShownIsFinished)'
    BY <1>1, <1>2 DEF PageInv, SessionTypeOK, ScriptKnowsItsPlace, ShownIsFinished, Terminal,
                      sessionVars
  <1>5. (ClickIsLeft /\ OneJobPerClick /\ StandsOnlyAfterLoss)'
    BY <1>1, <1>2 DEF PageInv, ClickIsLeft, OneJobPerClick, StandsOnlyAfterLoss, sessionVars
  <1> QED BY <1>2, <1>3, <1>4, <1>5 DEF SessionInv, ApiInv, PageInv
-----------------------------------------------------------------------------
(* The invariant *)

LEMMA SessionInitInv == SessionInit => SessionInv
  <1> SUFFICES ASSUME SessionInit PROVE SessionInv
    OBVIOUS
  <1>1. StreamInv
    BY StreamInitInv DEF SessionInit
  <1>2. ClientTypeOK /\ TypeOK /\ RowsSound
    BY <1>1 DEF StreamInv, ClientTypeOK
  <1>3. ApiIsTrue
    <2>1. ASSUME NEW j \in Jobs
          PROVE  /\ received[j] = <<>> /\ conn[j] = "closed" /\ answer[j] = "none"
                 /\ asked[j] = "idle" /\ submittedAt[j] <= clock
      BY DEF SessionInit, StreamInit, Init
    <2>2. ASSUME NEW j \in Jobs PROVE DOMAIN received[j] = {}
      BY <2>1
    <2> QED BY <2>1, <2>2 DEF ApiIsTrue
  <1>4. SessionTypeOK
    <2>1. 0 \in 0..MaxFaults /\ 0 \in 0..MaxClicks
      BY SessionAssumption
    <2> QED BY <2>1, EmptyLogFits DEF SessionInit, SessionTypeOK, Steps
  <1>5. ScriptKnowsItsPlace /\ ShownIsFinished /\ ClickIsLeft /\ StandsOnlyAfterLoss
    BY DEF SessionInit, ScriptKnowsItsPlace, ShownIsFinished, ClickIsLeft, StandsOnlyAfterLoss
  <1>6. OneJobPerClick
    BY DEF SessionInit, StreamInit, Init, OneJobPerClick
  <1> QED BY <1>2, <1>3, <1>4, <1>5, <1>6 DEF SessionInv

LEMMA SessionNextInv == SessionInv /\ [SessionNext]_allVars => SessionInv'
  <1>1. ASSUME SessionInv, UNCHANGED allVars PROVE SessionInv'
    <2>1. ApiInv /\ PageInv /\ UNCHANGED streamVars /\ UNCHANGED sessionVars
      BY <1>1, SessionInvParts DEF allVars
    <2>2. UNCHANGED <<status, submittedAt, clock>>
      BY <2>1 DEF streamVars, vars
    <2>3. PageInv'
      BY <2>1, <2>2 DEF sessionVars, PageInv, SessionTypeOK, ScriptKnowsItsPlace,
                        ShownIsFinished, ClickIsLeft, OneJobPerClick, StandsOnlyAfterLoss
    <2> QED BY <2>1, <2>3, ApiStands DEF SessionInv, ApiInv, PageInv
  <1>2. ASSUME SessionInv, ScriptStep PROVE SessionInv'
    BY <1>2, RenderStep, PostStep, AdoptStep, OpenStreamStep, TakeEventStep, PollStep,
       AskStep, TakeResultStep, AssignStep DEF ScriptStep
  <1>3. ASSUME SessionInv, SessionNext, ~ScriptStep PROVE SessionInv'
    BY <1>3, UserKeepsPage, LossStep, InterruptStep, ReloadStep, ServerStepInv DEF SessionNext
  <1> QED BY <1>1, <1>2, <1>3
-----------------------------------------------------------------------------
(* What the user may rely on *)

\* In every reachable state what the script remembers fits the rows, whatever was
\* lost, read late or cut off on the way.
THEOREM SessionInvariant == SessionSpec => []SessionInv
  <1> QED BY SessionInitInv, SessionNextInv, PTL DEF SessionSpec

\* The state of the page has the types its code gives it: the log is cut to its
\* last events, and no counter leaves its bound.
THEOREM SessionTypes == SessionSpec => []SessionTypeOK
  <1>1. SessionInv => SessionTypeOK
    BY DEF SessionInv
  <1> QED BY <1>1, SessionInvariant, PTL

\* The Report page shows a finished job that has a result and a company and was let
\* go of, wherever a run was cut off; and a job that is followed is the one that was
\* last shown or was submitted after it.
THEOREM ReportIsAlwaysFinished == SessionSpec => []ReportIsFinished
  <1>1. ASSUME SessionInv PROVE ReportIsFinished
    <2>1. ASSUME page = "Report"
          PROVE  /\ shown # NoJob /\ pending = NoJob
                 /\ status[shown] = "succeeded" /\ hasResult[shown]
                 /\ shown \notin Unknown
      <3>1. shown # NoJob /\ pending = NoJob /\ shown \in Jobs
        BY <1>1, <2>1 DEF SessionInv, ScriptKnowsItsPlace, SessionTypeOK
      <3>2. status[shown] = "succeeded" /\ shown \notin Unknown
        BY <1>1, <3>1 DEF SessionInv, ShownIsFinished
      <3> QED BY <1>1, <3>1, <3>2 DEF SessionInv, RowsSound
    <2>2. shown # NoJob /\ pending \notin {NoJob, shown} =>
             submittedAt[shown] < submittedAt[pending]
      BY <1>1 DEF SessionInv, ShownIsFinished
    <2> QED BY <2>1, <2>2 DEF ReportIsFinished
  <1> QED BY <1>1, SessionInvariant, PTL

\* A review asked for once is submitted once, unless its run was cut off.
THEOREM ClickIsOneJob == SessionSpec => []OneJobPerClick
  <1>1. SessionInv => OneJobPerClick
    BY DEF SessionInv
  <1> QED BY <1>1, SessionInvariant, PTL

\* A page that follows a job and waits for the user has lost an answer.
THEOREM PageStandsOnlyAfterLoss == SessionSpec => []StandsOnlyAfterLoss
  <1>1. SessionInv => StandsOnlyAfterLoss
    BY DEF SessionInv
  <1> QED BY <1>1, SessionInvariant, PTL

\* The page lets go of a job only when the job is closed, or the browser is
\* reloaded.
THEOREM JobIsFollowedUntilClosed == SessionSpec => FollowedUntilClosed
  <1> DEFINE LetsGo == pending # NoJob /\ pending' # pending =>
                          status[pending] \in Terminal \/ Reload
  <1>1. ASSUME SessionInv, [SessionNext]_allVars PROVE LetsGo
    <2> SUFFICES ASSUME pending # NoJob, pending' # pending, ~Reload
                 PROVE  status[pending] \in Terminal
      OBVIOUS
    <2>1. pending \in Jobs /\ ~notFound /\ ~submitting
      BY <1>1 DEF SessionInv, SessionTypeOK, ScriptKnowsItsPlace
    <2>2. LetGo
      BY <1>1, <2>1
         DEF SessionInv, ScriptKnowsItsPlace, SessionNext, allVars, sessionVars, ScriptStep,
             UserStep, ServerStep, RenderLoading, RenderOther, PostJob, ForgetName, Adopt,
             OpenStream, TakeEvent, PollStatus, AskResult, FinishResult, TakeResult, ClearLog,
             ForgetMessage, ReportNotFound, TurnPage, StartReview, BackToSearch,
             ReturnToSearch, RunAgain, SubmitLost, StreamLost, PollLost, ResultLost, Interrupt
    <2> QED BY <1>1, <2>1, <2>2 DEF SessionInv, ScriptKnowsItsPlace, LetGo, Terminal
  <1> QED BY <1>1, SessionInvariant, PTL DEF SessionSpec, FollowedUntilClosed
=============================================================================
