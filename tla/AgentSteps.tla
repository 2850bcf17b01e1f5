------------------------------ MODULE AgentSteps ------------------------------
(***************************************************************************)
(* The steps of one superstep as run_agent_step runs them on the one event  *)
(* loop of the workflow: contract checks, the timeout of asyncio.wait_for,  *)
(* retries with a pause, and the bodies of the agents in between.           *)
(*                                                                         *)
(* Blocking agents (news, financial, industry) call their tools inside the  *)
(* coroutine and never yield: they hold the loop until they have ended.     *)
(* Threaded agents (risk_event) load rows in a thread, then wait for the    *)
(* four detectors in threads and for a language model call together; the    *)
(* threads of the four detectors are one thread here.  A cancelled wait     *)
(* cancels the call, but not a thread.                                      *)
(***************************************************************************)
EXTENDS Naturals, FiniteSets

CONSTANTS
    Blocking,     \* agents whose run() never awaits
    Threaded,     \* agents that wait for threads and for a model call
    MaxAttempts,  \* retry_attempts of the payload, at least 1
    ModelTries    \* stop_after_attempt of openai_retry

ASSUME AgentsAssumption ==
    Blocking \cap Threaded = {} /\ "free" \notin Blocking \cup Threaded
ASSUME AttemptsAssumption == MaxAttempts \in Nat \ {0} /\ ModelTries \in Nat \ {0}

Agents == Blocking \cup Threaded

VARIABLES
    pc,        \* idle, holding (the loop), waiting, backoff, done
    attempt,   \* attempts begun
    pending,   \* pieces of work the current attempt waits for
    call,      \* the model call: none, inflight, or pause between two tries
    tries,     \* requests to the model over all attempts
    round,     \* requests to the model in the current attempt
    degraded,  \* a part of the current attempt failed and was replaced
    threads,   \* threads that still run: <<attempt, piece>>
    expired,   \* the timeout of the current attempt is over
    timedOut,  \* attempts that were cancelled
    answer,    \* the StepResult
    loop       \* the agent that holds the event loop, or "free"

vars == <<pc, attempt, pending, call, tries, round, degraded, threads, expired,
          timedOut, answer, loop>>

Results == INSTANCE StepAnswers WITH answers <- answer

TypeOK ==
    /\ pc \in [Agents -> {"idle", "holding", "waiting", "backoff", "done"}]
    /\ attempt \in [Agents -> 0..MaxAttempts]
    /\ pending \in [Agents -> SUBSET {"rows", "detect", "model"}]
    /\ call \in [Agents -> {"none", "inflight", "pause"}]
    /\ tries \in [Agents -> Nat] /\ round \in [Agents -> 0..ModelTries]
    /\ degraded \in [Agents -> BOOLEAN] /\ expired \in [Agents -> BOOLEAN]
    /\ threads \in [Agents -> SUBSET ((1..MaxAttempts) \X {"rows", "detect"})]
    /\ timedOut \in [Agents -> SUBSET (1..MaxAttempts)]
    /\ answer \in [Agents -> Results!StepResults \cup {Results!NoAnswer}]
    /\ loop \in Agents \cup {"free"}

Init ==
    /\ pc = [a \in Agents |-> "idle"]
    /\ attempt = [a \in Agents |-> 0]
    /\ pending = [a \in Agents |-> {}]
    /\ call = [a \in Agents |-> "none"]
    /\ tries = [a \in Agents |-> 0]
    /\ round = [a \in Agents |-> 0]
    /\ degraded = [a \in Agents |-> FALSE]
    /\ threads = [a \in Agents |-> {}]
    /\ expired = [a \in Agents |-> FALSE]
    /\ timedOut = [a \in Agents |-> {}]
    /\ answer = [a \in Agents |-> Results!NoAnswer]
    /\ loop = "free"
-----------------------------------------------------------------------------
(* Errors and answers *)

\* What an attempt can end with instead of an output, and its error code.
ClassifyAgentError(e) ==
    CASE e = "timeout"    -> "AGENT_TIMEOUT"
      [] e = "input"      -> "INVALID_INPUT"
      [] e = "output"     -> "INVALID_OUTPUT"
      [] e = "missing"    -> "RESOURCE_NOT_FOUND"
      [] e = "connection" -> "UPSTREAM_UNAVAILABLE"
      [] OTHER            -> "AGENT_EXECUTION_FAILED"

\* What may be raised where no tool has a fallback: FileNotFoundError, another
\* connection or system error, anything else.
Uncaught == {"missing", "connection", "other"}

\* Contract violations are no transient errors, and neither is a missing file,
\* although it is an error of the system.
ShouldRetry(e) == e \in {"timeout", "connection"}

Failed(e) == [status |-> "failed", code |-> ClassifyAgentError(e)]

\* build_agent_output: a fallback anywhere makes the output partial.
Output(partial) == IF partial THEN [status |-> "partial", code |-> "DEGRADED"]
                   ELSE [status |-> "success", code |-> "OK"]

Reply(a, r) ==
    /\ pc' = [pc EXCEPT ![a] = "done"]
    /\ answer' = [answer EXCEPT ![a] = r]

\* The except branch: another attempt after a pause, or a failed answer.
AttemptFails(a, e) ==
    IF attempt[a] < MaxAttempts /\ ShouldRetry(e)
    THEN /\ pc' = [pc EXCEPT ![a] = "backoff"]
         /\ UNCHANGED answer
    ELSE Reply(a, Failed(e))

\* What the attempt waited for is forgotten and its model call cancelled.
Abandon(a) ==
    /\ pending' = [pending EXCEPT ![a] = {}]
    /\ call' = [call EXCEPT ![a] = "none"]
-----------------------------------------------------------------------------
(* Attempts *)

\* An attempt begins when the loop is free: with the input contract, which only
\* the first attempt can break as the payload stays the same, then with run().
Start(a) ==
    /\ pc[a] \in {"idle", "backoff"} /\ loop = "free" /\ attempt[a] < MaxAttempts
    /\ attempt' = [attempt EXCEPT ![a] = @ + 1]
    /\ expired' = [expired EXCEPT ![a] = FALSE]
    /\ degraded' = [degraded EXCEPT ![a] = FALSE]
    /\ round' = [round EXCEPT ![a] = 0]
    /\ \/ /\ pc[a] = "idle"
          /\ pc' = [pc EXCEPT ![a] = "done"]
          /\ answer' = [answer EXCEPT ![a] = Failed("input")]
          /\ UNCHANGED <<pending, threads, loop>>
       \/ /\ a \in Blocking
          /\ pc' = [pc EXCEPT ![a] = "holding"]
          /\ loop' = a
          /\ UNCHANGED <<pending, threads, answer>>
       \/ /\ a \in Threaded
          /\ pc' = [pc EXCEPT ![a] = "waiting"]
          /\ pending' = [pending EXCEPT ![a] = {"rows"}]
          /\ threads' = [threads EXCEPT ![a] = @ \cup {<<attempt[a] + 1, "rows">>}]
          /\ UNCHANGED <<answer, loop>>
    /\ UNCHANGED <<call, tries, timedOut>>

\* A blocking agent ends: every tool has a fallback, what is outside the tools (as
\* the reading of the grade scale) may raise, and the output contract may be
\* broken.  The timer never ran.
BlockingEnds(a) ==
    /\ loop = a
    /\ loop' = "free"
    /\ \/ \E partial \in BOOLEAN : Reply(a, Output(partial))
       \/ \E e \in Uncaught \cup {"output"} : AttemptFails(a, e)
    /\ UNCHANGED <<attempt, pending, call, tries, round, degraded, threads, expired, timedOut>>

\* The clock is not stopped by who holds the loop.
Expire(a) ==
    /\ pc[a] \in {"holding", "waiting"} /\ ~expired[a]
    /\ expired' = [expired EXCEPT ![a] = TRUE]
    /\ UNCHANGED <<pc, attempt, pending, call, tries, round, degraded, threads, timedOut,
                   answer, loop>>

\* Variant: the cancelled attempt waits for its threads before it gives up.
TimeoutJoins(a) ==
    /\ pc[a] = "waiting" /\ expired[a] /\ loop = "free" /\ threads[a] = {}
    /\ timedOut' = [timedOut EXCEPT ![a] = @ \cup {attempt[a]}]
    /\ Abandon(a)
    /\ AttemptFails(a, "timeout")
    /\ UNCHANGED <<attempt, tries, round, degraded, threads, expired, loop>>

\* Variant: the model call is shielded from the cancellation.
TimeoutShieldsCall(a) ==
    /\ pc[a] = "waiting" /\ expired[a] /\ loop = "free"
    /\ timedOut' = [timedOut EXCEPT ![a] = @ \cup {attempt[a]}]
    /\ pending' = [pending EXCEPT ![a] = {}]
    /\ AttemptFails(a, "timeout")
    /\ UNCHANGED <<call, attempt, tries, round, degraded, threads, expired, loop>>

\* The timer of wait_for cancels the attempt as soon as the loop is free, before
\* a result that arrived meanwhile is looked at.  Threads go on.
Timeout(a) ==
    /\ pc[a] = "waiting" /\ expired[a] /\ loop = "free"
    /\ timedOut' = [timedOut EXCEPT ![a] = @ \cup {attempt[a]}]
    /\ Abandon(a)
    /\ AttemptFails(a, "timeout")
    /\ UNCHANGED <<attempt, tries, round, degraded, threads, expired, loop>>
-----------------------------------------------------------------------------
(* Inside a threaded agent *)

ThreadEnds(a, t) ==
    /\ t \in threads[a]
    /\ threads' = [threads EXCEPT ![a] = @ \ {t}]
    /\ UNCHANGED <<pc, attempt, pending, call, tries, round, degraded, expired, timedOut,
                   answer, loop>>

Resumes(a, piece) ==
    /\ pc[a] = "waiting" /\ loop = "free" /\ ~expired[a]
    /\ piece \in pending[a]

\* The rows are there: the detectors start, and the model call if there is news.
RowsLoaded(a) ==
    /\ Resumes(a, "rows") /\ <<attempt[a], "rows">> \notin threads[a]
    /\ threads' = [threads EXCEPT ![a] = @ \cup {<<attempt[a], "detect">>}]
    /\ \E news \in BOOLEAN :
          /\ pending' = [pending EXCEPT ![a] = {"detect"} \cup IF news THEN {"model"} ELSE {}]
          /\ call' = [call EXCEPT ![a] = IF news THEN "inflight" ELSE "none"]
          /\ tries' = [tries EXCEPT ![a] = IF news THEN @ + 1 ELSE @]
          /\ round' = [round EXCEPT ![a] = IF news THEN 1 ELSE 0]
    /\ UNCHANGED <<pc, attempt, degraded, expired, timedOut, answer, loop>>

\* Nothing catches an error of the rows.
RowsFail(a) ==
    /\ Resumes(a, "rows") /\ <<attempt[a], "rows">> \notin threads[a]
    /\ Abandon(a)
    /\ \E e \in Uncaught : AttemptFails(a, e)
    /\ UNCHANGED <<attempt, tries, round, degraded, threads, expired, timedOut, loop>>

\* Variant: gather lets the first error through (no return_exceptions).
PieceEndsRaising(a, piece, ok) ==
    /\ degraded' = degraded
    /\ IF ~ok THEN /\ AttemptFails(a, "other") /\ Abandon(a)
       ELSE /\ pending' = [pending EXCEPT ![a] = @ \ {piece}]
            /\ call' = [call EXCEPT ![a] = IF piece = "model" THEN "none" ELSE @]
            /\ IF pending[a] = {piece} THEN Reply(a, Output(degraded[a]))
               ELSE UNCHANGED <<pc, answer>>

\* gather goes on to the last result and takes errors for results; then the
\* events are graded and counted without another wait.
PieceEnds(a, piece, ok) ==
    /\ degraded' = [degraded EXCEPT ![a] = @ \/ ~ok]
    /\ pending' = [pending EXCEPT ![a] = @ \ {piece}]
    /\ call' = [call EXCEPT ![a] = IF piece = "model" THEN "none" ELSE @]
    /\ IF pending[a] = {piece} THEN Reply(a, Output(degraded'[a]))
       ELSE UNCHANGED <<pc, answer>>

Detected(a) ==
    /\ Resumes(a, "detect") /\ <<attempt[a], "detect">> \notin threads[a]
    /\ \E ok \in BOOLEAN : PieceEnds(a, "detect", ok)
    /\ UNCHANGED <<attempt, tries, round, threads, expired, timedOut, loop>>

\* The model answered, or the tries are used up, or the answer is no list: the
\* handler then calls every article neutral, which is no error to its caller.
\* Items of another shape than asked for are read outside its try, and raise.
ModelEnds(a) ==
    /\ Resumes(a, "model") /\ call[a] = "inflight"
    /\ \E ok \in BOOLEAN : PieceEnds(a, "model", ok)
    /\ UNCHANGED <<attempt, tries, round, threads, expired, timedOut, loop>>

\* A transient error of the API: a pause, then the next try.
ModelFails(a) ==
    /\ Resumes(a, "model") /\ call[a] = "inflight" /\ round[a] < ModelTries
    /\ call' = [call EXCEPT ![a] = "pause"]
    /\ UNCHANGED <<pc, attempt, pending, tries, round, degraded, threads, expired, timedOut,
                   answer, loop>>

ModelRetries(a) ==
    /\ Resumes(a, "model") /\ call[a] = "pause"
    /\ call' = [call EXCEPT ![a] = "inflight"]
    /\ tries' = [tries EXCEPT ![a] = @ + 1]
    /\ round' = [round EXCEPT ![a] = @ + 1]
    /\ UNCHANGED <<pc, attempt, pending, degraded, threads, expired, timedOut, answer, loop>>
-----------------------------------------------------------------------------
Step(a) ==
    \/ Start(a) \/ BlockingEnds(a) \/ Expire(a) \/ Timeout(a)
    \/ RowsLoaded(a) \/ RowsFail(a) \/ Detected(a)
    \/ ModelEnds(a) \/ ModelFails(a) \/ ModelRetries(a)
    \/ \E t \in threads[a] : ThreadEnds(a, t)

\* Every agent answered: the superstep ends.
Ended ==
    /\ \A a \in Agents : pc[a] = "done" /\ threads[a] = {}
    /\ UNCHANGED vars

Next == Ended \/ \E a \in Agents : Step(a)

Spec == Init /\ [][Next]_vars

\* Time passes, the loop runs what is ready and blocking calls end.  Nothing is
\* assumed of threads and of the model: they may never come back.
FairSpec ==
    /\ Spec
    /\ \A a \in Agents :
          /\ WF_vars(Start(a)) /\ WF_vars(BlockingEnds(a))
          /\ WF_vars(Expire(a)) /\ WF_vars(Timeout(a))
-----------------------------------------------------------------------------
(* Properties *)

\* Each step of the superstep is answered exactly once and with a result, even
\* if a thread or the model never comes back and whoever holds the loop: what
\* the graph relies on when it awaits run_agent_step.
StepsAnswered == Results!Spec

\* No request to the model outlives the wait for it: a timed out attempt takes
\* its request along, so retried attempts cost at most ModelTries requests each
\* and no two requests of an agent are under way together.
CallsEndWithAttempt ==
    \A a \in Agents :
       /\ call[a] # "none" => pc[a] = "waiting" /\ "model" \in pending[a]
       /\ tries[a] <= ModelTries * attempt[a]

\* A thread that outlives its attempt was left by a timeout, never by a failed
\* sibling: gather waits for all of them.  It is what a retried attempt of the
\* same agent overlaps with.
LeftoversAreTimedOut ==
    \A a \in Agents : \A t \in threads[a] :
       pc[a] # "waiting" \/ t[1] < attempt[a] => t[1] \in timedOut[a]
-----------------------------------------------------------------------------
(* The inductive invariant behind these *)

\* Who holds the loop is in its body; who is not done is not answered; who is
\* past the start has begun an attempt.
LoopAndAnswers ==
    \A a \in Agents :
       /\ pc[a] # "idle" => attempt[a] # 0
       /\ loop = a => pc[a] = "holding"
       /\ pc[a] # "done" => answer[a] = Results!NoAnswer

\* The rows are waited for alone and before any request to the model.
RowsComeFirst ==
    \A a \in Agents :
       "rows" \in pending[a] => pending[a] = {"rows"} /\ round[a] = 0

\* A request is waited for; the requests of earlier attempts are paid for.
RequestsCounted ==
    \A a \in Agents :
       /\ call[a] # "none" => pc[a] = "waiting" /\ "model" \in pending[a]
       /\ call[a] = "pause" => round[a] < ModelTries
       /\ attempt[a] = 0 => tries[a] = 0
       /\ attempt[a] # 0 => tries[a] + ModelTries <= ModelTries * attempt[a] + round[a]

\* A thread belongs to an attempt that was begun, and the current attempt waits
\* for its own.
ThreadsWaitedFor ==
    \A a \in Agents : \A t \in threads[a] :
       /\ t[1] <= attempt[a]
       /\ pc[a] = "waiting" /\ t[1] = attempt[a] => t[2] \in pending[a]

StepsInv ==
    /\ TypeOK /\ LoopAndAnswers /\ RowsComeFirst /\ RequestsCounted
    /\ ThreadsWaitedFor /\ LeftoversAreTimedOut
=============================================================================
