-------------------------- MODULE AgentSteps_proofs --------------------------
(***************************************************************************)
(* Proofs about the agent steps, for every set of agents and any number of  *)
(* attempts and tries.                                                      *)
(***************************************************************************)
EXTENDS AgentSteps, TLAPS

\* The answers run_agent_step builds are StepResults.
LEMMA FailedIsResult == \A e : Failed(e) \in Results!StepResults
  BY DEF Failed, ClassifyAgentError, Results!StepResults, Results!FailureCodes

LEMMA OutputIsResult == \A p \in BOOLEAN : Output(p) \in Results!StepResults
  BY DEF Output, Results!StepResults

\* An agent is answered, or waits for its next attempt unanswered.
Ends(a) ==
    \/ pc' = [pc EXCEPT ![a] = "backoff"] /\ answer' = answer
    \/ /\ pc' = [pc EXCEPT ![a] = "done"]
       /\ \E r \in Results!StepResults : answer' = [answer EXCEPT ![a] = r]

LEMMA AttemptFailsEnds == ASSUME NEW a, NEW e, AttemptFails(a, e) PROVE Ends(a)
  BY FailedIsResult DEF AttemptFails, Reply, Ends

LEMMA OutputEnds == ASSUME NEW a, NEW p \in BOOLEAN, Reply(a, Output(p)) PROVE Ends(a)
  BY OutputIsResult DEF Reply, Ends

\* One more attempt pays for one more round of requests.
LEMMA OneMoreRound == \A n \in Nat : ModelTries * (n + 1) = ModelTries * n + ModelTries
  BY AttemptsAssumption
-----------------------------------------------------------------------------
\* The invariant holds before the superstep.
LEMMA InitStepsInv == Init => StepsInv
<1>1. Init => TypeOK
  BY AttemptsAssumption DEF Init, TypeOK
<1>2. Init => LoopAndAnswers
  BY AgentsAssumption DEF Init, LoopAndAnswers, Agents
<1>3. Init => RowsComeFirst /\ RequestsCounted /\ ThreadsWaitedFor /\ LeftoversAreTimedOut
  BY DEF Init, RowsComeFirst, RequestsCounted, ThreadsWaitedFor, LeftoversAreTimedOut
<1>. QED
  BY <1>1, <1>2, <1>3 DEF StepsInv

USE DEF StepsInv

\* An attempt begins with no thread but those of attempts that timed out.
LEMMA StartStep ==
    ASSUME StepsInv, NEW a \in Agents, Start(a)
    PROVE  StepsInv'
<1>. USE DEF Start
<1>1. TypeOK'
  BY FailedIsResult, AttemptsAssumption DEF TypeOK
<1>2. LoopAndAnswers'
  BY DEF TypeOK, LoopAndAnswers
<1>3. RowsComeFirst'
  BY DEF TypeOK, RowsComeFirst
<1>4. RequestsCounted'
  BY OneMoreRound, AttemptsAssumption DEF TypeOK, RequestsCounted
<1>5. ThreadsWaitedFor'
  BY DEF TypeOK, ThreadsWaitedFor
<1>6. LeftoversAreTimedOut'
  BY DEF TypeOK, ThreadsWaitedFor, LeftoversAreTimedOut
<1>. QED
  BY <1>1, <1>2, <1>3, <1>4, <1>5, <1>6

\* A blocking agent leaves the loop as it entered it.
LEMMA BlockingEndsStep ==
    ASSUME StepsInv, NEW a \in Agents, BlockingEnds(a)
    PROVE  StepsInv'
<1>1. Ends(a)
  BY AttemptFailsEnds, OutputEnds DEF BlockingEnds
<1>2. loop = a /\ loop' = "free" /\ pc[a] = "holding"
  BY DEF BlockingEnds, LoopAndAnswers
<1>. USE <1>1, <1>2 DEF BlockingEnds, Ends
<1>3. TypeOK'
  <2>1. pc' \in [Agents -> {"idle", "holding", "waiting", "backoff", "done"}]
    BY DEF TypeOK
  <2>2. answer' \in [Agents -> Results!StepResults \cup {Results!NoAnswer}]
    BY DEF TypeOK
  <2>. QED
    BY <2>1, <2>2 DEF TypeOK
<1>4. LoopAndAnswers'
  BY AgentsAssumption DEF TypeOK, LoopAndAnswers, Agents
<1>5. RowsComeFirst' /\ RequestsCounted'
  BY DEF TypeOK, RowsComeFirst, RequestsCounted
<1>6. ThreadsWaitedFor' /\ LeftoversAreTimedOut'
  BY DEF TypeOK, ThreadsWaitedFor, LeftoversAreTimedOut
<1>. QED
  BY <1>3, <1>4, <1>5, <1>6

\* Time changes nothing the invariant is about.
LEMMA ExpireStep ==
    ASSUME StepsInv, NEW a \in Agents, Expire(a)
    PROVE  StepsInv'
  BY DEF Expire, TypeOK, LoopAndAnswers, RowsComeFirst, RequestsCounted,
         ThreadsWaitedFor, LeftoversAreTimedOut

\* A cancelled attempt is noted, and its threads with it.
LEMMA TimeoutStep ==
    ASSUME StepsInv, NEW a \in Agents, Timeout(a)
    PROVE  StepsInv'
<1>1. Ends(a)
  BY AttemptFailsEnds DEF Timeout
<1>2. attempt[a] \in 1..MaxAttempts
  BY DEF Timeout, TypeOK, LoopAndAnswers
<1>. USE <1>1 DEF Timeout, Abandon, Ends
<1>3. TypeOK'
  BY <1>2 DEF TypeOK
<1>4. LoopAndAnswers'
  BY AgentsAssumption DEF TypeOK, LoopAndAnswers, Agents
<1>5. RowsComeFirst' /\ RequestsCounted'
  BY DEF TypeOK, RowsComeFirst, RequestsCounted
<1>6. ThreadsWaitedFor' /\ LeftoversAreTimedOut'
  BY DEF TypeOK, ThreadsWaitedFor, LeftoversAreTimedOut
<1>. QED
  BY <1>3, <1>4, <1>5, <1>6

\* A thread less is left.
LEMMA ThreadEndsStep ==
    ASSUME StepsInv, NEW a \in Agents, NEW t \in threads[a], ThreadEnds(a, t)
    PROVE  StepsInv'
  BY DEF ThreadEnds, TypeOK, LoopAndAnswers, RowsComeFirst, RequestsCounted,
         ThreadsWaitedFor, LeftoversAreTimedOut

\* The rows are there: the first request of the attempt is paid for.
LEMMA RowsLoadedStep ==
    ASSUME StepsInv, NEW a \in Agents, RowsLoaded(a)
    PROVE  StepsInv'
<1>1. pending[a] = {"rows"} /\ round[a] = 0 /\ attempt[a] \in 1..MaxAttempts
  BY DEF RowsLoaded, Resumes, RowsComeFirst, LoopAndAnswers, TypeOK
<1>2. PICK news \in BOOLEAN :
         /\ pending' = [pending EXCEPT ![a] = {"detect"} \cup IF news THEN {"model"} ELSE {}]
         /\ call' = [call EXCEPT ![a] = IF news THEN "inflight" ELSE "none"]
         /\ tries' = [tries EXCEPT ![a] = IF news THEN @ + 1 ELSE @]
         /\ round' = [round EXCEPT ![a] = IF news THEN 1 ELSE 0]
  BY DEF RowsLoaded
<1>. USE <1>1, <1>2 DEF RowsLoaded, Resumes
<1>3. TypeOK'
  BY AttemptsAssumption DEF TypeOK
<1>4. LoopAndAnswers'
  BY DEF TypeOK, LoopAndAnswers
<1>5. RowsComeFirst'
  BY DEF TypeOK, RowsComeFirst
<1>6. RequestsCounted'
  <2>1. CASE news
    BY <2>1, AttemptsAssumption DEF TypeOK, RequestsCounted
  <2>2. CASE ~news
    BY <2>2, AttemptsAssumption DEF TypeOK, RequestsCounted
  <2>. QED
    BY <2>1, <2>2
<1>7. ThreadsWaitedFor'
  BY DEF TypeOK, ThreadsWaitedFor
<1>8. LeftoversAreTimedOut'
  BY DEF TypeOK, LeftoversAreTimedOut
<1>. QED
  BY <1>3, <1>4, <1>5, <1>6, <1>7, <1>8

\* Without rows nothing was started that could be left over.
LEMMA RowsFailStep ==
    ASSUME StepsInv, NEW a \in Agents, RowsFail(a)
    PROVE  StepsInv'
<1>1. Ends(a)
  BY AttemptFailsEnds DEF RowsFail
<1>2. pending[a] = {"rows"}
  BY DEF RowsFail, Resumes, RowsComeFirst
<1>. USE <1>1 DEF RowsFail, Resumes, Abandon, Ends
<1>3. TypeOK'
  BY DEF TypeOK
<1>4. LoopAndAnswers'
  BY AgentsAssumption DEF TypeOK, LoopAndAnswers, Agents
<1>5. RowsComeFirst' /\ RequestsCounted'
  BY DEF TypeOK, RowsComeFirst, RequestsCounted
<1>6. ThreadsWaitedFor'
  BY DEF TypeOK, ThreadsWaitedFor
<1>7. LeftoversAreTimedOut'
  BY <1>2 DEF TypeOK, ThreadsWaitedFor, LeftoversAreTimedOut
<1>. QED
  BY <1>3, <1>4, <1>5, <1>6, <1>7

\* A piece of the attempt comes in: its thread is gone, and the last one answers.
PieceStep(a, piece) ==
    /\ \E ok \in BOOLEAN : PieceEnds(a, piece, ok)
    /\ Resumes(a, piece) /\ <<attempt[a], piece>> \notin threads[a]
    /\ UNCHANGED <<attempt, tries, round, threads, expired, timedOut, loop>>

LEMMA PieceStepKeeps ==
    ASSUME StepsInv, NEW a \in Agents, NEW piece \in {"detect", "model"},
           PieceStep(a, piece)
    PROVE  StepsInv'
<1>1. PICK ok \in BOOLEAN : PieceEnds(a, piece, ok)
  BY DEF PieceStep
<1>2. degraded'[a] \in BOOLEAN
  BY <1>1 DEF PieceEnds, TypeOK
<1>3. \/ UNCHANGED <<pc, answer>>
      \/ pending[a] = {piece} /\ Ends(a) /\ pc'[a] = "done"
  BY <1>1, <1>2, OutputEnds DEF PieceEnds, Reply, TypeOK
<1>4. /\ pending' = [pending EXCEPT ![a] = @ \ {piece}]
      /\ call' = [call EXCEPT ![a] = IF piece = "model" THEN "none" ELSE @]
      /\ degraded' \in [Agents -> BOOLEAN]
  BY <1>1 DEF PieceEnds, TypeOK
<1>5. "rows" \notin pending[a] /\ "rows" \notin pending'[a]
  BY <1>4 DEF PieceStep, Resumes, RowsComeFirst, TypeOK
<1>. USE <1>3, <1>4 DEF PieceStep, Resumes, Ends
<1>6. TypeOK'
  BY DEF TypeOK
<1>7. LoopAndAnswers'
  BY AgentsAssumption DEF TypeOK, LoopAndAnswers, Agents
<1>8. RowsComeFirst'
  BY <1>5 DEF TypeOK, RowsComeFirst
<1>9. RequestsCounted'
  BY DEF TypeOK, RequestsCounted
<1>10. ThreadsWaitedFor'
  BY DEF TypeOK, ThreadsWaitedFor
<1>11. LeftoversAreTimedOut'
  BY DEF TypeOK, ThreadsWaitedFor, LeftoversAreTimedOut
<1>. QED
  BY <1>6, <1>7, <1>8, <1>9, <1>10, <1>11

\* The requests of the model: a pause keeps the count, a retry pays for one more.
LEMMA ModelFailsStep ==
    ASSUME StepsInv, NEW a \in Agents, ModelFails(a)
    PROVE  StepsInv'
  BY DEF ModelFails, Resumes, TypeOK, LoopAndAnswers, RowsComeFirst, RequestsCounted,
         ThreadsWaitedFor, LeftoversAreTimedOut

LEMMA ModelRetriesStep ==
    ASSUME StepsInv, NEW a \in Agents, ModelRetries(a)
    PROVE  StepsInv'
<1>. USE DEF ModelRetries, Resumes
<1>1. round[a] < ModelTries /\ attempt[a] # 0
  BY DEF RequestsCounted, LoopAndAnswers
<1>2. TypeOK'
  BY <1>1, AttemptsAssumption DEF TypeOK
<1>3. LoopAndAnswers'
  BY DEF TypeOK, LoopAndAnswers
<1>4. RowsComeFirst'
  BY DEF TypeOK, RowsComeFirst, RequestsCounted
<1>5. RequestsCounted'
  BY <1>1, AttemptsAssumption DEF TypeOK, RequestsCounted
<1>6. ThreadsWaitedFor' /\ LeftoversAreTimedOut'
  BY DEF ThreadsWaitedFor, LeftoversAreTimedOut
<1>. QED
  BY <1>2, <1>3, <1>4, <1>5, <1>6
-----------------------------------------------------------------------------
\* Every step keeps the invariant.
LEMMA NextStepsInv == StepsInv /\ [Next]_vars => StepsInv'
<1>. SUFFICES ASSUME StepsInv, [Next]_vars PROVE StepsInv'
  OBVIOUS
<1>1. ASSUME NEW a \in Agents, Step(a) PROVE StepsInv'
  <2>1. CASE Start(a)         BY <2>1, StartStep
  <2>2. CASE BlockingEnds(a)  BY <2>2, BlockingEndsStep
  <2>3. CASE Expire(a)        BY <2>3, ExpireStep
  <2>4. CASE Timeout(a)       BY <2>4, TimeoutStep
  <2>5. CASE RowsLoaded(a)    BY <2>5, RowsLoadedStep
  <2>6. CASE RowsFail(a)      BY <2>6, RowsFailStep
  <2>7. CASE Detected(a)
    BY <2>7, PieceStepKeeps DEF Detected, PieceStep
  <2>8. CASE ModelEnds(a)
    <3>1. <<attempt[a], "model">> \notin threads[a]
      BY DEF TypeOK
    <3>. QED
      BY <2>8, <3>1, PieceStepKeeps DEF ModelEnds, PieceStep
  <2>9. CASE ModelFails(a)    BY <2>9, ModelFailsStep
  <2>10. CASE ModelRetries(a) BY <2>10, ModelRetriesStep
  <2>11. CASE \E t \in threads[a] : ThreadEnds(a, t)
    BY <2>11, ThreadEndsStep
  <2>. QED
    BY <1>1, <2>1, <2>2, <2>3, <2>4, <2>5, <2>6, <2>7, <2>8, <2>9, <2>10, <2>11 DEF Step
<1>2. ASSUME UNCHANGED vars PROVE StepsInv'
  BY <1>2 DEF vars, TypeOK, LoopAndAnswers, RowsComeFirst, RequestsCounted,
              ThreadsWaitedFor, LeftoversAreTimedOut
<1>. QED
  BY <1>1, <1>2 DEF Next, Ended

\* The invariant of the step runner holds in every behaviour, for any agents and any
\* numbers of attempts and tries.
THEOREM StepsInvariant == Spec => []StepsInv
  BY InitStepsInv, NextStepsInv, PTL DEF Spec

\* The variables keep their types, whatever agents there are.
THEOREM StepsTypeCorrect == Spec => []TypeOK
  BY StepsInvariant, PTL

\* No request to the model outlives the wait for it, and the tries of all attempts
\* together are bounded: run_agent_step cancels what it timed out.
THEOREM CallsAlwaysEndWithAttempt == Spec => []CallsEndWithAttempt
<1>1. StepsInv => CallsEndWithAttempt
  <2>. SUFFICES ASSUME StepsInv, NEW a \in Agents
                PROVE  tries[a] <= ModelTries * attempt[a]
    BY DEF CallsEndWithAttempt, RequestsCounted
  <2>1. round[a] <= ModelTries /\ tries[a] \in Nat /\ round[a] \in Nat /\ attempt[a] \in Nat
    BY AttemptsAssumption DEF TypeOK
  <2>2. ModelTries * attempt[a] \in Nat
    BY <2>1, AttemptsAssumption
  <2>. QED
    BY <2>1, <2>2, AttemptsAssumption DEF RequestsCounted
<1>. QED
  BY <1>1, StepsInvariant, PTL

\* Only a timeout leaves threads behind, as gather waits for every piece.
THEOREM LeftoversAlwaysTimedOut == Spec => []LeftoversAreTimedOut
  BY StepsInvariant, PTL
-----------------------------------------------------------------------------
\* What the agents do to their answers is what StepAnswers allows: nothing, or one
\* StepResult to one agent that has none.
LEMMA EndsAnswers ==
    ASSUME StepsInv, NEW a \in Agents, Ends(a), pc[a] # "done"
    PROVE  [Results!Next]_answer
  BY DEF Ends, LoopAndAnswers, Results!Next, Results!Answer

LEMMA NextAnswers == StepsInv /\ [Next]_vars => [Results!Next]_answer
<1>. SUFFICES ASSUME StepsInv, NEW a \in Agents, Step(a) PROVE [Results!Next]_answer
  BY DEF Next, Ended, vars
<1>1. CASE Start(a)
  BY <1>1, FailedIsResult DEF Start, LoopAndAnswers, Results!Next, Results!Answer
<1>2. CASE BlockingEnds(a)
  <2>1. Ends(a) /\ pc[a] = "holding"
    BY <1>2, AttemptFailsEnds, OutputEnds DEF BlockingEnds, LoopAndAnswers
  <2>. QED
    BY <2>1, EndsAnswers
<1>3. CASE Timeout(a) \/ RowsFail(a)
  <2>1. Ends(a) /\ pc[a] = "waiting"
    BY <1>3, AttemptFailsEnds DEF Timeout, RowsFail, Resumes
  <2>. QED
    BY <2>1, EndsAnswers
<1>4. ASSUME NEW piece \in {"detect", "model"}, NEW ok \in BOOLEAN,
             PieceEnds(a, piece, ok), pc[a] = "waiting"
      PROVE  [Results!Next]_answer
  <2>1. degraded'[a] \in BOOLEAN
    BY <1>4 DEF PieceEnds, TypeOK
  <2>2. Ends(a) \/ answer' = answer
    BY <1>4, <2>1, OutputEnds DEF PieceEnds
  <2>. QED
    BY <1>4, <2>2, EndsAnswers
<1>5. CASE Detected(a) \/ ModelEnds(a)
  BY <1>4, <1>5 DEF Detected, ModelEnds, Resumes
<1>6. CASE \/ Expire(a) \/ RowsLoaded(a) \/ ModelFails(a) \/ ModelRetries(a)
           \/ \E t \in threads[a] : ThreadEnds(a, t)
  BY <1>6 DEF Expire, RowsLoaded, ModelFails, ModelRetries, ThreadEnds
<1>. QED
  BY <1>1, <1>2, <1>3, <1>5, <1>6 DEF Step

\* run_agent_step keeps its promise to the graph: every step is answered at most
\* once, by a StepResult, and an answer is never taken back.
THEOREM StepsAnsweredOnce == Spec => Results!Init /\ [][Results!Next]_answer
<1>1. Init => Results!Init
  BY DEF Init, Results!Init
<1>. QED
  BY <1>1, NextAnswers, StepsInvariant, PTL DEF Spec
=============================================================================
