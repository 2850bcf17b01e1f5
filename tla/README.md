# FinAgent-SME: specifications, checks and proofs

FinAgent-SME assesses the credit risk of small companies: a Streamlit frontend
submits a company name, an API process queues a job, a background loop runs a
workflow of LLM and rule based agents over it, and the frontend follows the job
and shows its result. This directory holds TLA+ models of that system, the TLC
runs that check them on small instances, and proofs checked by TLAPS. Paths below are
relative to `src/`.

## 1. The system

### Parts and how they interact

```
 browser -- Streamlit session -- HTTP --> routes ---- service --- repository --> workflow_jobs
            (Search/Loading/Report)         |  SSE poll  ^             ^            (PostgreSQL)
                                            | notify     | progress    |
                                            v            |             |
                                        WorkflowJobRunner --to_thread--+
                                            | to_thread
                                            v
                                     orchestrator graph -- step runner -- agents -- tools, APIs, RAG
```

| Part | State it keeps | Operations | Hard behaviour | What makes it correct |
| --- | --- | --- | --- | --- |
| Job repository and service (`backend/data/repositories/workflow_job.py`, `backend/data/services/workflow_job_service.py`) | rows of `workflow_jobs` | create, get, next queued, claim, progress, complete, fail, fail incomplete | some UPDATEs look at the status, some do not; a call may raise before or after its commit | rows follow the documented lifecycle; columns agree with the status |
| Job runner (`backend/data/services/workflow_job_runner.py`, lifespan in `backend/main.py`) | loop task, current job, wake event, stop flag; threads of the default executor | start, stop, notify, poll, claim, execute, store the outcome | lost wake-ups, zombies after a timeout, a full executor, crash and restart, overlapping processes, errors while storing an error | one executor per job, FIFO, every job closed, a stop that ends |
| Routes (`backend/api/routes/workflows.py`) | one generator per open stream | submit, status, stream, result, synchronous run | reads race with the worker thread | events advance, no result is lost, the stream ends |
| Orchestrator (`backend/agents/orchestrator/`) | `context` and `steps` of one run | build the graph, run nodes in supersteps, halt, gate, retry, assemble the result | concurrent nodes, no join at the first reviewer, fail-fast, stale gate status, retries | what is released passed the gate; reviewers run once, after the analysis |
| Step runner (`orchestrator/step_runner.py`, `backend/common/contracts.py`) | attempt counter | run with timeout, retry, contract checks | threads of a timed out attempt go on; an agent that never yields holds the loop | every step answered once; requests end with their attempt |
| Validation agent | none | checks over decision and report | missing fields, a step that failed before | fails only for a cause |
| Decision agent and handlers | none | grade, cap, decision, limit, explanation | chained thresholds, ceilings, missing values | more events never help, every filter decides |
| Risk event agent and handlers | none | detect, classify, aggregate | five detectors that fail apart from each other; titles matched by words | negative equity is never missed; agrees with the financial trend |
| News pipeline (`backend/tools/news.py`) | articles by stock code and URL | page the list, read, select sentences, upsert | the list grows while paged; two collections at once | no gap in the list, an error only by a race |
| Financial and industry tools (`backend/tools/financial.py`, `industry.py`) | none | statement, ratios, trend, filters, verdicts | swallowed errors, negative averages, missing years | no figures, no loan |
| Frontend session (`frontend/views/loading.py`, `search.py`, `frontend/services/workflow_stream.py`) | `st.session_state`: page, pending job, counters, console queue | submit, follow (stream, else poll), fetch the result, rerun | one lost answer ends the rerun loop; queue cut against a flushed count | the session reaches Report or an error |
| Company registry (`backend/data/repositories/company_registry.py`, pipeline) | company tables | deduplicate, delete, insert | delete and insert are two transactions; NULL keys | one row per key, none lost |
| RAG (`backend/rag/`) | vector collection | chunk, ingest without duplicates, retrieve | window boundaries, edits, a call that fails between asking and adding | every line in a chunk, counts that tell the truth, the client's own methodology |
| Report page (`frontend/views/report_view_model.py`) | none | choose and group events and reasons | two sources of the same events | what it leaves out it leaves out for a reason |
| Resolver and lookup, providers, tool runtime, API clients, MCP server, observability, scripts | none to speak of | I/O, formatting | retries, timeouts | |

`PROJECT.json` lists the parts with their files and status, and the hazards with
their lines.

### What is modelled

The job layer with its readers and the browser session that follows a job; the
orchestrator graph and, below it, the step runner; the way from stored figures
and news to a checked report; the three stores that are filled beside the
workflows; the rules of the report page that choose. Left out, for the reasons
PROJECT.json gives: I/O, layout, logging (section 7).

## 2. Modules

| Module | Models | Uses |
| --- | --- | --- |
| `JobLifecycle` | the promise: a row as its readers may rely on it | |
| `WorkflowJobs` | repository, service, runner, process lifespan, submit route | `Life == INSTANCE JobLifecycle` |
| `JobStream` | stream and result routes, as readers of the promise | `EXTENDS JobLifecycle` |
| `FrontendSession` | one browser session over those routes | `EXTENDS JobStream` |
| `WorkflowGraph` | one run of the orchestrator | |
| `StepAnswers` | the promise: each step of a superstep is answered once | |
| `AgentSteps` | the step runner and the bodies of the agents, on one event loop | `Results == INSTANCE StepAnswers WITH answers <- answer` |
| `FinancialFacts` | statement, ratios, trend, filters, rating grades | |
| `RiskSignals` | detectors, severity, aggregation | `FinancialFacts` |
| `CreditDecision` | grade, decision, limit, explanation, report, checks | `RiskSignals` |
| `Assessment` | one assessment through all agents, with failures | `CreditDecision` |
| `RegistryStore` | the registry pipeline and its five tables | |
| `NewsText`, `NewsCollection` | which articles and sentences are kept; the collection and its table | |
| `RagChunks`, `RagStore` | chunks and rankings; ingest and lookup of methodologies | `Lists`, `IndustryFacts` |
| `IndustryFacts` | verdicts of the industry tools | |
| `ReportPage` | events and reasons on the report page | `Lists` |
| `Lists` | comprehensions with a condition, and Python's stable sort | |
| `WorkflowJobs_proofs`, `AgentSteps_proofs`, `WorkflowGraph_proofs`, `Assessment_proofs` | theorems about the module of that name | the module, TLAPS |
| `Readers_proofs` | theorems about `JobStream` and `FrontendSession` | `FrontendSession`, TLAPS |
| `Stores_proofs` | theorems about `RegistryStore`, `NewsCollection`, `RagStore` | these, `SequenceFacts` |
| `Rules_proofs` | theorems about the rules without state: `RagChunks`, `NewsText`, `IndustryFacts`, `ReportPage` | `MCStores`, `SequenceFacts` |
| `SequenceFacts` | lemmas about operators of the community modules and of `Lists` | TLAPS |
| `MC...` | constants of the runs; `MCStores` also puts the stores side by side | the modules they check |

In each module, definitions called a *variant* in their comment are not part of
the model: they are the plausible bugs against which the properties are tested
(PROJECT.json, `mutants`). Type invariants that no run names document the
variables; those of the modules with proofs are proved.

### WorkflowJobs

A *worker* is an API process. Its variables: `phase` (lifespan and
`_stop_requested`), `pc` (where the coroutine `_run_loop`, or `_execute_job`
called from it, stands between two awaits), `cur` (its local `job`), `outcome`
(the error it is about to store), `wake` (`_wake_event`), `threads` (workflows
that occupy a thread of the default executor). The columns of `workflow_jobs` are one
function each; `submittedAt` is the rank of the submission. `reported[j]` is
`len(progress_steps)` of the closure `progress_callback`.

Every stretch of code between two awaits is one action, since the event loop
does not interleave within it; every statement of the repository, one
transaction in one thread, is an operator `...Row` used by the action that awaits
it. A call ends with a `Reply`: it returns, raises without having written
(`lost`), or raises after its commit (`ambiguous`).

| Code | Action |
| --- | --- |
| `start` | `Boot` (fails what is open, then starts the loop; if the statement raises, startup fails) |
| `stop`, lifespan exit | `RequestStop`, `FinishStop`; `Crash` at any point |
| `POST /jobs` | `Submit` (INSERT and notification, no await in between; the notification revives a dead loop) |
| `_run_loop` | `LeaveLoop`, `Poll`, `ClearWake`, `Woken`, `PollTimeout`, `Claim`, `WakeFromSleep` |
| `_execute_job` | `StartThread`, `ThreadAnswers`, `JobTimeout`, `Complete`, `FailResult`, `Fail` |
| `progress_callback` | `ReportProgress`, in the workflow's thread, also after a timeout |
| a thread nobody awaits | `ZombieEnds` |

`stop` awaits the loop, also through a job it is executing; the interpreter then
joins the executor's threads, which is why `FinishStop` waits for the zombies.

### JobStream

The stream samples a row and the result route reads it twice while the worker's
thread writes. The module reads `JobLifecycle`, the promise, in place of the worker.
That is sound as far as the worker keeps it: `LifecycleKept` is checked by run
`jobs_lifecycle` and proved (`WorkerKeepsLifecycle`) for a single process whose failing
calls did not commit. With
ambiguous commits or overlapping processes the promise is broken (section 4),
and the stream's guarantees go with it. The branch for a row that vanished
during a stream is left out: nothing deletes rows.

### FrontendSession

A Streamlit script runs from the top after each interaction, dispatches on the
page and ends; what lasts is `st.session_state`, of which the module keeps
`current_page` (`page`), `submitting_company_name`, `pending_job_id`,
`last_result`, the not-found error and the list of stream events. `step` is where
a run of the script stands. Requests are separate actions from their answers,
because the job moves in between, and every assignment to the session state is a step of
its own, because a rerun may stop the script between any two of them:

| Code | Action |
| --- | --- |
| `main.py`, `search.render`, `loading.render` | `RenderLoading`, `RenderOther` |
| buttons | `StartReview`, `BackToSearch`, `ReturnToSearch`, `RunAgain` |
| `_submit_pending_job` | `PostJob`, `ForgetName`, `Adopt`, `SubmitLost` |
| `stream_workflow_job_status` (takes one event and closes) | `OpenStream`, `TakeEvent`, `StreamLost` |
| `get_workflow_job_status`, the fallback | `PollStatus`, `PollLost` |
| `get_workflow_job_result`, `_handle_company_not_found` | `AskResult`, `FinishResult`, `TakeResult`, `ReportNotFound`, `ResultLost` |
| the assignments these and the buttons go on with | `LetGo`, `ClearLog`, `ForgetMessage`, `TurnPage` |
| a rerun that stops the script, a reload | `Interrupt`, `Reload` |

### WorkflowGraph

LangGraph runs supersteps: nodes of a superstep see the context of its start
(`ctx`), their writes are merged in the order of the node names (`newCtx`,
`Merged`), and edges of the nodes that ended form the next superstep (`next`).
A node is `Skip` in a halted run, else `RunAgent` or `RunValidation`; `Advance` is
the barrier, where the run ends, hits the recursion limit, or goes on. `RunAgent`
gives each step its outcome by choice, so an agent is any agent. The context is reduced to
the fields that steer the graph (`company_found`, `_halt_workflow`,
`validation_gate_status`, `validation_attempt`) and the keys of the final
judgement; `reports` and `judged` are history variables: how many reports were
written, and which of them the last validation saw. The sixteen keys of decision are
represented by three, two of those `BLOCKED_RESULT_KEYS` hides and one of those it does not.

Agent lists, `continue_on_error` and the payload's retry setting are chosen in
`Init`, so one run of TLC covers all of them.

### AgentSteps and StepAnswers

`StepAnswers` is what the graph relies on when it awaits `run_agent_step`: one
`StepResult` per agent, never an exception, and (with its fairness) always an
answer. `AgentSteps` is one superstep in detail. All agents share one event loop
(`loop`). A *blocking* agent (news, financial, industry) calls its tools inside the
coroutine and never yields: it holds the loop, its own timer cannot run before it
has ended, and the timers of the others wait for it. The *threaded* agent
(`risk_event`) loads rows in a thread, then waits for the detectors in threads
and for a model call together (`asyncio.gather(..., return_exceptions=True)`).
`Timeout` cancels the wait and the model call but no thread. `pending` is what the
current attempt waits for, `threads` are those that still run, with the attempt they belong to.
`ClassifyAgentError` turns what is raised into one of the six codes of `contracts.py`; a
missing file (a grade scale that is gone when the industry analyst opens it, for one) is
`RESOURCE_NOT_FOUND` and not retried, although it is an error of the system like those that are.

### Assessment and the modules below it

`FinancialFacts`, `RiskSignals` and `CreditDecision` are the algorithms as operators, in
the order of the agents: amounts are integers (tens of millions of won),
ratios are fractions, so comparing one with a threshold is exact; a
confidence is in thousandths. The change between two ratios is not: the code subtracts
floats, and 1.2 - 1.0 is 0.19999999999999996. `Delta` is the exact difference and an error
of either sign or none, smaller than any other distance from a threshold (`Grain`), so it
decides ties and nothing else. That is right of amounts in tens of millions of won, and of
debt ratios below some hundreds. Which error a pair of years has is part of its figures
(field `error`), and not the same for the trend, which subtracts ratios, and for the
detector, which subtracts percentages. The companies of the run have the errors IEEE
arithmetic gives for their figures; the theorems hold for all. A text is the set of the words the detectors
look for. `Assessment` runs the agents in the order of the graph; a tool, a
detector, the language model or a whole step may fail (`MaxFaults`), and what is then
missing is replaced by the fallback of the code. It starts in every company of
`MCCompanies`: histories of pairs of years whose changes meet a threshold and round to
either side of it, all histories of up to three years built from five kinds of
years (sound, both changes exactly at their thresholds, losing, negative equity, thin
equity with an adverse opinion), and companies with news, disclosures and court notices.

### The stores

`RegistryStore`: a row is its key and the process that wrote it. Saving a table is
`OpenTable`, `CreateTable`, `ReadKeys`, `DeleteKnown`, `InsertRows`, because
`save_dataframe_to_postgres` is several transactions; `BreakOff` is a failing call or a
killed process between any two. `Launch` keeps nobody out. `ever`, `torn` and
`overlap` are history variables. An outcome says whether the accounts of a company carry a
stock code (`coded`): the pivot of `build_final_dataframe` drops those that do not, `Listed`
are the others. A pivot all of whose rows are dropped is taken to be an empty frame.

`NewsCollection`: the site's list grows while `ReadPage` pages through it;
`LosePage` ends it early, as the code does for any failing page; the commit fails
on the unique constraint if another collection was faster (`Commit`). `NewsText` says what
may become of an article and which sentences are kept.

`RagStore`: a chunk is its id (file, place, hash of the text). An ingest reads a
document, asks for its ids, adds the new ones and, when the call has returned, counts them; a failing
call makes the document an error, a kill ends the ingest. Either may fall after an add that
was stored, whose chunks then nobody counted (`uncounted`, a history variable). `Lookup` is the retrieval with its two fallbacks.
`RagChunks` cuts pages and merges rankings; `IndustryFacts` holds the verdicts.

The stores share no state, so `MCStores` puts them into one specification in
which a behaviour is about one of them (`pipeline`). The rules without state
(chunks, verdicts, events and reasons of the page) are applied to one `sample` per
initial state, chosen from every bounded input.

### ReportPage

An event is its age, severity and title. `EventSection` is the section about
events, which reads the classified list and falls back on the timeline, while the points
to monitor (`RecentRiskEvents`) always read the timeline; the page's sentence on
repayment goes by counts over all events. `GroupReasons` is the folding of the decision's reasons.

## 3. Runs

| Run | Checks | Bounds |
| --- | --- | --- |
| `jobs_lifecycle` | `LifecycleKept`: `WorkflowJobs` implements `JobLifecycle`; `TypeOK` | 1 process, 2 jobs, 2 steps, 2 threads, 2 lost calls, cancelled workflows |
| `jobs_overlap` | `SingleExecutor`, `ClosedStaysClosed`, `FailedStaysFailed`, `RowsAgree` with two processes alive | 2 processes, 2 jobs, 1 step, 1 thread, 1 fault of either kind; symmetric in jobs and processes |
| `jobs_liveness` | `EveryJobIsClosed`, `StopCompletes`, `RunningIsOwned` | 1 process, 2 jobs, 1 step, 1 thread, no faults |
| `jobs_stuck` | `ClaimedJobIsClosed` is violated | as above, 1 lost call |
| `graph_released` | `ReportNeedsGate`, `ReviewAfterAnalysis`, `SuccessIsComplete`, `LimitOnlyAfterFailedRetry`, `ValidationsWithinBudget` | default lists and seven shorter ones; retries unset, -1, 0, 2, 3, 7 |
| `graph_ungated` | `JudgementNeedsGate` is violated | default lists, retries unset |
| `stream` | `EventsAdvance`, `ResultNeverMissing`, `StreamEnds` | 1 job, 3 steps |
| `session` | `FollowedUntilClosed`, `ReportIsFinished`, `StandsOnlyAfterLoss`, `OneJobPerClick`, `ClosedJobIsLetGo` | 2 jobs, one of an unknown company, 2 reviews, 2 lost requests, 2 interrupted runs, 2 kept events |
| `calls` | `StepsAnswered`: `AgentSteps` implements `StepAnswers`; `CallsEndWithAttempt`, `LeftoversAreTimedOut` | 1 blocking and 1 threaded agent, 3 attempts, 3 tries of the model |
| `assessment` | `ImpairedIsRejected`, `NoFiguresNoLoan`, `CapsDecide`, `MoreEventsNeverHelp`, `ValidationFailureHasCause`, `SignalsAgree` | companies as above, target years 2 and 3, 1 failure, with and without fail-fast |
| `stores` | `RegistryKeepsRows`, `EveryCompanyAccounted`; `ListHasNoGap`, `RaisedOnlyByRace`; `IngestTellsTheTruth`, `OwnMethodology`; `TextRules`, `PageShowsAll`; `PipelinesEnd` | 2 processes, 1 company, 2 business years that overlap, 1 break; 2 collections, 3 articles, pages of 1; 2 ingests, 2 documents, 1 edit, 1 failure; pages of 4 lines, articles of 3 sentences, lists of 4 events and 5 reasons |
| `industry_compare` | `HigherIsBetterThanAverage` is violated | figures -12..12, averages -3, 2, 10 |

Why the bounds are enough:

- Two jobs are needed for order, for a zombie of one beside the execution of the
  other, and for a queue behind a stuck job; the loop takes one job at a time, so a third adds no
  new interference. Two processes are needed for a race; claims are decided pairwise.
- One thread makes the executor run full with a single zombie, two let a zombie
  and a live workflow report side by side.
- Two faults cover a failing call whose handler's call fails too; that is the
  longest chain in `_execute_job` that ends in the loop again.
- `RecursionLimit` is 14 where LangGraph's default is 25: the longest run that is
  not the loop of note 1 in section 4 takes 12 supersteps (resolver, two of analysis,
  decision, report and validation four times over), so 14 is reached by that loop only.
- Reads of different jobs do not interact, so the stream needs one job.
- A session follows one job at a time; the second one is for a review that
  follows another, and for a job a lost answer orphaned. Two lost requests are both ways of one look.
- Agents of one kind meet only at the loop, so one of each kind shows every order of
  holding it and of expiring; three attempts let a thread outlive two of them.
- One failure in an assessment shows each fallback alone; the properties name
  the failures they exclude.
- Companies of the registry are independent except through tables, where a key is
  replaced by itself; two processes and years that share a key give every
  interleaving of two replacements. The theorem (section 5) covers the rest.
- Pages, articles and lists are long enough for a window, a section, a neighbour on both
  sides, a limit and one past it.

`CHECK_DEADLOCK FALSE` appears where a run of the workflow or of a pipeline ends.
Elsewhere deadlock is checked.

### Fairness

`FairSpec` of `WorkflowJobs` assumes that the event loop runs ready callbacks and timers
(`LoopStep`), that a workflow answers or times out (`wait_for` has a timeout in
any case), that threads end (`ZombieEnds`: every network call has a timeout of its
own), that a stopped process exits (`FinishStop`), and that somebody starts the
server again when none is alive (`Boot`). All of it is weak fairness: each of these
actions stays enabled until it is taken, as a ready callback does. Nobody is obliged to submit,
stop or crash. Under it, `EveryJobIsClosed` needs the poll timeout when the
wake-up is lost, and the restart when the process is gone. `FairStreamSpec` assumes
the same of a stream's generator. `FairSessionSpec` adds that a running script
goes on, and nothing about the user, the network or the worker. `FairSpec` of
`AgentSteps` lets time pass, blocking calls end and the loop run what is ready, and
assumes nothing of threads and of the model: they may never come back. `StoresSpec`
assumes only that some process of those at work goes on. The other safety runs assume
no fairness.

## 4. What the runs found

Three runs end in a violation of something the repository says:

1. **A job can be left running** (`jobs_stuck`). If storing a failure fails, the
   exception reaches `_run_loop`, which records it and sleeps. The row stays `running`
   until the next start of the server; only then `fail_incomplete_workflow_jobs`
   closes it.
2. **Fail-fast can skip the gate** (`graph_ungated`). A first report that fails halts the
   run; the result is `partial` and carries the decision, never validated.
   `ReportNeedsGate` shows what does hold: a report never leaves ungated, nor does a
   decision of a run that continues on errors.
3. **A negative average turns the comparison round** (`industry_compare`). `_compare`
   divides by the average; with an average below zero a profit is `worse` and a bigger loss `better`.
   `TextRules` shows the order is right for averages above zero.

Notes from modelling, which no run of their own shows:

1. A report that fails on its retry in a fail-fast run halts it between report and validation,
   and the routing reads the stale gate status `retrying` until the recursion limit raises.
   `LimitOnlyAfterFailedRetry` shows that this is the only way there.
2. Completing and failing a row do not test its status: an exception after the
   commit of a completion turns `succeeded` into `failed`, a transition the diagram in
   `docs/design/erd.md` does not have. A closed row stays closed all the same.
3. A blocked result still carries `grade`, `grade_score`, `confidence` and `reasons`,
   which `BLOCKED_RESULT_KEYS` does not name.
4. The 45 second default timeout of `docs/conventions/agent-execution-contract.md` cannot
   cancel the blocking agents: they never yield.
5. `_fallback_explanation` never says that it is one, so the decision is not `partial` as
   `backend/agents/decision/README.md` says. A model that writes only white space passes the
   `or` of the report and fails validation, on every retry the same way.
6. Keyword detection takes the first word of a category: a text with 부도 and 파산 is graded
   below one with 파산 alone. Losses "two years running" are adjacent rows, also across a
   missing year. If the filters tool fails, no cap remains, and without figures the default limit is possible.
7. A rerun pressed while the POST is under way submits a second job, and a lost
   answer leaves a job nobody follows; a lost status answer leaves the page standing,
   although it says it will move on by itself. A rerun between two assignments can lose a
   job that was accepted (`ForgetName`, `Interrupt`), lose the message that a company was
   not found (`LetGo`, `Interrupt`), or leave the report stored of a job that is still
   followed (`TakeResult`, `Interrupt`), which the next look fetches again.
8. The error log of the registry is saved last and is missing when anything before it broke.
   Keys that hold NULL are not matched by the DELETE. A failing news page gives a
   shorter list that is reported as a success. Edited and removed documents leave their chunks in the store.
   An add to the store that raises after it stored its chunks makes the document an error and
   leaves these chunks out of every count, of the next ingest too, which finds them there.
9. An unknown trend makes `get_business_cycle` a contraction; a manufacturing series
   shorter than 13 months counts as no change, hence a low risk.
10. The page's sentences on events count all of them under the words "최근 90일", while its
    list shows the last 90 days only; financial anomalies are dated at year ends, so both differ often.
11. `ReviewAfterAnalysis` is about lists whose analysis branches are equally long, like
    the default ones. `_validate_agents` accepts others, for instance news, risk and financial
    without industry: the edges into the first reviewer are no join, decision then runs
    when the short branch ends and again after the long one. With such a list
    (news, risk and financial; decision, report, validation) or with the report before
    the decision (report, decision, validation), an ungated report leaves the run, too: TLC violates
    `ReportNeedsGate` for both, hence the hypotheses of `ReportIsGated` (section 5).
12. A company that passed every filter of the registry and whose accounts carry no stock code
    is dropped by the pivot of `build_final_dataframe`: it is in neither `sme_list` nor the
    error log, and the run ends well. Its detailed statements, which are not pivoted, are
    stored, while the diagram of `docs/design/erd.md` gives every row of details its company.
    `EveryCompanyAccounted` names this exception, and no other company of a run that ends
    well is unaccounted for.

## 5. What is proved

Every invariant and action property that a passing run checks is also a theorem. A theorem holds for every value of the constants; where it has
hypotheses beyond the assumptions of its module, they are named below.

| Module | Theorems |
| --- | --- |
| `WorkflowJobs_proofs` | `JobsInvariant`, `TypeCorrect`, `JobHasSingleExecutor`, `RowsAlwaysAgree`, `ClosedJobStaysClosed`, `FailedJobStaysFailed`; for one process, `WorkerKeepsLifecycle` and `RunningIsAlwaysOwned` |
| `Readers_proofs` | `StreamInvariant`, `ResultIsNeverMissing`, `EventsAlwaysAdvance`; `SessionInvariant`, `SessionTypes`, `ReportIsAlwaysFinished`, `ClickIsOneJob`, `PageStandsOnlyAfterLoss`, `JobIsFollowedUntilClosed` |
| `WorkflowGraph_proofs` | for layered lists, `GraphInvariant`, `ReportIsGated`, `ReviewComesAfterAnalysis`, `SuccessIsAlwaysComplete`, `ValidationsStayWithinBudget`, `LimitMeansFailedRetry` |
| `AgentSteps_proofs` | `StepsInvariant`, `StepsTypeCorrect`, `CallsAlwaysEndWithAttempt`, `LeftoversAlwaysTimedOut`, `StepsAnsweredOnce` |
| `Assessment_proofs` | `AssessmentInvariant`, `AssessmentTypes`, `ImpairedIsAlwaysRejected`, `NoLoanWithoutFigures`, `EveryCapDecides`, `EventsNeverHelp`, `FailedValidationHasCause`, `SignalsAlwaysAgree` |
| `Stores_proofs` | `RegistryInvariant`, `RegistryTypeCorrect`, `RegistryAlwaysKeepsRows`, `EveryCompanyIsAccounted`, `NewsRaisedOnlyByRace`, `ListNeverHasGap`, `AlwaysOwnMethodology`, `IngestAlwaysTellsTheTruth` |
| `Rules_proofs` | `PagesAreAlwaysKept`, `ExtractionIsAlwaysExact`, `RankingsAlwaysAgree`, `FiguresAlwaysKeepOrder`, `PageAlwaysTells`, `ReasonsAreAlwaysKept`; of the behaviours of the run, `TextRulesHold` and `PageShowsAllHolds` |

### The job layer

The theorems hold for every set of jobs and processes, every bound on steps, threads and
faults, with or without overlapping processes, ambiguous commits and cancelled workflows.
The assumptions are those on the constants in `WorkflowJobs` (`NoJob` is no job, the bounds
are numbers, the fault kinds are known).

`SingleExecutor` is not inductive: nothing in it says that a queued row has no executor, so
a claim could give a job that is still worked on to a second process. `JobsInv` adds
`WorkIsClaimed` (what a process works on, in its loop or in a zombie's thread, was claimed:
its row is not absent or queued) and, since a row never becomes queued again, a job that can
be claimed has no executor. `HoldsJob` and `HoldsOutcome` say that the loop knows its job
and the error code it is about to store, which `RowsAgree` needs of the statements that fail
a row. The proof has one lemma per action; most actions write no row and start no work, and
`QuietStep` covers what they have in common, as `ClosesCurrent` does for the three actions
that store an outcome. `ClosedJobStaysClosed` needs of the invariant only the types and that
the loop holds a job: no statement of the repository reopens a row
(`StatementReopensNothing`), and every step runs at most one of them.

`FailedJobStaysFailed` is about the answer that comes too late. Completing a row does not
look at its status, so it must be shown that the job of a loop that may still complete it is
open: `Late` says so (`AwaitedIsOpen`), up to a job that a booting process gave up while
another was at it, and that a process that is down is at nothing (`DownIsIdle`).

`WorkerKeepsLifecycle` is the refinement, `Spec => LifecycleKept`, under `Alone`: one
process at a time, whose failing calls did not commit. Both are needed (section 4, note 2).
`AloneInv` adds that the job of the executing loop runs and the job it is about to claim is
the first in line (`AloneOnTheTable`: nothing is queued in front between SELECT and UPDATE
because ranks only grow), and that no more steps are stored than were reported
(`RowsInOrder`, which makes a completion an advance). `RunningIsAlwaysOwned` assumes in
addition that no call fails and no workflow is cancelled: `jobs_stuck` shows what a failing
call does.

### The readers and the session

The theorems about `JobStream` hold for any jobs and any number of steps, of the promise
of `JobLifecycle`; they hold of the code where `WorkerKeepsLifecycle` does. The argument is
an order of the views of one row, `Precedes`: a step of the worker only moves the row
forward in it (`RowStep`), and of two sound views in this order that differ, the later one
has more steps or a later stage (`ChangeIsProgress`). `StreamInv` says that what the
generator holds is not older than what the client saw and not newer than the row
(`ViewsOfTheRow`), and that the view sent last is the latest of the connection
(`SentIsLast`, without which "differs from the last one sent" would not keep the events in
order). `ResultNeverMissing` needs that a row confirmed as succeeded stays so and has a
result.

The invariant of the session, `SessionInv`, has two halves. `ApiIsTrue` speaks of the API
only: a view with a terminal status is the status of the row, now and forever, and the
result endpoint answers every job it is asked for. The other half speaks of the script:
which page and which entries go with each place in it, the places between two assignments
of a handler included (`ScriptKnowsItsPlace`), that what is
shown succeeded and is what is followed or was submitted before it (`ShownIsFinished`: it is
the very job between the assignments of `last_result` and `pending_job_id`, and after a
rerun that came between them), and that a
name that waits has a click or an interrupted run to itself (`ClickIsLeft`, without which
`OneJobPerClick` is not inductive). The steps of worker and stream keep the second half
because they move rows forward only; each step of the script uses the first half for the one
answer it reads.

### The orchestrator graph

`GraphInv` says where a run can be: in the resolver, in one of the two supersteps of the
analysts (`InSuperstep`), or alone in one reviewer (`InReview`), and for each place what its
steps, its context and the nodes already chosen for the next superstep are. A retry goes
back from validation to report without a new place, so what a second round may rely on is
stated once. This holds for lists whose branches end together, `AllLayered`; the default
lists are layered, `ValidLists` alone does not make them so, and for others
`ReviewAfterAnalysis` fails (section 4, note 11). `ReportIsGated` also assumes
`ReportIsLast`: no agent between a report and its validation. Without it a fail-fast run can
be halted with a draft no gate saw (same note). `LimitMeansFailedRetry` assumes
`RecursionLimit >= 12`, the length of a full run with three retries; LangGraph's default is
25. The rest holds for any retry setting, list order and outcome of the agents. The steps of
concurrent nodes are merged in the order of names (`Merged`), one `StepOf` after the other;
`Holds` says which steps are in such a list, each once.

### The step runner

For any agents and any numbers of attempts and tries. `StepsAnsweredOnce` is the safety half
of the refinement: `Spec => Results!Init /\ [][Results!Next]_answer`. The invariant
`StepsInv` adds to the properties that an agent that is not done has no answer
(`LoopAndAnswers`, which makes an answer the first one), that rows are waited for alone
(`RowsComeFirst`), that requests of earlier attempts are paid for (`RequestsCounted`: the
bound on all requests is not inductive without the count of the current attempt), and that
an attempt waits for its own threads (`ThreadsWaitedFor`, so only a timeout can leave one
behind).

### The assessment

For companies with any figures of any years and any texts, and any number of failures.
`AssessmentInv` says that the output of every agent is the function of its inputs, of the
tools that failed and of its fallback (`OutputsFollow`); the steps run in the order of the
graph (`StepsInOrder`). With it the theorems are about functions:

- `EventsNeverHelp`: each deduction, ceiling and rule is monotonous, and so are their
  compositions; a least of two sums is proved once per form.
- `EveryCapDecides`: the table of caps is compared with the ranks of grades and decisions.
- `ImpairedIsAlwaysRejected`: an event with the title of negative equity is among the
  classified events, through `FlattenSeq` of the detectors' lists; the score's flag is read
  off this title.
- `FailedValidationHasCause`: each check holds of what a decision and a report that worked
  contain.
- `SignalsAlwaysAgree`: the trend takes three years one by one and rows are given in the
  order of years, so a history that is as long as the rows has the same neighbours;
  thresholds that are multiplied out on one side and divided on the other are brought to one
  form. For the leverage there is an exception: from 500/500 to 600/500 the trend subtracts
  1.0 from 1.2, which falls short of 0.20, and the detector 100.0 from 120.0, which is 20; it
  makes an event of what the trend does not flag, and from 89/500 to 189/500 it is the other
  way round (0.378 - 0.178 is 0.20, 37.8 - 17.8 falls short of 20). A rounding error decides only what is at the threshold
  (`ErrorsDecideTies`), so the two agree on every other change (`TwentyPoints`). The change
  of the revenue is one division in both and is not touched.

### The stores

For any companies, processes, years and number of breaks. `RegistryKeepsRows` is not
inductive: an insert keeps one row per key only because the delete before it removed what
was there. `RegistryInv` adds what a process may know between its transactions: keys it is
about to replace (`KnowsItsOwn`), and, as long as no two processes ran at once, the state of
the table as its last call left it (`AloneAtWork`). `EveryCompanyIsAccounted` needs that
what a process collected is stored table by table (`SavedSoFar`). It asks for rows of the
process itself, so that another run's rows for the same company count for nothing, and it
names what is not accounted for: a passed company without a stock code has its detailed
statements, if any, and nothing else (section 4, note 12).

`NewsRaisedOnlyByRace` needs that what is stored was stored by a collection that is done
(`NewsOwned`), and that an article a collection did not find was not there when it looked.
`ListNeverHasGap` holds because a page can only show again what was shown before: articles
that come in move the others to later pages. `ListInv` says it of every article of the list
at the beginning: one that was not taken is still ahead of the page to be read, and older
than all that is held (`Ahead`). The fold over the items of a page (`TakeItems`) is unfolded
item by item in `PageLeavesNoGap`.

`IngestAlwaysTellsTheTruth` needs what each ingest knows (`Truthful`: what it counted, and
that what is missing of the documents behind it is among its errors, `Missing`) and what
only an ingest alone knows (`TruthWhenAlone`: what it is about to add nobody else adds). The count of inserted chunks is
that of the store without the chunks nobody counted yet (`Uncounted`): those of an add that
is under way and those of one that a failure or a kill kept from returning.
Sums over documents and ingests are handled by induction on the cardinality of a set.
`AlwaysOwnMethodology` goes through filter, search and both fallbacks; it needs that the
store is finite, so that a ranking exists.

### The rules without state

`TextRules` and `PageShowsAll` apply rules to a sample that no step changes
(`SampleIsOfKind`), so what carries them is one theorem per rule, for input of any length.

- `PagesAreAlwaysKept`, for every chunk size and every smaller overlap. The walk over the
  lines of a page is unfolded line by line: behind each line, what was closed and the section
  still open (`OpenAfter`) are the runs of text lines between headings. Windows are followed
  from the last start downwards: each begins inside the one before it, and the last one ends
  the text (`WindowsCover`). The chunks of one section are contiguous in the result
  (`AreCut`), so the rule about neighbours is a rule about windows.
- `ExtractionIsAlwaysExact`: the first pass keeps what the declaration's first part names;
  the second reads what the first took, not what it takes itself.
- `RankingsAlwaysAgree`: reciprocal ranks as fractions. Two of them outweigh one
  (`TwoOutweighOne`) as long as no ranking is longer than 60, the constant of the formula:
  1/(60+60) + 1/(60+60) is just above 1/61. The code asks for 3 and 5, the evaluation for up
  to 20.
- `FiguresAlwaysKeepOrder`: for all integers against every average above zero; with a
  negative average it is false, which is the finding of `industry_compare`.
- `PageAlwaysTells`: for dated events, and a workflow has no others. Both sections are
  comprehensions over one list, sorted and cut; two ascending lists with the same members
  are one list (`AscendingIsUnique`), which is how a section is compared with its
  declaration.
- `ReasonsAreAlwaysKept`: the groups behind each reason hold the places seen so far, each
  once and in order.

### Induction

The community modules define operators like `FlattenSeq` and the folds by recursive
functions. `SequenceFacts` proves what the proofs above use of them: a fold is a sequence of
intermediate values, each made from the one before (`IsFold`). The rules of pages and of the
report select and sort; the provers see no definition of `SelectSeq` and `SortSeq` of the
standard modules, and `SortSeq` is not stable, as Python's sort is. `Lists` defines both by counting what comes before a place, and the facts about counting carry the
proofs. The induction theorems of the
library take an operator as a parameter and cannot be instantiated; `NatSetInduction` states
induction for a *set* of naturals instead, from the least element that is not in it
(`WFMin`, which has no such parameter).

## 6. What is only model-checked, and what is not shown

- Liveness (`EveryJobIsClosed`, `StopCompletes`, `StreamEnds`, `ClosedJobIsLetGo`,
  `PipelinesEnd`, the fairness of `StepsAnswered`) is checked by TLC only; TLAPS does not
  reason about fairness and ENABLED.
- The hypotheses of the theorems in section 5 are what they do not cover: two processes at
  once or ambiguous commits (`LifecycleKept`, `RunningIsOwned` and, with them, the readers'
  and the session's theorems), lists whose branches end at different times (the graph), rankings longer than 60,
  and averages of zero and below.
- Not shown: durability of committed rows, clocks running backwards (the queue is ordered by
  wall clock time), schema migration, fairness between many clients, and what the agents
  say. The text of an agent is a free choice in the model.

## 7. Not modelled

- Company resolver and lookup: two SELECTs without state; found or not is an input of
  `WorkflowGraph`.
- Layout and formatting of the report, wording of prompts, HTML and PDF parsing.
- The queue of browser console messages (its cut at fifty against the flushed count is
  listed as a hazard).
- `rag/evaluation.py`: averages over a labelled data set, offline.
- The path of `tools/financial.py` that asks DART for statements directly; the default
  provider reads the database.
- Integrations and the MCP server, observability, scripts: pure I/O or one-shot entry
  points.
- The synchronous route, which runs one workflow inside its request.

## 8. Plan

Done: the job layer, graph and readers; the step runner, the session, the assessment, the
stores, their rules and the report page; the theorems of section 5, which state every
invariant and action property of the passing runs. What is left to weaken: `Layered`, to the
lists for which `ReviewAfterAnalysis` really holds, and `Alone`, to overlapping processes that
keep to their own jobs. What is left to add: the type invariant of `NewsCollection` as a
theorem, the queue of console messages, the path of `tools/financial.py` that asks DART.
