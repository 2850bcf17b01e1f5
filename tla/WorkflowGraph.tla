---------------------------- MODULE WorkflowGraph ----------------------------
(***************************************************************************)
(* One run of the credit workflow: the LangGraph graph WorkflowGraphBuilder *)
(* compiles from the agent lists, the nodes it wraps around the agents, the *)
(* validation gate and the assembly of the result.                         *)
(*                                                                         *)
(* LangGraph runs the graph in supersteps: the nodes of a superstep run     *)
(* concurrently on the state of its start; when all have ended their writes *)
(* are merged and the nodes their edges lead to form the next superstep.    *)
(*                                                                         *)
(* An agent is what its step shows of it: whether it succeeded and what it  *)
(* decided.  Of the context only the fields that steer the graph are kept,  *)
(* and the keys of the final judgement.                                    *)
(***************************************************************************)
EXTENDS Integers, Sequences, FiniteSets

CONSTANTS
    Configurations,  \* the agent lists an orchestrator may be created with
    RetrySettings,   \* payload["validation_retry_attempts"]: {n}, or {} for none
    RecursionLimit   \* supersteps LangGraph allows a run

Analysts  == {"news_collector", "financial_analyst", "risk_event", "industry_analyst"}
Reviewers == {"decision", "report", "validation"}
Agents    == {"company_resolver"} \cup Analysts \cup Reviewers

\* The agent lists _validate_agents accepts: distinct names, validation last.
ValidLists(l) ==
    /\ l.resolver \in BOOLEAN
    /\ l.parallel \subseteq Analysts
    /\ l.sequential \in Seq(Reviewers)
    /\ \A i, k \in DOMAIN l.sequential :
          /\ l.sequential[i] = l.sequential[k] => i = k
          /\ l.sequential[i] = "validation" => i = Len(l.sequential)
    /\ l.resolver \/ l.parallel # {} \/ l.sequential # <<>>

ASSUME ConfigurationsAssumption == \A l \in Configurations : ValidLists(l)
ASSUME RetryAssumption == \A s \in RetrySettings : s \subseteq Int /\ Cardinality(s) <= 1
ASSUME LimitAssumption == RecursionLimit \in Nat \ {0}

VARIABLES
    lists,            \* the agents of this run, by list
    continueOnError,  \* continue_on_error of the orchestrator
    configured,       \* the retry setting of the payload
    running,          \* nodes of the current superstep that have not ended
    ctx,              \* state["context"] at the start of the superstep
    newCtx,           \* the same with the writes of the nodes that ended
    stepped,          \* steps written in the current superstep
    next,             \* nodes the edges of the ended nodes lead to
    steps,            \* state["steps"]
    superstep,        \* supersteps so far
    result            \* what run() returned or raised

given == <<lists, continueOnError, configured>>
vars  == <<given, running, ctx, newCtx, stepped, next, steps, superstep, result>>

Gates    == {"none", "passed", "retrying", "blocked"}
Statuses == {"none", "not_target", "not_started", "success", "partial", "failed",
             "recursion_limit"}

\* Keys of the final judgement among an agent's outputs; of the sixteen keys of
\* decision three stand for all: two that results.py blocks, and "grade", which
\* like grade_score, confidence and reasons it does not.
OutputKeys(a) == CASE a = "decision" -> {"decision", "credit_grade", "grade"}
                   [] a = "report"   -> {"report"}
                   [] OTHER          -> {}
JudgementKeys == OutputKeys("decision") \cup OutputKeys("report")

Step     == [agent : Agents, ok : BOOLEAN]
Contexts == [found : BOOLEAN, halt : BOOLEAN, gate : Gates, attempt : Nat,
             keys : SUBSET JudgementKeys, reports : Nat, judged : Nat]
Results  == [status : Statuses, keys : SUBSET JudgementKeys,
             code : {"none", "COMPANY_NOT_FOUND", "VALIDATION_FAILED"}]

TypeOK ==
    /\ lists \in Configurations /\ continueOnError \in BOOLEAN
    /\ configured \in RetrySettings
    /\ running \subseteq Agents /\ next \subseteq Agents
    /\ ctx \in Contexts /\ newCtx \in Contexts
    /\ stepped \subseteq Step /\ steps \in Seq(Step)
    /\ superstep \in 1..RecursionLimit
    /\ result \in Results
-----------------------------------------------------------------------------
(* The graph *)

\* Analysts without an analyst of the list to wait for.
AnalysisStartNodes ==
    {a \in lists.parallel :
        /\ a = "risk_event" => "news_collector" \notin lists.parallel
        /\ a = "industry_analyst" => "financial_analyst" \notin lists.parallel}

\* Variant: every analyst leads on to the reviewers.
AnalysisTerminalNodesAll == lists.parallel

\* Analysts no analyst of the list waits for.
AnalysisTerminalNodes ==
    {a \in lists.parallel :
        /\ a = "news_collector" => "risk_event" \notin lists.parallel
        /\ a = "financial_analyst" => "industry_analyst" \notin lists.parallel}

First == IF lists.sequential = <<>> THEN {} ELSE {lists.sequential[1]}
Last  == IF lists.sequential = <<>> THEN {} ELSE {lists.sequential[Len(lists.sequential)]}

StartNodes == IF AnalysisStartNodes # {} THEN AnalysisStartNodes ELSE First

\* The only node to regenerate before another validation is a report before it.
RetryNode ==
    {lists.sequential[i] : i \in {k \in DOMAIN lists.sequential :
                                     /\ k = Len(lists.sequential) - 1
                                     /\ lists.sequential[k] = "report"}}

\* Unconditional edges out of a node: each leads on when the node ends, and a
\* node with several of them coming in waits for one only.
Edges(a) ==
    {b \in lists.parallel : \/ a = "news_collector" /\ b = "risk_event"
                            \/ a = "financial_analyst" /\ b = "industry_analyst"}
    \cup (IF a \in AnalysisTerminalNodes THEN First ELSE {})
    \cup {lists.sequential[i + 1] : i \in {k \in 1..Len(lists.sequential) - 1 :
                                              lists.sequential[k] = a}}

\* A company that is not a target, or a halted run, ends after the resolver.
RouteAfterResolver(c) == IF ~c.found \/ c.halt THEN {} ELSE StartNodes

\* The gate status of the context decides, whoever wrote it and when.
RouteAfterValidation(c) == IF c.gate # "retrying" THEN {} ELSE RetryNode

\* Where a node leads on to, given the context with its own writes.
Successors(a, c) ==
    CASE a = "company_resolver" -> RouteAfterResolver(c)
      [] a = "validation"       -> RouteAfterValidation(c)
      [] OTHER                  -> Edges(a)
-----------------------------------------------------------------------------
(* The validation gate *)

DefaultRetryAttempts == 1
MaxRetryAttempts     == 3

ValidationRetryAttempts ==
    IF configured = {} THEN DefaultRetryAttempts
    ELSE LET n == CHOOSE m \in configured : TRUE IN
         IF n < 0 THEN 0 ELSE IF n > MaxRetryAttempts THEN MaxRetryAttempts ELSE n

RetryAttempts == IF RetryNode = {} THEN 0 ELSE ValidationRetryAttempts

\* An answer counts only if it has a result, and a failed step never passes.
GatePassed(ok, verdict) == ok /\ verdict = "passed"

\* Variants: one retry more than asked for; attempts are not counted.
GateOneMore(c, ok, verdict) ==
    [c EXCEPT !.attempt = @ + 1,
              !.judged  = c.reports,
              !.gate    = IF GatePassed(ok, verdict) THEN "passed"
                          ELSE IF c.attempt <= RetryAttempts THEN "retrying"
                          ELSE "blocked"]
GateUncounted(c, ok, verdict) ==
    [c EXCEPT !.judged  = c.reports,
              !.gate    = IF GatePassed(ok, verdict) THEN "passed"
                          ELSE IF c.attempt < RetryAttempts THEN "retrying"
                          ELSE "blocked"]

\* The context validation writes after its attempt.
Gate(c, ok, verdict) ==
    LET attempt == c.attempt + 1 IN
    [c EXCEPT !.attempt = attempt,
              !.judged  = c.reports,
              !.gate    = IF GatePassed(ok, verdict) THEN "passed"
                          ELSE IF attempt <= RetryAttempts THEN "retrying"
                          ELSE "blocked"]
-----------------------------------------------------------------------------
(* The result *)

\* Variant: once a validation passed, no failed step counts.
EffectiveStepsOk(c, s) ==
    IF c.gate # "passed" THEN DOMAIN s ELSE {i \in DOMAIN s : s[i].ok}

\* Once a validation passed, the ones that failed before it do not count.
EffectiveSteps(c, s) ==
    IF c.gate # "passed" THEN DOMAIN s
    ELSE {i \in DOMAIN s : s[i].agent = "validation" =>
             \A k \in DOMAIN s : s[k].agent = "validation" => k <= i}

DeriveStatus(I, s) ==
    IF I = {} THEN "not_started"
    ELSE IF \A i \in I : s[i].ok THEN "success"
    ELSE IF \A i \in I : ~s[i].ok THEN "failed"
    ELSE "partial"

\* Variant: the report is forgotten.
BlockedDecisionKeys == {"decision", "credit_grade"}

\* BLOCKED_RESULT_KEYS, restricted to the keys modelled.
BlockedResultKeys == {"decision", "credit_grade", "report"}

NoResult == [status |-> "none", code |-> "none", keys |-> {}]
RecursionError == [status |-> "recursion_limit", code |-> "none", keys |-> {}]

BuildResult(c, s) ==
    IF ~c.found
    THEN [status |-> "not_target", code |-> "COMPANY_NOT_FOUND", keys |-> c.keys]
    ELSE IF c.gate = "blocked"
    THEN [status |-> "failed", code |-> "VALIDATION_FAILED",
          keys |-> c.keys \ BlockedResultKeys]
    ELSE [status |-> DeriveStatus(EffectiveSteps(c, s), s), code |-> "none",
          keys |-> c.keys]
-----------------------------------------------------------------------------
(* The run *)

Init ==
    /\ lists \in Configurations
    /\ continueOnError \in BOOLEAN
    /\ configured \in RetrySettings
    /\ running = IF lists.resolver THEN {"company_resolver"} ELSE StartNodes
    /\ ctx = [found |-> TRUE, halt |-> FALSE, gate |-> "none", attempt |-> 0,
              keys |-> {}, reports |-> 0, judged |-> 0]
    /\ newCtx = ctx
    /\ stepped = {} /\ next = {} /\ steps = <<>> /\ superstep = 1
    /\ result = NoResult

\* A node ends: it leaves the superstep and its edges lead on.
Leave(a, c) ==
    /\ running' = running \ {a}
    /\ next' = next \cup Successors(a, c)
    /\ UNCHANGED <<given, ctx, steps, superstep, result>>

\* In a halted run a node does nothing; its edges lead on all the same.
Skip(a) ==
    /\ a \in running
    /\ ctx.halt
    /\ Leave(a, ctx)
    /\ UNCHANGED <<newCtx, stepped>>

\* The step of an agent other than validation.  A failed step loses its output,
\* and halts the run unless it continues on errors.
RunAgent(a, ok) ==
    /\ a \in running \ {"validation"}
    /\ ~ctx.halt
    /\ stepped' = stepped \cup {[agent |-> a, ok |-> ok]}
    /\ \E found \in IF a = "company_resolver" /\ ok THEN BOOLEAN ELSE {ctx.found} :
          LET merged(c) ==
                [c EXCEPT !.found   = IF a = "company_resolver" THEN found ELSE @,
                          !.halt    = @ \/ (~ok /\ ~continueOnError),
                          !.keys    = IF ok THEN @ \cup OutputKeys(a) ELSE @,
                          !.reports = IF ok /\ a = "report" THEN @ + 1 ELSE @]
          IN  newCtx' = merged(newCtx) /\ Leave(a, merged(ctx))

\* The step of validation: the gate answers, whatever continue_on_error says.
RunValidation(ok, verdict) ==
    /\ "validation" \in running
    /\ ~ctx.halt
    /\ stepped' = stepped \cup {[agent |-> "validation", ok |-> ok]}
    /\ LET gated == Gate(ctx, ok, verdict) IN
          /\ newCtx' = [newCtx EXCEPT !.attempt = gated.attempt, !.gate = gated.gate,
                                      !.judged = gated.judged]
          /\ Leave("validation", gated)

\* The step of a node, if it wrote one.
StepOf(a) ==
    IF [agent |-> a, ok |-> TRUE] \in stepped THEN <<[agent |-> a, ok |-> TRUE]>>
    ELSE IF [agent |-> a, ok |-> FALSE] \in stepped THEN <<[agent |-> a, ok |-> FALSE]>>
    ELSE <<>>

\* LangGraph merges the writes of a superstep in the order of the node names.
Merged ==
    StepOf("company_resolver") \o StepOf("decision") \o StepOf("financial_analyst")
       \o StepOf("industry_analyst") \o StepOf("news_collector") \o StepOf("report")
       \o StepOf("risk_event") \o StepOf("validation")

\* The barrier at the end of a superstep.
Advance ==
    /\ running = {} /\ result = NoResult
    /\ steps' = steps \o Merged
    /\ ctx' = newCtx
    /\ stepped' = {} /\ next' = {}
    /\ \/ /\ next = {}
          /\ result' = BuildResult(newCtx, steps')
          /\ UNCHANGED <<running, superstep>>
       \/ /\ next # {} /\ superstep = RecursionLimit
          /\ result' = RecursionError
          /\ UNCHANGED <<running, superstep>>
       \/ /\ next # {} /\ superstep < RecursionLimit
          /\ running' = next
          /\ superstep' = superstep + 1
          /\ UNCHANGED result
    /\ UNCHANGED <<given, newCtx>>

Next ==
    \/ \E a \in Agents : Skip(a) \/ \E ok \in BOOLEAN : RunAgent(a, ok)
    \/ \E ok \in BOOLEAN, verdict \in {"passed", "rejected", "missing"} :
          RunValidation(ok, verdict)
    \/ Advance

Spec == Init /\ [][Next]_vars
-----------------------------------------------------------------------------
(* Properties *)

Ended == result # NoResult
Validates == "validation" \in Last
Ran(a) == \E i \in DOMAIN steps : steps[i].agent = a
RanWell(a) == \E i \in DOMAIN steps :
                 /\ steps[i] = [agent |-> a, ok |-> TRUE]
                 /\ \A k \in DOMAIN steps : steps[k].agent = a => k <= i

\* A report leaves the workflow only through the gate: the validation that
\* passed judged the very report the result carries, not one from before or
\* after it, with and without fail-fast, after any number of retries.  A run
\* that continues on errors cannot bypass the gate with its decision either.
ReportNeedsGate ==
    /\ Validates
    /\ "report" \in result.keys \/ (continueOnError /\ "decision" \in result.keys)
    => ctx.gate = "passed" /\ ctx.judged = ctx.reports

\* The gate judges at most once more than the retries the payload may ask for,
\* whatever it asks for, and only once when there is no report to regenerate.
ValidationsWithinBudget ==
    Cardinality({i \in DOMAIN steps : steps[i].agent = "validation"})
       <= 1 + RetryAttempts

\* Nobody reviews before every analyst of the list has had its turn, and each
\* had it once.  The edges into the first reviewer do not form a join, so it is
\* the equal length of the branches that makes it run once: the property is about
\* lists like the default ones, not about all that ValidLists accepts.
ReviewAfterAnalysis ==
    /\ \A r \in Reviewers : Ran(r) => \A a \in lists.parallel : Ran(a)
    /\ \A i, k \in DOMAIN steps :
          /\ steps[i].agent = steps[k].agent
          /\ steps[i].agent \in Analysts \cup {"decision"}
          => i = k

\* "success" is said only of a run in which every agent of the lists had a last
\* step that succeeded and the last validation passed, although failed
\* validations before it are not counted.
SuccessIsComplete ==
    result.status = "success" =>
       /\ \A a \in lists.parallel \cup {lists.sequential[i] : i \in DOMAIN lists.sequential} :
             RanWell(a)
       /\ Validates => ctx.gate = "passed"

\* The recursion limit is reached in one way only: a fail-fast run whose gate
\* asked for a retry and whose regenerated report failed.
LimitOnlyAfterFailedRetry ==
    result.status = "recursion_limit" =>
       /\ ~continueOnError /\ ctx.halt /\ ctx.gate = "retrying"
       /\ steps[Len(steps)] = [agent |-> "report", ok |-> FALSE]

\* No final judgement leaves the workflow without having passed the gate.
JudgementNeedsGate ==
    Validates /\ "decision" \in result.keys => ctx.gate = "passed"
-----------------------------------------------------------------------------
(* The inductive invariant behind the properties of the gate *)

\* Both ends of a branch are in the list, or one branch is all there is: every
\* analyst the reviewers wait for then ends in the same superstep.
Layered(l) ==
    LET news   == {"news_collector", "risk_event"}
        market == {"financial_analyst", "industry_analyst"}
    IN  /\ news \subseteq l.parallel => market \subseteq l.parallel \/ l.parallel = news
        /\ market \subseteq l.parallel => news \subseteq l.parallel \/ l.parallel = market

AllLayered == \A l \in Configurations : Layered(l)

\* A report that is validated is the last thing written before the validation.
ReportIsLast(l) ==
    \A i, k \in DOMAIN l.sequential :
       l.sequential[i] = "report" /\ l.sequential[k] = "validation" => k = i + 1

\* Analysts that wait for another one of the list.
Followers == lists.parallel \ AnalysisStartNodes

\* What the ended nodes of the superstep L have written.
Writes(L) ==
    /\ L # {} /\ running \subseteq L
    /\ ctx.halt => stepped = {} /\ newCtx = ctx
    /\ ~ctx.halt => /\ {s.agent : s \in stepped} = L \ running
                    /\ \A s, t \in stepped : s.agent = t.agent => s = t
    /\ newCtx.halt => /\ ~continueOnError
                      /\ ctx.halt \/ \E s \in stepped : ~s.ok /\ s.agent # "validation"

\* Nothing was reviewed yet.
Unreviewed(c) == c.gate = "none" /\ c.attempt = 0 /\ c.keys = {} /\ c.reports = 0

InResolver ==
    /\ lists.resolver /\ Writes({"company_resolver"})
    /\ Unreviewed(ctx) /\ Unreviewed(newCtx) /\ ~ctx.halt
    /\ steps = <<>> /\ superstep = 1
    /\ running # {} => newCtx = ctx
    /\ next = IF running = {} THEN RouteAfterResolver(newCtx) ELSE {}

\* The analysts of one superstep, none of whom ran before.
InAnalysis(L) ==
    /\ Writes(L)
    /\ Unreviewed(ctx) /\ Unreviewed(newCtx) /\ ctx.found /\ newCtx.found
    /\ next = UNION {Edges(a) : a \in L \ running}
    /\ \A a \in Reviewers \cup L : ~Ran(a)

InFirstAnalysis == InAnalysis(AnalysisStartNodes) /\ superstep <= 2 /\ ~ctx.halt
                   /\ \A a \in Followers : ~Ran(a)
InLastAnalysis  == InAnalysis(Followers) /\ superstep <= 3
                   /\ (~ctx.halt => \A a \in AnalysisStartNodes : Ran(a))

\* What the i-th reviewer changed of the context.
Reviewed(i) ==
    LET a == lists.sequential[i] IN
    IF running # {} \/ ctx.halt THEN newCtx = ctx
    ELSE IF a = "validation"
         THEN \E ok \in BOOLEAN, verdict \in {"passed", "rejected", "missing"} :
                 newCtx = Gate(ctx, ok, verdict)
         ELSE /\ newCtx.gate = ctx.gate /\ newCtx.attempt = ctx.attempt
              /\ newCtx.found = ctx.found
              /\ newCtx.keys = IF newCtx.halt THEN ctx.keys ELSE newCtx.keys
              /\ newCtx.keys \subseteq ctx.keys \cup OutputKeys(a)

\* Whether a review is a retry, and what it then can be of.
Retrying(i) ==
    /\ ctx.gate = "none" => ctx.attempt = 0
    /\ ctx.gate = "retrying" => /\ ctx.attempt \in 1..RetryAttempts
                                /\ i >= Len(lists.sequential) - 1

\* Only a run that was halted during a retry goes round until the limit.
LimitIsFar(i) ==
    IF ctx.halt /\ ctx.gate = "retrying"
    THEN steps # <<>> /\ steps[Len(steps)] = [agent |-> "report", ok |-> FALSE]
    ELSE superstep <= 3 + i + 2 * ctx.attempt

\* A report waits for its first validation only in a run that was not halted.
DraftIsSafe(i) ==
    /\ ReportIsLast(lists) /\ Validates /\ ctx.gate = "none"
    /\ ctx.halt \/ i < Len(lists.sequential)
    => "report" \notin ctx.keys

InReview(i) ==
    /\ Writes({lists.sequential[i]})
    /\ ctx.found /\ ctx.gate \in {"none", "retrying"}
    /\ next = IF running # {} THEN {} ELSE Successors(lists.sequential[i], newCtx)
    /\ Reviewed(i) /\ Retrying(i) /\ LimitIsFar(i) /\ DraftIsSafe(i)
    /\ ~ctx.halt => /\ \A a \in lists.parallel : Ran(a)
                    /\ \A k \in 1..i - 1 : Ran(lists.sequential[k])
    /\ \A k \in DOMAIN lists.sequential :
          k >= i /\ lists.sequential[k] = "decision" => ~Ran("decision")

InSuperstep ==
    \/ InResolver \/ InFirstAnalysis \/ InLastAnalysis
    \/ \E i \in DOMAIN lists.sequential : InReview(i)

\* The list of steps, whatever its order.
StepsSound ==
    /\ \A a \in Agents : Ran(a) =>
          \E i \in DOMAIN steps : /\ steps[i].agent = a
                                  /\ \A k \in DOMAIN steps : steps[k].agent = a => k <= i
    /\ Cardinality({i \in DOMAIN steps : steps[i].agent = "validation"}) = ctx.attempt
    /\ ctx.attempt <= 1 + RetryAttempts
    /\ ctx.halt => \E i \in DOMAIN steps : ~steps[i].ok /\ steps[i].agent # "validation"

GraphInv ==
    /\ TypeOK /\ StepsSound /\ ReviewAfterAnalysis
    /\ SuccessIsComplete
    /\ ReportIsLast(lists) => ReportNeedsGate
    /\ RecursionLimit >= 12 => LimitOnlyAfterFailedRetry
    /\ IF Ended THEN running = {} ELSE InSuperstep
=============================================================================
