------------------------------ MODULE Assessment ------------------------------
(***************************************************************************)
(* One assessment from the stored figures and the news of a company to the  *)
(* checked report: which agent computes what from the outputs of the agents *)
(* before it, and what is left of the result when tools, detectors or whole *)
(* steps fail.  How the graph schedules and gates the steps is modelled in  *)
(* WorkflowGraph; here the steps of a superstep see the context of the      *)
(* superstep before.                                                        *)
(***************************************************************************)
EXTENDS CreditDecision

CONSTANTS
    Companies,    \* records: features, detail, news, disclosures, notices
    Years,        \* years that may be asked for
    MaxFaults     \* tools, detectors and steps that fail in one assessment

ASSUME FaultsAssumption == MaxFaults \in Nat

\* Rows have whole figures, one a year and oldest first; texts are sets of words.
Rows == [year : Int, assets : Int, equity : Int, liabilities : Int, revenue : Int,
         operating : Int, income : Int, interest : Int, cashflow : Int, average : Int,
         audit : STRING, external : BOOLEAN, vague : BOOLEAN,
         error : [debt : Errors, margin : Errors, leverage : Errors]]

ASSUME CompaniesAssumption ==
    \A c \in Companies :
       /\ \A rows \in {c.features, c.detail} :
             /\ rows \in Seq(Rows)
             /\ \A i, k \in DOMAIN rows : i < k => rows[i].year < rows[k].year
       /\ c.news \in Seq([headline : SUBSET STRING, text : SUBSET STRING])
       /\ c.disclosures \in Seq(SUBSET STRING) /\ c.notices \in Seq(SUBSET STRING)

ASSUME YearsAssumption == Years \subseteq Int

VARIABLES
    company,      \* the company that was resolved
    target,       \* target_year
    failFast,     \* continue_on_error is off
    news,         \* articles the news agent handed on
    financial,    \* output of the financial analyst
    industry,     \* grades of the industry analyst
    risk,         \* output of risk_event
    verdict,      \* output of decision
    report,       \* the report
    failed,       \* names of the checks that failed
    step,         \* what became of each step
    faults        \* failures so far

vars == <<company, target, failFast, news, financial, industry, risk, verdict, report, failed,
          step, faults>>

Agents == {"news", "financial", "industry", "risk", "decision", "report", "validation"}

\* The agents whose outputs an agent can see.
Before(a) ==
    CASE a \in {"news", "financial"} -> {}
      [] a \in {"risk", "industry"}  -> {"news", "financial"}
      [] a = "decision"              -> {"news", "financial", "risk", "industry"}
      [] a = "report"                -> Agents \ {"report", "validation"}
      [] OTHER                       -> Agents \ {"validation"}

NoFinancial == [statement |-> NoStatement, ratios |-> NoRatios, trend |-> NoTrend, cap |-> NoCap,
                tools |-> {}]

TypeOK ==
    /\ company \in Companies /\ target \in Years /\ failFast \in BOOLEAN
    /\ step \in [Agents -> {"pending", "ok", "failed", "skipped"}]
    /\ financial.cap \in Range(GradeOrder) \cup {NoCap}
    /\ risk.critical \in Nat /\ risk.high \in Nat /\ risk.medium \in Nat
    /\ verdict # NoDecision =>
          /\ verdict.grade \in Range(Grades) /\ verdict.score \in 0..100
          /\ verdict.limit \in 0..500 /\ verdict.decision \in {"approve", "review", "reject"}
    /\ failed \subseteq {"decision", "grade", "confidence", "limit", "report", "summary",
                         "recommendation"}
    /\ faults \in 0..MaxFaults

Init ==
    /\ company \in Companies /\ target \in Years /\ failFast \in BOOLEAN
    /\ news = <<>>
    /\ financial = NoFinancial
    /\ industry = NoGrades
    /\ risk = Aggregate(<<>>, NoFinancialResult, {})
    /\ verdict = NoDecision
    /\ report = NoDecision
    /\ failed = {}
    /\ step = [a \in Agents |-> "pending"]
    /\ faults = 0

Ready(a) == step[a] = "pending" /\ \A b \in Before(a) : step[b] # "pending"

\* After a failure no later superstep runs, if the workflow fails fast.
Halted(a) == failFast /\ \E b \in Before(a) : step[b] = "failed"

\* The step ends with its output, at the price of the failures within it.
Ends(a, n) ==
    /\ Ready(a) /\ ~Halted(a) /\ faults + n <= MaxFaults
    /\ faults' = faults + n
    /\ step' = [step EXCEPT ![a] = "ok"]
-----------------------------------------------------------------------------
(* Agents *)

\* A pipeline that fails leaves an empty list, and the answer is partial.
CollectNews ==
    /\ \/ Ends("news", 0) /\ news' = company.news
       \/ Ends("news", 1) /\ news' = <<>>
    /\ UNCHANGED <<company, target, failFast, financial, industry, risk, verdict, report, failed>>

\* Every tool has a fallback: no statement, no trend, no cap.  Without a
\* statement the ratios are skipped and the filters see zeroes.
FinancialOutput(broken) ==
    LET rows == StatementRows(company)
        found == rows # <<>> /\ "statement" \notin broken
        fs == IF found THEN BuildStatement(SelectTargetRow(rows, target)) ELSE NoStatement
        trend == IF "trend" \in broken THEN NoTrend ELSE TrendAnalysis(rows, target)
    IN  [statement |-> fs,
         ratios    |-> IF found THEN CalcFinancialRatios(fs) ELSE NoRatios,
         trend     |-> trend,
         cap       |-> IF "filters" \in broken THEN NoCap ELSE ApplyRiskFilters(fs, trend.history),
         tools     |-> broken \cup IF found THEN {} ELSE {"statement", "ratios"}]

FinancialTools == {"statement", "trend", "filters"}

AnalyzeFinancials ==
    \E broken \in SUBSET FinancialTools :
       /\ Ends("financial", Cardinality(broken))
       /\ financial' = FinancialOutput(broken)
       /\ UNCHANGED <<company, target, failFast, news, industry, risk, verdict, report, failed>>

\* The grades need ratios and a sector whose thresholds are known.
IndustryOutput(known) ==
    IF known /\ financial.ratios # NoRatios THEN CalcKrFinancialGrades(financial.ratios)
    ELSE NoGrades

AnalyzeIndustry ==
    /\ Ends("industry", 0)
    /\ \E known \in BOOLEAN : industry' = IndustryOutput(known)
    /\ UNCHANGED <<company, target, failFast, news, financial, risk, verdict, report, failed>>

\* The five detectors; those in broken raised.  The rows are the yearly
\* features, whatever the financial analyst looked at.
RiskOutput(broken, negative) ==
    LET answers == [i \in DOMAIN negative |-> <<negative[i], "negative">>]
        anomalies == IF "financial" \in broken THEN NoFinancialResult
                     ELSE DetectFinancialAnomalies(company.features)
        keywords == IF "keyword" \in broken THEN <<>>
                    ELSE DetectKeywords(news, company.disclosures)
        events == keywords \o AnalyzeSentiment(news, answers)
                  \o DetectDisclosureAnomalies(company.disclosures)
                  \o DetectLegalRisks(company.notices) \o anomalies.events
    IN  Aggregate(events, anomalies, broken)

Detectors == {"keyword", "sentiment", "financial"}

\* Indices of the articles the model calls negative.
Negatives(broken) == IF news = <<>> \/ "sentiment" \in broken THEN {<<>>}
                     ELSE BoundedSeq(-1..Len(news), 2)

DetectRisks ==
    \E broken \in SUBSET Detectors :
       /\ Ends("risk", Cardinality(broken))
       /\ \E negative \in Negatives(broken) : risk' = RiskOutput(broken, negative)
       /\ UNCHANGED <<company, target, failFast, news, financial, industry, verdict, report, failed>>

\* What the decision sees: the defaults of its contract for every field that a
\* failed step did not leave.
Context ==
    [critical |-> risk.critical, high |-> risk.high, medium |-> risk.medium,
     impaired |-> risk.impaired, debt |-> risk.debt, margin |-> risk.margin,
     loss |-> risk.loss, cap |-> financial.cap, assets |-> financial.statement.assets,
     revenue |-> financial.statement.revenue, average |-> financial.statement.average]

\* The language model fails, or writes what it likes.
Decide ==
    /\ \/ Ends("decision", 1) /\ verdict' = DecisionOutput(Context, RuleText)
       \/ /\ Ends("decision", 0)
          /\ \E t \in ModelTexts : verdict' = DecisionOutput(Context, t)
    /\ UNCHANGED <<company, target, failFast, news, financial, industry, risk, report, failed>>

WriteReport ==
    /\ Ends("report", 0)
    /\ report' = BuildReport(verdict)
    /\ UNCHANGED <<company, target, failFast, news, financial, industry, risk, verdict, failed>>

\* A validation that finds something is a failed step.
Validate ==
    /\ Ready("validation") /\ ~Halted("validation")
    /\ failed' = FailedChecks(verdict, report)
    /\ step' = [step EXCEPT !["validation"] = IF failed' = {} THEN "ok" ELSE "failed"]
    /\ UNCHANGED <<company, target, failFast, news, financial, industry, risk, verdict, report,
                   faults>>

\* A step fails as a whole: contract, timeout, an error outside its tools.
Fail(a) ==
    /\ a # "validation" /\ Ready(a) /\ ~Halted(a) /\ faults < MaxFaults
    /\ faults' = faults + 1
    /\ step' = [step EXCEPT ![a] = "failed"]
    /\ UNCHANGED <<company, target, failFast, news, financial, industry, risk, verdict, report,
                   failed>>

Skip(a) ==
    /\ Ready(a) /\ Halted(a)
    /\ step' = [step EXCEPT ![a] = "skipped"]
    /\ UNCHANGED <<company, target, failFast, news, financial, industry, risk, verdict, report,
                   failed, faults>>

Finished == step["validation"] # "pending" /\ UNCHANGED vars

Next ==
    \/ CollectNews \/ AnalyzeFinancials \/ AnalyzeIndustry \/ DetectRisks
    \/ Decide \/ WriteReport \/ Validate
    \/ \E a \in Agents : Fail(a) \/ Skip(a)
    \/ Finished

Spec == Init /\ [][Next]_vars
-----------------------------------------------------------------------------
(* Properties *)

Decided == step["decision"] = "ok"

\* A company with negative equity is rejected with limit 0 by whichever of two
\* independent guards saw it: the anomaly detector on any stored year, or the
\* filters on the statement unless three years of profit exempt it.  Either may
\* be missing after a failure and the other still holds.
ImpairedIsRejected ==
    LET seen == /\ step["risk"] = "ok" /\ "financial" \notin risk.errors
                /\ \E i \in DOMAIN company.features : company.features[i].equity < 0
        capped == /\ step["financial"] = "ok" /\ "filters" \notin financial.tools
                  /\ financial.statement.equity < 0
                  /\ ~ThreeYearProfit(financial.trend.history)
    IN  Decided /\ (seen \/ capped) => verdict.decision = "reject" /\ verdict.limit = 0

\* A company nobody has figures of is not lent to: the empty statement is read
\* as equity 0, which the filters cap, though the ValueError that was meant to
\* stop it became a fallback.  Only a failure of the filters themselves, or of
\* the whole step, opens the way to the default limit.
NoFiguresNoLoan ==
    Decided /\ StatementRows(company) = <<>> /\ step["financial"] = "ok"
    /\ "filters" \notin financial.tools
        => verdict.decision = "reject" /\ verdict.limit = 0

\* Every filter that fires decides, not only the one that gave the cap: below a
\* BBB nothing is approved and below BB+ everything is rejected, however good
\* the score.  The names of the caps are agreed between two files.
CapsDecide ==
    Decided /\ step["financial"] = "ok" /\ "filters" \notin financial.tools =>
       \A f \in Triggered(financial.statement, financial.trend.history) :
          /\ verdict.decision # "approve"
          /\ Filters[f] # "BB+" => verdict.decision = "reject"

\* One more event of any severity never raises score or limit and never turns a
\* rejection into something better: counts, ceilings, the compound deduction
\* and the hard rules work in one direction.
MoreEventsNeverHelp ==
    step["risk"] # "pending" =>
       \A kind \in {"critical", "high", "medium"} :
          LET worse == [Context EXCEPT ![kind] = @ + 1]
          IN  /\ Score(worse) <= Score(Context)
              /\ RecommendLimit(worse) <= RecommendLimit(Context)
              /\ MakeDecision(Context) = "reject" => MakeDecision(worse) = "reject"

\* What decision and report produce together always passes the checks: when the
\* validation fails, a step before it failed or the language model wrote white
\* space.  A retry of the report cannot help otherwise.
ValidationFailureHasCause ==
    failed # {} =>
       \/ step["decision"] # "ok" \/ step["report"] # "ok"
       \/ "blank" \in {verdict.explanation.summary, verdict.explanation.recommendation}

\* The leverage went up by twenty points and no fraction of one.
TwentyPoints(p, c) ==
    LET d == Delta(Leverage(p), Leverage(c), 0) IN AtLeast(d, 1, 5) /\ AtMost(d, 1, 5)

\* Two agents judge the same figures with thresholds of their own.  As long as
\* both look at the same years and equity is positive, a decline of the revenue
\* that the trend flags is an event of the anomaly detector and the other way
\* round, at the threshold too.  So is a jump of the leverage, but for one of
\* twenty points: the trend subtracts ratios and the detector percentages, and
\* there each rounds in its own way.  What the rating methodology puts into its
\* last class carries a flag.
SignalsAgree ==
    LET rows == company.features
        h == financial.trend.history
        Flagged(year, kind) == Flag(year, kind) \in financial.trend.flags
    IN  step["financial"] = "ok" /\ "trend" \notin financial.tools =>
          /\ company.detail = <<>> /\ Len(h) = Len(rows)
             /\ (\A i \in DOMAIN rows : rows[i].equity > 0) =>
                \A i \in 1..(Len(rows) - 1) :
                   LET c == rows[i + 1] IN
                   /\ \/ Flagged(c.year, "debt_ratio_spike") <=> DebtSpike(rows[i], c) # <<>>
                      \/ TwentyPoints(rows[i], c)
                   /\ Flagged(c.year, "revenue_drop") <=> RevenueDecline(rows[i], c) # <<>>
          /\ industry # NoGrades /\ h # <<>> /\ financial.statement.year = Last(h).year =>
                /\ industry.debt = "B" => Flagged(Last(h).year, "debt_ratio_danger")
                /\ industry.coverage = "B" =>
                      \E k \in {"icr_danger", "icr_caution"} : Flagged(Last(h).year, k)
-----------------------------------------------------------------------------
(* The inductive invariant behind the properties *)

\* An agent that began has everything before it behind it.
StepsInOrder == \A a \in Agents : step[a] # "pending" => \A b \in Before(a) : step[b] # "pending"

\* Every output is still what its agent made of what it saw, or the default of a
\* step that left none.
NewsFollows == IF step["news"] = "ok" THEN news \in {<<>>, company.news} ELSE news = <<>>

FinancialFollows ==
    IF step["financial"] = "ok"
    THEN \E broken \in SUBSET FinancialTools : financial = FinancialOutput(broken)
    ELSE financial = NoFinancial

IndustryFollows ==
    IF step["industry"] = "ok" THEN \E known \in BOOLEAN : industry = IndustryOutput(known)
    ELSE industry = NoGrades

RiskFollows ==
    IF step["risk"] = "ok"
    THEN \E broken \in SUBSET Detectors :
            \E negative \in Negatives(broken) : risk = RiskOutput(broken, negative)
    ELSE risk = Aggregate(<<>>, NoFinancialResult, {})

VerdictFollows ==
    IF step["decision"] = "ok"
    THEN \E t \in ModelTexts \cup {RuleText} : verdict = DecisionOutput(Context, t)
    ELSE verdict = NoDecision

ReportFollows == report = IF step["report"] = "ok" THEN BuildReport(verdict) ELSE NoDecision

ChecksFollow ==
    failed = IF step["validation"] \in {"ok", "failed"} THEN FailedChecks(verdict, report) ELSE {}

OutputsFollow ==
    /\ NewsFollows /\ FinancialFollows /\ IndustryFollows /\ RiskFollows
    /\ VerdictFollows /\ ReportFollows /\ ChecksFollow

AssessmentInv ==
    /\ company \in Companies /\ target \in Years /\ failFast \in BOOLEAN /\ faults \in 0..MaxFaults
    /\ step \in [Agents -> {"pending", "ok", "failed", "skipped"}]
    /\ StepsInOrder /\ OutputsFollow
=============================================================================
