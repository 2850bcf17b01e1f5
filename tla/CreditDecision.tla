---------------------------- MODULE CreditDecision ----------------------------
(***************************************************************************)
(* The decision agent from grade to explanation, the report written from    *)
(* its output and the checks of the validation agent on both.  All of it    *)
(* reads a context: what the agents before it left, or the default of a     *)
(* field that none of them left.                                            *)
(***************************************************************************)
EXTENDS RiskSignals

EmptyContext ==
    [critical |-> 0, high |-> 0, medium |-> 0, impaired |-> FALSE, debt |-> NoRatio,
     margin |-> NoRatio, loss |-> FALSE, cap |-> NoCap, assets |-> 0, revenue |-> 0, average |-> 0]

Least(a, b) == IF a < b THEN a ELSE b
-----------------------------------------------------------------------------
(* Grade *)

Grades == <<"E", "D", "C", "B", "A">>
Rank(g) == CHOOSE i \in DOMAIN Grades : Grades[i] = g

CapGrade(c) ==
    CASE c \in {"AAA", "AA", "A"} -> "A"
      [] c = "BBB"                -> "B"
      [] c \in {"BB+", "BB"}      -> "C"
      [] c \in {"B+", "B"}        -> "D"
      [] OTHER                    -> "E"

\* Variant: the cap of two years of losses is not in the map.
GradeCapMapWithoutB ==
    [c \in {"AAA", "AA", "A", "BBB", "BB+", "BB", "B+", "CCC"} |-> CapGrade(c)]

\* Caps the decision knows; another one is taken for none.
GradeCapMap == [c \in {"AAA", "AA", "A", "BBB", "BB+", "BB", "B+", "B", "CCC"} |-> CapGrade(c)]

\* Variant: events beyond the ceiling count as none.
RiskDeductionWraps(ctx) ==
    20 * (ctx.critical % 3) + 10 * (ctx.high % 3) + 5 * (ctx.medium % 5)

RiskDeduction(ctx) ==
    Least(50, 20 * Least(ctx.critical, 3) + 10 * Least(ctx.high, 3) + 5 * Least(ctx.medium, 5))

\* Percentages of the risk agent: the ratio 3 is 300 percent here.
FinancialDeduction(ctx) ==
    Least(30,
        (IF Above(ctx.debt, 4, 1) THEN 20
         ELSE IF Above(ctx.debt, 3, 1) THEN 15
         ELSE IF Above(ctx.debt, 2, 1) THEN 10
         ELSE IF Above(ctx.debt, 3, 2) THEN 5 ELSE 0)
        + (IF Below(ctx.margin, -10, 100) THEN 12
           ELSE IF Below(ctx.margin, 0, 1) THEN 10
           ELSE IF Below(ctx.margin, 3, 100) THEN 5 ELSE 0)
        + (IF ctx.loss THEN 5 ELSE 0))

ExtraDeduction(ctx) == IF ctx.high >= 3 THEN 10 ELSE 0

Score(ctx) ==
    LET s == 100 - RiskDeduction(ctx) - FinancialDeduction(ctx) - ExtraDeduction(ctx)
    IN  IF ctx.impaired \/ s < 0 THEN 0 ELSE s

ScoreToGrade(s) ==
    CASE s >= 80 -> "A" [] s \in 65..79 -> "B" [] s \in 50..64 -> "C" [] s \in 35..49 -> "D"
      [] OTHER -> "E"

\* Impaired capital is grade E at once; otherwise the score, under the cap.
CalculateGrade(ctx) ==
    LET g == ScoreToGrade(Score(ctx))
    IN  IF ctx.impaired THEN "E"
        ELSE IF ctx.cap \in DOMAIN GradeCapMap
             THEN Grades[Least(Rank(g), Rank(GradeCapMap[ctx.cap]))]
             ELSE g
-----------------------------------------------------------------------------
(* Decision *)

GradeDecision(g) ==
    CASE g \in {"A", "B"} -> "approve" [] g = "C" -> "review" [] OTHER -> "reject"

\* The hard rules, which only an approval or a review can meet.
HardReject(ctx) ==
    \/ ctx.critical > 0
    \/ ctx.high >= 5
    \/ ctx.loss /\ Above(ctx.debt, 3, 1)

MakeDecision(ctx) ==
    LET d == GradeDecision(CalculateGrade(ctx))
    IN  IF d # "reject" /\ HardReject(ctx) THEN "reject" ELSE d

\* In thousandths; the override of a hard rule has its own.
Confidence(ctx) ==
    LET d == GradeDecision(CalculateGrade(ctx))
        s == Score(ctx)
        distance == IF s < 57 THEN 57 - s ELSE s - 57
    IN  IF d # "reject" /\ HardReject(ctx) THEN 950
        ELSE CASE d = "approve" -> Least(500 + (s - 50) * 8, 980)
               [] d = "reject"  -> Least(500 + (50 - s) * 10, 980)
               [] OTHER         -> Least(550 + distance * 10, 700)

\* How many reasons are listed: the grade, a count per severity with its
\* reasons, and the figures.
Reasons(ctx) ==
    LET Listed(n) == IF n > 0 THEN 1 + n ELSE 0
        found == Listed(ctx.critical) + Listed(ctx.high) + Listed(ctx.medium)
                 + (IF ctx.loss THEN 1 ELSE 0) + (IF Above(ctx.debt, 2, 1) THEN 1 ELSE 0)
                 + (IF Below(ctx.margin, 0, 1) THEN 1 ELSE 0)
        override == IF GradeDecision(CalculateGrade(ctx)) # MakeDecision(ctx) THEN 1 ELSE 0
    IN  override + 1 + (IF found = 0 THEN 1 ELSE found)
-----------------------------------------------------------------------------
(* Limit *)

\* Percent of assets, percent of revenue, ceiling, and what is recommended
\* without either; amounts that are not positive are taken for missing.
LimitParams ==
    [g \in {"A", "B", "C"} |->
        CASE g = "A" -> [assets |-> 30, revenue |-> 50, ceiling |-> 500, default |-> 200]
          [] g = "B" -> [assets |-> 20, revenue |-> 30, ceiling |-> 300, default |-> 100]
          [] OTHER   -> [assets |-> 10, revenue |-> 20, ceiling |-> 100, default |-> 30]]

Percent(x, p) == (x * p) \div 100

\* Variant: a rejection by a hard rule keeps the limit of the grade.
RecommendLimitOfGrade(ctx) ==
    LET g == CalculateGrade(ctx) IN IF g \in DOMAIN LimitParams THEN LimitParams[g].default ELSE 0

RecommendLimit(ctx) ==
    LET g == CalculateGrade(ctx)
        revenue == IF ctx.revenue > 0 THEN ctx.revenue ELSE ctx.average
        basis(p) == {Percent(ctx.assets, p.assets) : x \in {y \in {ctx.assets} : y > 0}}
                    \cup {Percent(revenue, p.revenue) : x \in {y \in {revenue} : y > 0}}
    IN  IF MakeDecision(ctx) = "reject" \/ g \notin DOMAIN LimitParams THEN 0
        ELSE IF basis(LimitParams[g]) = {} THEN LimitParams[g].default
        ELSE Min(basis(LimitParams[g]) \cup {LimitParams[g].ceiling})
-----------------------------------------------------------------------------
(* Explanation, output, report and checks *)

\* What the language model writes: a text, white space, or nothing.  Every
\* failure is answered with a text of the rules, which says that it is one only
\* in the log.
Texts == {"text", "blank", "empty"}
RuleText == [summary |-> "rule", recommendation |-> "rule", fallback |-> FALSE]

\* What the agent may take into its output.
ModelTexts == [summary : Texts, recommendation : Texts, fallback : {FALSE}]

DecisionOutput(ctx, explanation) ==
    [grade |-> CalculateGrade(ctx), score |-> Score(ctx), decision |-> MakeDecision(ctx),
     confidence |-> Confidence(ctx), reasons |-> Reasons(ctx), limit |-> RecommendLimit(ctx),
     explanation |-> explanation, partial |-> explanation.fallback]

NoDecision == [decision |-> "none"]

\* The report repeats the decision; only an empty text is replaced.
Written(text) == IF text = "empty" THEN "template" ELSE text

BuildReport(d) ==
    IF d = NoDecision
    THEN [decision |-> "none", summary |-> "template", recommendation |-> "template",
          partial |-> TRUE]
    ELSE [decision |-> d.decision, grade |-> d.grade, confidence |-> d.confidence,
          limit |-> d.limit, keyRisks |-> Least(d.reasons, 3),
          summary |-> Written(d.explanation.summary),
          recommendation |-> Written(d.explanation.recommendation),
          partial |-> "empty" \in {d.explanation.summary, d.explanation.recommendation}]

\* The checks that fail, by name.  Without a report the checks on it are left out.
FailedChecks(d, report) ==
    LET decided == d # NoDecision
        Differ(f) == decided /\ report[f] # d[f]
    IN  {c \in {"decision", "grade", "confidence", "limit"} : ~decided}
        \cup (IF decided /\ d.confidence \notin 0..1000 THEN {"confidence"} ELSE {})
        \cup (IF decided /\ (d.limit < 0 \/ (d.decision = "reject" /\ d.limit # 0))
              THEN {"limit"} ELSE {})
        \cup (IF report = NoDecision THEN {"report"}
              ELSE {c \in {"summary", "recommendation"} : report[c] = "blank"}
                   \cup {c \in {"decision", "grade", "confidence", "limit"} : Differ(c)})
=============================================================================
