----------------------------- MODULE RiskSignals -----------------------------
(***************************************************************************)
(* The detectors of the risk_event agent and the grading of what they find. *)
(*                                                                         *)
(* A text is the set of the words the detectors look for in it.  An event   *)
(* has a type, the words of its title and the change it reports, if any.    *)
(* In the service nothing supplies disclosures and notices of courts: only  *)
(* a direct caller of the orchestrator can, as the tests do.                *)
(***************************************************************************)
EXTENDS FinancialFacts

Event(type, title, delta) == [type |-> type, title |-> title, delta |-> delta]

\* What a detector of rows does with each pair of neighbouring rows.
Pairs(rows, Detect(_, _)) ==
    FlattenSeq([i \in 1..(Len(rows) - 1) |-> Detect(rows[i], rows[i + 1])])
-----------------------------------------------------------------------------
(* Keywords *)

RiskKeywords ==
    <<<<"default", "bankruptcy", "rehabilitation", "receivership", "workout">>,
      <<"lawsuit", "complaint", "sued", "indicted", "trial", "provisional seizure", "seizure">>,
      <<"embezzlement", "breach of trust", "fraud", "bribery", "corruption", "illegal">>,
      <<"change of ceo", "change of owner", "control dispute", "opinion refused">>,
      <<"auction", "public sale", "collateral", "nonpayment">>>>

\* One event per category at most, for the first of its words in the text.
ScanText(text) ==
    LET found(words) == SelectInSeq(words, LAMBDA w : w \in text)
        Events(words) == IF found(words) = 0 THEN <<>>
                         ELSE <<Event("keyword", {words[found(words)]}, NoRatio)>>
    IN  FlattenSeq([i \in DOMAIN RiskKeywords |-> Events(RiskKeywords[i])])

\* News first, then disclosures.
DetectKeywords(news, disclosures) ==
    LET texts == [i \in DOMAIN news |-> news[i].text] \o disclosures
    IN  FlattenSeq([i \in DOMAIN texts |-> ScanText(texts[i])])
-----------------------------------------------------------------------------
(* Disclosures and notices: one event per category, named for the category  *)

Matches(texts, patterns, type) ==
    LET Hit(p, text) == IF p.words \cap text = {} THEN <<>> ELSE <<Event(type, p.title, NoRatio)>>
        Events(text) == FlattenSeq([k \in DOMAIN patterns |-> Hit(patterns[k], text)])
    IN  FlattenSeq([i \in DOMAIN texts |-> Events(texts[i])])

Pattern(title, words) == [title |-> {title}, words |-> words]

DetectDisclosureAnomalies(disclosures) ==
    Matches(disclosures,
            <<Pattern("large borrowing", {"borrowing", "bond issue", "loan agreement"}),
              Pattern("collateral", {"collateral", "mortgage"}),
              Pattern("change of owner", {"change of owner", "control transfer"}),
              Pattern("opinion refused", {"opinion refused", "qualified", "adverse"}),
              Pattern("dispute", {"lawsuit", "arbitration", "damages", "provisional seizure"}),
              Pattern("shutdown", {"suspension", "closure", "restructuring"})>>,
            "disclosure")

DetectLegalRisks(notices) ==
    Matches(notices,
            <<Pattern("bankruptcy", {"bankruptcy"}),
              Pattern("rehabilitation", {"rehabilitation", "receivership"}),
              Pattern("auction", {"auction"}),
              Pattern("provisional seizure", {"provisional seizure"})>>,
            "legal")
-----------------------------------------------------------------------------
(* Sentiment.  An answer of the model is a sequence of <<index, label>>.     *)

\* Items past the end of the list are skipped; a negative index counts from
\* the end, and one before the start raises, as does an item of another shape.
Readable(answers, news) ==
    \A i \in DOMAIN answers : answers[i][1] >= -Len(news)

ArticleAt(news, idx) == IF idx < 0 THEN news[Len(news) + idx + 1] ELSE news[idx + 1]

\* An article the model names twice counts twice, one it leaves out not at all.
\* The title holds what is left of the headline after the cut.
AnalyzeSentiment(news, answers) ==
    LET Events(a) == IF a[1] < Len(news) /\ a[2] = "negative"
                     THEN <<Event("sentiment", ArticleAt(news, a[1]).headline, NoRatio)>> ELSE <<>>
    IN  FlattenSeq([i \in DOMAIN answers |-> Events(answers[i])])
-----------------------------------------------------------------------------
(* Financial anomalies, over every row of the yearly features               *)

Leverage(row) == Ratio(row.liabilities, row.equity)
Margin(row)   == Ratio(row.operating, row.revenue)

Anomaly(title, cond, delta) == IF cond THEN <<Event("financial", {title}, delta)>> ELSE <<>>

\* Variant: the five points of the margin are the threshold of the leverage too.
DebtSpikeOfFivePoints(p, c) ==
    LET d == Delta(Leverage(p), Leverage(c), c.error.leverage)
    IN  Anomaly("debt spike", AtLeast(d, 1, 20), d)

DebtSpike(p, c) ==
    LET d == Delta(Leverage(p), Leverage(c), c.error.leverage)
    IN  Anomaly("debt spike", AtLeast(d, 1, 5), d)

OperatingDrop(p, c) ==
    LET g == Growth(p.operating, c.operating)
    IN  Anomaly("operating drop", AtMost(g, -30, 100), g)

LossTurn(p, c) ==
    Anomaly("loss turn", p.income >= 0 /\ c.income < 0, Ratio(c.income - p.income, 1))

\* Variant: the margin of the rule is left out of the decline.
RevenueDeclineStrict(p, c) ==
    LET g == Growth(p.revenue, c.revenue) IN Anomaly("revenue decline", Below(g, -10, 100), g)

RevenueDecline(p, c) ==
    LET g == Growth(p.revenue, c.revenue) IN Anomaly("revenue decline", AtMost(g, -10, 100), g)

\* Variant: only the latest year is looked at.
ImpairedLatest(rows) ==
    IF rows # <<>> /\ Last(rows).equity < 0 THEN <<Event("financial", {"impaired"}, NoRatio)>>
    ELSE <<>>

Impaired(rows) ==
    FlattenSeq([i \in DOMAIN rows |-> Anomaly("impaired", rows[i].equity < 0, NoRatio)])

\* The result of the financial detector: its events, and what it reads off the
\* latest row.  A company without rows has no ratios and no loss.
DetectFinancialAnomalies(rows) ==
    [events |-> Pairs(rows, DebtSpike) \o Pairs(rows, OperatingDrop) \o Pairs(rows, LossTurn)
                \o Pairs(rows, RevenueDecline) \o Impaired(rows),
     debt   |-> IF rows = <<>> THEN NoRatio ELSE Leverage(Last(rows)),
     margin |-> IF rows = <<>> THEN NoRatio ELSE Margin(Last(rows)),
     loss   |-> rows # <<>> /\ Last(rows).income < 0]

NoFinancialResult == [events |-> <<>>, debt |-> NoRatio, margin |-> NoRatio, loss |-> FALSE]
-----------------------------------------------------------------------------
(* Severity *)

CriticalWords == {"bankruptcy", "rehabilitation", "impaired", "opinion refused", "receivership",
                  "workout"}
HighWords == {"default", "auction", "provisional seizure", "loss turn", "embezzlement",
              "breach of trust", "large borrowing"}

\* An event without a change is taken to report none.
Change(e, n, d) == AtLeast(e.delta, n, d) \/ AtMost(e.delta, -n, d)

FinancialSeverity(e) ==
    IF e.title \cap {"impaired", "loss turn"} # {} THEN "critical"
    ELSE IF e.title \cap {"debt spike", "operating drop"} # {} /\ Change(e, 1, 2) THEN "high"
    ELSE "medium"

DetermineSeverity(e) ==
    CASE e.type = "legal" ->
            IF e.title \cap {"bankruptcy", "rehabilitation", "receivership"} # {} THEN "critical"
            ELSE "high"
      [] e.type = "financial" -> FinancialSeverity(e)
      [] OTHER -> IF e.title \cap CriticalWords # {} THEN "critical"
                  ELSE IF e.title \cap HighWords # {} \/ e.type = "disclosure" THEN "high"
                  ELSE "medium"
-----------------------------------------------------------------------------
(* Aggregation *)

Count(events, severity) ==
    Cardinality({i \in DOMAIN events : DetermineSeverity(events[i]) = severity})

\* The output of the agent; a detector that failed leaves no events, and the
\* financial one no figures either; its error makes the output partial.
Aggregate(events, financial, errors) ==
    [critical |-> Count(events, "critical"),
     high     |-> Count(events, "high"),
     medium   |-> Count(events, "medium"),
     impaired |-> \E i \in DOMAIN events : "impaired" \in events[i].title,
     debt     |-> financial.debt,
     margin   |-> financial.margin,
     loss     |-> financial.loss,
     errors   |-> errors]

OverallRiskLevel(risk) ==
    IF risk.critical > 0 THEN "critical"
    ELSE IF risk.high > 0 THEN "high"
    ELSE IF risk.medium > 0 THEN "medium" ELSE "low"
=============================================================================
