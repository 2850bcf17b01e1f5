--------------------------- MODULE FinancialFacts ---------------------------
(***************************************************************************)
(* What the financial analyst derives from the stored yearly figures of a   *)
(* company: the statement of the target year, its ratios, the trend of      *)
(* three years and the rating cap of the risk filters, and the grades of    *)
(* the rating methodology the industry analyst reads off the same ratios.   *)
(*                                                                         *)
(* Amounts are integers in tens of millions of won, so 300 million is 30;   *)
(* a missing amount is 0 as in the code.  A ratio is a pair <<n, d>> with   *)
(* d > 0, and the ratio that does not exist compares with nothing.          *)
(* One division in floating point falls on the same side of a threshold as  *)
(* the ratio does, and on it when the ratio is on it.  The difference of    *)
(* two of them may not: it is the exact one and an error whose sign is part *)
(* of the figures it comes from.                                            *)
(***************************************************************************)
EXTENDS Integers, Sequences, SequencesExt, FiniteSets, FiniteSetsExt

NoRatio == <<0, 0>>
Ratio(n, d) == CASE d > 0 -> <<n, d>> [] d < 0 -> <<-n, -d>> [] OTHER -> NoRatio

AtLeast(r, n, d) == r[2] > 0 /\ r[1] * d >= n * r[2]
AtMost(r, n, d)  == r[2] > 0 /\ r[1] * d <= n * r[2]
Above(r, n, d)   == r[2] > 0 /\ r[1] * d > n * r[2]
Below(r, n, d)   == r[2] > 0 /\ r[1] * d < n * r[2]

\* An error is smaller than any distance of two ratios from a threshold they do
\* not meet, so that only a change that is the threshold can be taken for another.
\* The thresholds of changes are 1/5, -1/20 and 1/2: any grain above 20 will do.
Errors == {-1, 0, 1}
Grain  == 100

\* _safe_delta: the change between two ratios as it is computed, if both exist.
Delta(p, c, error) ==
    IF p = NoRatio \/ c = NoRatio THEN NoRatio
    ELSE <<Grain * (c[1] * p[2] - p[1] * c[2]) + error, Grain * (p[2] * c[2])>>

\* _safe_growth: from nothing there is no growth.
Growth(p, c) == Ratio(c - p, IF p < 0 THEN -p ELSE p)

AtLeastOne(x) == IF x < 1 THEN 1 ELSE x
-----------------------------------------------------------------------------
(* Rows and statements.  A table is a sequence of rows of different years,  *)
(* oldest first.  The field error of a row holds the signs of the errors of *)
(* the changes from the row before it: of the debt ratio and of the margin  *)
(* as the trend subtracts them, and of the leverage in percent as the       *)
(* detector of anomalies does.                                              *)

SelectTargetRow(rows, year) ==
    LET prior == {i \in DOMAIN rows : rows[i].year <= year}
    IN  rows[IF prior # {} THEN Max(prior) ELSE Len(rows)]

\* A statement of the database never says that an exemption applies: its table
\* does not know who is small.
BuildStatement(row) ==
    [f \in DOMAIN row \cup {"exempt"} |-> IF f = "exempt" THEN FALSE ELSE row[f]]

\* The detailed statements of the company, or else its yearly features; the
\* statement that was not found is the empty one of the fallback.
StatementRows(company) ==
    IF company.detail # <<>> THEN company.detail ELSE company.features

NoStatement == [assets |-> 0, equity |-> 0, liabilities |-> 0, revenue |-> 0, operating |-> 0,
                income |-> 0, interest |-> 0, cashflow |-> 0, average |-> 0, audit |-> "none",
                external |-> FALSE, vague |-> FALSE, exempt |-> FALSE, year |-> 0]

DebtRatio(fs) == Ratio(fs.liabilities, AtLeastOne(fs.equity))
OperatingMargin(fs) == Ratio(fs.operating, AtLeastOne(fs.revenue))

\* Interest of low quality counts only if it is positive, as every other does.
InterestCoverage(fs) == IF fs.interest > 0 THEN Ratio(fs.operating, fs.interest) ELSE NoRatio

\* Statements of the database carry no depreciation: their EBITDA is the
\* operating income, and no cover is computed from one that is not positive.
EbitdaToInterest(fs) == IF fs.operating > 0 THEN InterestCoverage(fs) ELSE NoRatio

NoRatios == [debt |-> NoRatio, margin |-> NoRatio, coverage |-> NoRatio, ebitda |-> NoRatio,
             vague |-> FALSE]

CalcFinancialRatios(fs) ==
    [debt     |-> DebtRatio(fs),
     margin   |-> OperatingMargin(fs),
     coverage |-> InterestCoverage(fs),
     ebitda   |-> EbitdaToInterest(fs),
     vague    |-> fs.vague]
-----------------------------------------------------------------------------
(* Trend *)

HistoryEntry(row) ==
    [year |-> row.year, ratios |-> CalcFinancialRatios(BuildStatement(row)),
     revenue |-> row.revenue, income |-> row.income, cashflow |-> row.cashflow,
     error |-> row.error]

\* The entries of the target year and the two years before that have a row.
History(rows, target) ==
    LET of(year)    == {i \in DOMAIN rows : rows[i].year = year}
        Entry(year) == IF of(year) = {} THEN <<>> ELSE <<HistoryEntry(rows[Max(of(year))])>>
    IN  Entry(target - 2) \o Entry(target - 1) \o Entry(target)

Flag(year, kind) == [year |-> year, kind |-> kind]

\* Flags of one entry against the entry before it, which need not be the year
\* before it.
ChangeFlags(p, c) ==
    {Flag(c.year, k) : k \in
        (IF AtLeast(Delta(p.ratios.debt, c.ratios.debt, c.error.debt), 1, 5)
         THEN {"debt_ratio_spike"} ELSE {})
        \cup (IF AtMost(Delta(p.ratios.margin, c.ratios.margin, c.error.margin), -1, 20)
              THEN {"op_margin_drop"} ELSE {})
        \cup (IF AtMost(Growth(p.revenue, c.revenue), -10, 100) THEN {"revenue_drop"} ELSE {})
        \cup (IF c.cashflow < 0 THEN {"negative_operating_cashflow"} ELSE {})}

\* Flags of the latest entry alone.
LevelFlags(e) ==
    {Flag(e.year, k) : k \in
        (IF Below(e.ratios.coverage, 1, 1) THEN {"icr_danger"}
         ELSE IF Below(e.ratios.coverage, 3, 2) THEN {"icr_caution"} ELSE {})
        \cup (IF AtLeast(e.ratios.debt, 3, 1) THEN {"debt_ratio_danger"}
              ELSE IF AtLeast(e.ratios.debt, 2, 1) THEN {"debt_ratio_caution"} ELSE {})}

MissingFlags(rows, target) ==
    {Flag(y, "data_missing") : y \in ((target - 2)..target) \ {rows[i].year : i \in DOMAIN rows}}

FlagsOfChanges(h) == UNION {ChangeFlags(h[i], h[i + 1]) : i \in 1..(Len(h) - 1)}
FlagsOfLast(h)    == IF h = <<>> THEN {} ELSE LevelFlags(Last(h))

TrendAnalysis(rows, target) ==
    LET h == History(rows, target)
    IN  [history |-> h,
         flags   |-> MissingFlags(rows, target) \cup FlagsOfChanges(h) \cup FlagsOfLast(h)]

NoTrend == [history |-> <<>>, flags |-> {}]
-----------------------------------------------------------------------------
(* Risk filters *)

Filters == <<"CCC", "CCC", "CCC", "B", "B+", "BB+">>
GradeOrder == <<"CCC", "B", "B+", "BB-", "BB", "BB+", "BBB-", "BBB", "BBB+",
                "A-", "A", "A+", "AA-", "AA", "AA+", "AAA">>
NoCap == "none"

AllOfLast(history, n, Test(_)) ==
    Len(history) >= n /\ \A i \in (Len(history) - n + 1)..Len(history) : Test(history[i].income)

\* Variant: an empty history counts as three years of profit.
ThreeYearProfitVacuous(history) ==
    \A i \in DOMAIN history : i > Len(history) - 3 => history[i].income > 0

ThreeYearProfit(history) == AllOfLast(history, 3, LAMBDA x : x > 0)

\* The filters that fire, by their number in the docstring.
Triggered(fs, history) ==
    {f \in 1..6 :
       \/ f = 1 /\ fs.equity <= 0 /\ ~ThreeYearProfit(history)
       \/ f = 2 /\ fs.assets > 0 /\ fs.equity > 0 /\ 10 * fs.equity <= fs.assets /\ ~fs.exempt
       \/ f = 3 /\ fs.external /\ fs.audit \in {"adverse", "disclaimer"}
       \/ f = 4 /\ AllOfLast(history, 2, LAMBDA x : x < 0)
       \/ f = 5 /\ 0 < fs.revenue /\ fs.revenue < 30
       \/ f = 6 /\ 30 <= fs.revenue /\ fs.revenue < 200}

\* The strongest cap among the filters that fired.
ApplyRiskFilters(fs, history) ==
    LET caps == {Filters[f] : f \in Triggered(fs, history)}
    IN  IF caps = {} THEN NoCap
        ELSE GradeOrder[Min({i \in DOMAIN GradeOrder : GradeOrder[i] \in caps})]
-----------------------------------------------------------------------------
(* Grades of the rating methodology, which are reported and never decide.   *)

\* A threshold is <<comparison, n, d, grade>>; the first that holds wins.
LookupGrade(r, thresholds) ==
    LET Holds(t) == CASE t[1] = "gte" -> AtLeast(r, t[2], t[3])
                      [] t[1] = "gt"  -> Above(r, t[2], t[3])
                      [] t[1] = "lte" -> AtMost(r, t[2], t[3])
                      [] OTHER        -> Below(r, t[2], t[3])
        i == SelectInSeq(thresholds, Holds)
    IN  IF i = 0 THEN "B" ELSE thresholds[i][4]

DebtThresholds ==
    <<<<"lte", 50, 100, "AAA">>, <<"lte", 100, 100, "AA">>, <<"lte", 150, 100, "A">>,
      <<"lte", 200, 100, "BBB">>, <<"lte", 300, 100, "BB">>, <<"gt", 300, 100, "B">>>>
CoverageThresholds ==
    <<<<"gte", 15, 1, "AAA">>, <<"gte", 8, 1, "AA">>, <<"gte", 9, 2, "A">>,
      <<"gte", 5, 2, "BBB">>, <<"gte", 3, 2, "BB">>, <<"lt", 3, 2, "B">>>>

\* A value that does not exist has no grade, and neither has a ratio over an
\* interest that was only estimated.
NoGrades == [debt |-> NoCap, coverage |-> NoCap]

CalcKrFinancialGrades(ratios) ==
    [debt     |-> LookupGrade(ratios.debt, DebtThresholds),
     coverage |-> IF ratios.ebitda = NoRatio \/ ratios.vague THEN NoCap
                  ELSE LookupGrade(ratios.ebitda, CoverageThresholds)]
=============================================================================
