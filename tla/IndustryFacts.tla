---------------------------- MODULE IndustryFacts ----------------------------
(***************************************************************************)
(* What the tools of the industry analyst conclude from the answers of the  *)
(* statistics offices: the place of a company among its peers, the outlook   *)
(* of its industry, the phase of the economy and the effect of the exchange *)
(* rate.  Figures are whole percents; a figure that is missing is <<>> and   *)
(* one that is there <<n>>.                                                  *)
(***************************************************************************)
EXTENDS Integers, Sequences

\* The groups of industries the tools tell apart: manufacturing and mining have a
\* series of stocks, services, construction and farming one of production only,
\* fishing and power none; the rest maps to no industry at all.  Of the services,
\* trade and transport are apart, and so are those of information and knowledge:
\* the exchange rate touches each in its own way.
Services   == {"service", "trade", "transport", "information"}
Industries == Services \cup {"manufacturing", "mining", "construction", "farming",
                             "fishing", "power", "unmapped"}

NoSub == "none"

\* _infer_sub_sector_for_manufacturing: by the code, by the name, or the
\* methodology for all manufacturers.
InferSubSector(c) ==
    CASE c.industry # "manufacturing" -> NoSub
      [] c.industry = "manufacturing" /\ c.code # NoSub -> c.code
      [] c.industry = "manufacturing" /\ c.code = NoSub /\ c.name # NoSub -> c.name
      [] OTHER -> "corporate"
-----------------------------------------------------------------------------
\* _compare: the quotient of the figure and the average against one, give or take
\* the threshold of the industry.
Compare(own, average, lowIsGood, threshold) ==
    IF own = <<>> \/ average = <<>> \/ average = <<0>> THEN "n/a"
    ELSE LET n == IF average[1] > 0 THEN own[1] ELSE -own[1]
             d == IF average[1] > 0 THEN average[1] ELSE -average[1]
         IN  CASE n * 100 < (100 - threshold) * d -> IF lowIsGood THEN "better" ELSE "worse"
               [] n * 100 > (100 + threshold) * d -> IF lowIsGood THEN "worse" ELSE "better"
               [] OTHER -> "in-line"

\* _score_from_yoy
ScoreFromYoy(yoy) ==
    CASE yoy = <<>> -> "Medium"
      [] yoy # <<>> /\ yoy[1] >= 3 -> "Low"
      [] yoy # <<>> /\ yoy[1] < -3 -> "High"
      [] OTHER -> "Medium"

\* The yearly change of a series of fewer than 13 months is 0 where stocks are
\* counted, and missing elsewhere.
OrZero(yoy) == IF yoy = <<>> THEN 0 ELSE yoy[1]

\* The series of production and stocks.
StocksScore(production, inventory) ==
    IF production <= -10 /\ inventory > 0 THEN "High"
    ELSE IF production <= -5 \/ inventory > 5 THEN "Medium" ELSE "Low"

\* get_industry_outlook: the risk of the industry.  answered: the office sent rows.
Outlook(industry, answered, production, inventory) ==
    CASE industry \in {"manufacturing", "mining"} ->
            IF answered THEN StocksScore(OrZero(production), OrZero(inventory)) ELSE "Medium"
      [] industry \in Services \cup {"construction", "farming"} ->
            ScoreFromYoy(IF answered THEN production ELSE <<>>)
      [] OTHER -> "Medium"

\* get_business_cycle: what is not one of three combinations is a contraction, a
\* trend nobody knows included.
CyclePhase(coincident, leading) ==
    CASE coincident = "rising" /\ leading = "rising"  -> "expansion"
      [] coincident = "falling" /\ leading = "rising" -> "recovery"
      [] coincident = "rising" /\ leading = "falling" -> "slowdown"
      [] OTHER -> "contraction"

\* get_macro_indicators: a rate that is missing counts as neutral.
RateDirection(won) ==
    CASE won = <<>> -> "neutral"
      [] won # <<>> /\ won[1] > 1350 -> "weak"
      [] won # <<>> /\ won[1] < 1200 -> "strong"
      [] OTHER -> "neutral"

Sensitivity(industry) ==
    CASE industry \in {"manufacturing", "fishing", "transport"} -> "export"
      [] industry \in {"farming", "trade"} -> "import"
      [] industry = "power" -> "material"
      [] industry \in {"information", "unmapped"} -> "neutral"
      [] OTHER -> "domestic"

RateImpact(industry, won) ==
    LET way == RateDirection(won)
    IN  CASE way = "neutral" \/ Sensitivity(industry) \in {"neutral", "domestic"} -> 0
          [] way # "neutral" /\ Sensitivity(industry) = "export" ->
                IF way = "weak" THEN 1 ELSE -1
          [] OTHER -> IF way = "weak" THEN -1 ELSE 1
-----------------------------------------------------------------------------
Rank(v) == CASE v \in {"worse", "High"} -> 1
             [] v \in {"in-line", "Medium", "n/a"} -> 2
             [] OTHER -> 3

\* Against an average above zero a better figure never gets the worse verdict, and
\* neither more production nor fewer stocks ever darken the outlook: rows of
\* thresholds that overlap or leave a hole would.
FiguresKeepOrder(Figures, Averages) ==
    /\ \A a \in Averages, x, y \in Figures, t \in {10, 25} : x <= y =>
          /\ Rank(Compare(<<x>>, <<a>>, FALSE, t)) <= Rank(Compare(<<y>>, <<a>>, FALSE, t))
          /\ Rank(Compare(<<y>>, <<a>>, TRUE, t)) <= Rank(Compare(<<x>>, <<a>>, TRUE, t))
    /\ \A i \in Industries, x, y, s, u \in Figures : x <= y /\ u <= s =>
          Rank(Outlook(i, TRUE, <<x>>, <<s>>)) <= Rank(Outlook(i, TRUE, <<y>>, <<u>>))
=============================================================================
