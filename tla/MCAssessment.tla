----------------------------- MODULE MCAssessment -----------------------------
(* Companies for Assessment: every history of up to three years put together *)
(* from a few kinds of years, without news; and some companies with news.    *)
EXTENDS Assessment, TLC

Figures(assets, equity, revenue, operating, income, interest, cashflow) ==
    [assets |-> assets, equity |-> equity, liabilities |-> assets - equity,
     revenue |-> revenue, operating |-> operating, income |-> income, interest |-> interest,
     cashflow |-> cashflow, average |-> 0, audit |-> "none", external |-> FALSE,
     vague |-> FALSE, error |-> [debt |-> 0, margin |-> 0, leverage |-> 0]]

Erring(f, debt, margin, leverage) ==
    [f EXCEPT !.error = [debt |-> debt, margin |-> margin, leverage |-> leverage]]

Strong   == Figures(1000, 500, 1000, 100, 50, 10, 50)

\* The changes of debt and revenue are at their thresholds: 1.2 - 1.0 falls short
\* of 0.20, and (120.0 - 100.0) / 100 does not.
Slipped  == Erring(Figures(1100, 500, 900, 70, 20, 50, -10), -1, 0, 0)

Losing   == Figures(1000, 500, 1000, 60, -10, 20, 10)
Indebted == [Figures(1000, 200, 300, -60, -60, 60, -20) EXCEPT !.vague = TRUE]
Impair   == Figures(500, -100, 400, 10, 30, 0, 10)
Tiny     == [Figures(20, 10, 20, 2, 1, 0, 1) EXCEPT !.average = 250]
Thin     == [Figures(1000, 100, 150, 5, -10, 5, 0) EXCEPT !.external = TRUE, !.audit = "adverse"]

\* 1.1, after which both subtractions fall short of twenty points (1.3) and that of
\* the detector of fifty (1.6); 0.15 - 0.10 falls short of five points.
Mild     == Figures(1050, 500, 1000, 150, 50, 10, 50)
Rising   == Erring(Figures(1150, 500, 1000, 100, 50, 10, 50), -1, 1, -1)
Burdened == Erring(Figures(1300, 500, 1000, 100, 50, 10, 50), 0, 1, -1)

\* 0.6, after which the trend passes 0.20 and the detector meets it (0.8); 0.9, and
\* both pass it (1.1).
Light    == Figures(800, 500, 1000, 150, 50, 10, 50)
Heavier  == Erring(Figures(900, 500, 1000, 150, 50, 10, 50), 1, 0, 0)
Even     == Figures(950, 500, 1000, 150, 50, 10, 50)
Passing  == Erring(Figures(1050, 500, 1000, 150, 50, 10, 50), 1, 0, 1)

\* 0.178, after which the trend meets 0.20 (0.378) and the detector falls short of it.
Small    == Figures(589, 500, 1000, 150, 50, 10, 50)
Larger   == Erring(Figures(689, 500, 1000, 150, 50, 10, 50), 0, 0, -1)

Large    == Figures(3000, 2000, 3000, 400, 200, 10, 300)

Year(y, f) == IF f = <<>> THEN <<>> ELSE <<f @@ [year |-> y]>>
HistoryOf(a, b, c) == Year(1, a) \o Year(2, b) \o Year(3, c)

Company(features, detail, articles, disclosures, notices) ==
    [features |-> features, detail |-> detail, news |-> articles, disclosures |-> disclosures,
     notices |-> notices]

Kinds == {<<>>, Strong, Slipped, Losing, Impair, Thin}
Plain == {Company(HistoryOf(a, b, c), <<>>, <<>>, <<>>, <<>>) : a, b, c \in Kinds}

Article(headline, text) == [headline |-> headline, text |-> headline \cup text]
Articles == {Article({"default"}, {"bankruptcy"}), Article({}, {"fraud", "auction"}),
             Article({"impaired"}, {})}

Reported ==
    {Company(HistoryOf(Strong, Strong, x), <<>>, n, <<>>, <<>>) :
        x \in {Strong, Large, Tiny, Indebted}, n \in BoundedSeq(Articles, 2)}
    \cup {Company(HistoryOf(x, <<>>, x), HistoryOf(Strong, Slipped, Strong), <<>>, d, l) :
        x \in {Strong, Indebted, Impair},
        d \in {<<>>, <<{"bond issue", "mortgage"}>>, <<{"qualified"}, {"closure"}>>},
        l \in {<<>>, <<{"auction"}>>, <<{"receivership"}>>}}

\* The other ways of floating point at a threshold.
Rounded == {Company(HistoryOf(<<>>, p[1], p[2]), <<>>, <<>>, <<>>, <<>>) :
               p \in {<<Mild, Rising>>, <<Mild, Burdened>>, <<Light, Heavier>>, <<Even, Passing>>,
                     <<Small, Larger>>, <<Strong, Mild>>}}

MCCompanies == Plain \cup Reported \cup Rounded
=============================================================================
