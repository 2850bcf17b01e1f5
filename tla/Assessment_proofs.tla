-------------------------- MODULE Assessment_proofs --------------------------
(***************************************************************************)
(* What an assessment promises, for companies with any figures and any news  *)
(* and any number of failures.                                               *)
(***************************************************************************)
EXTENDS Assessment, SequenceFacts, FiniteSetTheorems

(* The decision as a function of its context *)

Contexts ==
    [critical : Nat, high : Nat, medium : Nat, impaired : BOOLEAN, debt : Int \X Int,
     margin : Int \X Int, loss : BOOLEAN, cap : Range(GradeOrder) \cup {NoCap}, assets : Int,
     revenue : Int, average : Int]

LEMMA LeastIs == \A a, b \in Int : Least(a, b) \in Int /\ Least(a, b) <= a /\ Least(a, b) <= b
                                   /\ Least(a, b) \in {a, b}
  BY DEF Least

LEMMA RiskDeductionIs ==
    ASSUME NEW ctx \in Contexts
    PROVE  RiskDeduction(ctx) \in 0..50
  <1>1. ctx.critical \in Nat /\ ctx.high \in Nat /\ ctx.medium \in Nat
    BY DEF Contexts
  <1>2. PICK a, b, c : a = Least(ctx.critical, 3) /\ b = Least(ctx.high, 3) /\ c = Least(ctx.medium, 5)
    OBVIOUS
  <1>3. a \in 0..3 /\ b \in 0..3 /\ c \in 0..5
    BY <1>1, <1>2 DEF Least
  <1>4. PICK d : d = 20 * a + 10 * b + 5 * c
    OBVIOUS
  <1>5. d \in Nat
    BY <1>3, <1>4
  <1>6. RiskDeduction(ctx) = Least(50, d)
    BY <1>2, <1>4 DEF RiskDeduction
  <1> QED BY <1>5, <1>6 DEF Least

LEMMA FinancialDeductionIs ==
    ASSUME NEW ctx \in Contexts
    PROVE  FinancialDeduction(ctx) \in 0..30
  <1>1. PICK d \in {0, 5, 10, 15, 20} :
           d = IF Above(ctx.debt, 4, 1) THEN 20
               ELSE IF Above(ctx.debt, 3, 1) THEN 15
               ELSE IF Above(ctx.debt, 2, 1) THEN 10
               ELSE IF Above(ctx.debt, 3, 2) THEN 5 ELSE 0
    OBVIOUS
  <1>2. PICK m \in {0, 5, 10, 12} :
           m = IF Below(ctx.margin, -10, 100) THEN 12
               ELSE IF Below(ctx.margin, 0, 1) THEN 10
               ELSE IF Below(ctx.margin, 3, 100) THEN 5 ELSE 0
    OBVIOUS
  <1>3. PICK l \in {0, 5} : l = IF ctx.loss THEN 5 ELSE 0
    OBVIOUS
  <1>4. FinancialDeduction(ctx) = Least(30, d + m + l)
    BY <1>1, <1>2, <1>3 DEF FinancialDeduction
  <1> QED BY <1>4 DEF Least

LEMMA ScoreIs ==
    ASSUME NEW ctx \in Contexts
    PROVE  Score(ctx) \in 0..100 /\ (ctx.impaired => Score(ctx) = 0)
  <1>1. ExtraDeduction(ctx) \in 0..10
    BY DEF ExtraDeduction
  <1>2. RiskDeduction(ctx) \in 0..50 /\ FinancialDeduction(ctx) \in 0..30
    BY RiskDeductionIs, FinancialDeductionIs
  <1> QED BY <1>1, <1>2 DEF Score

LEMMA RankIs ==
    /\ Rank("E") = 1 /\ Rank("D") = 2 /\ Rank("C") = 3 /\ Rank("B") = 4 /\ Rank("A") = 5
    /\ Grades[1] = "E" /\ Grades[2] = "D" /\ Grades[3] = "C" /\ Grades[4] = "B"
    /\ Grades[5] = "A"
  <1>1. /\ DOMAIN Grades = 1..5
        /\ Grades[1] = "E" /\ Grades[2] = "D" /\ Grades[3] = "C" /\ Grades[4] = "B"
        /\ Grades[5] = "A"
    BY DEF Grades
  <1>2. \A i, k \in 1..5 : Grades[i] = Grades[k] => i = k
    BY <1>1
  <1>3. ASSUME NEW i \in 1..5 PROVE Rank(Grades[i]) = i
    BY <1>1, <1>2 DEF Rank
  <1> QED BY <1>1, <1>3

LEMMA ScoreToGradeIs ==
    ASSUME NEW s \in 0..100
    PROVE  /\ ScoreToGrade(s) \in {"A", "B", "C", "D", "E"}
           /\ ScoreToGrade(s) = "A" <=> s >= 80
           /\ ScoreToGrade(s) \in {"A", "B"} <=> s >= 65
           /\ ScoreToGrade(s) \in {"A", "B", "C"} <=> s >= 50
           /\ ScoreToGrade(s) \in {"A", "B", "C", "D"} <=> s >= 35
  <1>1. CASE s >= 80
    BY <1>1 DEF ScoreToGrade
  <1>2. CASE s >= 65 /\ ~(s >= 80)
    BY <1>2 DEF ScoreToGrade
  <1>3. CASE s >= 50 /\ ~(s >= 65)
    BY <1>3 DEF ScoreToGrade
  <1>4. CASE s >= 35 /\ ~(s >= 50)
    BY <1>4 DEF ScoreToGrade
  <1>5. CASE ~(s >= 35)
    BY <1>5 DEF ScoreToGrade
  <1> QED BY <1>1, <1>2, <1>3, <1>4, <1>5

\* The grade as a number: that of the score, under that of the cap.
ScoreRank(s) == Rank(ScoreToGrade(s))
CapRank(c) == IF c \in DOMAIN GradeCapMap THEN Rank(GradeCapMap[c]) ELSE 5
GradeRank(ctx) ==
    IF ctx.impaired THEN 1 ELSE Least(ScoreRank(Score(ctx)), CapRank(ctx.cap))

LEMMA ScoreRankIs ==
    ASSUME NEW s \in 0..100
    PROVE  /\ ScoreRank(s) \in 1..5 /\ ScoreToGrade(s) = Grades[ScoreRank(s)]
           /\ ScoreRank(s) >= 5 <=> s >= 80
           /\ ScoreRank(s) >= 4 <=> s >= 65
           /\ ScoreRank(s) >= 3 <=> s >= 50
           /\ ScoreRank(s) >= 2 <=> s >= 35
  <1>1. PICK g : g = ScoreToGrade(s)
    OBVIOUS
  <1>2. g \in {"A", "B", "C", "D", "E"}
    BY <1>1, ScoreToGradeIs
  <1>3. /\ g = "A" <=> s >= 80
        /\ g \in {"A", "B"} <=> s >= 65
        /\ g \in {"A", "B", "C"} <=> s >= 50
        /\ g \in {"A", "B", "C", "D"} <=> s >= 35
    BY <1>1, ScoreToGradeIs
  <1>4. ScoreRank(s) = Rank(g)
    BY <1>1 DEF ScoreRank
  <1> QED BY <1>1, <1>2, <1>3, <1>4, RankIs

LEMMA ScoreRankGrows ==
    ASSUME NEW s \in 0..100, NEW t \in 0..100, s <= t
    PROVE  ScoreRank(s) <= ScoreRank(t)
  <1>1. PICK a, b : a = ScoreRank(s) /\ b = ScoreRank(t)
    OBVIOUS
  <1>2. /\ a \in 1..5
        /\ a >= 5 <=> s >= 80
        /\ a >= 4 <=> s >= 65
        /\ a >= 3 <=> s >= 50
        /\ a >= 2 <=> s >= 35
    BY <1>1, ScoreRankIs
  <1>3. /\ b \in 1..5
        /\ b >= 5 <=> t >= 80
        /\ b >= 4 <=> t >= 65
        /\ b >= 3 <=> t >= 50
        /\ b >= 2 <=> t >= 35
    BY <1>1, ScoreRankIs
  <1> QED BY <1>1, <1>2, <1>3

LEMMA CapRankIs ==
    ASSUME NEW c
    PROVE  /\ CapRank(c) \in 1..5
           /\ c = "CCC" => CapRank(c) = 1
           /\ c \in {"B", "B+"} => CapRank(c) = 2
           /\ c = "BB+" => CapRank(c) = 3
           /\ c \in DOMAIN GradeCapMap => GradeCapMap[c] = Grades[CapRank(c)]
  BY RankIs DEF CapRank, GradeCapMap, CapGrade

LEMMA GradeIs ==
    ASSUME NEW ctx \in Contexts
    PROVE  GradeRank(ctx) \in 1..5 /\ CalculateGrade(ctx) = Grades[GradeRank(ctx)]
  <1>1. PICK s : s = Score(ctx) /\ s \in 0..100
    BY ScoreIs
  <1>2. PICK a, b : a = ScoreRank(s) /\ b = CapRank(ctx.cap)
    OBVIOUS
  <1>3. a \in 1..5 /\ b \in 1..5 /\ ScoreToGrade(s) = Grades[a]
    BY <1>1, <1>2, ScoreRankIs, CapRankIs
  <1>4. Least(a, b) \in 1..5
    BY <1>3 DEF Least
  <1>5. Rank(ScoreToGrade(s)) = a
    BY <1>2 DEF ScoreRank
  <1>6. CASE ctx.impaired
    BY <1>6, RankIs DEF GradeRank, CalculateGrade
  <1>7. CASE ~ctx.impaired /\ ctx.cap \in DOMAIN GradeCapMap
    BY <1>1, <1>2, <1>4, <1>5, <1>7 DEF GradeRank, CalculateGrade, CapRank
  <1>8. CASE ~ctx.impaired /\ ctx.cap \notin DOMAIN GradeCapMap
    <2>1. b = 5 /\ Least(a, b) = a
      BY <1>2, <1>3, <1>8 DEF CapRank, Least
    <2> QED BY <1>1, <1>2, <1>3, <1>8, <2>1 DEF GradeRank, CalculateGrade
  <1> QED BY <1>6, <1>7, <1>8

LEMMA DecisionIs ==
    ASSUME NEW ctx \in Contexts
    PROVE  /\ MakeDecision(ctx) \in {"approve", "review", "reject"}
           /\ MakeDecision(ctx) = "reject" <=> GradeRank(ctx) <= 2 \/ HardReject(ctx)
           /\ MakeDecision(ctx) = "approve" => GradeRank(ctx) >= 4
           /\ GradeDecision(CalculateGrade(ctx)) = "reject" <=> GradeRank(ctx) <= 2
           /\ GradeDecision(CalculateGrade(ctx)) = "approve" <=> GradeRank(ctx) >= 4
           /\ CalculateGrade(ctx) \in Range(Grades)
  <1>1. PICK r \in 1..5 : r = GradeRank(ctx)
    BY GradeIs
  <1>2. CalculateGrade(ctx) = Grades[r]
    BY <1>1, GradeIs
  <1>3. PICK d : d = GradeDecision(CalculateGrade(ctx))
    OBVIOUS
  <1>4. /\ r >= 4 => d = "approve"
        /\ r = 3 => d = "review"
        /\ r <= 2 => d = "reject"
    BY <1>2, <1>3, RankIs DEF GradeDecision
  <1>5. MakeDecision(ctx) = IF d # "reject" /\ HardReject(ctx) THEN "reject" ELSE d
    BY <1>3 DEF MakeDecision
  <1>6. CalculateGrade(ctx) \in Range(Grades)
    BY <1>2 DEF Grades, Range
  <1> QED BY <1>1, <1>3, <1>4, <1>5, <1>6

LEMMA ConfidenceIs ==
    ASSUME NEW ctx \in Contexts
    PROVE  Confidence(ctx) \in 0..1000
  <1>1. PICK s \in 0..100 : s = Score(ctx)
    BY ScoreIs
  <1>2. PICK d : d = GradeDecision(CalculateGrade(ctx))
    OBVIOUS
  <1>3. d \in {"approve", "review", "reject"}
    BY <1>2 DEF GradeDecision
  <1>4. PICK k \in Nat : k = IF s < 57 THEN 57 - s ELSE s - 57
    OBVIOUS
  <1>5. Confidence(ctx) =
            IF d # "reject" /\ HardReject(ctx) THEN 950
            ELSE CASE d = "approve" -> Least(500 + (s - 50) * 8, 980)
                   [] d = "reject"  -> Least(500 + (50 - s) * 10, 980)
                   [] OTHER         -> Least(550 + k * 10, 700)
    BY <1>1, <1>2, <1>4 DEF Confidence
  <1>6. /\ Least(500 + (s - 50) * 8, 980) \in 0..1000
        /\ Least(500 + (50 - s) * 10, 980) \in 0..1000
        /\ Least(550 + k * 10, 700) \in 0..1000
    BY DEF Least
  <1> QED BY <1>3, <1>5, <1>6

\* What the amounts of a company allow, in whole percent.
LEMMA PercentIs ==
    ASSUME NEW x \in Nat
    PROVE  /\ \A p \in {10, 20, 30, 50} : Percent(x, p) \in Nat
           /\ Percent(x, 10) <= Percent(x, 20)
           /\ Percent(x, 20) <= Percent(x, 30)
           /\ Percent(x, 30) <= Percent(x, 50)
  <1>1. /\ Percent(x, 10) = (x * 10) \div 100 /\ Percent(x, 20) = (x * 20) \div 100
        /\ Percent(x, 30) = (x * 30) \div 100 /\ Percent(x, 50) = (x * 50) \div 100
    BY DEF Percent
  <1> QED BY <1>1

LEMMA ParamsAre ==
    /\ DOMAIN LimitParams = {"A", "B", "C"}
    /\ LimitParams["A"] = [assets |-> 30, revenue |-> 50, ceiling |-> 500, default |-> 200]
    /\ LimitParams["B"] = [assets |-> 20, revenue |-> 30, ceiling |-> 300, default |-> 100]
    /\ LimitParams["C"] = [assets |-> 10, revenue |-> 20, ceiling |-> 100, default |-> 30]
  BY DEF LimitParams

\* The bases of a limit: each is offered only by an amount that is positive.
Basis(a, r, p) ==
    {Percent(a, p.assets) : x \in {y \in {a} : y > 0}}
    \cup {Percent(r, p.revenue) : x \in {y \in {r} : y > 0}}

LimitOf(a, r, p) == IF Basis(a, r, p) = {} THEN p.default ELSE Min(Basis(a, r, p) \cup {p.ceiling})

Income(ctx) == IF ctx.revenue > 0 THEN ctx.revenue ELSE ctx.average

LEMMA RecommendLimitIs ==
    ASSUME NEW ctx \in Contexts
    PROVE  RecommendLimit(ctx) =
             IF MakeDecision(ctx) = "reject" \/ CalculateGrade(ctx) \notin {"A", "B", "C"} THEN 0
             ELSE LimitOf(ctx.assets, Income(ctx), LimitParams[CalculateGrade(ctx)])
  <1>1. DOMAIN LimitParams = {"A", "B", "C"}
    BY ParamsAre
  <1> QED BY <1>1 DEF RecommendLimit, LimitOf, Basis, Income

LEMMA LimitOfIs ==
    \A a, r \in Int, g \in DOMAIN LimitParams : LimitOf(a, r, LimitParams[g]) \in 0..500
  <1> SUFFICES ASSUME NEW a \in Int, NEW r \in Int, NEW g \in DOMAIN LimitParams
               PROVE  LimitOf(a, r, LimitParams[g]) \in 0..500
    OBVIOUS
  <1>1. PICK p : p = LimitParams[g]
    OBVIOUS
  <1>2. /\ p.assets \in {10, 20, 30, 50} /\ p.revenue \in {10, 20, 30, 50}
        /\ p.ceiling \in 0..500 /\ p.default \in 0..500
    BY <1>1, ParamsAre
  <1>3. CASE Basis(a, r, p) = {}
    BY <1>1, <1>2, <1>3 DEF LimitOf
  <1>4. CASE Basis(a, r, p) # {}
    <2>1. a > 0 => Percent(a, p.assets) \in Nat
      BY <1>2, PercentIs
    <2>2. r > 0 => Percent(r, p.revenue) \in Nat
      BY <1>2, PercentIs
    <2>3. PICK T : T = Basis(a, r, p) \cup {p.ceiling}
      OBVIOUS
    <2>4. T \in SUBSET Nat /\ T # {} /\ p.ceiling \in T
      BY <1>2, <2>1, <2>2, <2>3 DEF Basis
    <2>5. Min(T) \in Nat /\ Min(T) <= p.ceiling
      BY <2>4, MinIs
    <2>6. LimitOf(a, r, p) = Min(T)
      BY <1>4, <2>3, Zenon DEF LimitOf
    <2>7. Min(T) \in 0..500
      BY <1>2, <2>5
    <2> QED BY <1>1, <2>6, <2>7, Zenon
  <1> QED BY <1>3, <1>4

LEMMA LimitIs ==
    ASSUME NEW ctx \in Contexts
    PROVE  /\ RecommendLimit(ctx) \in 0..500
           /\ MakeDecision(ctx) = "reject" => RecommendLimit(ctx) = 0
  <1>1. ctx.assets \in Int /\ Income(ctx) \in Int
    BY DEF Contexts, Income
  <1>2. PICK g : g = CalculateGrade(ctx)
    OBVIOUS
  <1>3. RecommendLimit(ctx) =
            IF MakeDecision(ctx) = "reject" \/ g \notin {"A", "B", "C"} THEN 0
            ELSE LimitOf(ctx.assets, Income(ctx), LimitParams[g])
    BY <1>2, RecommendLimitIs
  <1>4. ASSUME g \in {"A", "B", "C"}
        PROVE  LimitOf(ctx.assets, Income(ctx), LimitParams[g]) \in 0..500
    <2>1. PICK a \in Int, b \in Int : a = ctx.assets /\ b = Income(ctx)
      BY <1>1
    <2>2. g \in DOMAIN LimitParams
      BY <1>4, ParamsAre, Zenon
    <2>3. LimitOf(a, b, LimitParams[g]) \in 0..500
      BY <2>2, LimitOfIs, Zenon
    <2> QED BY <2>1, <2>3, Zenon
  <1> QED BY <1>3, <1>4

\* A better grade never limits more.
LEMMA LimitOfGrows ==
    ASSUME NEW a \in Int, NEW r \in Int, NEW g \in {"A", "B", "C"}, NEW h \in {"A", "B", "C"},
           h = "C" => g = "C", h = "B" => g # "A"
    PROVE  LimitOf(a, r, LimitParams[g]) <= LimitOf(a, r, LimitParams[h])
  <1>1. PICK p, q : p = LimitParams[g] /\ q = LimitParams[h]
    OBVIOUS
  <1>2. /\ p.assets \in {10, 20, 30} /\ p.revenue \in {20, 30, 50}
        /\ q.assets \in {10, 20, 30} /\ q.revenue \in {20, 30, 50}
        /\ p.ceiling \in Nat /\ q.ceiling \in Nat
    BY <1>1, ParamsAre
  <1>3. p.ceiling <= q.ceiling /\ p.default <= q.default
    BY <1>1, ParamsAre
  <1>4. p.assets <= q.assets /\ p.revenue <= q.revenue
    BY <1>1, ParamsAre
  <1>5. a > 0 => /\ Percent(a, p.assets) \in Nat /\ Percent(a, q.assets) \in Nat
                 /\ Percent(a, p.assets) <= Percent(a, q.assets)
    <2> SUFFICES ASSUME a > 0 PROVE /\ Percent(a, p.assets) \in Nat /\ Percent(a, q.assets) \in Nat
                                    /\ Percent(a, p.assets) <= Percent(a, q.assets)
      OBVIOUS
    <2>1. a \in Nat
      OBVIOUS
    <2> QED BY <1>2, <1>4, <2>1, PercentIs
  <1>6. r > 0 => /\ Percent(r, p.revenue) \in Nat /\ Percent(r, q.revenue) \in Nat
                 /\ Percent(r, p.revenue) <= Percent(r, q.revenue)
    <2> SUFFICES ASSUME r > 0 PROVE /\ Percent(r, p.revenue) \in Nat /\ Percent(r, q.revenue) \in Nat
                                    /\ Percent(r, p.revenue) <= Percent(r, q.revenue)
      OBVIOUS
    <2>1. r \in Nat
      OBVIOUS
    <2> QED BY <1>2, <1>4, <2>1, PercentIs
  <1>7. CASE ~(a > 0) /\ ~(r > 0)
    <2>1. Basis(a, r, p) = {} /\ Basis(a, r, q) = {}
      BY <1>7 DEF Basis
    <2> QED BY <1>1, <1>3, <2>1 DEF LimitOf
  <1>8. CASE a > 0 \/ r > 0
    <2>1. Basis(a, r, p) # {} /\ Basis(a, r, q) # {}
      BY <1>8 DEF Basis
    <2>2. PICK T, U : T = Basis(a, r, p) \cup {p.ceiling} /\ U = Basis(a, r, q) \cup {q.ceiling}
      OBVIOUS
    <2>3. /\ T \in SUBSET Nat /\ U \in SUBSET Nat /\ T # {} /\ U # {}
          /\ \A u \in U : \E t \in T : t <= u
      BY <1>2, <1>3, <1>5, <1>6, <2>2 DEF Basis
    <2>4. Min(U) \in U /\ \A t \in T : Min(T) <= t
      BY <2>3, MinIs
    <2>5. PICK t \in T : t <= Min(U)
      BY <2>3, <2>4
    <2>6. Min(T) \in Nat /\ Min(U) \in Nat /\ t \in Nat /\ Min(T) <= t
      BY <2>3, <2>4, MinIs
    <2>7. Min(T) <= Min(U)
      BY <2>5, <2>6
    <2> QED BY <1>1, <2>1, <2>2, <2>7 DEF LimitOf
  <1> QED BY <1>7, <1>8

(* More events make nothing better *)

LEMMA LeastGrows ==
    \A a, b, c \in Int : a <= b => Least(a, c) <= Least(b, c) /\ Least(c, a) <= Least(c, b)
  BY DEF Least

LEMMA RiskDeductionGrows ==
    ASSUME NEW x \in Contexts, NEW y \in Contexts,
           x.critical <= y.critical, x.high <= y.high, x.medium <= y.medium
    PROVE  RiskDeduction(x) <= RiskDeduction(y)
  <1>1. /\ x.critical \in Nat /\ x.high \in Nat /\ x.medium \in Nat
        /\ y.critical \in Nat /\ y.high \in Nat /\ y.medium \in Nat
    BY DEF Contexts
  <1>2. PICK a, b, c : a = Least(x.critical, 3) /\ b = Least(x.high, 3) /\ c = Least(x.medium, 5)
    OBVIOUS
  <1>3. PICK d, e, f : d = Least(y.critical, 3) /\ e = Least(y.high, 3) /\ f = Least(y.medium, 5)
    OBVIOUS
  <1>4. /\ a \in Nat /\ b \in Nat /\ c \in Nat /\ d \in Nat /\ e \in Nat /\ f \in Nat
        /\ a <= d /\ b <= e /\ c <= f
    BY <1>1, <1>2, <1>3 DEF Least
  <1>5. PICK m, n : m = 20 * a + 10 * b + 5 * c /\ n = 20 * d + 10 * e + 5 * f
    OBVIOUS
  <1>6. m \in Nat /\ n \in Nat /\ m <= n
    BY <1>4, <1>5
  <1>7. RiskDeduction(x) = Least(50, m) /\ RiskDeduction(y) = Least(50, n)
    BY <1>2, <1>3, <1>5 DEF RiskDeduction
  <1> QED BY <1>6, <1>7, LeastGrows

\* One context is another with more events.
Worse(x, y) ==
    /\ x.critical <= y.critical /\ x.high <= y.high /\ x.medium <= y.medium
    /\ \A f \in {"impaired", "debt", "margin", "loss", "cap", "assets", "revenue", "average"} :
          x[f] = y[f]

LEMMA WorseScore ==
    ASSUME NEW x \in Contexts, NEW y \in Contexts, Worse(x, y)
    PROVE  Score(y) <= Score(x)
  <1>1. RiskDeduction(x) <= RiskDeduction(y)
    BY RiskDeductionGrows DEF Worse
  <1>2. FinancialDeduction(x) = FinancialDeduction(y)
    BY DEF Worse, FinancialDeduction
  <1>3. ExtraDeduction(x) <= ExtraDeduction(y)
    BY DEF Worse, ExtraDeduction, Contexts
  <1>4. /\ RiskDeduction(x) \in 0..50 /\ RiskDeduction(y) \in 0..50
        /\ FinancialDeduction(x) \in 0..30 /\ ExtraDeduction(x) \in 0..10
        /\ ExtraDeduction(y) \in 0..10
    BY RiskDeductionIs, FinancialDeductionIs DEF ExtraDeduction
  <1>5. x.impaired = y.impaired
    BY DEF Worse
  <1>6. PICK a, b, c, d, e : /\ a = RiskDeduction(x) /\ b = RiskDeduction(y)
                             /\ c = FinancialDeduction(x)
                             /\ d = ExtraDeduction(x) /\ e = ExtraDeduction(y)
    OBVIOUS
  <1>7. /\ a \in Nat /\ b \in Nat /\ c \in Nat /\ d \in Nat /\ e \in Nat
        /\ a <= b /\ d <= e /\ a + c + d <= 100
    BY <1>1, <1>3, <1>4, <1>6
  <1>8. /\ Score(x) = IF x.impaired \/ 100 - a - c - d < 0 THEN 0 ELSE 100 - a - c - d
        /\ Score(y) = IF x.impaired \/ 100 - b - c - e < 0 THEN 0 ELSE 100 - b - c - e
    BY <1>2, <1>5, <1>6 DEF Score
  <1> QED BY <1>7, <1>8

LEMMA WorseGrade ==
    ASSUME NEW x \in Contexts, NEW y \in Contexts, Worse(x, y)
    PROVE  GradeRank(y) <= GradeRank(x)
  <1>1. PICK s, t : s = Score(x) /\ t = Score(y)
    OBVIOUS
  <1>2. s \in 0..100 /\ t \in 0..100 /\ t <= s
    BY <1>1, ScoreIs, WorseScore
  <1>3. PICK a, b, c : a = ScoreRank(s) /\ b = ScoreRank(t) /\ c = CapRank(x.cap)
    OBVIOUS
  <1>4. a \in 1..5 /\ b \in 1..5 /\ c \in 1..5 /\ b <= a
    BY <1>2, <1>3, ScoreRankIs, ScoreRankGrows, CapRankIs
  <1>5. x.impaired = y.impaired /\ x.cap = y.cap
    BY DEF Worse
  <1>6. /\ GradeRank(x) = IF x.impaired THEN 1 ELSE Least(a, c)
        /\ GradeRank(y) = IF x.impaired THEN 1 ELSE Least(b, c)
    BY <1>1, <1>3, <1>5 DEF GradeRank
  <1> QED BY <1>4, <1>6 DEF Least

LEMMA WorseDecision ==
    ASSUME NEW x \in Contexts, NEW y \in Contexts, Worse(x, y), MakeDecision(x) = "reject"
    PROVE  MakeDecision(y) = "reject"
  <1>1. HardReject(x) => HardReject(y)
    BY DEF HardReject, Worse, Contexts
  <1>2. GradeRank(y) <= GradeRank(x) /\ GradeRank(x) \in 1..5 /\ GradeRank(y) \in 1..5
    BY WorseGrade, GradeIs
  <1>3. GradeRank(x) <= 2 \/ HardReject(x)
    BY DecisionIs
  <1>4. GradeRank(y) <= 2 \/ HardReject(y)
    BY <1>1, <1>2, <1>3
  <1> QED BY <1>4, DecisionIs

LEMMA WorseLimit ==
    ASSUME NEW x \in Contexts, NEW y \in Contexts, Worse(x, y)
    PROVE  RecommendLimit(y) <= RecommendLimit(x)
  <1>1. RecommendLimit(x) \in 0..500 /\ RecommendLimit(y) \in 0..500
    BY LimitIs
  <1>2. CASE MakeDecision(y) = "reject"
    BY <1>1, <1>2, LimitIs
  <1>3. CASE MakeDecision(y) # "reject"
    <2>1. MakeDecision(x) # "reject"
      BY <1>3, WorseDecision
    <2>2. PICK m, n : m = GradeRank(x) /\ n = GradeRank(y)
      OBVIOUS
    <2>3. m \in 3..5 /\ n \in 3..5 /\ n <= m
      BY <1>3, <2>1, <2>2, GradeIs, DecisionIs, WorseGrade
    <2>4. PICK g, h : g = Grades[n] /\ h = Grades[m]
      OBVIOUS
    <2>5. /\ g \in {"A", "B", "C"} /\ h \in {"A", "B", "C"}
          /\ (h = "C" => g = "C") /\ (h = "B" => g # "A")
      BY <2>3, <2>4, RankIs
    <2>6. CalculateGrade(y) = g /\ CalculateGrade(x) = h
      BY <2>2, <2>4, GradeIs
    <2>7. PICK a, r : a = x.assets /\ r = Income(x)
      OBVIOUS
    <2>8. a \in Int /\ r \in Int
      BY <2>7 DEF Contexts, Income
    <2>9. a = y.assets /\ r = Income(y)
      BY <2>7 DEF Worse, Income
    <2>10. RecommendLimit(x) = LimitOf(a, r, LimitParams[h])
      BY <2>1, <2>5, <2>6, <2>7, RecommendLimitIs
    <2>11. RecommendLimit(y) = LimitOf(a, r, LimitParams[g])
      BY <1>3, <2>5, <2>6, <2>9, RecommendLimitIs
    <2> QED BY <2>5, <2>8, <2>10, <2>11, LimitOfGrows
  <1> QED BY <1>2, <1>3

(* The grounds on which a loan is refused *)

LEMMA ImpairmentRefuses ==
    ASSUME NEW ctx \in Contexts, ctx.impaired
    PROVE  MakeDecision(ctx) = "reject" /\ RecommendLimit(ctx) = 0
  <1>1. GradeRank(ctx) = 1
    BY DEF GradeRank
  <1>2. MakeDecision(ctx) = "reject"
    BY <1>1, DecisionIs
  <1> QED BY <1>2, LimitIs

LEMMA CapRefuses ==
    ASSUME NEW ctx \in Contexts, ctx.cap \in {"CCC", "B", "B+"}
    PROVE  MakeDecision(ctx) = "reject" /\ RecommendLimit(ctx) = 0
  <1>1. PICK s, c : s = ScoreRank(Score(ctx)) /\ c = CapRank(ctx.cap)
    OBVIOUS
  <1>2. s \in 1..5 /\ c \in 1..2
    BY <1>1, ScoreIs, ScoreRankIs, CapRankIs
  <1>3. GradeRank(ctx) <= 2
    BY <1>1, <1>2 DEF GradeRank, Least
  <1>4. MakeDecision(ctx) = "reject"
    BY <1>3, DecisionIs
  <1> QED BY <1>4, LimitIs

LEMMA CapReviews ==
    ASSUME NEW ctx \in Contexts, ctx.cap \in {"CCC", "B", "B+", "BB+"}
    PROVE  MakeDecision(ctx) # "approve"
  <1>1. PICK s, c : s = ScoreRank(Score(ctx)) /\ c = CapRank(ctx.cap)
    OBVIOUS
  <1>2. s \in 1..5 /\ c \in 1..3
    BY <1>1, ScoreIs, ScoreRankIs, CapRankIs
  <1>3. GradeRank(ctx) \in 1..3
    BY <1>1, <1>2 DEF GradeRank, Least
  <1> QED BY <1>3, DecisionIs

LEMMA GradeOrderIs ==
    /\ DOMAIN GradeOrder = 1..16
    /\ GradeOrder[1] = "CCC" /\ GradeOrder[2] = "B" /\ GradeOrder[3] = "B+"
    /\ GradeOrder[4] = "BB-" /\ GradeOrder[5] = "BB" /\ GradeOrder[6] = "BB+"
  BY DEF GradeOrder

LEMMA FiltersAre ==
    /\ Filters[1] = "CCC" /\ Filters[2] = "CCC" /\ Filters[3] = "CCC"
    /\ Filters[4] = "B" /\ Filters[5] = "B+" /\ Filters[6] = "BB+"
  BY DEF Filters

LEMMA TriggeredIs ==
    ASSUME NEW fs, NEW history
    PROVE  /\ Triggered(fs, history) \subseteq 1..6
           /\ 1 \in Triggered(fs, history) <=> fs.equity <= 0 /\ ~ThreeYearProfit(history)
  <1>1. Triggered(fs, history) \subseteq 1..6
    BY Zenon DEF Triggered
  <1>2. 1 \in Triggered(fs, history) <=> fs.equity <= 0 /\ ~ThreeYearProfit(history)
    BY DEF Triggered
  <1> QED BY <1>1, <1>2

\* The cap is that of a filter, and no weaker than any other that fired.
LEMMA CapIs ==
    ASSUME NEW fs, NEW history
    PROVE  /\ ApplyRiskFilters(fs, history) \in {"CCC", "B", "B+", "BB+", NoCap}
           /\ \A f \in Triggered(fs, history) :
                 /\ ApplyRiskFilters(fs, history) # NoCap
                 /\ Filters[f] # "BB+" => ApplyRiskFilters(fs, history) # "BB+"
  <1>1. PICK T : T = Triggered(fs, history)
    OBVIOUS
  <1>2. T \subseteq 1..6
    BY <1>1, TriggeredIs
  <1>3. PICK caps : caps = {Filters[f] : f \in T}
    OBVIOUS
  <1>4. ApplyRiskFilters(fs, history) =
            IF caps = {} THEN NoCap
            ELSE GradeOrder[Min({i \in DOMAIN GradeOrder : GradeOrder[i] \in caps})]
    BY <1>1, <1>3 DEF ApplyRiskFilters
  <1>5. caps \subseteq {"CCC", "B", "B+", "BB+"}
    BY <1>2, <1>3, FiltersAre
  <1>6. CASE caps = {}
    <2>1. T = {}
      BY <1>3, <1>6
    <2> QED BY <1>1, <1>4, <1>6, <2>1
  <1>7. CASE caps # {}
    <2>1. PICK P : P = {i \in DOMAIN GradeOrder : GradeOrder[i] \in caps}
      OBVIOUS
    <2>2. PICK c \in caps : TRUE
      BY <1>7
    <2>3. \E i \in 1..16 : GradeOrder[i] = c
      BY <1>5, <2>2, GradeOrderIs
    <2>4. P \in SUBSET Nat /\ P # {}
      BY <2>1, <2>2, <2>3, GradeOrderIs
    <2>5. Min(P) \in P /\ \A i \in P : Min(P) <= i
      BY <2>4, MinIs
    <2>6. PICK m : m = Min(P)
      OBVIOUS
    <2>7. m \in 1..16 /\ GradeOrder[m] \in caps /\ \A i \in P : m <= i
      BY <2>1, <2>5, <2>6, GradeOrderIs
    <2>8. ApplyRiskFilters(fs, history) = GradeOrder[m]
      BY <1>4, <1>7, <2>1, <2>6
    <2>9. GradeOrder[m] # NoCap
      BY <1>5, <2>7 DEF NoCap
    <2>10. ASSUME NEW f \in T, Filters[f] # "BB+" PROVE GradeOrder[m] # "BB+"
      <3>1. Filters[f] \in caps /\ Filters[f] \in {"CCC", "B", "B+"}
        BY <1>2, <1>3, <1>5, <2>10
      <3>2. \E i \in 1..3 : GradeOrder[i] = Filters[f]
        BY <3>1, GradeOrderIs
      <3>3. PICK i \in 1..3 : i \in P
        BY <2>1, <3>1, <3>2, GradeOrderIs
      <3>4. m \in 1..3
        BY <2>7, <3>3
      <3> QED BY <3>4, GradeOrderIs
    <2> QED BY <1>1, <1>5, <2>7, <2>8, <2>9, <2>10
  <1> QED BY <1>6, <1>7

(* What the detectors find *)

\* The words of a title: those of a text, or the names of a category.
FinancialTitles == {"debt spike", "operating drop", "loss turn", "revenue decline", "impaired"}
CategoryTitles  == {"large borrowing", "collateral", "change of owner", "opinion refused", "dispute",
                    "shutdown", "bankruptcy", "rehabilitation", "auction", "provisional seizure"}
KeywordTitles   == UNION {Range(RiskKeywords[i]) : i \in DOMAIN RiskKeywords}
Words == STRING \cup KeywordTitles \cup FinancialTitles \cup CategoryTitles

Events == [type : {"keyword", "disclosure", "legal", "sentiment", "financial"},
           title : SUBSET Words, delta : Int \X Int]

LEMMA RatiosAre ==
    /\ NoRatio \in Int \X Int
    /\ \A n, d \in Int : Ratio(n, d) \in Int \X Int /\ Growth(n, d) \in Int \X Int
    /\ \A p, c \in Int \X Int, x \in Int : Delta(p, c, x) \in Int \X Int
  <1>1. NoRatio \in Int \X Int
    BY DEF NoRatio
  <1>2. \A n, d \in Int : Ratio(n, d) \in Int \X Int
    BY DEF Ratio, NoRatio
  <1>3. \A n, d \in Int : Growth(n, d) \in Int \X Int
    <2> SUFFICES ASSUME NEW n \in Int, NEW d \in Int PROVE Growth(n, d) \in Int \X Int
      OBVIOUS
    <2>1. PICK a, b \in Int : a = d - n /\ b = IF n < 0 THEN -n ELSE n
      OBVIOUS
    <2>2. Growth(n, d) = Ratio(a, b)
      BY <2>1 DEF Growth
    <2> QED BY <1>2, <2>1, <2>2
  <1>4. ASSUME NEW p \in Int \X Int, NEW c \in Int \X Int, NEW x \in Int
        PROVE  Delta(p, c, x) \in Int \X Int
    <2>1. PICK a, b, d, e \in Int : p = <<a, b>> /\ c = <<d, e>>
      OBVIOUS
    <2>2. PICK m, n \in Int : m = d * b - a * e /\ n = b * e
      OBVIOUS
    <2>3. Delta(p, c, x) = IF p = NoRatio \/ c = NoRatio THEN NoRatio
                           ELSE <<100 * m + x, 100 * n>>
      BY <2>1, <2>2 DEF Delta, Grain
    <2> QED BY <1>1, <2>3
  <1> QED BY <1>1, <1>2, <1>3, <1>4

LEMMA ErrorsAre ==
    ASSUME NEW row \in Rows
    PROVE  /\ row.error.debt \in Errors /\ row.error.leverage \in Errors
           /\ row.error.debt \in Int /\ row.error.leverage \in Int
  <1>1. row.error \in [debt : Errors, margin : Errors, leverage : Errors]
    BY DEF Rows
  <1>2. row.error.debt \in Errors /\ row.error.leverage \in Errors
    BY <1>1
  <1> QED BY <1>2 DEF Errors

LEMMA EventIs ==
    ASSUME NEW type \in {"keyword", "disclosure", "legal", "sentiment", "financial"},
           NEW title \in SUBSET Words, NEW delta \in Int \X Int
    PROVE  Event(type, title, delta) \in Events
  <1>1. PICK S, D : S = SUBSET Words /\ D = Int \X Int
    OBVIOUS
  <1> QED BY <1>1 DEF Event, Events

LEMMA FinancialEventIs ==
    ASSUME NEW word \in FinancialTitles, NEW delta \in Int \X Int
    PROVE  <<Event("financial", {word}, delta)>> \in Seq(Events)
  <1>1. {word} \in SUBSET Words
    <2>1. word \in Words
      BY DEF Words
    <2> QED BY <2>1, Zenon
  <1>2. PICK e : e = Event("financial", {word}, delta)
    OBVIOUS
  <1>3. e \in Events
    BY <1>1, <1>2, EventIs
  <1>4. <<e>> \in Seq(Events)
    BY <1>3, OneElement
  <1> QED BY <1>2, <1>4

\* What is found in each pair of rows, one after the other.
LEMMA FoundInPairs ==
    ASSUME NEW n \in Nat, NEW f, f = [i \in 1..(n - 1) |-> f[i]],
           \A i \in 1..(n - 1) : f[i] \in Seq(Events)
    PROVE  FlattenSeq(f) \in Seq(Events)
  <1>1. f \in Seq(Seq(Events))
    <2>1. PICK m \in Nat : 1..(n - 1) = 1..m
      <3>1. CASE n = 0
        BY <3>1
      <3>2. CASE n # 0
        BY <3>2
      <3> QED BY <3>1, <3>2
    <2> QED BY <2>1
  <1> QED BY <1>1, FlattenHolds

LEMMA PairsFound ==
    ASSUME NEW rows \in Seq(Rows)
    PROVE  /\ Pairs(rows, DebtSpike) \in Seq(Events) /\ Pairs(rows, OperatingDrop) \in Seq(Events)
           /\ Pairs(rows, LossTurn) \in Seq(Events) /\ Pairs(rows, RevenueDecline) \in Seq(Events)
  <1>1. Len(rows) \in Nat /\ \A i \in 1..(Len(rows) - 1) : rows[i] \in Rows /\ rows[i + 1] \in Rows
    OBVIOUS
  <1>2. ASSUME NEW p \in Rows, NEW c \in Rows
        PROVE  /\ DebtSpike(p, c) \in Seq(Events) /\ OperatingDrop(p, c) \in Seq(Events)
               /\ LossTurn(p, c) \in Seq(Events) /\ RevenueDecline(p, c) \in Seq(Events)
    <2>1. \A r \in Rows : /\ r.liabilities \in Int /\ r.equity \in Int /\ r.operating \in Int
                          /\ r.income \in Int /\ r.revenue \in Int
      BY DEF Rows
    <2>2. Delta(Leverage(p), Leverage(c), c.error.leverage) \in Int \X Int
      <3>1. c.error.leverage \in Int
        BY ErrorsAre
      <3>2. Leverage(p) \in Int \X Int /\ Leverage(c) \in Int \X Int
        BY <2>1, RatiosAre DEF Leverage
      <3> QED BY <3>1, <3>2, RatiosAre
    <2>3. Growth(p.operating, c.operating) \in Int \X Int /\ Growth(p.revenue, c.revenue) \in Int \X Int
      BY <2>1, RatiosAre
    <2>4. Ratio(c.income - p.income, 1) \in Int \X Int
      <3>1. PICK a \in Int : a = c.income - p.income
        BY <2>1
      <3> QED BY <3>1, RatiosAre
    <2>5. DebtSpike(p, c) \in Seq(Events)
      BY <2>2, FinancialEventIs, NoElement DEF FinancialTitles, DebtSpike, Anomaly
    <2>6. OperatingDrop(p, c) \in Seq(Events) /\ RevenueDecline(p, c) \in Seq(Events)
      BY <2>3, FinancialEventIs, NoElement DEF FinancialTitles, OperatingDrop, RevenueDecline, Anomaly
    <2>7. LossTurn(p, c) \in Seq(Events)
      BY <2>4, FinancialEventIs, NoElement DEF FinancialTitles, LossTurn, Anomaly
    <2> QED BY <2>5, <2>6, <2>7
  <1>3. PICK f : f = [i \in 1..(Len(rows) - 1) |-> DebtSpike(rows[i], rows[i + 1])]
    OBVIOUS
  <1>4. PICK g : g = [i \in 1..(Len(rows) - 1) |-> OperatingDrop(rows[i], rows[i + 1])]
    OBVIOUS
  <1>5. PICK h : h = [i \in 1..(Len(rows) - 1) |-> LossTurn(rows[i], rows[i + 1])]
    OBVIOUS
  <1>6. PICK k : k = [i \in 1..(Len(rows) - 1) |-> RevenueDecline(rows[i], rows[i + 1])]
    OBVIOUS
  <1>7. FlattenSeq(f) \in Seq(Events)
    BY <1>1, <1>2, <1>3, FoundInPairs
  <1>8. FlattenSeq(g) \in Seq(Events)
    BY <1>1, <1>2, <1>4, FoundInPairs
  <1>9. FlattenSeq(h) \in Seq(Events)
    BY <1>1, <1>2, <1>5, FoundInPairs
  <1>10. FlattenSeq(k) \in Seq(Events)
    BY <1>1, <1>2, <1>6, FoundInPairs
  <1> QED BY <1>3, <1>4, <1>5, <1>6, <1>7, <1>8, <1>9, <1>10 DEF Pairs

LEMMA ImpairedIs ==
    ASSUME NEW rows \in Seq(Rows)
    PROVE  /\ Impaired(rows) \in Seq(Events)
           /\ (\E i \in DOMAIN rows : rows[i].equity < 0)
                 => \E j \in DOMAIN Impaired(rows) : "impaired" \in Impaired(rows)[j].title
  <1>1. PICK f : f = [i \in DOMAIN rows |-> Anomaly("impaired", rows[i].equity < 0, NoRatio)]
    OBVIOUS
  <1>2. f \in Seq(Seq(Events)) /\ DOMAIN f = DOMAIN rows
    <2>1. \A i \in DOMAIN rows : f[i] \in Seq(Events)
      BY <1>1, FinancialEventIs, RatiosAre, NoElement DEF FinancialTitles, Anomaly
    <2> QED BY <1>1, <2>1
  <1>3. PICK r : r = FlattenSeq(f) /\ r = Impaired(rows)
    BY <1>1 DEF Impaired
  <1>4. /\ r \in Seq(Events)
        /\ \A i \in DOMAIN f : \A k \in DOMAIN f[i] : \E j \in DOMAIN r : r[j] = f[i][k]
    <2>1. FlattenSeq(f) \in Seq(Events)
      BY <1>2, FlattenHolds
    <2>2. \A i \in DOMAIN f : \A k \in DOMAIN f[i] :
              \E j \in DOMAIN FlattenSeq(f) : FlattenSeq(f)[j] = f[i][k]
      BY <1>2, FlattenHolds
    <2> QED BY <1>3, <2>1, <2>2
  <1>5. ASSUME NEW i \in DOMAIN rows, rows[i].equity < 0
        PROVE  \E j \in DOMAIN r : "impaired" \in r[j].title
    <2>1. f[i] = <<Event("financial", {"impaired"}, NoRatio)>>
      BY <1>1, <1>5 DEF Anomaly
    <2>2. 1 \in DOMAIN f[i] /\ f[i][1].title = {"impaired"}
      BY <2>1 DEF Event
    <2>3. PICK j \in DOMAIN r : r[j] = f[i][1]
      BY <1>2, <1>4, <2>2
    <2> QED BY <2>2, <2>3
  <1> QED BY <1>3, <1>4, <1>5

\* What is found in each text, or for each category, one after the other.
LEMMA FoundInEach ==
    ASSUME NEW n \in Nat, NEW f, f = [i \in 1..n |-> f[i]], \A i \in 1..n : f[i] \in Seq(Events)
    PROVE  FlattenSeq(f) \in Seq(Events)
  <1>1. f \in Seq(Seq(Events))
    OBVIOUS
  <1> QED BY <1>1, FlattenHolds

LEMMA KeywordsAre ==
    /\ DOMAIN RiskKeywords = 1..5
    /\ \A i \in 1..5 : /\ Len(RiskKeywords[i]) \in Nat
                       /\ \A k \in 1..Len(RiskKeywords[i]) : RiskKeywords[i][k] \in KeywordTitles
  <1>1. DOMAIN RiskKeywords = 1..5
    BY DEF RiskKeywords
  <1>2. ASSUME NEW i \in 1..5
        PROVE  Len(RiskKeywords[i]) \in Nat /\ DOMAIN RiskKeywords[i] = 1..Len(RiskKeywords[i])
    <2>1. CASE i = 1
      BY <2>1 DEF RiskKeywords
    <2>2. CASE i = 2
      BY <2>2 DEF RiskKeywords
    <2>3. CASE i = 3
      BY <2>3 DEF RiskKeywords
    <2>4. CASE i = 4
      BY <2>4 DEF RiskKeywords
    <2>5. CASE i = 5
      BY <2>5 DEF RiskKeywords
    <2> QED BY <1>2, <2>1, <2>2, <2>3, <2>4, <2>5
  <1>3. ASSUME NEW i \in 1..5, NEW k \in 1..Len(RiskKeywords[i])
        PROVE  RiskKeywords[i][k] \in KeywordTitles
    BY <1>1, <1>2 DEF KeywordTitles, Range
  <1> QED BY <1>1, <1>2, <1>3

LEMMA ScanTextIs ==
    ASSUME NEW text
    PROVE  ScanText(text) \in Seq(Events)
  <1> DEFINE found(words) == SelectInSeq(words, LAMBDA w : w \in text)
  <1> DEFINE Found(words) == IF found(words) = 0 THEN <<>>
                             ELSE <<Event("keyword", {words[found(words)]}, NoRatio)>>
  <1>1. PICK f : f = [i \in DOMAIN RiskKeywords |-> Found(RiskKeywords[i])]
    OBVIOUS
  <1>2. ASSUME NEW i \in 1..5 PROVE f[i] \in Seq(Events)
    <2>1. PICK words : words = RiskKeywords[i]
      OBVIOUS
    <2>2. Len(words) \in Nat /\ \A k \in 1..Len(words) : words[k] \in KeywordTitles
      BY <2>1, KeywordsAre
    <2>3. PICK T : T = {k \in 1..Len(words) : words[k] \in text}
      OBVIOUS
    <2>4. found(words) = IF T # {} THEN Min(T) ELSE 0
      BY <2>3 DEF SelectInSeq
    <2>5. T # {} => Min(T) \in T
      <3>1. T \in SUBSET Nat
        BY <2>2, <2>3
      <3> QED BY <3>1, MinIs
    <2>6. PICK k : k = found(words)
      OBVIOUS
    <2>7. k # 0 => k \in 1..Len(words)
      BY <2>3, <2>4, <2>5, <2>6
    <2>8. k # 0 => {words[k]} \in SUBSET Words
      BY <2>2, <2>7 DEF Words
    <2>9. k # 0 => <<Event("keyword", {words[k]}, NoRatio)>> \in Seq(Events)
      BY <2>8, EventIs, RatiosAre, OneElement
    <2>10. f[i] = IF k = 0 THEN <<>> ELSE <<Event("keyword", {words[k]}, NoRatio)>>
      BY <1>1, <2>1, <2>6, KeywordsAre
    <2> QED BY <2>9, <2>10, NoElement
  <1>3. FlattenSeq(f) \in Seq(Events)
    BY <1>1, <1>2, KeywordsAre, FoundInEach
  <1> QED BY <1>1, <1>3 DEF ScanText

LEMMA KeywordsFound ==
    ASSUME NEW articles \in Seq([headline : SUBSET STRING, text : SUBSET STRING]),
           NEW disclosures \in Seq(SUBSET STRING)
    PROVE  DetectKeywords(articles, disclosures) \in Seq(Events)
  <1>1. PICK t : t = [i \in DOMAIN articles |-> articles[i].text] \o disclosures
    OBVIOUS
  <1>2. t \in Seq(SUBSET STRING)
    <2>1. PICK u : u = [i \in DOMAIN articles |-> articles[i].text]
      OBVIOUS
    <2>2. u \in Seq(SUBSET STRING)
      <3>1. PICK S : S = SUBSET STRING
        OBVIOUS
      <3>2. articles \in Seq([headline : S, text : S])
        BY <3>1
      <3>3. PICK R, n : R = [headline : S, text : S] /\ n = Len(articles)
        OBVIOUS
      <3>4. articles \in Seq(R)
        BY <3>2, <3>3
      <3>8. n \in Nat /\ DOMAIN articles = 1..n /\ \A i \in 1..n : articles[i] \in R
        BY <3>3, <3>4, Elements
      <3>5. \A x \in R : x.text \in S
        BY <3>3
      <3>6. u = [i \in 1..n |-> articles[i].text] /\ \A i \in 1..n : articles[i].text \in S
        BY <2>1, <3>5, <3>8
      <3>7. u \in Seq(S)
        BY <3>6, <3>8
      <3> QED BY <3>1, <3>7
    <2> QED BY <1>1, <2>1, <2>2
  <1>3. Len(t) \in Nat /\ DOMAIN t = 1..Len(t)
    BY <1>2
  <1>4. PICK f : f = [i \in DOMAIN t |-> ScanText(t[i])]
    OBVIOUS
  <1>5. f = [i \in 1..Len(t) |-> f[i]] /\ \A i \in 1..Len(t) : f[i] \in Seq(Events)
    BY <1>3, <1>4, ScanTextIs
  <1>6. FlattenSeq(f) \in Seq(Events)
    BY <1>3, <1>5, FoundInEach
  <1> QED BY <1>1, <1>4, <1>6 DEF DetectKeywords

\* Patterns name one category each, which is the title of what they find.
LEMMA MatchesFound ==
    ASSUME NEW S, NEW texts \in Seq(S), NEW type \in {"disclosure", "legal"},
           NEW n \in Nat, NEW patterns, DOMAIN patterns = 1..n,
           \A k \in 1..n : patterns[k].title \in SUBSET Words
    PROVE  Matches(texts, patterns, type) \in Seq(Events)
  <1> DEFINE Hit(p, text) == IF p.words \cap text = {} THEN <<>> ELSE <<Event(type, p.title, NoRatio)>>
  <1> DEFINE Hits(text) == [k \in DOMAIN patterns |-> Hit(patterns[k], text)]
  <1>1. ASSUME NEW text PROVE FlattenSeq(Hits(text)) \in Seq(Events)
    <2>1. ASSUME NEW k \in 1..n PROVE Hit(patterns[k], text) \in Seq(Events)
      <3>1. <<Event(type, patterns[k].title, NoRatio)>> \in Seq(Events)
        BY EventIs, RatiosAre, OneElement
      <3> QED BY <3>1, NoElement
    <2>2. PICK f : f = Hits(text)
      OBVIOUS
    <2>3. f = [k \in 1..n |-> f[k]] /\ \A k \in 1..n : f[k] \in Seq(Events)
      BY <2>1, <2>2
    <2>4. FlattenSeq(f) \in Seq(Events)
      BY <2>3, FoundInEach
    <2> QED BY <2>2, <2>4
  <1>2. Len(texts) \in Nat /\ DOMAIN texts = 1..Len(texts)
    OBVIOUS
  <1>3. PICK g : g = [i \in DOMAIN texts |-> FlattenSeq(Hits(texts[i]))]
    OBVIOUS
  <1>4. g = [i \in 1..Len(texts) |-> g[i]] /\ \A i \in 1..Len(texts) : g[i] \in Seq(Events)
    BY <1>1, <1>2, <1>3
  <1>5. FlattenSeq(g) \in Seq(Events)
    BY <1>2, <1>4, FoundInEach
  <1> QED BY <1>3, <1>5 DEF Matches

LEMMA DisclosuresFound ==
    ASSUME NEW texts \in Seq(SUBSET STRING)
    PROVE  DetectDisclosureAnomalies(texts) \in Seq(Events)
  <1>1. PICK q1, q2, q3, q4, q5, q6 :
           /\ q1 = Pattern("large borrowing", {"borrowing", "bond issue", "loan agreement"})
           /\ q2 = Pattern("collateral", {"collateral", "mortgage"})
           /\ q3 = Pattern("change of owner", {"change of owner", "control transfer"})
           /\ q4 = Pattern("opinion refused", {"opinion refused", "qualified", "adverse"})
           /\ q5 = Pattern("dispute", {"lawsuit", "arbitration", "damages", "provisional seizure"})
           /\ q6 = Pattern("shutdown", {"suspension", "closure", "restructuring"})
    OBVIOUS
  <1>2. PICK p : p = <<q1, q2, q3, q4, q5, q6>>
    OBVIOUS
  <1>3. \A c \in CategoryTitles : \A w : Pattern(c, w).title \in SUBSET Words
    <2>1. CategoryTitles \subseteq Words
      BY DEF Words
    <2> QED BY <2>1 DEF Pattern
  <1>4. /\ q1.title \in SUBSET Words /\ q2.title \in SUBSET Words /\ q3.title \in SUBSET Words
        /\ q4.title \in SUBSET Words /\ q5.title \in SUBSET Words /\ q6.title \in SUBSET Words
    BY <1>1, <1>3 DEF CategoryTitles
  <1>5. DOMAIN p = 1..6 /\ \A k \in 1..6 : p[k].title \in SUBSET Words
    BY <1>2, <1>4
  <1>6. Matches(texts, p, "disclosure") \in Seq(Events)
    BY <1>5, MatchesFound
  <1> QED BY <1>1, <1>2, <1>6 DEF DetectDisclosureAnomalies

LEMMA LegalRisksFound ==
    ASSUME NEW texts \in Seq(SUBSET STRING)
    PROVE  DetectLegalRisks(texts) \in Seq(Events)
  <1>1. PICK q1, q2, q3, q4 :
           /\ q1 = Pattern("bankruptcy", {"bankruptcy"})
           /\ q2 = Pattern("rehabilitation", {"rehabilitation", "receivership"})
           /\ q3 = Pattern("auction", {"auction"})
           /\ q4 = Pattern("provisional seizure", {"provisional seizure"})
    OBVIOUS
  <1>2. PICK p : p = <<q1, q2, q3, q4>>
    OBVIOUS
  <1>3. \A c \in CategoryTitles : \A w : Pattern(c, w).title \in SUBSET Words
    <2>1. CategoryTitles \subseteq Words
      BY DEF Words
    <2> QED BY <2>1 DEF Pattern
  <1>4. /\ q1.title \in SUBSET Words /\ q2.title \in SUBSET Words /\ q3.title \in SUBSET Words
        /\ q4.title \in SUBSET Words
    BY <1>1, <1>3 DEF CategoryTitles
  <1>5. DOMAIN p = 1..4 /\ \A k \in 1..4 : p[k].title \in SUBSET Words
    BY <1>2, <1>4
  <1>6. Matches(texts, p, "legal") \in Seq(Events)
    BY <1>5, MatchesFound
  <1> QED BY <1>1, <1>2, <1>6 DEF DetectLegalRisks

\* The answers of the model name articles that exist, or none.
LEMMA SentimentFound ==
    ASSUME NEW articles \in Seq([headline : SUBSET STRING, text : SUBSET STRING]),
           NEW n \in Nat, NEW negative \in [1..n -> -1..Len(articles)],
           n # 0 => articles # <<>>
    PROVE  AnalyzeSentiment(articles, [i \in DOMAIN negative |-> <<negative[i], "negative">>])
             \in Seq(Events)
  <1>1. PICK m, S, R : m = Len(articles) /\ S = SUBSET STRING /\ R = [headline : S, text : S]
    OBVIOUS
  <1>2. m \in Nat /\ (n # 0 => m # 0) /\ \A i \in 1..m : articles[i] \in R
    <2>1. articles \in Seq(R)
      BY <1>1
    <2>2. n # 0 => Len(articles) # 0
      OBVIOUS
    <2> QED BY <1>1, <2>1, <2>2, Elements
  <1>3. \A x \in R : x.headline \in S
    BY <1>1
  <1>4. S \subseteq SUBSET Words
    BY <1>1 DEF Words
  <1>5. ASSUME NEW idx \in -1..m, idx < m, n # 0
        PROVE  <<Event("sentiment", ArticleAt(articles, idx).headline, NoRatio)>> \in Seq(Events)
    <2>1. PICK k : k = IF idx < 0 THEN m + idx + 1 ELSE idx + 1
      OBVIOUS
    <2>2. k \in 1..m
      BY <1>2, <1>5, <2>1
    <2>3. ArticleAt(articles, idx) = articles[k]
      BY <1>1, <2>1 DEF ArticleAt
    <2>4. articles[k].headline \in SUBSET Words
      BY <1>2, <1>3, <1>4, <2>2
    <2> QED BY <2>3, <2>4, EventIs, RatiosAre, OneElement
  <1>6. PICK a : a = [i \in DOMAIN negative |-> <<negative[i], "negative">>]
    OBVIOUS
  <1> DEFINE Found(x) == IF x[1] < Len(articles) /\ x[2] = "negative"
                         THEN <<Event("sentiment", ArticleAt(articles, x[1]).headline, NoRatio)>> ELSE <<>>
  <1>7. DOMAIN a = 1..n /\ \A i \in 1..n : a[i] = <<negative[i], "negative">> /\ negative[i] \in -1..m
    BY <1>1, <1>6
  <1>8. ASSUME NEW i \in 1..n PROVE Found(a[i]) \in Seq(Events)
    <2>1. PICK idx \in -1..m : a[i][1] = idx
      BY <1>7
    <2>2. idx < m => <<Event("sentiment", ArticleAt(articles, idx).headline, NoRatio)>> \in Seq(Events)
      BY <1>5
    <2> QED BY <1>1, <2>1, <2>2, NoElement
  <1>9. PICK f : f = [i \in DOMAIN a |-> Found(a[i])]
    OBVIOUS
  <1>10. f = [i \in 1..n |-> f[i]] /\ \A i \in 1..n : f[i] \in Seq(Events)
    BY <1>7, <1>8, <1>9
  <1>11. FlattenSeq(f) \in Seq(Events)
    BY <1>10, FoundInEach
  <1>12. AnalyzeSentiment(articles, a) = FlattenSeq(f)
    BY <1>9 DEF AnalyzeSentiment
  <1> QED BY <1>6, <1>11, <1>12

LEMMA LatestFigures ==
    ASSUME NEW rows \in Seq(Rows), rows # <<>>
    PROVE  /\ Leverage(Last(rows)) \in Int \X Int /\ Margin(Last(rows)) \in Int \X Int
           /\ (Last(rows).income < 0) \in BOOLEAN
  <1>1. Last(rows) \in Rows
    BY Elements DEF Last
  <1>2. \A r \in Rows : /\ r.liabilities \in Int /\ r.equity \in Int /\ r.operating \in Int
                        /\ r.revenue \in Int
    BY DEF Rows
  <1>3. PICK a, b, c, d \in Int :
           /\ a = Last(rows).liabilities /\ b = Last(rows).equity
           /\ c = Last(rows).operating /\ d = Last(rows).revenue
    BY <1>1, <1>2
  <1>4. Leverage(Last(rows)) = Ratio(a, b) /\ Margin(Last(rows)) = Ratio(c, d)
    BY <1>3 DEF Leverage, Margin
  <1>5. Ratio(a, b) \in Int \X Int /\ Ratio(c, d) \in Int \X Int
    BY RatiosAre
  <1> QED BY <1>4, <1>5

LEMMA AnomaliesFound ==
    ASSUME NEW rows \in Seq(Rows)
    PROVE  /\ DetectFinancialAnomalies(rows).events \in Seq(Events)
           /\ DetectFinancialAnomalies(rows).debt \in Int \X Int
           /\ DetectFinancialAnomalies(rows).margin \in Int \X Int
           /\ DetectFinancialAnomalies(rows).loss \in BOOLEAN
           /\ (\E i \in DOMAIN rows : rows[i].equity < 0)
                 => \E j \in DOMAIN DetectFinancialAnomalies(rows).events :
                       "impaired" \in DetectFinancialAnomalies(rows).events[j].title
  <1>1. PICK a, b, c, d, e : /\ a = Pairs(rows, DebtSpike) /\ b = Pairs(rows, OperatingDrop)
                             /\ c = Pairs(rows, LossTurn) /\ d = Pairs(rows, RevenueDecline)
                             /\ e = Impaired(rows)
    OBVIOUS
  <1>2. /\ a \in Seq(Events) /\ b \in Seq(Events) /\ c \in Seq(Events) /\ d \in Seq(Events)
        /\ e \in Seq(Events)
    BY <1>1, PairsFound, ImpairedIs
  <1>4. PICK f, g : f = a \o b \o c \o d /\ g = f \o e
    OBVIOUS
  <1>3. DetectFinancialAnomalies(rows).events = g
    BY <1>1, <1>4 DEF DetectFinancialAnomalies
  <1>5. f \in Seq(Events)
    BY <1>2, <1>4, Together
  <1>6. g \in Seq(Events) /\ \A i \in DOMAIN e : \E j \in DOMAIN g : g[j] = e[i]
    <2>1. e \in Seq(Events) /\ g = f \o e
      BY <1>2, <1>4
    <2>2. g \in Seq(Events)
      BY <1>5, <2>1, Together
    <2>3. \A i \in DOMAIN e : \E j \in DOMAIN g : g[j] = e[i]
      BY <1>5, <2>1, SecondPart, Zenon
    <2> QED BY <2>2, <2>3
  <1>7. /\ DetectFinancialAnomalies(rows).debt \in Int \X Int
        /\ DetectFinancialAnomalies(rows).margin \in Int \X Int
        /\ DetectFinancialAnomalies(rows).loss \in BOOLEAN
    BY LatestFigures, RatiosAre DEF DetectFinancialAnomalies
  <1>8. (\E i \in DOMAIN rows : rows[i].equity < 0) => \E j \in DOMAIN e : "impaired" \in e[j].title
    BY <1>1, ImpairedIs
  <1> QED BY <1>3, <1>4, <1>6, <1>7, <1>8

LEMMA CountIs ==
    ASSUME NEW events \in Seq(Events), NEW severity
    PROVE  Count(events, severity) \in Nat
  <1>1. PICK T : T = {i \in DOMAIN events : DetermineSeverity(events[i]) = severity}
    OBVIOUS
  <1>2. T \subseteq 1..Len(events) /\ Len(events) \in Nat
    BY <1>1, Elements
  <1>3. IsFiniteSet(T)
    <2>1. IsFiniteSet(1..Len(events))
      BY <1>2, FS_Interval
    <2> QED BY <1>2, <2>1, FS_Subset
  <1> QED BY <1>1, <1>3, FS_CardinalityType DEF Count

Risks ==
    [critical : Nat, high : Nat, medium : Nat, impaired : BOOLEAN, debt : Int \X Int,
     margin : Int \X Int, loss : BOOLEAN, errors : SUBSET Detectors]

LEMMA AggregateIs ==
    ASSUME NEW events \in Seq(Events), NEW financials, financials.debt \in Int \X Int,
           financials.margin \in Int \X Int, financials.loss \in BOOLEAN,
           NEW errors \in SUBSET Detectors
    PROVE  /\ Aggregate(events, financials, errors) \in Risks
           /\ Aggregate(events, financials, errors).errors = errors
           /\ (\E i \in DOMAIN events : "impaired" \in events[i].title)
                 => Aggregate(events, financials, errors).impaired
  <1>1. PICK c, h, m \in Nat : /\ c = Count(events, "critical") /\ h = Count(events, "high")
                              /\ m = Count(events, "medium")
    BY CountIs
  <1>2. PICK b \in BOOLEAN : b = \E i \in DOMAIN events : "impaired" \in events[i].title
    OBVIOUS
  <1>3. PICK P, d, g, l : /\ P = Int \X Int /\ d = financials.debt /\ g = financials.margin
                          /\ l = financials.loss
    OBVIOUS
  <1>4. d \in P /\ g \in P /\ l \in BOOLEAN
    BY <1>3
  <1>5. Aggregate(events, financials, errors) =
            [critical |-> c, high |-> h, medium |-> m, impaired |-> b, debt |-> d, margin |-> g,
             loss |-> l, errors |-> errors]
    BY <1>1, <1>2, <1>3 DEF Aggregate
  <1>6. Risks = [critical : Nat, high : Nat, medium : Nat, impaired : BOOLEAN, debt : P,
                 margin : P, loss : BOOLEAN, errors : SUBSET Detectors]
    BY <1>3 DEF Risks
  <1> QED BY <1>2, <1>4, <1>5, <1>6

\* The output of risk_event, and that it sees an impairment on any stored year.
LEMMA RiskIs ==
    ASSUME company \in Companies, news \in {<<>>, company.news},
           NEW broken \in SUBSET Detectors, NEW negative \in Negatives(broken)
    PROVE  /\ RiskOutput(broken, negative) \in Risks
           /\ RiskOutput(broken, negative).errors = broken
           /\ "financial" \notin broken /\ (\E i \in DOMAIN company.features : company.features[i].equity < 0)
                 => RiskOutput(broken, negative).impaired
  <1>1. /\ company.features \in Seq(Rows) /\ company.disclosures \in Seq(SUBSET STRING)
        /\ company.notices \in Seq(SUBSET STRING)
        /\ company.news \in Seq([headline : SUBSET STRING, text : SUBSET STRING])
    BY CompaniesAssumption
  <1>2. news \in Seq([headline : SUBSET STRING, text : SUBSET STRING])
    BY <1>1, NoElement
  <1>3. PICK answers : answers = [i \in DOMAIN negative |-> <<negative[i], "negative">>]
    OBVIOUS
  <1>4. AnalyzeSentiment(news, answers) \in Seq(Events)
    <2>1. PICK n \in Nat : negative \in [1..n -> -1..Len(news)] /\ (n # 0 => news # <<>>)
      <3>1. CASE negative = <<>>
        <4>1. negative \in [1..0 -> -1..Len(news)]
          BY <3>1
        <4> QED BY <4>1
      <3>2. CASE negative # <<>>
        <4>1. news # <<>> /\ negative \in BoundedSeq(-1..Len(news), 2)
          BY <3>2 DEF Negatives
        <4>2. PICK n \in 0..2 : negative \in [1..n -> -1..Len(news)]
          BY <4>1 DEF BoundedSeq, SeqOf
        <4> QED BY <4>1, <4>2
      <3> QED BY <3>1, <3>2
    <2> QED BY <1>2, <1>3, <2>1, SentimentFound
  <1>5. PICK anomalies : anomalies = IF "financial" \in broken THEN NoFinancialResult
                                     ELSE DetectFinancialAnomalies(company.features)
    OBVIOUS
  <1>6. /\ anomalies.events \in Seq(Events) /\ anomalies.debt \in Int \X Int
        /\ anomalies.margin \in Int \X Int /\ anomalies.loss \in BOOLEAN
    <2>1. CASE "financial" \in broken
      BY <1>5, <2>1, NoElement, RatiosAre DEF NoFinancialResult
    <2>2. CASE "financial" \notin broken
      BY <1>1, <1>5, <2>2, AnomaliesFound
    <2> QED BY <2>1, <2>2
  <1>7. PICK keywords : keywords = IF "keyword" \in broken THEN <<>>
                                   ELSE DetectKeywords(news, company.disclosures)
    OBVIOUS
  <1>8. keywords \in Seq(Events)
    <2>1. DetectKeywords(news, company.disclosures) \in Seq(Events)
      BY <1>1, <1>2, KeywordsFound
    <2> QED BY <1>7, <2>1, NoElement
  <1>9. PICK a, b, c, e : /\ a = AnalyzeSentiment(news, answers)
                          /\ b = DetectDisclosureAnomalies(company.disclosures)
                          /\ c = DetectLegalRisks(company.notices) /\ e = anomalies.events
    OBVIOUS
  <1>10. a \in Seq(Events) /\ b \in Seq(Events) /\ c \in Seq(Events) /\ e \in Seq(Events)
    BY <1>1, <1>4, <1>6, <1>9, DisclosuresFound, LegalRisksFound
  <1>11. PICK f, events : f = keywords \o a \o b \o c /\ events = f \o e
    OBVIOUS
  <1>12. RiskOutput(broken, negative) = Aggregate(events, anomalies, broken)
    BY <1>3, <1>5, <1>7, <1>9, <1>11 DEF RiskOutput
  <1>13. f \in Seq(Events)
    BY <1>8, <1>10, <1>11, Together
  <1>14. events \in Seq(Events)
    BY <1>10, <1>11, <1>13, Together
  <1>15. /\ RiskOutput(broken, negative) \in Risks /\ RiskOutput(broken, negative).errors = broken
         /\ (\E j \in DOMAIN events : "impaired" \in events[j].title)
               => RiskOutput(broken, negative).impaired
    BY <1>6, <1>12, <1>14, AggregateIs
  <1>16. \A i \in DOMAIN e : \E j \in DOMAIN events : events[j] = e[i]
    <2> SUFFICES ASSUME NEW i \in DOMAIN e PROVE \E j \in DOMAIN events : events[j] = e[i]
      OBVIOUS
    <2>1. e \in Seq(Events) /\ events = f \o e
      BY <1>10, <1>11
    <2>2. Len(f) + i \in DOMAIN (f \o e) /\ (f \o e)[Len(f) + i] = e[i]
      BY <1>13, <2>1, SecondPart, Zenon
    <2> QED BY <2>1, <2>2, Zenon
  <1>17. ASSUME "financial" \notin broken, \E i \in DOMAIN company.features : company.features[i].equity < 0
         PROVE  \E j \in DOMAIN events : "impaired" \in events[j].title
    <2>1. e = DetectFinancialAnomalies(company.features).events
      BY <1>5, <1>9, <1>17
    <2>2. PICK i \in DOMAIN e : "impaired" \in e[i].title
      BY <1>1, <1>17, <2>1, AnomaliesFound
    <2> QED BY <1>16, <2>2
  <1> QED BY <1>15, <1>17

LEMMA NoRiskIs == Aggregate(<<>>, NoFinancialResult, {}) \in Risks
  <1>1. /\ NoFinancialResult.debt \in Int \X Int /\ NoFinancialResult.margin \in Int \X Int
        /\ NoFinancialResult.loss \in BOOLEAN
    BY RatiosAre DEF NoFinancialResult
  <1> QED BY <1>1, NoElement, AggregateIs

(* What the financial analyst finds *)

Caps == {"CCC", "B", "B+", "BB+", NoCap}

LEMMA CapsAre == Caps \subseteq Range(GradeOrder) \cup {NoCap}
  <1>1. \A i \in 1..16 : GradeOrder[i] \in Range(GradeOrder)
    BY GradeOrderIs DEF Range
  <1> QED BY <1>1, GradeOrderIs DEF Caps

LEMMA TargetRowIs ==
    ASSUME NEW rows \in Seq(Rows), rows # <<>>, NEW year
    PROVE  /\ SelectTargetRow(rows, year) \in Rows
           /\ \E k \in DOMAIN rows : SelectTargetRow(rows, year) = rows[k]
  <1>1. PICK prior : prior = {i \in DOMAIN rows : rows[i].year <= year}
    OBVIOUS
  <1>2. /\ Len(rows) \in Nat /\ Len(rows) # 0 /\ DOMAIN rows = 1..Len(rows)
        /\ \A i \in 1..Len(rows) : rows[i] \in Rows
    BY Elements
  <1>3. prior \in SUBSET (1..Len(rows))
    BY <1>1, Elements
  <1>4. prior # {} => Max(prior) \in 1..Len(rows)
    BY <1>2, <1>3, MaxIs
  <1>5. SelectTargetRow(rows, year) = rows[IF prior # {} THEN Max(prior) ELSE Len(rows)]
    BY <1>1 DEF SelectTargetRow
  <1> QED BY <1>2, <1>4, <1>5

LEMMA StatementIs ==
    ASSUME NEW row \in Rows
    PROVE  /\ BuildStatement(row).assets \in Int /\ BuildStatement(row).revenue \in Int
           /\ BuildStatement(row).average \in Int /\ BuildStatement(row).equity \in Int
  <1>1. DOMAIN row = {"year", "assets", "equity", "liabilities", "revenue", "operating", "income",
                      "interest", "cashflow", "average", "audit", "external", "vague", "error"}
    BY DEF Rows
  <1>2. /\ row["assets"] \in Int /\ row["revenue"] \in Int /\ row["average"] \in Int
        /\ row["equity"] \in Int
    BY DEF Rows
  <1> QED BY <1>1, <1>2 DEF BuildStatement

LEMMA NoHistory ==
    ASSUME NEW year
    PROVE  TrendAnalysis(<<>>, year).history = <<>>
  <1>1. \A y : {i \in DOMAIN <<>> : <<>>[i].year = y} = {}
    OBVIOUS
  <1>2. History(<<>>, year) = <<>> \o <<>> \o <<>>
    BY <1>1 DEF History
  <1> QED BY <1>2 DEF TrendAnalysis

LEMMA FinancialIs ==
    ASSUME company \in Companies, NEW broken \in SUBSET FinancialTools
    PROVE  LET f == FinancialOutput(broken) IN
           /\ f.cap \in Caps /\ f.statement.assets \in Int /\ f.statement.revenue \in Int
           /\ f.statement.average \in Int /\ f.statement.equity \in Int
           /\ "filters" \notin f.tools => f.cap = ApplyRiskFilters(f.statement, f.trend.history)
           /\ StatementRows(company) = <<>> => f.statement.equity = 0 /\ f.trend.history = <<>>
  <1>1. PICK rows, fs, trend :
           /\ rows = StatementRows(company)
           /\ fs = IF rows # <<>> /\ "statement" \notin broken
                   THEN BuildStatement(SelectTargetRow(rows, target)) ELSE NoStatement
           /\ trend = IF "trend" \in broken THEN NoTrend ELSE TrendAnalysis(rows, target)
    OBVIOUS
  <1>2. rows \in Seq(Rows)
    BY <1>1, CompaniesAssumption DEF StatementRows
  <1>3. PICK f : f = FinancialOutput(broken)
    OBVIOUS
  <1>4. /\ f.statement = fs /\ f.trend = trend
        /\ f.cap = IF "filters" \in broken THEN NoCap ELSE ApplyRiskFilters(fs, trend.history)
        /\ f.tools = broken \cup IF rows # <<>> /\ "statement" \notin broken THEN {}
                                ELSE {"statement", "ratios"}
    BY <1>1, <1>3 DEF FinancialOutput
  <1>5. fs.assets \in Int /\ fs.revenue \in Int /\ fs.average \in Int /\ fs.equity \in Int
    <2>1. CASE rows # <<>> /\ "statement" \notin broken
      BY <1>1, <1>2, <2>1, TargetRowIs, StatementIs
    <2>2. CASE ~(rows # <<>> /\ "statement" \notin broken)
      BY <1>1, <2>2 DEF NoStatement
    <2> QED BY <2>1, <2>2
  <1>6. f.cap \in Caps
    BY <1>4, CapIs DEF Caps
  <1>7. "filters" \notin f.tools => f.cap = ApplyRiskFilters(f.statement, f.trend.history)
    BY <1>4
  <1>8. rows = <<>> => fs.equity = 0 /\ trend.history = <<>>
    BY <1>1, NoHistory DEF NoStatement, NoTrend
  <1> QED BY <1>1, <1>3, <1>4, <1>5, <1>6, <1>7, <1>8
-----------------------------------------------------------------------------
(* The invariant *)

\* An output stays what it is while its agent has not ended with one, or as
\* long as what it was made of stays.
LEMMA NewsKept ==
    ASSUME NewsFollows, news' = news,
           \/ step["news"] # "ok" /\ step'["news"] # "ok"
           \/ step'["news"] = step["news"] /\ company' = company
    PROVE  NewsFollows'
  BY DEF NewsFollows

LEMMA FinancialKept ==
    ASSUME FinancialFollows, financial' = financial,
           \/ step["financial"] # "ok" /\ step'["financial"] # "ok"
           \/ step'["financial"] = step["financial"] /\ company' = company /\ target' = target
    PROVE  FinancialFollows'
  <1>1. company' = company /\ target' = target =>
            \A broken : FinancialOutput(broken)' = FinancialOutput(broken)
    BY DEF FinancialOutput
  <1> QED BY <1>1 DEF FinancialFollows

LEMMA IndustryKept ==
    ASSUME IndustryFollows, industry' = industry,
           \/ step["industry"] # "ok" /\ step'["industry"] # "ok"
           \/ step'["industry"] = step["industry"] /\ financial' = financial
    PROVE  IndustryFollows'
  BY DEF IndustryFollows, IndustryOutput

LEMMA RiskKept ==
    ASSUME RiskFollows, risk' = risk,
           \/ step["risk"] # "ok" /\ step'["risk"] # "ok"
           \/ step'["risk"] = step["risk"] /\ company' = company /\ news' = news
    PROVE  RiskFollows'
  <1>1. CASE step["risk"] # "ok" /\ step'["risk"] # "ok"
    BY <1>1 DEF RiskFollows
  <1>2. CASE step'["risk"] = step["risk"] /\ company' = company /\ news' = news
    BY <1>2 DEF RiskFollows, RiskOutput, Negatives
  <1> QED BY <1>1, <1>2

LEMMA VerdictKept ==
    ASSUME VerdictFollows, verdict' = verdict,
           \/ step["decision"] # "ok" /\ step'["decision"] # "ok"
           \/ step'["decision"] = step["decision"] /\ financial' = financial /\ risk' = risk
    PROVE  VerdictFollows'
  <1>1. financial' = financial /\ risk' = risk => Context' = Context
    BY DEF Context
  <1> QED BY <1>1 DEF VerdictFollows

LEMMA ReportKept ==
    ASSUME ReportFollows, report' = report,
           \/ step["report"] # "ok" /\ step'["report"] # "ok"
           \/ step'["report"] = step["report"] /\ verdict' = verdict
    PROVE  ReportFollows'
  BY DEF ReportFollows

LEMMA ChecksKept ==
    ASSUME ChecksFollow, failed' = failed,
           \/ step["validation"] \notin {"ok", "failed"} /\ step'["validation"] \notin {"ok", "failed"}
           \/ /\ step'["validation"] = step["validation"]
              /\ verdict' = verdict /\ report' = report
    PROVE  ChecksFollow'
  BY DEF ChecksFollow

\* What the end of a step changes, whatever the step leaves.
LEMMA StepMoves ==
    ASSUME AssessmentInv, NEW a \in Agents, NEW r \in {"ok", "failed", "skipped"}, Ready(a),
           step' = [step EXCEPT ![a] = r]
    PROVE  /\ step' \in [Agents -> {"pending", "ok", "failed", "skipped"}] /\ StepsInOrder'
           /\ step[a] = "pending" /\ step'[a] = r
           /\ \A b \in Agents \ {a} : step'[b] = step[b]
           /\ \A b \in Agents : a \in Before(b) => step[b] = "pending" /\ b # a
  <1>1. step \in [Agents -> {"pending", "ok", "failed", "skipped"}] /\ StepsInOrder
    BY DEF AssessmentInv
  <1>2. /\ step[a] = "pending" /\ step'[a] = r
        /\ \A b \in Agents \ {a} : step'[b] = step[b]
        /\ step' \in [Agents -> {"pending", "ok", "failed", "skipped"}]
    BY <1>1 DEF Ready
  <1>3. \A b \in Agents : Before(b) \subseteq Agents /\ b \notin Before(b)
    BY DEF Agents, Before
  <1>4. \A b \in Agents : a \in Before(b) => step[b] = "pending"
    BY <1>1, <1>2 DEF StepsInOrder
  <1>5. ASSUME NEW b \in Agents, step'[b] # "pending", NEW c \in Before(b)
        PROVE  step'[c] # "pending"
    <2>1. CASE b = a
      BY <1>2, <1>3, <2>1 DEF Ready
    <2>2. CASE b # a
      <3>1. step[b] # "pending" /\ step[c] # "pending"
        BY <1>1, <1>2, <1>5, <2>2 DEF StepsInOrder
      <3>2. c # a
        BY <1>2, <3>1
      <3> QED BY <1>2, <1>3, <3>1, <3>2
    <2> QED BY <2>1, <2>2
  <1>6. StepsInOrder'
    BY <1>5 DEF StepsInOrder
  <1> QED BY <1>2, <1>3, <1>4, <1>6

LEMMA ToolsAreFinite ==
    /\ \A broken \in SUBSET FinancialTools : Cardinality(broken) \in Nat
    /\ \A broken \in SUBSET Detectors : Cardinality(broken) \in Nat
  <1>1. \A x, y, z : IsFiniteSet({x, y, z})
    <2> SUFFICES ASSUME NEW x, NEW y, NEW z PROVE IsFiniteSet({x, y, z})
      OBVIOUS
    <2>1. IsFiniteSet({} \cup {x})
      BY FS_EmptySet, FS_AddElement
    <2>2. IsFiniteSet(({} \cup {x}) \cup {y})
      BY <2>1, FS_AddElement
    <2>3. IsFiniteSet((({} \cup {x}) \cup {y}) \cup {z})
      BY <2>2, FS_AddElement
    <2>4. (({} \cup {x}) \cup {y}) \cup {z} = {x, y, z}
      OBVIOUS
    <2> QED BY <2>3, <2>4
  <1>2. IsFiniteSet(FinancialTools) /\ IsFiniteSet(Detectors)
    BY <1>1 DEF FinancialTools, Detectors
  <1> QED BY <1>2, FS_Subset, FS_CardinalityType

\* A step that ends with its output.
LEMMA StepEnds ==
    ASSUME AssessmentInv, NEW a \in Agents, NEW n \in Nat, Ends(a, n),
           company' = company, target' = target, failFast' = failFast
    PROVE  /\ company' \in Companies /\ target' \in Years /\ failFast' \in BOOLEAN
           /\ faults' \in 0..MaxFaults
           /\ step' \in [Agents -> {"pending", "ok", "failed", "skipped"}] /\ StepsInOrder'
           /\ step[a] = "pending" /\ step'[a] = "ok"
           /\ \A b \in Agents \ {a} : step'[b] = step[b]
           /\ \A b \in Agents : a \in Before(b) => step[b] = "pending" /\ b # a
  <1>1. Ready(a) /\ step' = [step EXCEPT ![a] = "ok"]
    BY DEF Ends
  <1>2. faults' = faults + n /\ faults + n <= MaxFaults /\ faults \in 0..MaxFaults
    BY DEF Ends, AssessmentInv
  <1>3. faults' \in 0..MaxFaults
    BY <1>2, FaultsAssumption
  <1>4. company' \in Companies /\ target' \in Years /\ failFast' \in BOOLEAN
    BY DEF AssessmentInv
  <1> QED BY <1>1, <1>3, <1>4, StepMoves

LEMMA AgentsAre ==
    /\ Agents = {"news", "financial", "industry", "risk", "decision", "report", "validation"}
    /\ "news" \in Before("risk") /\ "news" \in Before("decision")
    /\ "financial" \in Before("industry") /\ "financial" \in Before("decision")
    /\ "risk" \in Before("decision") /\ "decision" \in Before("report")
    /\ "decision" \in Before("validation") /\ "report" \in Before("validation")
  BY DEF Agents, Before

LEMMA CollectNewsInv == ASSUME AssessmentInv, CollectNews PROVE AssessmentInv'
  <1>1. PICK n \in Nat : Ends("news", n) /\ news' \in {<<>>, company.news}
    BY DEF CollectNews
  <1>2. /\ company' = company /\ target' = target /\ failFast' = failFast /\ financial' = financial
        /\ industry' = industry /\ risk' = risk /\ verdict' = verdict /\ report' = report
        /\ failed' = failed
    BY DEF CollectNews
  <1>3. /\ company' \in Companies /\ target' \in Years /\ failFast' \in BOOLEAN
        /\ faults' \in 0..MaxFaults
        /\ step' \in [Agents -> {"pending", "ok", "failed", "skipped"}] /\ StepsInOrder'
        /\ step'["news"] = "ok" /\ step[ "risk"] = "pending" /\ step'["risk"] = "pending"
        /\ \A b \in Agents \ {"news"} : step'[b] = step[b]
    BY <1>1, <1>2, StepEnds, AgentsAre
  <1>4. OutputsFollow
    BY DEF AssessmentInv
  <1>5. NewsFollows'
    BY <1>1, <1>2, <1>3 DEF NewsFollows
  <1>6. FinancialFollows' /\ IndustryFollows' /\ VerdictFollows' /\ ReportFollows' /\ ChecksFollow'
    BY <1>2, <1>3, <1>4, AgentsAre, FinancialKept, IndustryKept, VerdictKept, ReportKept, ChecksKept
       DEF OutputsFollow
  <1>7. RiskFollows'
    BY <1>2, <1>3, <1>4, RiskKept DEF OutputsFollow
  <1> QED BY <1>3, <1>5, <1>6, <1>7 DEF AssessmentInv, OutputsFollow

LEMMA AnalyzeFinancialsInv == ASSUME AssessmentInv, AnalyzeFinancials PROVE AssessmentInv'
  <1>1. PICK broken \in SUBSET FinancialTools :
           Ends("financial", Cardinality(broken)) /\ financial' = FinancialOutput(broken)
    BY DEF AnalyzeFinancials
  <1>2. /\ company' = company /\ target' = target /\ failFast' = failFast /\ news' = news
        /\ industry' = industry /\ risk' = risk /\ verdict' = verdict /\ report' = report
        /\ failed' = failed
    BY DEF AnalyzeFinancials
  <1>3. /\ company' \in Companies /\ target' \in Years /\ failFast' \in BOOLEAN
        /\ faults' \in 0..MaxFaults
        /\ step' \in [Agents -> {"pending", "ok", "failed", "skipped"}] /\ StepsInOrder'
        /\ step'["financial"] = "ok"
        /\ step["industry"] = "pending" /\ step["decision"] = "pending"
        /\ \A b \in Agents \ {"financial"} : step'[b] = step[b]
    BY <1>1, <1>2, StepEnds, AgentsAre, ToolsAreFinite
  <1>4. OutputsFollow
    BY DEF AssessmentInv
  <1>5. FinancialFollows'
    <2>1. FinancialOutput(broken)' = FinancialOutput(broken)
      BY <1>2 DEF FinancialOutput
    <2>2. financial' = FinancialOutput(broken)'
      BY <1>1, <2>1
    <2> QED BY <1>3, <2>2 DEF FinancialFollows
  <1>6. NewsFollows' /\ RiskFollows' /\ ReportFollows' /\ ChecksFollow'
    BY <1>2, <1>3, <1>4, AgentsAre, NewsKept, RiskKept, ReportKept, ChecksKept DEF OutputsFollow
  <1>7. IndustryFollows' /\ VerdictFollows'
    BY <1>2, <1>3, <1>4, AgentsAre, IndustryKept, VerdictKept DEF OutputsFollow
  <1> QED BY <1>3, <1>5, <1>6, <1>7 DEF AssessmentInv, OutputsFollow

LEMMA AnalyzeIndustryInv == ASSUME AssessmentInv, AnalyzeIndustry PROVE AssessmentInv'
  <1>1. Ends("industry", 0) /\ \E known \in BOOLEAN : industry' = IndustryOutput(known)
    BY DEF AnalyzeIndustry
  <1>2. /\ company' = company /\ target' = target /\ failFast' = failFast /\ news' = news
        /\ financial' = financial /\ risk' = risk /\ verdict' = verdict /\ report' = report
        /\ failed' = failed
    BY DEF AnalyzeIndustry
  <1>3. /\ company' \in Companies /\ target' \in Years /\ failFast' \in BOOLEAN
        /\ faults' \in 0..MaxFaults
        /\ step' \in [Agents -> {"pending", "ok", "failed", "skipped"}] /\ StepsInOrder'
        /\ step'["industry"] = "ok" /\ \A b \in Agents \ {"industry"} : step'[b] = step[b]
    BY <1>1, <1>2, StepEnds, AgentsAre
  <1>4. OutputsFollow
    BY DEF AssessmentInv
  <1>5. IndustryFollows'
    BY <1>1, <1>2, <1>3 DEF IndustryFollows, IndustryOutput
  <1>6. NewsFollows' /\ FinancialFollows' /\ RiskFollows'
    BY <1>2, <1>3, <1>4, AgentsAre, NewsKept, FinancialKept, RiskKept DEF OutputsFollow
  <1>7. VerdictFollows' /\ ReportFollows' /\ ChecksFollow'
    BY <1>2, <1>3, <1>4, AgentsAre, VerdictKept, ReportKept, ChecksKept DEF OutputsFollow
  <1> QED BY <1>3, <1>5, <1>6, <1>7 DEF AssessmentInv, OutputsFollow

LEMMA DetectRisksInv == ASSUME AssessmentInv, DetectRisks PROVE AssessmentInv'
  <1>1. PICK broken \in SUBSET Detectors :
           /\ Ends("risk", Cardinality(broken))
           /\ \E negative \in Negatives(broken) : risk' = RiskOutput(broken, negative)
    BY DEF DetectRisks
  <1>2. /\ company' = company /\ target' = target /\ failFast' = failFast /\ news' = news
        /\ financial' = financial /\ industry' = industry /\ verdict' = verdict
        /\ report' = report /\ failed' = failed
    BY DEF DetectRisks
  <1>3. /\ company' \in Companies /\ target' \in Years /\ failFast' \in BOOLEAN
        /\ faults' \in 0..MaxFaults
        /\ step' \in [Agents -> {"pending", "ok", "failed", "skipped"}] /\ StepsInOrder'
        /\ step'["risk"] = "ok" /\ step["decision"] = "pending"
        /\ \A b \in Agents \ {"risk"} : step'[b] = step[b]
    BY <1>1, <1>2, StepEnds, AgentsAre, ToolsAreFinite
  <1>4. OutputsFollow
    BY DEF AssessmentInv
  <1>5. RiskFollows'
    <2>1. PICK negative \in Negatives(broken) : risk' = RiskOutput(broken, negative)
      BY <1>1
    <2>2. /\ RiskOutput(broken, negative)' = RiskOutput(broken, negative)
          /\ Negatives(broken)' = Negatives(broken)
      BY <1>2 DEF RiskOutput, Negatives
    <2>3. negative \in Negatives(broken)' /\ risk' = RiskOutput(broken, negative)'
      BY <2>1, <2>2
    <2> QED BY <1>3, <2>3 DEF RiskFollows
  <1>6. NewsFollows' /\ FinancialFollows' /\ IndustryFollows'
    BY <1>2, <1>3, <1>4, AgentsAre, NewsKept, FinancialKept, IndustryKept DEF OutputsFollow
  <1>7. VerdictFollows' /\ ReportFollows' /\ ChecksFollow'
    BY <1>2, <1>3, <1>4, AgentsAre, VerdictKept, ReportKept, ChecksKept DEF OutputsFollow
  <1> QED BY <1>3, <1>5, <1>6, <1>7 DEF AssessmentInv, OutputsFollow

LEMMA DecideInv == ASSUME AssessmentInv, Decide PROVE AssessmentInv'
  <1>1. PICK n \in Nat, t \in ModelTexts \cup {RuleText} :
           Ends("decision", n) /\ verdict' = DecisionOutput(Context, t)
    BY DEF Decide
  <1>2. /\ company' = company /\ target' = target /\ failFast' = failFast /\ news' = news
        /\ financial' = financial /\ industry' = industry /\ risk' = risk /\ report' = report
        /\ failed' = failed
    BY DEF Decide
  <1>3. /\ company' \in Companies /\ target' \in Years /\ failFast' \in BOOLEAN
        /\ faults' \in 0..MaxFaults
        /\ step' \in [Agents -> {"pending", "ok", "failed", "skipped"}] /\ StepsInOrder'
        /\ step'["decision"] = "ok" /\ step["report"] = "pending" /\ step["validation"] = "pending"
        /\ \A b \in Agents \ {"decision"} : step'[b] = step[b]
    BY <1>1, <1>2, StepEnds, AgentsAre
  <1>4. OutputsFollow
    BY DEF AssessmentInv
  <1>5. VerdictFollows'
    <2>1. Context' = Context
      BY <1>2 DEF Context
    <2> QED BY <1>1, <1>3, <2>1 DEF VerdictFollows
  <1>6. NewsFollows' /\ FinancialFollows' /\ IndustryFollows' /\ RiskFollows'
    BY <1>2, <1>3, <1>4, AgentsAre, NewsKept, FinancialKept, IndustryKept, RiskKept
       DEF OutputsFollow
  <1>7. ReportFollows' /\ ChecksFollow'
    BY <1>2, <1>3, <1>4, AgentsAre, ReportKept, ChecksKept DEF OutputsFollow
  <1> QED BY <1>3, <1>5, <1>6, <1>7 DEF AssessmentInv, OutputsFollow

LEMMA WriteReportInv == ASSUME AssessmentInv, WriteReport PROVE AssessmentInv'
  <1>1. Ends("report", 0) /\ report' = BuildReport(verdict)
    BY DEF WriteReport
  <1>2. /\ company' = company /\ target' = target /\ failFast' = failFast /\ news' = news
        /\ financial' = financial /\ industry' = industry /\ risk' = risk /\ verdict' = verdict
        /\ failed' = failed
    BY DEF WriteReport
  <1>3. /\ company' \in Companies /\ target' \in Years /\ failFast' \in BOOLEAN
        /\ faults' \in 0..MaxFaults
        /\ step' \in [Agents -> {"pending", "ok", "failed", "skipped"}] /\ StepsInOrder'
        /\ step'["report"] = "ok" /\ step["validation"] = "pending"
        /\ \A b \in Agents \ {"report"} : step'[b] = step[b]
    BY <1>1, <1>2, StepEnds, AgentsAre
  <1>4. OutputsFollow
    BY DEF AssessmentInv
  <1>5. ReportFollows'
    BY <1>1, <1>2, <1>3 DEF ReportFollows
  <1>6. NewsFollows' /\ FinancialFollows' /\ IndustryFollows' /\ RiskFollows'
    BY <1>2, <1>3, <1>4, AgentsAre, NewsKept, FinancialKept, IndustryKept, RiskKept
       DEF OutputsFollow
  <1>7. VerdictFollows' /\ ChecksFollow'
    BY <1>2, <1>3, <1>4, AgentsAre, VerdictKept, ChecksKept DEF OutputsFollow
  <1> QED BY <1>3, <1>5, <1>6, <1>7 DEF AssessmentInv, OutputsFollow

LEMMA ValidateInv == ASSUME AssessmentInv, Validate PROVE AssessmentInv'
  <1>1. PICK r \in {"ok", "failed"} :
           /\ Ready("validation") /\ step' = [step EXCEPT !["validation"] = r]
           /\ failed' = FailedChecks(verdict, report)
    BY DEF Validate
  <1>2. /\ company' = company /\ target' = target /\ failFast' = failFast /\ news' = news
        /\ financial' = financial /\ industry' = industry /\ risk' = risk /\ verdict' = verdict
        /\ report' = report /\ faults' = faults
    BY DEF Validate
  <1>3. /\ step' \in [Agents -> {"pending", "ok", "failed", "skipped"}] /\ StepsInOrder'
        /\ step'["validation"] \in {"ok", "failed"}
        /\ \A b \in Agents \ {"validation"} : step'[b] = step[b]
    BY <1>1, StepMoves, AgentsAre
  <1>4. OutputsFollow
    BY DEF AssessmentInv
  <1>5. ChecksFollow'
    BY <1>1, <1>2, <1>3 DEF ChecksFollow
  <1>6. NewsFollows' /\ FinancialFollows' /\ IndustryFollows' /\ RiskFollows'
    BY <1>2, <1>3, <1>4, AgentsAre, NewsKept, FinancialKept, IndustryKept, RiskKept
       DEF OutputsFollow
  <1>7. VerdictFollows' /\ ReportFollows'
    BY <1>2, <1>3, <1>4, AgentsAre, VerdictKept, ReportKept DEF OutputsFollow
  <1> QED BY <1>2, <1>3, <1>5, <1>6, <1>7 DEF AssessmentInv, OutputsFollow

\* A step that fails or is skipped leaves nothing.
LEMMA NothingLeftInv ==
    ASSUME AssessmentInv, NEW a \in Agents, NEW r \in {"failed", "skipped"}, Ready(a),
           step' = [step EXCEPT ![a] = r], a = "validation" => r = "skipped",
           faults' \in 0..MaxFaults,
           UNCHANGED <<company, target, failFast, news, financial, industry, risk, verdict, report,
                       failed>>
    PROVE  AssessmentInv'
  <1>1. /\ company' = company /\ target' = target /\ failFast' = failFast /\ news' = news
        /\ financial' = financial /\ industry' = industry /\ risk' = risk /\ verdict' = verdict
        /\ report' = report /\ failed' = failed
    OBVIOUS
  <1>2. /\ step' \in [Agents -> {"pending", "ok", "failed", "skipped"}] /\ StepsInOrder'
        /\ step[a] = "pending" /\ step'[a] = r /\ \A b \in Agents \ {a} : step'[b] = step[b]
    BY StepMoves
  <1>3. \A b \in Agents : \/ step'[b] = step[b]
                          \/ step[b] # "ok" /\ step'[b] # "ok"
    BY <1>2
  <1>4. OutputsFollow
    BY DEF AssessmentInv
  <1>5. NewsFollows' /\ FinancialFollows' /\ IndustryFollows' /\ RiskFollows'
    BY <1>1, <1>3, <1>4, AgentsAre, NewsKept, FinancialKept, IndustryKept, RiskKept
       DEF OutputsFollow
  <1>6. VerdictFollows' /\ ReportFollows'
    BY <1>1, <1>3, <1>4, AgentsAre, VerdictKept, ReportKept DEF OutputsFollow
  <1>7. ChecksFollow'
    <2>1. \/ step'["validation"] = step["validation"]
          \/ step["validation"] \notin {"ok", "failed"} /\ step'["validation"] \notin {"ok", "failed"}
      BY <1>2, AgentsAre
    <2> QED BY <1>1, <1>4, <2>1, ChecksKept DEF OutputsFollow
  <1> QED BY <1>1, <1>2, <1>5, <1>6, <1>7 DEF AssessmentInv, OutputsFollow

LEMMA FailInv == ASSUME AssessmentInv, NEW a \in Agents, Fail(a) PROVE AssessmentInv'
  <1>1. faults' \in 0..MaxFaults
    BY FaultsAssumption DEF Fail, AssessmentInv
  <1> QED BY <1>1, NothingLeftInv DEF Fail

LEMMA SkipInv == ASSUME AssessmentInv, NEW a \in Agents, Skip(a) PROVE AssessmentInv'
  <1>1. faults' \in 0..MaxFaults
    BY DEF Skip, AssessmentInv
  <1> QED BY <1>1, NothingLeftInv DEF Skip

LEMMA StutterInv == ASSUME AssessmentInv, UNCHANGED vars PROVE AssessmentInv'
  <1>1. /\ company' = company /\ target' = target /\ failFast' = failFast /\ news' = news
        /\ financial' = financial /\ industry' = industry /\ risk' = risk /\ verdict' = verdict
        /\ report' = report /\ failed' = failed /\ step' = step /\ faults' = faults
    BY DEF vars
  <1>2. OutputsFollow
    BY DEF AssessmentInv
  <1>3. OutputsFollow'
    BY <1>1, <1>2, NewsKept, FinancialKept, IndustryKept, RiskKept, VerdictKept, ReportKept,
       ChecksKept DEF OutputsFollow
  <1> QED BY <1>1, <1>3 DEF AssessmentInv, StepsInOrder

LEMMA InitAssessmentInv == Init => AssessmentInv
  <1> SUFFICES ASSUME Init PROVE AssessmentInv
    OBVIOUS
  <1>1. \A a \in Agents : step[a] = "pending"
    BY DEF Init
  <1>2. OutputsFollow
    BY <1>1, AgentsAre DEF Init, OutputsFollow, NewsFollows, FinancialFollows, IndustryFollows,
       RiskFollows, VerdictFollows, ReportFollows, ChecksFollow
  <1>3. StepsInOrder
    BY <1>1 DEF StepsInOrder
  <1> QED BY <1>2, <1>3, FaultsAssumption DEF Init, AssessmentInv

LEMMA NextAssessmentInv == AssessmentInv /\ [Next]_vars => AssessmentInv'
  <1> SUFFICES ASSUME AssessmentInv, [Next]_vars PROVE AssessmentInv'
    OBVIOUS
  <1>1. CASE CollectNews      BY <1>1, CollectNewsInv
  <1>2. CASE AnalyzeFinancials BY <1>2, AnalyzeFinancialsInv
  <1>3. CASE AnalyzeIndustry  BY <1>3, AnalyzeIndustryInv
  <1>4. CASE DetectRisks      BY <1>4, DetectRisksInv
  <1>5. CASE Decide           BY <1>5, DecideInv
  <1>6. CASE WriteReport      BY <1>6, WriteReportInv
  <1>7. CASE Validate         BY <1>7, ValidateInv
  <1>8. ASSUME NEW a \in Agents, Fail(a) PROVE AssessmentInv'
    BY <1>8, FailInv
  <1>9. ASSUME NEW a \in Agents, Skip(a) PROVE AssessmentInv'
    BY <1>9, SkipInv
  <1>10. CASE UNCHANGED vars  BY <1>10, StutterInv
  <1> QED BY <1>1, <1>2, <1>3, <1>4, <1>5, <1>6, <1>7, <1>8, <1>9, <1>10 DEF Next, Finished

\* Every output an assessment has is one its agent makes of the outputs before
\* it, or the default of a step that left none.
THEOREM AssessmentInvariant == Spec => []AssessmentInv
  BY InitAssessmentInv, NextAssessmentInv, PTL DEF Spec
-----------------------------------------------------------------------------
(* What follows from it *)

LEMMA FinancialNow ==
    ASSUME AssessmentInv
    PROVE  /\ financial.cap \in Caps /\ financial.statement.assets \in Int
           /\ financial.statement.revenue \in Int /\ financial.statement.average \in Int
           /\ financial.statement.equity \in Int
           /\ step["financial"] = "ok" =>
                 /\ "filters" \notin financial.tools => financial.cap =
                        ApplyRiskFilters(financial.statement, financial.trend.history)
                 /\ StatementRows(company) = <<>> =>
                       financial.statement.equity = 0 /\ financial.trend.history = <<>>
  <1>1. FinancialFollows /\ company \in Companies
    BY DEF AssessmentInv, OutputsFollow
  <1>2. CASE step["financial"] = "ok"
    <2>1. PICK broken \in SUBSET FinancialTools : financial = FinancialOutput(broken)
      BY <1>1, <1>2 DEF FinancialFollows
    <2> QED BY <1>1, <2>1, FinancialIs
  <1>3. CASE step["financial"] # "ok"
    <2>1. financial = NoFinancial
      BY <1>1, <1>3 DEF FinancialFollows
    <2> QED BY <1>3, <2>1 DEF NoFinancial, NoStatement, Caps
  <1> QED BY <1>2, <1>3

LEMMA RiskNow ==
    ASSUME AssessmentInv
    PROVE  /\ risk \in Risks
           /\ step["risk"] = "ok" /\ "financial" \notin risk.errors
              /\ (\E i \in DOMAIN company.features : company.features[i].equity < 0) => risk.impaired
  <1>1. /\ RiskFollows /\ company \in Companies /\ news \in {<<>>, company.news}
    BY DEF AssessmentInv, OutputsFollow, NewsFollows
  <1>2. CASE step["risk"] = "ok"
    <2>1. PICK broken \in SUBSET Detectors : \E negative \in Negatives(broken) :
                  risk = RiskOutput(broken, negative)
      BY <1>1, <1>2 DEF RiskFollows
    <2>2. PICK negative \in Negatives(broken) : risk = RiskOutput(broken, negative)
      BY <2>1
    <2> QED BY <1>1, <2>2, RiskIs
  <1>3. CASE step["risk"] # "ok"
    BY <1>1, <1>3, NoRiskIs DEF RiskFollows
  <1> QED BY <1>2, <1>3

LEMMA ContextIs ==
    ASSUME AssessmentInv
    PROVE  Context \in Contexts
  <1>1. PICK S, P : S = Range(GradeOrder) \cup {NoCap} /\ P = Int \X Int
    OBVIOUS
  <1>2. financial.cap \in S
    BY <1>1, FinancialNow, CapsAre
  <1>3. /\ risk.critical \in Nat /\ risk.high \in Nat /\ risk.medium \in Nat
        /\ risk.impaired \in BOOLEAN /\ risk.debt \in P /\ risk.margin \in P
        /\ risk.loss \in BOOLEAN
    BY <1>1, RiskNow DEF Risks
  <1>4. Contexts = [critical : Nat, high : Nat, medium : Nat, impaired : BOOLEAN, debt : P,
                    margin : P, loss : BOOLEAN, cap : S, assets : Int, revenue : Int,
                    average : Int]
    BY <1>1 DEF Contexts
  <1>5. /\ financial.statement.assets \in Int /\ financial.statement.revenue \in Int
        /\ financial.statement.average \in Int
    BY FinancialNow
  <1> QED BY <1>2, <1>3, <1>4, <1>5 DEF Context

LEMMA VerdictNow ==
    ASSUME AssessmentInv, step["decision"] = "ok"
    PROVE  /\ Context \in Contexts
           /\ verdict.decision = MakeDecision(Context) /\ verdict.limit = RecommendLimit(Context)
           /\ verdict.grade = CalculateGrade(Context) /\ verdict.score = Score(Context)
           /\ verdict.confidence = Confidence(Context)
           /\ \E t \in ModelTexts \cup {RuleText} : verdict = DecisionOutput(Context, t)
  <1>1. \E t \in ModelTexts \cup {RuleText} : verdict = DecisionOutput(Context, t)
    BY DEF AssessmentInv, OutputsFollow, VerdictFollows
  <1> QED BY <1>1, ContextIs DEF DecisionOutput

LEMMA ChecksAre ==
    ASSUME NEW d, NEW r
    PROVE  FailedChecks(d, r) \subseteq
             {"decision", "grade", "confidence", "limit", "report", "summary", "recommendation"}
  BY DEF FailedChecks

\* The types: grades, scores, limits and decisions are what they are declared
\* to be, for every company and every failure.
THEOREM AssessmentTypes == Spec => []TypeOK
  <1>1. AssessmentInv => TypeOK
    <2> SUFFICES ASSUME AssessmentInv PROVE TypeOK
      OBVIOUS
    <2>1. /\ company \in Companies /\ target \in Years /\ failFast \in BOOLEAN
          /\ step \in [Agents -> {"pending", "ok", "failed", "skipped"}]
          /\ faults \in 0..MaxFaults
      BY DEF AssessmentInv
    <2>2. financial.cap \in Range(GradeOrder) \cup {NoCap}
      BY FinancialNow, CapsAre
    <2>3. risk.critical \in Nat /\ risk.high \in Nat /\ risk.medium \in Nat
      BY RiskNow DEF Risks
    <2>4. ASSUME verdict # NoDecision
          PROVE  /\ verdict.grade \in Range(Grades) /\ verdict.score \in 0..100
                 /\ verdict.limit \in 0..500 /\ verdict.decision \in {"approve", "review", "reject"}
      <3>1. step["decision"] = "ok"
        BY <2>4 DEF AssessmentInv, OutputsFollow, VerdictFollows
      <3>2. PICK ctx \in Contexts : ctx = Context
        BY ContextIs
      <3> QED BY <3>1, <3>2, VerdictNow, ScoreIs, DecisionIs, LimitIs
    <2>5. failed \subseteq {"decision", "grade", "confidence", "limit", "report", "summary",
                           "recommendation"}
      BY ChecksAre DEF AssessmentInv, OutputsFollow, ChecksFollow
    <2> QED BY <2>1, <2>2, <2>3, <2>4, <2>5 DEF TypeOK
  <1> QED BY <1>1, AssessmentInvariant, PTL

LEMMA TriggeredCap ==
    ASSUME AssessmentInv, step["financial"] = "ok", "filters" \notin financial.tools,
           NEW f \in Triggered(financial.statement, financial.trend.history)
    PROVE  /\ Context.cap \in {"CCC", "B", "B+", "BB+"}
           /\ Filters[f] # "BB+" => Context.cap \in {"CCC", "B", "B+"}
  <1>1. PICK fs, history : fs = financial.statement /\ history = financial.trend.history
    OBVIOUS
  <1>2. Context.cap = ApplyRiskFilters(fs, history)
    BY <1>1, FinancialNow DEF Context
  <1> QED BY <1>1, <1>2, CapIs

\* A company with negative equity is rejected with limit 0 by whichever of the
\* two guards saw it.
THEOREM ImpairedIsAlwaysRejected == Spec => []ImpairedIsRejected
  <1>1. AssessmentInv => ImpairedIsRejected
    <2> SUFFICES ASSUME AssessmentInv PROVE ImpairedIsRejected
      OBVIOUS
    <2>1. ASSUME Decided, step["risk"] = "ok", "financial" \notin risk.errors,
                 \E i \in DOMAIN company.features : company.features[i].equity < 0
          PROVE  verdict.decision = "reject" /\ verdict.limit = 0
      <3>1. Context.impaired
        BY <2>1, RiskNow DEF Context
      <3> QED BY <2>1, <3>1, VerdictNow, ImpairmentRefuses DEF Decided
    <2>2. ASSUME Decided, step["financial"] = "ok", "filters" \notin financial.tools,
                 financial.statement.equity < 0, ~ThreeYearProfit(financial.trend.history)
          PROVE  verdict.decision = "reject" /\ verdict.limit = 0
      <3>1. 1 \in Triggered(financial.statement, financial.trend.history)
        BY <2>2, FinancialNow, TriggeredIs
      <3>2. Context.cap \in {"CCC", "B", "B+"}
        BY <2>2, <3>1, TriggeredCap, FiltersAre
      <3> QED BY <2>2, <3>2, VerdictNow, CapRefuses DEF Decided
    <2> QED BY <2>1, <2>2 DEF ImpairedIsRejected
  <1> QED BY <1>1, AssessmentInvariant, PTL

\* A company nobody has figures of is not lent to.
THEOREM NoLoanWithoutFigures == Spec => []NoFiguresNoLoan
  <1>1. AssessmentInv => NoFiguresNoLoan
    <2> SUFFICES ASSUME AssessmentInv, Decided, StatementRows(company) = <<>>,
                        step["financial"] = "ok", "filters" \notin financial.tools
                 PROVE  verdict.decision = "reject" /\ verdict.limit = 0
      BY DEF NoFiguresNoLoan
    <2>1. financial.statement.equity = 0 /\ financial.trend.history = <<>>
      BY FinancialNow
    <2>2. ~ThreeYearProfit(<<>>)
      BY DEF ThreeYearProfit, AllOfLast
    <2>3. 1 \in Triggered(financial.statement, financial.trend.history)
      BY <2>1, <2>2, TriggeredIs
    <2>4. Context.cap \in {"CCC", "B", "B+"}
      BY <2>3, TriggeredCap, FiltersAre
    <2> QED BY <2>4, VerdictNow, CapRefuses DEF Decided
  <1> QED BY <1>1, AssessmentInvariant, PTL

\* Every filter that fires decides, not only the one that gave the cap.
THEOREM EveryCapDecides == Spec => []CapsDecide
  <1>1. AssessmentInv => CapsDecide
    <2> SUFFICES ASSUME AssessmentInv, Decided, step["financial"] = "ok",
                        "filters" \notin financial.tools,
                        NEW f \in Triggered(financial.statement, financial.trend.history)
                 PROVE  /\ verdict.decision # "approve"
                        /\ Filters[f] # "BB+" => verdict.decision = "reject"
      BY DEF CapsDecide
    <2>1. /\ Context.cap \in {"CCC", "B", "B+", "BB+"}
          /\ Filters[f] # "BB+" => Context.cap \in {"CCC", "B", "B+"}
      BY TriggeredCap
    <2> QED BY <2>1, VerdictNow, CapReviews, CapRefuses DEF Decided
  <1> QED BY <1>1, AssessmentInvariant, PTL

\* One more event of any severity never raises score or limit and never turns a
\* rejection into something better.
THEOREM EventsNeverHelp == Spec => []MoreEventsNeverHelp
  <1>1. AssessmentInv => MoreEventsNeverHelp
    <2> SUFFICES ASSUME AssessmentInv PROVE MoreEventsNeverHelp
      OBVIOUS
    <2>1. PICK ctx \in Contexts : ctx = Context
      BY ContextIs
    <2>2. ASSUME NEW kind \in {"critical", "high", "medium"}, NEW worse,
                 worse = [ctx EXCEPT ![kind] = ctx[kind] + 1]
          PROVE  /\ Score(worse) <= Score(ctx) /\ RecommendLimit(worse) <= RecommendLimit(ctx)
                 /\ MakeDecision(ctx) = "reject" => MakeDecision(worse) = "reject"
      <3>1. PICK S, P : S = Range(GradeOrder) \cup {NoCap} /\ P = Int \X Int
        OBVIOUS
      <3>2. Contexts = [critical : Nat, high : Nat, medium : Nat, impaired : BOOLEAN, debt : P,
                        margin : P, loss : BOOLEAN, cap : S, assets : Int, revenue : Int,
                        average : Int]
        BY <3>1 DEF Contexts
      <3>3. worse \in Contexts
        BY <2>2, <3>2
      <3>4. Worse(ctx, worse)
        BY <2>2, <3>2 DEF Worse
      <3> QED BY <3>3, <3>4, WorseScore, WorseLimit, WorseDecision
    <2> QED BY <2>1, <2>2 DEF MoreEventsNeverHelp
  <1> QED BY <1>1, AssessmentInvariant, PTL

LEMMA ReportPasses ==
    ASSUME NEW ctx \in Contexts, NEW t, "blank" \notin {t.summary, t.recommendation}
    PROVE  FailedChecks(DecisionOutput(ctx, t), BuildReport(DecisionOutput(ctx, t))) = {}
  <1>1. PICK d : d = DecisionOutput(ctx, t)
    OBVIOUS
  <1>2. /\ d.decision = MakeDecision(ctx) /\ d.limit = RecommendLimit(ctx)
        /\ d.confidence = Confidence(ctx) /\ d.explanation = t
    BY <1>1 DEF DecisionOutput
  <1>3. /\ d.decision # "none" /\ d.confidence \in 0..1000 /\ d.limit \in 0..500
        /\ d.decision = "reject" => d.limit = 0
    BY <1>2, DecisionIs, LimitIs, ConfidenceIs
  <1>4. d # NoDecision
    BY <1>3 DEF NoDecision
  <1>5. PICK r : r = BuildReport(d)
    OBVIOUS
  <1>6. /\ r.decision = d.decision /\ r.grade = d.grade /\ r.confidence = d.confidence
        /\ r.limit = d.limit /\ r.summary = Written(t.summary)
        /\ r.recommendation = Written(t.recommendation)
    BY <1>2, <1>4, <1>5 DEF BuildReport
  <1>7. r # NoDecision
    BY <1>3, <1>6 DEF NoDecision
  <1>8. r.summary # "blank" /\ r.recommendation # "blank"
    BY <1>6 DEF Written
  <1>9. FailedChecks(d, r) = {}
    BY <1>3, <1>4, <1>6, <1>7, <1>8 DEF FailedChecks
  <1> QED BY <1>1, <1>5, <1>9

\* When the validation fails, a step before it failed or the language model
\* wrote white space.
THEOREM FailedValidationHasCause == Spec => []ValidationFailureHasCause
  <1>1. AssessmentInv => ValidationFailureHasCause
    <2> SUFFICES ASSUME AssessmentInv, step["decision"] = "ok", step["report"] = "ok",
                        "blank" \notin {verdict.explanation.summary, verdict.explanation.recommendation}
                 PROVE  failed = {}
      BY DEF ValidationFailureHasCause
    <2>1. PICK t : verdict = DecisionOutput(Context, t)
      BY VerdictNow
    <2>2. PICK ctx \in Contexts : ctx = Context
      BY ContextIs
    <2>3. verdict.explanation = t
      BY <2>1 DEF DecisionOutput
    <2>4. report = BuildReport(verdict)
      BY DEF AssessmentInv, OutputsFollow, ReportFollows
    <2>5. FailedChecks(verdict, report) = {}
      BY <2>1, <2>2, <2>3, <2>4, ReportPasses
    <2> QED BY <2>5 DEF AssessmentInv, OutputsFollow, ChecksFollow
  <1> QED BY <1>1, AssessmentInvariant, PTL
-----------------------------------------------------------------------------
(* The two readings of the figures *)

LEMMA StatementKeeps ==
    ASSUME NEW row \in Rows
    PROVE  LET fs == BuildStatement(row) IN
           /\ fs.year = row.year /\ fs.equity = row.equity /\ fs.liabilities = row.liabilities
           /\ fs.operating = row.operating /\ fs.revenue = row.revenue
           /\ fs.interest = row.interest /\ fs.vague = row.vague
  <1>1. DOMAIN row = {"year", "assets", "equity", "liabilities", "revenue", "operating", "income",
                      "interest", "cashflow", "average", "audit", "external", "vague", "error"}
    BY DEF Rows
  <1> QED BY <1>1 DEF BuildStatement

\* The history is made of rows, one a year, and oldest first.
LEMMA HistoryIs ==
    ASSUME NEW rows \in Seq(Rows), NEW t \in Int, NEW h, h = History(rows, t)
    PROVE  /\ Len(h) \in 0..3 /\ DOMAIN h = 1..Len(h) /\ (h # <<>> => Len(h) # 0)
           /\ \A j \in 1..Len(h) : \E k \in DOMAIN rows : h[j] = HistoryEntry(rows[k])
           /\ \A i, j \in 1..Len(h) : i < j => h[i].year < h[j].year
  <1> DEFINE of(year) == {i \in DOMAIN rows : rows[i].year = year}
  <1> DEFINE Entry(year) == IF of(year) = {} THEN <<>> ELSE <<HistoryEntry(rows[Max(of(year))])>>
  <1>1. ASSUME NEW year, of(year) # {}
        PROVE  Max(of(year)) \in DOMAIN rows /\ rows[Max(of(year))].year = year
    <2>1. PICK T, n : T = of(year) /\ n = Len(rows) /\ n \in Nat /\ DOMAIN rows = 1..n
      BY Elements
    <2>2. T \in SUBSET (1..n) /\ T # {}
      BY <1>1, <2>1
    <2>3. Max(T) \in T
      BY <2>1, <2>2, MaxIs
    <2> QED BY <2>1, <2>3
  <1> DEFINE Of(e, year) == e.year = year /\ \E k \in DOMAIN rows : e = HistoryEntry(rows[k])
  <1>2. ASSUME NEW year PROVE \E e : Entry(year) = <<>> \/ (Entry(year) = <<e>> /\ Of(e, year))
    <2>1. CASE of(year) = {}
      <3>1. Entry(year) = <<>>
        BY <2>1
      <3> HIDE DEF Entry, Of, of
      <3> QED BY <3>1
    <2>2. CASE of(year) # {}
      <3>1. PICK k \in DOMAIN rows : k = Max(of(year)) /\ rows[k].year = year
        BY <1>1, <2>2
      <3>2. Entry(year) = <<HistoryEntry(rows[k])>>
        BY <2>2, <3>1
      <3>3. HistoryEntry(rows[k]).year = year
        BY <3>1 DEF HistoryEntry
      <3> QED BY <3>2, <3>3
    <2> QED BY <2>1, <2>2
  <1>3. h = Entry(t - 2) \o Entry(t - 1) \o Entry(t)
    BY DEF History
  <1> HIDE DEF Entry, Of
  <1>4. PICK a, b, c : a = Entry(t - 2) /\ b = Entry(t - 1) /\ c = Entry(t)
    OBVIOUS
  <1>5. h = a \o b \o c
    BY <1>3, <1>4
  <1>6. PICK x : a = <<>> \/ (a = <<x>> /\ Of(x, t - 2))
    BY <1>2, <1>4
  <1>7. PICK y : b = <<>> \/ (b = <<y>> /\ Of(y, t - 1))
    BY <1>2, <1>4
  <1>8. PICK z : c = <<>> \/ (c = <<z>> /\ Of(z, t))
    BY <1>2, <1>4
  <1>9. /\ Of(x, t - 2) => x.year = t - 2 /\ \E k \in DOMAIN rows : x = HistoryEntry(rows[k])
        /\ Of(y, t - 1) => y.year = t - 1 /\ \E k \in DOMAIN rows : y = HistoryEntry(rows[k])
        /\ Of(z, t) => z.year = t /\ \E k \in DOMAIN rows : z = HistoryEntry(rows[k])
    BY DEF Of
  <1>10. \/ h = <<>>
         \/ h = <<x>> /\ Of(x, t - 2)
         \/ h = <<y>> /\ Of(y, t - 1)
         \/ h = <<z>> /\ Of(z, t)
         \/ h = <<x, y>> /\ Of(x, t - 2) /\ Of(y, t - 1)
         \/ h = <<x, z>> /\ Of(x, t - 2) /\ Of(z, t)
         \/ h = <<y, z>> /\ Of(y, t - 1) /\ Of(z, t)
         \/ h = <<x, y, z>> /\ Of(x, t - 2) /\ Of(y, t - 1) /\ Of(z, t)
    <2>1. \/ a \o b = <<>>
          \/ a \o b = <<x>> /\ Of(x, t - 2)
          \/ a \o b = <<y>> /\ Of(y, t - 1)
          \/ a \o b = <<x, y>> /\ Of(x, t - 2) /\ Of(y, t - 1)
      BY <1>6, <1>7, ShortConcatenations
    <2>2. PICK g : g = a \o b
      OBVIOUS
    <2>3. h = g \o c
      BY <1>5, <2>2
    <2>4. CASE c = <<>>
      BY <2>1, <2>2, <2>3, <2>4, ShortConcatenations
    <2>5. CASE c = <<z>> /\ Of(z, t)
      <3>1. /\ <<>> \o <<z>> = <<z>> /\ <<x>> \o <<z>> = <<x, z>> /\ <<y>> \o <<z>> = <<y, z>>
            /\ <<x, y>> \o <<z>> = <<x, y, z>>
        BY ShortConcatenations
      <3> QED BY <2>1, <2>2, <2>3, <2>5, <3>1
    <2> QED BY <1>8, <2>4, <2>5
  <1>11. CASE h = <<>>
    BY <1>11
  <1>12. CASE h = <<x>> /\ Of(x, t - 2)
    BY <1>9, <1>12
  <1>13. CASE h = <<y>> /\ Of(y, t - 1)
    BY <1>9, <1>13
  <1>14. CASE h = <<z>> /\ Of(z, t)
    BY <1>9, <1>14
  <1>15. CASE h = <<x, y>> /\ Of(x, t - 2) /\ Of(y, t - 1)
    BY <1>9, <1>15
  <1>16. CASE h = <<x, z>> /\ Of(x, t - 2) /\ Of(z, t)
    BY <1>9, <1>16
  <1>17. CASE h = <<y, z>> /\ Of(y, t - 1) /\ Of(z, t)
    BY <1>9, <1>17
  <1>18. CASE h = <<x, y, z>> /\ Of(x, t - 2) /\ Of(y, t - 1) /\ Of(z, t)
    BY <1>9, <1>18
  <1> QED BY <1>10, <1>11, <1>12, <1>13, <1>14, <1>15, <1>16, <1>17, <1>18

\* Rows of different years, oldest first.
Ordered(rows) == \A i, k \in DOMAIN rows : i < k => rows[i].year < rows[k].year

\* A history as long as the table is the table.
LEMMA HistoryIsTable ==
    ASSUME NEW rows \in Seq(Rows), Ordered(rows), NEW t \in Int,
           NEW h, h = History(rows, t), Len(h) = Len(rows)
    PROVE  \A j \in DOMAIN rows : h[j] = HistoryEntry(rows[j])
  <1>1. PICK n : n = Len(rows)
    OBVIOUS
  <1>2. /\ n \in 0..3 /\ Len(h) = n /\ DOMAIN rows = 1..n
        /\ \A j \in 1..n : \E k \in 1..n : h[j] = HistoryEntry(rows[k])
        /\ \A i, j \in 1..n : i < j => h[i].year < h[j].year
    BY <1>1, HistoryIs, Elements
  <1>3. \A k \in 1..n : HistoryEntry(rows[k]).year = rows[k].year /\ rows[k].year \in Int
    <2>1. \A x \in Rows : x.year \in Int
      BY DEF Rows
    <2>2. \A k \in 1..n : rows[k] \in Rows
      BY <1>1, Elements
    <2> QED BY <2>1, <2>2 DEF HistoryEntry
  <1>4. \A i, k \in 1..n : rows[i].year < rows[k].year => i < k
    <2>1. \A i, k \in 1..n : i < k => rows[i].year < rows[k].year
      BY <1>2 DEF Ordered
    <2> SUFFICES ASSUME NEW i \in 1..n, NEW k \in 1..n, rows[i].year < rows[k].year PROVE i < k
      OBVIOUS
    <2>2. PICK a, b \in Int : a = rows[i].year /\ b = rows[k].year
      BY <1>3
    <2>3. (k < i => b < a) /\ (i = k => a = b) /\ a < b
      BY <2>1, <2>2
    <2>4. ~(k < i) /\ i # k
      BY <2>2, <2>3
    <2> QED BY <1>2, <2>4
  <1>5. CASE n = 0
    BY <1>2, <1>5
  <1>6. CASE n = 1
    BY <1>2, <1>6
  <1>7. CASE n = 2
    <2>1. PICK a, b \in 1..2 : h[1] = HistoryEntry(rows[a]) /\ h[2] = HistoryEntry(rows[b])
      BY <1>2, <1>7
    <2>2. a < b
      BY <1>2, <1>3, <1>4, <1>7, <2>1
    <2> QED BY <1>2, <1>7, <2>1, <2>2
  <1>8. CASE n = 3
    <2>1. PICK a, b, c \in 1..3 : /\ h[1] = HistoryEntry(rows[a]) /\ h[2] = HistoryEntry(rows[b])
                                 /\ h[3] = HistoryEntry(rows[c])
      BY <1>2, <1>8
    <2>2. a < b /\ b < c
      BY <1>2, <1>3, <1>4, <1>8, <2>1
    <2> QED BY <1>2, <1>8, <2>1, <2>2
  <1>9. n = 0 \/ n = 1 \/ n = 2 \/ n = 3
    BY <1>2
  <1> QED BY <1>5, <1>6, <1>7, <1>8, <1>9

LEMMA ChangeFlagsAre ==
    ASSUME NEW p, NEW c, NEW y
    PROVE  /\ Flag(y, "debt_ratio_spike") \in ChangeFlags(p, c)
                <=> y = c.year /\ AtLeast(Delta(p.ratios.debt, c.ratios.debt, c.error.debt), 1, 5)
           /\ Flag(y, "revenue_drop") \in ChangeFlags(p, c)
                <=> y = c.year /\ AtMost(Growth(p.revenue, c.revenue), -10, 100)
  <1>1. PICK d, m, r : /\ d = Delta(p.ratios.debt, c.ratios.debt, c.error.debt)
                       /\ m = Delta(p.ratios.margin, c.ratios.margin, c.error.margin)
                       /\ r = Growth(p.revenue, c.revenue)
    OBVIOUS
  <1>2. PICK K : K = (IF AtLeast(d, 1, 5) THEN {"debt_ratio_spike"} ELSE {})
                     \cup (IF AtMost(m, -1, 20) THEN {"op_margin_drop"} ELSE {})
                     \cup (IF AtMost(r, -10, 100) THEN {"revenue_drop"} ELSE {})
                     \cup (IF c.cashflow < 0 THEN {"negative_operating_cashflow"} ELSE {})
    OBVIOUS
  <1>3. ChangeFlags(p, c) = {Flag(c.year, k) : k \in K}
    BY <1>1, <1>2 DEF ChangeFlags
  <1>4. \A k : Flag(y, k) \in ChangeFlags(p, c) <=> y = c.year /\ k \in K
    <2>1. \A k, l : Flag(y, k) = Flag(c.year, l) <=> y = c.year /\ k = l
      BY DEF Flag
    <2> QED BY <1>3, <2>1
  <1>5. "debt_ratio_spike" \in K <=> AtLeast(d, 1, 5)
    BY <1>2
  <1>6. "revenue_drop" \in K <=> AtMost(r, -10, 100)
    BY <1>2
  <1> QED BY <1>1, <1>4, <1>5, <1>6

LEMMA LevelFlagsAre ==
    ASSUME NEW e
    PROVE  /\ \A y : /\ Flag(y, "debt_ratio_spike") \notin LevelFlags(e)
                     /\ Flag(y, "revenue_drop") \notin LevelFlags(e)
           /\ AtLeast(e.ratios.debt, 3, 1) => Flag(e.year, "debt_ratio_danger") \in LevelFlags(e)
           /\ Below(e.ratios.coverage, 3, 2) =>
                 \E k \in {"icr_danger", "icr_caution"} : Flag(e.year, k) \in LevelFlags(e)
  <1>1. PICK c, d : c = e.ratios.coverage /\ d = e.ratios.debt
    OBVIOUS
  <1>2. PICK K : K = (IF Below(c, 1, 1) THEN {"icr_danger"}
                      ELSE IF Below(c, 3, 2) THEN {"icr_caution"} ELSE {})
                     \cup (IF AtLeast(d, 3, 1) THEN {"debt_ratio_danger"}
                           ELSE IF AtLeast(d, 2, 1) THEN {"debt_ratio_caution"} ELSE {})
    OBVIOUS
  <1>3. LevelFlags(e) = {Flag(e.year, k) : k \in K}
    BY <1>1, <1>2 DEF LevelFlags
  <1>4. \A y, k : Flag(y, k) \in LevelFlags(e) <=> y = e.year /\ k \in K
    <2>1. \A y, k, l : Flag(y, k) = Flag(e.year, l) <=> y = e.year /\ k = l
      BY DEF Flag
    <2> QED BY <1>3, <2>1
  <1>5. "debt_ratio_spike" \notin K /\ "revenue_drop" \notin K
    BY <1>2
  <1>6. AtLeast(d, 3, 1) => "debt_ratio_danger" \in K
    BY <1>2
  <1>7. Below(c, 3, 2) => \E k \in {"icr_danger", "icr_caution"} : k \in K
    BY <1>2
  <1> QED BY <1>1, <1>4, <1>5, <1>6, <1>7

LEMMA TrendIs ==
    ASSUME NEW rows, NEW t, NEW h, h = History(rows, t)
    PROVE  TrendAnalysis(rows, t).flags
              = MissingFlags(rows, t) \cup FlagsOfChanges(h) \cup FlagsOfLast(h)
  BY DEF TrendAnalysis

\* A flag of a change is raised by the entry of its year and the one before it.
LEMMA TrendFlagsAre ==
    ASSUME NEW rows \in Seq(Rows), NEW t \in Int, NEW h, h = History(rows, t),
           NEW i \in 1..(Len(h) - 1)
    PROVE  /\ Flag(h[i + 1].year, "debt_ratio_spike") \in TrendAnalysis(rows, t).flags
                <=> AtLeast(Delta(h[i].ratios.debt, h[i + 1].ratios.debt, h[i + 1].error.debt),
                           1, 5)
           /\ Flag(h[i + 1].year, "revenue_drop") \in TrendAnalysis(rows, t).flags
                <=> AtMost(Growth(h[i].revenue, h[i + 1].revenue), -10, 100)
  <1>1. Len(h) \in 0..3 /\ \A k, j \in 1..Len(h) : k < j => h[k].year < h[j].year
    BY HistoryIs
  <1>2. PICK n \in 0..3 : n = Len(h)
    BY <1>1
  <1>3. PICK y : y = h[i + 1].year
    OBVIOUS
  <1>4. \A j \in 1..n : h[j].year \in Int
    <2>1. \A j \in 1..n : \E k \in DOMAIN rows : h[j] = HistoryEntry(rows[k])
      BY <1>2, HistoryIs
    <2>2. \A k \in DOMAIN rows : HistoryEntry(rows[k]).year \in Int
      <3>1. \A x \in Rows : x.year \in Int
        BY DEF Rows
      <3>2. \A k \in DOMAIN rows : rows[k] \in Rows
        BY Elements
      <3> QED BY <3>1, <3>2 DEF HistoryEntry
    <2> QED BY <2>1, <2>2
  <1>5. \A j \in 1..(n - 1) : y = h[j + 1].year <=> j = i
    <2> SUFFICES ASSUME NEW j \in 1..(n - 1), y = h[j + 1].year PROVE j = i
      BY <1>3
    <2>1. PICK a, b \in 1..n : a = i + 1 /\ b = j + 1
      BY <1>2
    <2>2. h[a].year = h[b].year /\ h[a].year \in Int /\ h[b].year \in Int
      BY <1>3, <1>4, <2>1
    <2>3. (a < b => h[a].year < h[b].year) /\ (b < a => h[b].year < h[a].year)
      BY <1>1, <1>2
    <2>4. PICK u, v \in Int : u = h[a].year /\ v = h[b].year
      BY <2>2
    <2>5. ~(a < b) /\ ~(b < a)
      BY <2>2, <2>3, <2>4
    <2> QED BY <2>1, <2>5
  <1>6. PICK M, C, L : M = MissingFlags(rows, t) /\ C = FlagsOfChanges(h) /\ L = FlagsOfLast(h)
    OBVIOUS
  <1>7. TrendAnalysis(rows, t).flags = M \cup C \cup L
    BY <1>6, TrendIs
  <1>8. ASSUME NEW k \in {"debt_ratio_spike", "revenue_drop"}
        PROVE  /\ Flag(y, k) \notin M /\ Flag(y, k) \notin L
               /\ Flag(y, k) \in C <=> Flag(y, k) \in ChangeFlags(h[i], h[i + 1])
    <2>1. \A x : Flag(y, k) # Flag(x, "data_missing")
      BY DEF Flag
    <2>2. Flag(y, k) \notin M
      BY <1>6, <2>1 DEF MissingFlags
    <2>3. Flag(y, k) \notin L
      BY <1>6, LevelFlagsAre DEF FlagsOfLast
    <2>4. \A j \in 1..(n - 1) : Flag(y, k) \in ChangeFlags(h[j], h[j + 1]) => j = i
      <3> SUFFICES ASSUME NEW j \in 1..(n - 1), Flag(y, k) \in ChangeFlags(h[j], h[j + 1])
                   PROVE  j = i
        OBVIOUS
      <3>1. y = h[j + 1].year
        BY ChangeFlagsAre
      <3> QED BY <1>5, <3>1
    <2>5. Flag(y, k) \in C <=> \E j \in 1..(n - 1) : Flag(y, k) \in ChangeFlags(h[j], h[j + 1])
      BY <1>2, <1>6 DEF FlagsOfChanges
    <2> QED BY <1>2, <2>2, <2>3, <2>4, <2>5
  <1>9. PICK p, c : p = h[i] /\ c = h[i + 1]
    OBVIOUS
  <1>10. /\ Flag(y, "debt_ratio_spike") \in ChangeFlags(p, c)
              <=> y = c.year /\ AtLeast(Delta(p.ratios.debt, c.ratios.debt, c.error.debt), 1, 5)
         /\ Flag(y, "revenue_drop") \in ChangeFlags(p, c)
              <=> y = c.year /\ AtMost(Growth(p.revenue, c.revenue), -10, 100)
    BY ChangeFlagsAre
  <1> QED BY <1>3, <1>7, <1>8, <1>9, <1>10

\* With equity that is positive the two leverages are one.
LEMMA SameLeverage ==
    ASSUME NEW row \in Rows, row.equity > 0
    PROVE  HistoryEntry(row).ratios.debt = Leverage(row)
  <1>1. PICK fs : fs = BuildStatement(row)
    OBVIOUS
  <1>2. fs.equity = row.equity /\ fs.liabilities = row.liabilities
    BY <1>1, StatementKeeps
  <1>3. row.equity \in Int
    BY DEF Rows
  <1>4. DebtRatio(fs) = Leverage(row)
    BY <1>2, <1>3 DEF DebtRatio, AtLeastOne, Leverage
  <1> QED BY <1>1, <1>4 DEF HistoryEntry, CalcFinancialRatios

\* The errors decide on nothing but a change that is the threshold.
LEMMA ErrorsDecideTies ==
    ASSUME NEW p \in Int \X Int, NEW c \in Int \X Int, NEW x \in Errors, NEW y \in Errors,
           NEW d, d = Delta(p, c, 0)
    PROVE  \/ AtLeast(Delta(p, c, x), 1, 5) <=> AtLeast(Delta(p, c, y), 1, 5)
           \/ AtLeast(d, 1, 5) /\ AtMost(d, 1, 5)
  <1>1. CASE p = NoRatio \/ c = NoRatio
    BY <1>1 DEF Delta
  <1>2. CASE p # NoRatio /\ c # NoRatio
    <2>1. PICK a, b, g, e \in Int : p = <<a, b>> /\ c = <<g, e>>
      OBVIOUS
    <2>2. PICK m, n \in Int : m = g * b - a * e /\ n = b * e
      OBVIOUS
    <2>3. \A z : Delta(p, c, z) = <<100 * m + z, 100 * n>>
      BY <1>2, <2>1, <2>2 DEF Delta, Grain
    <2>4. x \in {-1, 0, 1} /\ y \in {-1, 0, 1}
      BY DEF Errors
    <2>5. \A z \in {-1, 0, 1} : /\ AtLeast(<<100 * m + z, 100 * n>>, 1, 5)
                                      <=> n > 0 /\ 500 * m + 5 * z >= 100 * n
                                /\ AtMost(<<100 * m + z, 100 * n>>, 1, 5)
                                      <=> n > 0 /\ 500 * m + 5 * z <= 100 * n
      BY DEF AtLeast, AtMost
    <2>6. \A z \in {-1, 0, 1} : 5 * m # n => (500 * m + 5 * z >= 100 * n <=> 5 * m > n)
      OBVIOUS
    <2>7. 5 * m = n => 500 * m + 5 * 0 >= 100 * n /\ 500 * m + 5 * 0 <= 100 * n
      OBVIOUS
    <2> QED BY <2>3, <2>4, <2>5, <2>6, <2>7
  <1> QED BY <1>1, <1>2

LEMMA ChangesAgree ==
    ASSUME NEW rows \in Seq(Rows), Ordered(rows), NEW t \in Int,
           Len(History(rows, t)) = Len(rows), \A k \in DOMAIN rows : rows[k].equity > 0,
           NEW i \in 1..(Len(rows) - 1)
    PROVE  /\ \/ Flag(rows[i + 1].year, "debt_ratio_spike") \in TrendAnalysis(rows, t).flags
                   <=> DebtSpike(rows[i], rows[i + 1]) # <<>>
              \/ TwentyPoints(rows[i], rows[i + 1])
           /\ Flag(rows[i + 1].year, "revenue_drop") \in TrendAnalysis(rows, t).flags
                <=> RevenueDecline(rows[i], rows[i + 1]) # <<>>
  <1>1. PICK h : h = History(rows, t)
    OBVIOUS
  <1>2. Len(h) = Len(rows) /\ i \in 1..(Len(h) - 1) /\ DOMAIN rows = 1..Len(rows) /\ Len(rows) \in Nat
    BY <1>1, Elements
  <1>3. i \in DOMAIN rows /\ i + 1 \in DOMAIN rows
    BY <1>2
  <1>4. PICK p \in Rows, c \in Rows : p = rows[i] /\ c = rows[i + 1]
    BY <1>2, <1>3, Elements
  <1>5. h[i] = HistoryEntry(p) /\ h[i + 1] = HistoryEntry(c)
    BY <1>1, <1>2, <1>3, <1>4, HistoryIsTable
  <1>6. /\ Flag(h[i + 1].year, "debt_ratio_spike") \in TrendAnalysis(rows, t).flags
             <=> AtLeast(Delta(h[i].ratios.debt, h[i + 1].ratios.debt, h[i + 1].error.debt),
                           1, 5)
        /\ Flag(h[i + 1].year, "revenue_drop") \in TrendAnalysis(rows, t).flags
             <=> AtMost(Growth(h[i].revenue, h[i + 1].revenue), -10, 100)
    BY <1>1, <1>2, TrendFlagsAre
  <1>7. /\ h[i + 1].year = c.year /\ h[i].revenue = p.revenue /\ h[i + 1].revenue = c.revenue
        /\ h[i + 1].error = c.error
    BY <1>5 DEF HistoryEntry
  <1>8. h[i].ratios.debt = Leverage(p) /\ h[i + 1].ratios.debt = Leverage(c)
    BY <1>3, <1>4, <1>5, SameLeverage
  <1>9. DebtSpike(p, c) # <<>> <=> AtLeast(Delta(Leverage(p), Leverage(c), c.error.leverage), 1, 5)
    BY DEF DebtSpike, Anomaly
  <1>10. RevenueDecline(p, c) # <<>> <=> AtMost(Growth(p.revenue, c.revenue), -10, 100)
    BY DEF RevenueDecline, Anomaly
  <1>11. \/ AtLeast(Delta(Leverage(p), Leverage(c), c.error.debt), 1, 5)
               <=> AtLeast(Delta(Leverage(p), Leverage(c), c.error.leverage), 1, 5)
         \/ TwentyPoints(p, c)
    <2>1. \A r \in Rows : Leverage(r) \in Int \X Int
      <3>1. \A r \in Rows : r.liabilities \in Int /\ r.equity \in Int
        BY DEF Rows
      <3> QED BY <3>1, RatiosAre DEF Leverage
    <2>2. PICK u \in Int \X Int, v \in Int \X Int : u = Leverage(p) /\ v = Leverage(c)
      BY <2>1
    <2>3. PICK x, y \in Errors : x = c.error.debt /\ y = c.error.leverage
      BY ErrorsAre
    <2>4. PICK d : d = Delta(u, v, 0)
      OBVIOUS
    <2>5. \/ AtLeast(Delta(u, v, x), 1, 5) <=> AtLeast(Delta(u, v, y), 1, 5)
          \/ AtLeast(d, 1, 5) /\ AtMost(d, 1, 5)
      BY <2>4, ErrorsDecideTies
    <2> QED BY <2>2, <2>3, <2>4, <2>5 DEF TwentyPoints
  <1> QED BY <1>4, <1>6, <1>7, <1>8, <1>9, <1>10, <1>11

\* The last entry of a history is that of the target row, if it is of its year.
LEMMA LatestIsTarget ==
    ASSUME NEW rows \in Seq(Rows), Ordered(rows), NEW t \in Int, NEW h, h = History(rows, t),
           h # <<>>, rows # <<>>, BuildStatement(SelectTargetRow(rows, t)).year = Last(h).year
    PROVE  SelectTargetRow(rows, t) \in Rows /\ Last(h) = HistoryEntry(SelectTargetRow(rows, t))
  <1>1. PICK k \in DOMAIN rows : SelectTargetRow(rows, t) = rows[k]
    BY TargetRowIs
  <1>2. PICK n : n = Len(h)
    OBVIOUS
  <1>3. /\ n \in 0..3 /\ DOMAIN h = 1..n /\ Last(h) = h[n]
        /\ \A j \in 1..n : \E i \in DOMAIN rows : h[j] = HistoryEntry(rows[i])
    <2>1. Last(h) = h[n]
      BY <1>2 DEF Last
    <2>2. /\ Len(h) \in 0..3 /\ DOMAIN h = 1..Len(h)
          /\ \A j \in 1..Len(h) : \E i \in DOMAIN rows : h[j] = HistoryEntry(rows[i])
      BY HistoryIs
    <2> QED BY <1>2, <2>1, <2>2
  <1>4. n # 0
    BY <1>2, HistoryIs
  <1>5. PICK j \in DOMAIN rows : Last(h) = HistoryEntry(rows[j])
    BY <1>3, <1>4
  <1>6. \A i \in DOMAIN rows : rows[i] \in Rows /\ rows[i].year \in Int
    <2>1. \A x \in Rows : x.year \in Int
      BY DEF Rows
    <2> QED BY <2>1, Elements
  <1>7. rows[k].year = rows[j].year
    <2>1. BuildStatement(rows[k]).year = rows[k].year
      BY <1>6, StatementKeeps
    <2>2. HistoryEntry(rows[j]).year = rows[j].year
      BY DEF HistoryEntry
    <2> QED BY <1>1, <1>5, <2>1, <2>2
  <1>8. k = j
    <2>1. PICK a, b \in Int : a = rows[k].year /\ b = rows[j].year
      BY <1>6
    <2>2. (k < j => a < b) /\ (j < k => b < a) /\ k \in Nat /\ j \in Nat
      BY <2>1, Elements DEF Ordered
    <2> QED BY <1>7, <2>1, <2>2
  <1> QED BY <1>1, <1>5, <1>6, <1>8

\* The first threshold that holds gives the class; the last class is that of
\* the last threshold.
LEMMA LastClass ==
    ASSUME NEW r, NEW thresholds, Len(thresholds) = 6,
           \A i \in 1..5 : thresholds[i][4] # "B",
           LookupGrade(r, thresholds) = "B"
    PROVE  LET Holds(t) == CASE t[1] = "gte" -> AtLeast(r, t[2], t[3])
                             [] t[1] = "gt"  -> Above(r, t[2], t[3])
                             [] t[1] = "lte" -> AtMost(r, t[2], t[3])
                             [] OTHER        -> Below(r, t[2], t[3])
           IN  Holds(thresholds[6]) \/ \A i \in 1..6 : ~Holds(thresholds[i])
  <1> DEFINE Holds(t) == CASE t[1] = "gte" -> AtLeast(r, t[2], t[3])
                           [] t[1] = "gt"  -> Above(r, t[2], t[3])
                           [] t[1] = "lte" -> AtMost(r, t[2], t[3])
                           [] OTHER        -> Below(r, t[2], t[3])
  <1>1. PICK I : I = {i \in 1..Len(thresholds) : Holds(thresholds[i])}
    OBVIOUS
  <1>2. PICK k : k = IF I # {} THEN Min(I) ELSE 0
    OBVIOUS
  <1>3. LookupGrade(r, thresholds) = IF k = 0 THEN "B" ELSE thresholds[k][4]
    BY <1>1, <1>2 DEF LookupGrade, SelectInSeq
  <1> HIDE DEF Holds
  <1>4. I # {} => k \in I
    <2>1. I \in SUBSET Nat
      BY <1>1
    <2> QED BY <1>2, <2>1, MinIs
  <1>5. k = 0 => \A i \in 1..6 : ~Holds(thresholds[i])
    BY <1>1, <1>2, <1>4
  <1>6. k # 0 => k \in 1..6 /\ Holds(thresholds[k])
    BY <1>1, <1>2, <1>4
  <1>7. k # 0 => k = 6
    BY <1>3, <1>6
  <1>8. Holds(thresholds[6]) \/ \A i \in 1..6 : ~Holds(thresholds[i])
    BY <1>5, <1>6, <1>7
  <1> QED BY <1>8 DEF Holds

LEMMA DebtClass ==
    ASSUME NEW n \in Int, NEW d \in Int, d > 0, LookupGrade(<<n, d>>, DebtThresholds) = "B"
    PROVE  AtLeast(<<n, d>>, 3, 1)
  <1>1. PICK r, T : r = <<n, d>> /\ T = DebtThresholds
    OBVIOUS
  <1>2. /\ Len(T) = 6 /\ T[5] = <<"lte", 300, 100, "BB">> /\ T[6] = <<"gt", 300, 100, "B">>
        /\ \A i \in 1..5 : T[i][4] # "B"
    BY <1>1 DEF DebtThresholds
  <1>3. Above(r, 300, 100) \/ ~AtMost(r, 300, 100)
    BY <1>1, <1>2, LastClass
  <1> QED BY <1>1, <1>3 DEF Above, AtMost, AtLeast

LEMMA CoverageClass ==
    ASSUME NEW n \in Int, NEW d \in Int, d > 0, LookupGrade(<<n, d>>, CoverageThresholds) = "B"
    PROVE  Below(<<n, d>>, 3, 2)
  <1>1. PICK r, T : r = <<n, d>> /\ T = CoverageThresholds
    OBVIOUS
  <1>2. /\ Len(T) = 6 /\ T[5] = <<"gte", 3, 2, "BB">> /\ T[6] = <<"lt", 3, 2, "B">>
        /\ \A i \in 1..5 : T[i][4] # "B"
    BY <1>1 DEF CoverageThresholds
  <1>3. Below(r, 3, 2) \/ ~AtLeast(r, 3, 2)
    BY <1>1, <1>2, LastClass
  <1> QED BY <1>1, <1>3 DEF Below, AtLeast

\* What the methodology puts into its last class the trend flags.
LEMMA LastClassIsFlagged ==
    ASSUME NEW row \in Rows
    PROVE  LET ratios == CalcFinancialRatios(BuildStatement(row))
               grades == CalcKrFinancialGrades(ratios) IN
           /\ grades.debt = "B" => AtLeast(ratios.debt, 3, 1)
           /\ grades.coverage = "B" => Below(ratios.coverage, 3, 2)
  <1>1. PICK fs : fs = BuildStatement(row)
    OBVIOUS
  <1>2. /\ fs.equity = row.equity /\ fs.liabilities = row.liabilities
        /\ fs.operating = row.operating /\ fs.interest = row.interest
    BY <1>1, StatementKeeps
  <1>3. /\ row.equity \in Int /\ row.liabilities \in Int /\ row.operating \in Int
        /\ row.interest \in Int
    BY DEF Rows
  <1>4. PICK e, l, o, i \in Int : /\ e = fs.equity /\ l = fs.liabilities /\ o = fs.operating
                                  /\ i = fs.interest
    BY <1>2, <1>3
  <1>5. PICK d \in Int : d > 0 /\ d = AtLeastOne(e)
    BY DEF AtLeastOne
  <1>6. PICK ratios, grades : /\ ratios = CalcFinancialRatios(fs)
                              /\ grades = CalcKrFinancialGrades(ratios)
    OBVIOUS
  <1>7. ratios.debt = <<l, d>>
    BY <1>4, <1>5, <1>6 DEF CalcFinancialRatios, DebtRatio, Ratio
  <1>8. grades.debt = "B" => AtLeast(ratios.debt, 3, 1)
    BY <1>5, <1>6, <1>7, DebtClass DEF CalcKrFinancialGrades
  <1>9. ASSUME grades.coverage = "B" PROVE Below(ratios.coverage, 3, 2)
    <2>1. ratios.ebitda # NoRatio /\ LookupGrade(ratios.ebitda, CoverageThresholds) = "B"
      BY <1>6, <1>9 DEF CalcKrFinancialGrades, NoCap
    <2>2. ratios.ebitda = EbitdaToInterest(fs) /\ ratios.coverage = InterestCoverage(fs)
      BY <1>6 DEF CalcFinancialRatios
    <2>3. i > 0 /\ o > 0
      BY <1>4, <2>1, <2>2 DEF EbitdaToInterest, InterestCoverage
    <2>4. ratios.ebitda = <<o, i>> /\ ratios.coverage = <<o, i>>
      BY <1>4, <2>2, <2>3 DEF EbitdaToInterest, InterestCoverage, Ratio
    <2> QED BY <2>1, <2>3, <2>4, CoverageClass
  <1> QED BY <1>1, <1>6, <1>8, <1>9

\* Two agents judge the same figures with thresholds of their own and agree, for
\* every company and whatever the rounding of its changes, but on a leverage that
\* went up by twenty points sharp.
THEOREM SignalsAlwaysAgree == Spec => []SignalsAgree
  <1>1. AssessmentInv => SignalsAgree
    <2> SUFFICES ASSUME AssessmentInv, step["financial"] = "ok", "trend" \notin financial.tools
                 PROVE  SignalsAgree
      BY DEF SignalsAgree
    <2>1. PICK broken \in SUBSET FinancialTools : financial = FinancialOutput(broken)
      BY DEF AssessmentInv, OutputsFollow, FinancialFollows
    <2>2. PICK rows, fs, found : /\ rows = StatementRows(company)
                                 /\ found = (rows # <<>> /\ "statement" \notin broken)
                                 /\ fs = IF found THEN BuildStatement(SelectTargetRow(rows, target))
                                         ELSE NoStatement
      OBVIOUS
    <2>3. /\ financial.tools = broken \cup IF found THEN {} ELSE {"statement", "ratios"}
          /\ financial.trend = IF "trend" \in broken THEN NoTrend ELSE TrendAnalysis(rows, target)
          /\ financial.statement = fs
          /\ financial.ratios = IF found THEN CalcFinancialRatios(fs) ELSE NoRatios
      BY <2>1, <2>2 DEF FinancialOutput
    <2>4. financial.trend = TrendAnalysis(rows, target)
      BY <2>3
    <2>5. target \in Int /\ rows \in Seq(Rows) /\ Ordered(rows)
      BY <2>2, CompaniesAssumption, YearsAssumption DEF AssessmentInv, StatementRows, Ordered
    <2>6. PICK h : h = History(rows, target)
      OBVIOUS
    <2>7. financial.trend.history = h
      BY <2>4, <2>6 DEF TrendAnalysis
    <2>8. ASSUME company.detail = <<>>, Len(h) = Len(company.features),
                 \A i \in DOMAIN company.features : company.features[i].equity > 0,
                 NEW i \in 1..(Len(company.features) - 1)
          PROVE  LET p == company.features[i] c == company.features[i + 1] IN
                 /\ \/ Flag(c.year, "debt_ratio_spike") \in financial.trend.flags
                         <=> DebtSpike(p, c) # <<>>
                    \/ TwentyPoints(p, c)
                 /\ Flag(c.year, "revenue_drop") \in financial.trend.flags <=> RevenueDecline(p, c) # <<>>
      <3>1. rows = company.features
        BY <2>2, <2>8 DEF StatementRows
      <3> QED BY <2>4, <2>5, <2>6, <2>8, <3>1, ChangesAgree
    <2>9. ASSUME industry # NoGrades, h # <<>>, fs.year = Last(h).year
          PROVE  /\ industry.debt = "B" =>
                       Flag(Last(h).year, "debt_ratio_danger") \in financial.trend.flags
                 /\ industry.coverage = "B" =>
                       \E k \in {"icr_danger", "icr_caution"} :
                          Flag(Last(h).year, k) \in financial.trend.flags
      <3>1. /\ industry = CalcKrFinancialGrades(financial.ratios)
            /\ financial.ratios # NoRatios
        BY <2>9 DEF AssessmentInv, OutputsFollow, IndustryFollows, IndustryOutput
      <3>2. found
        BY <2>3, <3>1
      <3>3. PICK row \in Rows : row = SelectTargetRow(rows, target) /\ Last(h) = HistoryEntry(row)
        BY <2>2, <2>5, <2>6, <2>9, <3>2, LatestIsTarget
      <3>4. PICK e : e = Last(h)
        OBVIOUS
      <3>5. e.ratios = financial.ratios
        BY <2>2, <2>3, <3>2, <3>3, <3>4 DEF HistoryEntry
      <3>6. /\ industry.debt = "B" => AtLeast(e.ratios.debt, 3, 1)
            /\ industry.coverage = "B" => Below(e.ratios.coverage, 3, 2)
        BY <2>2, <2>3, <3>1, <3>2, <3>3, <3>5, LastClassIsFlagged
      <3>7. LevelFlags(e) \subseteq financial.trend.flags
        BY <2>4, <2>5, <2>6, <2>9, <3>4, TrendIs DEF FlagsOfLast
      <3> QED BY <3>4, <3>6, <3>7, LevelFlagsAre
    <2> QED BY <2>3, <2>7, <2>8, <2>9 DEF SignalsAgree
  <1> QED BY <1>1, AssessmentInvariant, PTL
=============================================================================
