---------------------------- MODULE Rules_proofs ----------------------------
(***************************************************************************)
(* Proofs about the rules without state that the three stores and the       *)
(* report page apply: how a methodology is cut and its chunks are ranked,    *)
(* which sentences of an article are kept, how figures are compared, and    *)
(* what the page shows of events and reasons.  Each is proved for every     *)
(* input, not only for those an instance lists.                             *)
(***************************************************************************)
EXTENDS MCStores, SequenceFacts, FiniteSetTheorems, TLAPS

(* Figures *)

LEMMA Ranks ==
    /\ Rank("worse") = 1 /\ Rank("High") = 1
    /\ Rank("in-line") = 2 /\ Rank("Medium") = 2 /\ Rank("n/a") = 2
    /\ Rank("better") = 3 /\ Rank("Low") = 3
  BY DEF Rank

\* The verdicts of the two kinds of figures, and the outlook on series that are there.
HighVerdict(x, a, t) == Compare(<<x>>, <<a>>, FALSE, t)
LowVerdict(x, a, t)  == Compare(<<x>>, <<a>>, TRUE, t)
SeriesOutlook(i, x, s) == Outlook(i, TRUE, <<x>>, <<s>>)

\* The verdict on a figure x against an average a above zero, as its rank.
LEMMA Verdict ==
    ASSUME NEW x \in Int, NEW a \in Int, a > 0, NEW t \in {10, 25}, NEW v, NEW w,
           v = HighVerdict(x, a, t), w = LowVerdict(x, a, t)
    PROVE  /\ Rank(v) = IF x * 100 < (100 - t) * a THEN 1
                        ELSE IF x * 100 > (100 + t) * a THEN 3 ELSE 2
           /\ Rank(w) = IF x * 100 < (100 - t) * a THEN 3
                        ELSE IF x * 100 > (100 + t) * a THEN 1 ELSE 2
<1>1. /\ <<x>> # <<>> /\ <<a>> # <<>> /\ <<a>> # <<0>>
      /\ <<x>>[1] = x /\ <<a>>[1] = a
  OBVIOUS
<1>2. /\ v = CASE x * 100 < (100 - t) * a -> "worse"
               [] x * 100 > (100 + t) * a -> "better"
               [] OTHER -> "in-line"
      /\ w = CASE x * 100 < (100 - t) * a -> "better"
               [] x * 100 > (100 + t) * a -> "worse"
               [] OTHER -> "in-line"
  BY <1>1 DEF Compare, HighVerdict, LowVerdict
<1>3. ~(x * 100 < (100 - t) * a /\ x * 100 > (100 + t) * a)
  <2>1. CASE t = 10
    BY <2>1
  <2>2. CASE t = 25
    BY <2>2
  <2>. QED BY <2>1, <2>2
<1>. QED BY <1>2, <1>3, Ranks

LEMMA VerdictsKeepOrder ==
    ASSUME NEW a \in Int, a > 0, NEW x \in Int, NEW y \in Int, NEW t \in {10, 25}, x <= y
    PROVE  /\ Rank(HighVerdict(x, a, t)) <= Rank(HighVerdict(y, a, t))
           /\ Rank(LowVerdict(y, a, t)) <= Rank(LowVerdict(x, a, t))
<1>1. PICK l, h : l = (100 - t) * a /\ h = (100 + t) * a
  OBVIOUS
<1>2. l \in Int /\ h \in Int /\ l < h
  <2>1. CASE t = 10
    BY <1>1, <2>1
  <2>2. CASE t = 25
    BY <1>1, <2>2
  <2>. QED BY <2>1, <2>2
<1>3. PICK v, w, p, q :
         /\ v = HighVerdict(x, a, t) /\ w = LowVerdict(x, a, t)
         /\ p = HighVerdict(y, a, t) /\ q = LowVerdict(y, a, t)
  OBVIOUS
<1>4. /\ Rank(v) = IF x * 100 < l THEN 1 ELSE IF x * 100 > h THEN 3 ELSE 2
      /\ Rank(w) = IF x * 100 < l THEN 3 ELSE IF x * 100 > h THEN 1 ELSE 2
  BY <1>1, <1>3, Verdict
<1>5. /\ Rank(p) = IF y * 100 < l THEN 1 ELSE IF y * 100 > h THEN 3 ELSE 2
      /\ Rank(q) = IF y * 100 < l THEN 3 ELSE IF y * 100 > h THEN 1 ELSE 2
  BY <1>1, <1>3, Verdict
<1>6. Rank(v) <= Rank(p) /\ Rank(q) <= Rank(w)
  BY <1>2, <1>4, <1>5
<1>. QED BY <1>3, <1>6

LEMMA OutlooksKeepOrder ==
    ASSUME NEW i \in Industries, NEW x \in Int, NEW y \in Int, NEW s \in Int, NEW u \in Int,
           x <= y, u <= s, NEW p, NEW q,
           p = SeriesOutlook(i, x, s), q = SeriesOutlook(i, y, u)
    PROVE  Rank(p) <= Rank(q)
<1>1. /\ <<x>> # <<>> /\ <<y>> # <<>> /\ <<s>> # <<>> /\ <<u>> # <<>>
      /\ <<x>>[1] = x /\ <<y>>[1] = y /\ <<s>>[1] = s /\ <<u>>[1] = u
  OBVIOUS
<1>2. CASE i \in {"manufacturing", "mining"}
  <2>1. /\ p = StocksScore(x, s)
        /\ q = StocksScore(y, u)
    BY <1>1, <1>2 DEF Outlook, SeriesOutlook, OrZero, Services
  <2>2. Rank(StocksScore(x, s)) <= Rank(StocksScore(y, u))
    BY Ranks DEF StocksScore
  <2>. QED BY <2>1, <2>2
<1>3. CASE i \in Services \cup {"construction", "farming"}
  <2>1. /\ p = ScoreFromYoy(<<x>>)
        /\ q = ScoreFromYoy(<<y>>)
    BY <1>3 DEF Outlook, SeriesOutlook, Services
  <2>2. /\ ScoreFromYoy(<<x>>) = IF x >= 3 THEN "Low" ELSE IF x < -3 THEN "High" ELSE "Medium"
        /\ ScoreFromYoy(<<y>>) = IF y >= 3 THEN "Low" ELSE IF y < -3 THEN "High" ELSE "Medium"
    BY <1>1 DEF ScoreFromYoy
  <2>. QED BY <2>1, <2>2, Ranks
<1>4. CASE i \notin Services \cup {"manufacturing", "mining", "construction", "farming"}
  <2>1. /\ p = "Medium"
        /\ q = "Medium"
    BY <1>4 DEF Outlook, SeriesOutlook
  <2>. QED BY <2>1, Ranks
<1>. QED BY <1>2, <1>3, <1>4

\* The verdicts on figures are ordered as the figures are, whatever whole percents
\* they are and against every average above zero: of _compare, _score_from_yoy and
\* the scores of the series, the thresholds neither overlap nor leave a hole.
THEOREM FiguresAlwaysKeepOrder == FiguresKeepOrder(Int, Nat \ {0})
<1>1. \A a \in Nat \ {0}, x, y \in Int, t \in {10, 25} : x <= y =>
         /\ Rank(Compare(<<x>>, <<a>>, FALSE, t)) <= Rank(Compare(<<y>>, <<a>>, FALSE, t))
         /\ Rank(Compare(<<y>>, <<a>>, TRUE, t)) <= Rank(Compare(<<x>>, <<a>>, TRUE, t))
  <2>1. \A a \in Nat \ {0}, x, y \in Int, t \in {10, 25} : x <= y =>
           /\ Rank(HighVerdict(x, a, t)) <= Rank(HighVerdict(y, a, t))
           /\ Rank(LowVerdict(y, a, t)) <= Rank(LowVerdict(x, a, t))
    BY VerdictsKeepOrder
  <2>. QED BY <2>1, Zenon DEF HighVerdict, LowVerdict
<1>2. \A i \in Industries, x, y, s, u \in Int : x <= y /\ u <= s =>
         Rank(Outlook(i, TRUE, <<x>>, <<s>>)) <= Rank(Outlook(i, TRUE, <<y>>, <<u>>))
  <2>1. \A i \in Industries, x, y, s, u \in Int : x <= y /\ u <= s =>
           Rank(SeriesOutlook(i, x, s)) <= Rank(SeriesOutlook(i, y, u))
    BY OutlooksKeepOrder
  <2>. QED BY <2>1, Zenon DEF SeriesOutlook
<1>. QED BY <1>1, <1>2 DEF FiguresKeepOrder

LEMMA FigureRulesHold == FigureRules
<1>1. Figures \subseteq Int /\ {a \in Averages : a > 0} \subseteq Nat \ {0}
  BY DEF Figures, Averages
<1>. QED BY <1>1, FiguresAlwaysKeepOrder DEF FigureRules, FiguresKeepOrder
-----------------------------------------------------------------------------
(* The sentences of an article *)

\* A chain ends at a start of one, or goes on from the place before.
LEMMA Chains ==
    ASSUME NEW n \in Nat, NEW starts \in SUBSET (1..n), NEW goesOn, NEW F,
           F = {i \in 1..n : \E j \in starts : j <= i /\ \A k \in (j + 1)..i : k \in goesOn}
    PROVE  \A m \in 1..n : m \in F <=> m \in starts \/ (m - 1 \in F /\ m \in goesOn)
<1>1. ASSUME NEW m \in 1..n, m \in F PROVE m \in starts \/ (m - 1 \in F /\ m \in goesOn)
  <2>1. PICK j \in starts : j <= m /\ \A k \in (j + 1)..m : k \in goesOn
    BY <1>1
  <2>2. j = m \/ (j <= m - 1 /\ j \in 1..n)
    BY <2>1
  <2>3. ASSUME j <= m - 1 PROVE m - 1 \in F /\ m \in goesOn
    <3>1. m - 1 \in 1..n /\ m \in (j + 1)..m
      BY <2>3
    <3>2. \A k \in (j + 1)..(m - 1) : k \in (j + 1)..m
      OBVIOUS
    <3>. QED BY <2>1, <2>3, <3>1, <3>2
  <2>. QED BY <2>1, <2>2, <2>3
<1>2. ASSUME NEW m \in 1..n, m \in starts PROVE m \in F
  <2>1. m <= m /\ \A k \in (m + 1)..m : k \in goesOn
    OBVIOUS
  <2>. QED BY <1>2, <2>1
<1>3. ASSUME NEW m \in 1..n, m - 1 \in F, m \in goesOn PROVE m \in F
  <2>1. PICK j \in starts : j <= m - 1 /\ \A k \in (j + 1)..(m - 1) : k \in goesOn
    BY <1>3
  <2>2. j <= m /\ \A k \in (j + 1)..m : k = m \/ k \in (j + 1)..(m - 1)
    BY <2>1
  <2>3. \A k \in (j + 1)..m : k \in goesOn
    BY <1>3, <2>1, <2>2
  <2>. QED BY <2>2, <2>3
<1>. QED BY <1>1, <1>2, <1>3

\* The two passes over the sentences.
FirstPass(text) ==
    FoldLeft(LAMBDA s, i : Visit(text, s, i), {}, [i \in 1..Len(text) |-> i])
SecondPass(text, first) ==
    FoldLeft(LAMBDA s, i : AddNumbers(text, s, i), first, [i \in 1..Len(text) |-> i])

IsFirstPass(u, text, order) ==
    u = [s \in SUBSET DOMAIN order |->
            IF s = {} THEN {} ELSE Visit(text, u[s \ {Max(s)}], order[Max(s)])]
FirstPassWalk(l, text) ==
    /\ l[0] = {}
    /\ \A k \in 1..Len(text) : l[k] = Visit(text, l[k - 1], k)
    /\ FirstPass(text) = l[Len(text)]

LEMMA FirstPassUnfolds ==
    ASSUME NEW text \in Seq(Sentences)
    PROVE  \E l : FirstPassWalk(l, text)
<1>1. PICK n : n \in Nat /\ n = Len(text) /\ DOMAIN text = 1..n
  OBVIOUS
<1>2. PICK order : order = [i \in 1..n |-> i]
  OBVIOUS
<1>3. DOMAIN order = 1..n /\ \A k \in 1..n : order[k] = k
  BY <1>1, <1>2
<1>4. FirstPass(text) = (CHOOSE u : IsFirstPass(u, text, order))[DOMAIN order]
  BY <1>1, <1>2 DEF FirstPass, FoldLeft, MapThenFoldSet, IsFirstPass
<1>5. PICK X : X = SUBSET (1..n)
  OBVIOUS
<1>6. PICK base : base = {} /\ base \in X
  <2>1. {} \in X
    BY <1>1, <1>5
  <2>. QED BY <2>1
<1>7. PICK step : step = [p \in X \X (1..n) |-> Visit(text, p[1], p[2])]
  OBVIOUS
<1>8. \E u : IsFirstPass(u, text, order)
  <2>1. ASSUME NEW c \in X, NEW i \in 1..n PROVE Visit(text, c, i) \in X
    BY <1>1, <1>5 DEF Visit, Window
  <2>2. IsFold(n, X, base, step)
    BY <1>1, <1>6, <1>7, <2>1 DEF IsFold
  <2>3. PICK v : IsFoldOf(v, n, X, base, step)
    BY <2>2, FoldUnfolds
  <2>4. ASSUME NEW s \in SUBSET (1..n), s # {}
        PROVE  v[s] = Visit(text, v[s \ {Max(s)}], order[Max(s)])
    <3>1. Max(s) \in 1..n /\ s \ {Max(s)} \in SUBSET (1..n)
      BY <2>3, <2>4 DEF IsFoldOf
    <3>2. v[s \ {Max(s)}] \in X /\ v[s] = step[<<v[s \ {Max(s)}], Max(s)>>]
      BY <2>3, <2>4, <3>1 DEF IsFoldOf
    <3>3. v[s] = Visit(text, v[s \ {Max(s)}], Max(s))
      BY <1>7, <3>1, <3>2
    <3>. QED BY <1>3, <3>1, <3>3
  <2>5. v = [s \in SUBSET DOMAIN order |->
                IF s = {} THEN {} ELSE Visit(text, v[s \ {Max(s)}], order[Max(s)])]
    BY <1>3, <1>6, <2>3, <2>4 DEF IsFoldOf
  <2>. QED BY <2>5 DEF IsFirstPass
<1>9. PICK u : IsFirstPass(u, text, order) /\ FirstPass(text) = u[DOMAIN order]
  BY <1>4, <1>8
<1>10. PICK l : l = [k \in 0..n |-> u[1..k]]
  OBVIOUS
<1>11. l[0] = {}
  <2>1. 1..0 = {} /\ 0 \in 0..n
    BY <1>1
  <2>2. u[{}] = {}
    BY <1>9 DEF IsFirstPass
  <2>. QED BY <1>10, <2>1, <2>2
<1>12. ASSUME NEW k \in 1..n PROVE l[k] = Visit(text, l[k - 1], k)
  <2>1. PICK s : s = 1..k
    OBVIOUS
  <2>2. s \in SUBSET DOMAIN order /\ s # {} /\ Max(s) = k /\ s \ {k} = 1..(k - 1)
    BY <1>1, <1>3, <2>1, UpTo
  <2>3. u[s] = Visit(text, u[s \ {Max(s)}], order[Max(s)])
    BY <1>9, <2>2 DEF IsFirstPass
  <2>4. k \in 0..n /\ k - 1 \in 0..n
    BY <1>1
  <2>. QED BY <1>3, <1>10, <2>1, <2>2, <2>3, <2>4
<1>13. FirstPass(text) = l[n]
  <2>1. n \in 0..n
    BY <1>1
  <2>. QED BY <1>3, <1>9, <1>10, <2>1
<1>14. FirstPassWalk(l, text)
  BY <1>1, <1>11, <1>12, <1>13 DEF FirstPassWalk
<1>. QED BY <1>14

IsPart(c, text) == text \in Seq(Sentences) /\ c \in SUBSET DOMAIN text

IsSecondPass(u, text, first, order) ==
    u = [s \in SUBSET DOMAIN order |->
            IF s = {} THEN first ELSE AddNumbers(text, u[s \ {Max(s)}], order[Max(s)])]
SecondPassWalk(l, text, first) ==
    /\ l[0] = first
    /\ \A k \in 1..Len(text) : l[k] = AddNumbers(text, l[k - 1], k)
    /\ SecondPass(text, first) = l[Len(text)]

LEMMA SecondPassUnfolds ==
    ASSUME NEW text, NEW first, IsPart(first, text)
    PROVE  \E l : SecondPassWalk(l, text, first)
<1>1. PICK n : n \in Nat /\ n = Len(text) /\ DOMAIN text = 1..n /\ first \in SUBSET (1..n)
  BY DEF IsPart
<1>2. PICK order : order = [i \in 1..n |-> i]
  OBVIOUS
<1>3. DOMAIN order = 1..n /\ \A k \in 1..n : order[k] = k
  BY <1>1, <1>2
<1>4. SecondPass(text, first) = (CHOOSE u : IsSecondPass(u, text, first, order))[DOMAIN order]
  BY <1>1, <1>2 DEF SecondPass, FoldLeft, MapThenFoldSet, IsSecondPass
<1>5. PICK X : X = SUBSET (1..n)
  OBVIOUS
<1>6. PICK base : base = first /\ base \in X
  <2>1. first \in X
    BY <1>1, <1>5
  <2>. QED BY <2>1
<1>7. PICK step : step = [p \in X \X (1..n) |-> AddNumbers(text, p[1], p[2])]
  OBVIOUS
<1>8. \E u : IsSecondPass(u, text, first, order)
  <2>1. ASSUME NEW c \in X, NEW i \in 1..n PROVE AddNumbers(text, c, i) \in X
    BY <1>5 DEF AddNumbers
  <2>2. IsFold(n, X, base, step)
    BY <1>1, <1>6, <1>7, <2>1 DEF IsFold
  <2>3. PICK v : IsFoldOf(v, n, X, base, step)
    BY <2>2, FoldUnfolds
  <2>4. ASSUME NEW s \in SUBSET (1..n), s # {}
        PROVE  v[s] = AddNumbers(text, v[s \ {Max(s)}], order[Max(s)])
    <3>1. Max(s) \in 1..n /\ s \ {Max(s)} \in SUBSET (1..n)
      BY <2>3, <2>4 DEF IsFoldOf
    <3>2. v[s \ {Max(s)}] \in X /\ v[s] = step[<<v[s \ {Max(s)}], Max(s)>>]
      BY <2>3, <2>4, <3>1 DEF IsFoldOf
    <3>3. v[s] = AddNumbers(text, v[s \ {Max(s)}], Max(s))
      BY <1>7, <3>1, <3>2
    <3>. QED BY <1>3, <3>1, <3>3
  <2>5. v = [s \in SUBSET DOMAIN order |->
                IF s = {} THEN first ELSE AddNumbers(text, v[s \ {Max(s)}], order[Max(s)])]
    BY <1>3, <1>6, <2>3, <2>4 DEF IsFoldOf
  <2>. QED BY <2>5 DEF IsSecondPass
<1>9. PICK u : IsSecondPass(u, text, first, order) /\ SecondPass(text, first) = u[DOMAIN order]
  BY <1>4, <1>8
<1>10. PICK l : l = [k \in 0..n |-> u[1..k]]
  OBVIOUS
<1>11. l[0] = first
  <2>1. 1..0 = {} /\ 0 \in 0..n
    BY <1>1
  <2>2. u[{}] = first
    BY <1>9 DEF IsSecondPass
  <2>. QED BY <1>10, <2>1, <2>2
<1>12. ASSUME NEW k \in 1..n PROVE l[k] = AddNumbers(text, l[k - 1], k)
  <2>1. PICK s : s = 1..k
    OBVIOUS
  <2>2. s \in SUBSET DOMAIN order /\ s # {} /\ Max(s) = k /\ s \ {k} = 1..(k - 1)
    BY <1>1, <1>3, <2>1, UpTo
  <2>3. u[s] = AddNumbers(text, u[s \ {Max(s)}], order[Max(s)])
    BY <1>9, <2>2 DEF IsSecondPass
  <2>4. k \in 0..n /\ k - 1 \in 0..n
    BY <1>1
  <2>. QED BY <1>3, <1>10, <2>1, <2>2, <2>3, <2>4
<1>13. SecondPass(text, first) = l[n]
  <2>1. n \in 0..n
    BY <1>1
  <2>. QED BY <1>3, <1>9, <1>10, <2>1
<1>14. SecondPassWalk(l, text, first)
  BY <1>1, <1>11, <1>12, <1>13 DEF SecondPassWalk
<1>. QED BY <1>14

\* The parts of the declared meaning.
Seeds(text) ==
    {i \in DOMAIN text :
        \/ \E k \in Window(text, i) : text[k].direct
        \/ text[i].refers /\ i <= 5}
FirstDeclared(text) ==
    {i \in DOMAIN text :
        \E j \in Seeds(text) : j <= i /\ \A k \in (j + 1)..i : text[k].continues}
SecondDeclared(text, base) ==
    {i \in DOMAIN text :
        \/ \E j \in base : j <= i /\ \A k \in (j + 1)..i : text[k].numbers
        \/ text[i].numbers /\ i + 1 \in base}

\* What the first pass keeps, told without the order of its steps.
LEMMA FirstPassIs ==
    ASSUME NEW text \in Seq(Sentences), NEW n \in Nat, n = Len(text)
    PROVE  FirstPass(text) = FirstDeclared(text)
<1>1. DOMAIN text = 1..n
  OBVIOUS
<1>2. PICK direct, refers, goesOn, starts, F :
         /\ F = FirstDeclared(text)
         /\ direct = {m \in 1..n : text[m].direct}
         /\ refers = {m \in 1..n : text[m].refers /\ m <= 5}
         /\ goesOn = {m \in 1..n : text[m].continues}
         /\ starts = Seeds(text)
  OBVIOUS
<1>3. F = {i \in 1..n : \E j \in starts : j <= i /\ \A k \in (j + 1)..i : k \in goesOn}
  <2>1. ASSUME NEW i \in 1..n, NEW j \in starts, NEW k \in (j + 1)..i
        PROVE  text[k].continues <=> k \in goesOn
    <3>1. k \in 1..n
      BY <1>1, <1>2 DEF Seeds
    <3>. QED BY <1>2, <3>1
  <2>2. F = {i \in 1..n : \E j \in starts : j <= i /\ \A k \in (j + 1)..i : text[k].continues}
    BY <1>1, <1>2 DEF FirstDeclared
  <2>. QED BY <2>1, <2>2
<1>4. \A m \in 1..n : m \in F <=> m \in starts \/ (m - 1 \in F /\ m \in goesOn)
  <2>1. starts \in SUBSET (1..n)
    BY <1>1, <1>2 DEF Seeds
  <2>. QED BY <1>3, <2>1, Chains
<1>5. \A m \in 1..n : m \in starts <=> \/ m - 1 \in direct \/ m \in direct \/ m + 1 \in direct
                                       \/ m \in refers
  <2>1. ASSUME NEW m \in 1..n
        PROVE  (\E k \in Window(text, m) : text[k].direct)
                  <=> m - 1 \in direct \/ m \in direct \/ m + 1 \in direct
    BY <1>1, <1>2 DEF Window
  <2>. QED BY <1>1, <1>2, <2>1 DEF Seeds
<1>6. PICK l : /\ l[0] = {}
               /\ \A k \in 1..n : l[k] = Visit(text, l[k - 1], k)
               /\ FirstPass(text) = l[n]
  <2>1. PICK l : FirstPassWalk(l, text)
    BY FirstPassUnfolds
  <2>. QED BY <2>1 DEF FirstPassWalk
<1> DEFINE Seen(k, c) ==
             /\ c \in SUBSET (1..n)
             /\ \A m \in 1..n :
                   /\ m < k => (m \in c <=> m \in F)
                   /\ m = k => (m \in c \/ m + 1 \in direct <=> m \in F)
                   /\ m = k + 1 => (m \in c <=> k \in direct)
                   /\ m > k + 1 => m \notin c
<1> DEFINE T == {k \in Nat : k <= n => Seen(k, l[k])}
<1>7. Seen(0, l[0])
  <2>1. 0 \notin direct
    BY <1>2
  <2>. QED BY <1>6, <2>1
<1>8. ASSUME NEW k \in Nat, k + 1 <= n, Seen(k, l[k]) PROVE Seen(k + 1, l[k + 1])
  <2>1. PICK c, i, d : c = l[k] /\ i = k + 1 /\ d = l[i]
    OBVIOUS
  <2>2. i \in 1..n /\ i - 1 = k /\ i \in Nat
    BY <1>8, <2>1
  <2>3. d = Visit(text, c, i)
    BY <1>6, <2>1, <2>2
  <2>4. Seen(k, c)
    BY <1>8, <2>1
  <2>5. d = IF i \in direct THEN c \cup ({k, i, i + 1} \cap (1..n))
            ELSE IF i \in refers \/ (i \in goesOn /\ k \in c) THEN c \cup {i} ELSE c
    BY <1>1, <1>2, <2>2, <2>3 DEF Visit, Window
  <2>6. d \in SUBSET (1..n)
    BY <2>2, <2>4, <2>5
  <2>7. ASSUME NEW m \in 1..n, m < i PROVE m \in d <=> m \in F
    <3>1. CASE m < k
      <4>1. m \in c <=> m \in F
        BY <2>4, <3>1
      <4>2. m \in d <=> m \in c
        BY <2>2, <2>5, <3>1
      <4>. QED BY <4>1, <4>2
    <3>2. CASE m = k
      <4>1. m \in c \/ i \in direct <=> m \in F
        BY <2>2, <2>4, <3>2
      <4>2. m \in d <=> m \in c \/ i \in direct
        BY <2>2, <2>5, <3>2
      <4>. QED BY <4>1, <4>2
    <3>. QED BY <2>2, <2>7, <3>1, <3>2
  <2>8. i \in d \/ i + 1 \in direct <=> i \in F
    <3>1. i \in F <=> i \in starts \/ (k \in F /\ i \in goesOn)
      BY <1>4, <2>2
    <3>2. i \in starts <=> \/ k \in direct \/ i \in direct \/ i + 1 \in direct \/ i \in refers
      BY <1>5, <2>2
    <3>3. i \in c <=> k \in direct
      BY <2>2, <2>4
    <3>4. k \in F => k \in 1..n
      BY <1>3
    <3>5. i \notin direct => (k \in c <=> k \in F)
      BY <2>2, <2>4, <3>4
    <3>6. i \in d <=> i \in c \/ i \in direct \/ i \in refers \/ (i \in goesOn /\ k \in c)
      BY <2>2, <2>5
    <3>. QED BY <3>1, <3>2, <3>3, <3>5, <3>6
  <2>9. ASSUME NEW m \in 1..n, m > i
        PROVE  /\ m = i + 1 => (m \in d <=> i \in direct)
               /\ m > i + 1 => m \notin d
    <3>1. m \notin c
      BY <2>2, <2>4, <2>9
    <3>. QED BY <2>2, <2>5, <2>9, <3>1
  <2>10. Seen(i, d)
    BY <2>2, <2>6, <2>7, <2>8, <2>9
  <2>. QED BY <2>1, <2>10
<1>9. Seen(n, l[n])
  <2>. HIDE DEF Seen
  <2>1. 0 \in T /\ \A k \in Nat : k \in T => k + 1 \in T
    BY <1>7, <1>8
  <2>2. n \in T
    <3>. HIDE DEF T
    <3>. QED BY <2>1, NatSetInduction
  <2>. QED BY <2>2
<1>10. n + 1 \notin direct /\ F \subseteq 1..n
  BY <1>2, <1>3
<1>11. \A m \in 1..n : m \in l[n] <=> m \in F
  BY <1>9, <1>10
<1>12. l[n] = F
  BY <1>9, <1>10, <1>11
<1>. QED BY <1>2, <1>6, <1>12

\* What the second pass adds.
LEMMA SecondPassIs ==
    ASSUME NEW text \in Seq(Sentences), NEW n \in Nat, n = Len(text),
           NEW base \in SUBSET (1..n)
    PROVE  SecondPass(text, base) = SecondDeclared(text, base)
<1>1. DOMAIN text = 1..n
  OBVIOUS
<1>2. PICK numbers, G : /\ numbers = {m \in 1..n : text[m].numbers}
                        /\ G = SecondDeclared(text, base)
  OBVIOUS
<1>3. PICK R : R = {i \in 1..n : \E j \in base : j <= i /\ \A k \in (j + 1)..i : k \in numbers}
  OBVIOUS
<1>4. \A m \in 1..n : m \in R <=> m \in base \/ (m - 1 \in R /\ m \in numbers)
  BY <1>3, Chains
<1>5. \A m \in 1..n : m \in G <=> m \in R \/ (m \in numbers /\ m + 1 \in base)
  <2>1. ASSUME NEW i \in 1..n, NEW j \in base, NEW k \in (j + 1)..i
        PROVE  text[k].numbers <=> k \in numbers
    <3>1. k \in 1..n
      OBVIOUS
    <3>. QED BY <1>2, <3>1
  <2>2. R = {i \in 1..n : \E j \in base : j <= i /\ \A k \in (j + 1)..i : text[k].numbers}
    BY <1>3, <2>1
  <2>3. \A m \in 1..n : m \in numbers <=> text[m].numbers
    BY <1>2
  <2>4. \A m \in 1..n : m \in G <=>
           \/ \E j \in base : j <= m /\ \A k \in (j + 1)..m : text[k].numbers
           \/ text[m].numbers /\ m + 1 \in base
    BY <1>1, <1>2 DEF SecondDeclared
  <2>. QED BY <2>2, <2>3, <2>4
<1>6. PICK l : /\ l[0] = base
               /\ \A k \in 1..n : l[k] = AddNumbers(text, l[k - 1], k)
               /\ SecondPass(text, base) = l[n]
  <2>1. IsPart(base, text)
    BY <1>1 DEF IsPart
  <2>2. PICK l : SecondPassWalk(l, text, base)
    BY <2>1, SecondPassUnfolds
  <2>. QED BY <2>2 DEF SecondPassWalk
<1> DEFINE Seen(k, c) ==
             /\ c \in SUBSET (1..n)
             /\ \A m \in 1..n : /\ m <= k => (m \in c <=> m \in G)
                                /\ m > k => (m \in c <=> m \in base)
<1> DEFINE T == {k \in Nat : k <= n => Seen(k, l[k])}
<1>7. Seen(0, l[0])
  BY <1>6
<1>8. ASSUME NEW k \in Nat, k + 1 <= n, Seen(k, l[k]) PROVE Seen(k + 1, l[k + 1])
  <2>1. PICK c, i, d : c = l[k] /\ i = k + 1 /\ d = l[i]
    OBVIOUS
  <2>2. i \in 1..n /\ i - 1 = k /\ i \in Nat
    BY <1>8, <2>1
  <2>3. d = AddNumbers(text, c, i)
    BY <1>6, <2>1, <2>2
  <2>4. Seen(k, c)
    BY <1>8, <2>1
  <2>5. d = IF i \in numbers /\ (k \in c \/ i + 1 \in c) THEN c \cup {i} ELSE c
    BY <1>2, <2>2, <2>3 DEF AddNumbers
  <2>6. d \in SUBSET (1..n)
    BY <2>2, <2>4, <2>5
  <2>7. i \in d <=> i \in G
    <3>1. i \in G <=> i \in base \/ (k \in R /\ i \in numbers) \/ (i \in numbers /\ i + 1 \in base)
      BY <1>4, <1>5, <2>2
    <3>2. i \in c <=> i \in base
      BY <2>2, <2>4
    <3>3. i + 1 \in c <=> i + 1 \in base
      BY <2>2, <2>4
    <3>4. k \in c <=> k \in 1..n /\ (k \in R \/ (k \in numbers /\ i \in base))
      <4>1. k \in c => k \in 1..n
        BY <2>4
      <4>2. ASSUME k \in 1..n PROVE k \in c <=> k \in R \/ (k \in numbers /\ i \in base)
        <5>1. k \in c <=> k \in G
          BY <2>4, <4>2
        <5>2. k \in G <=> k \in R \/ (k \in numbers /\ k + 1 \in base)
          BY <1>5, <4>2
        <5>. QED BY <2>1, <5>1, <5>2
      <4>. QED BY <4>1, <4>2
    <3>5. k \in R => k \in 1..n
      BY <1>3
    <3>6. i \in d <=> i \in c \/ (i \in numbers /\ (k \in c \/ i + 1 \in c))
      BY <2>5
    <3>. QED BY <3>1, <3>2, <3>3, <3>4, <3>5, <3>6
  <2>8. ASSUME NEW m \in 1..n, m # i PROVE m \in d <=> m \in c
    BY <2>5, <2>8
  <2>9. ASSUME NEW m \in 1..n
        PROVE  /\ m <= i => (m \in d <=> m \in G)
               /\ m > i => (m \in d <=> m \in base)
    <3>1. CASE m = i
      BY <2>2, <2>7, <3>1
    <3>2. CASE m < i
      <4>1. m <= k
        BY <2>2, <3>2
      <4>. QED BY <2>2, <2>4, <2>8, <3>2, <4>1
    <3>3. CASE m > i
      <4>1. m > k
        BY <2>2, <3>3
      <4>. QED BY <2>2, <2>4, <2>8, <3>3, <4>1
    <3>. QED BY <2>2, <3>1, <3>2, <3>3
  <2>10. Seen(i, d)
    BY <2>6, <2>9
  <2>. QED BY <2>1, <2>10
<1>9. Seen(n, l[n])
  <2>. HIDE DEF Seen
  <2>1. 0 \in T /\ \A k \in Nat : k \in T => k + 1 \in T
    BY <1>7, <1>8
  <2>2. n \in T
    <3>. HIDE DEF T
    <3>. QED BY <2>1, NatSetInduction
  <2>. QED BY <2>2
<1>10. \A m \in 1..n : m \in l[n] <=> m \in G
  BY <1>9
<1>11. l[n] = G
  <2>1. G \subseteq 1..n
    BY <1>1, <1>2 DEF SecondDeclared
  <2>. QED BY <1>9, <1>10, <2>1
<1>. QED BY <1>2, <1>6, <1>11

\* _extract_company_sentences keeps exactly the declared sentences of a text,
\* however long it is.
THEOREM ExtractionIsAlwaysExact ==
    \A text \in Seq(Sentences) : Extract(text) = ExtractDeclared(text)
<1>. SUFFICES ASSUME NEW text \in Seq(Sentences) PROVE Extract(text) = ExtractDeclared(text)
  OBVIOUS
<1>1. PICK n \in Nat : n = Len(text) /\ DOMAIN text = 1..n
  OBVIOUS
<1>2. PICK F, base : /\ F = FirstDeclared(text)
                     /\ base = IF F = {} THEN {1, 2} \cap DOMAIN text ELSE F
  OBVIOUS
<1>3. FirstPass(text) = F
  BY <1>1, <1>2, FirstPassIs
<1>4. base \in SUBSET (1..n)
  BY <1>1, <1>2 DEF FirstDeclared
<1>5. SecondPass(text, base) = SecondDeclared(text, base)
  BY <1>1, <1>4, SecondPassIs
<1>6. Extract(text) = SecondPass(text, IF FirstPass(text) = {} THEN {1, 2} \cap DOMAIN text
                                       ELSE FirstPass(text))
  BY DEF Extract, FirstPass, SecondPass
<1>7. ExtractDeclared(text) =
         SecondDeclared(text, IF FirstDeclared(text) = {} THEN {1, 2} \cap DOMAIN text
                              ELSE FirstDeclared(text))
  BY DEF ExtractDeclared, SecondDeclared, FirstDeclared, Seeds
<1>. QED BY <1>2, <1>3, <1>5, <1>6, <1>7

LEMMA ExtractionRuleHolds == ExtractionIsExact
<1>1. Texts \subseteq Seq(Sentences)
  BY SentencesAssumption DEF Texts
<1>. QED BY <1>1, ExtractionIsAlwaysExact DEF ExtractionIsExact
-----------------------------------------------------------------------------
(* Lists of lists *)

\* One list after the other.
Concat(lists) == FoldLeft(LAMBDA s, g : s \o g, <<>>, lists)

IsConcat(u, lists, order) ==
    u = [s \in SUBSET DOMAIN order |->
            IF s = {} THEN <<>> ELSE u[s \ {Max(s)}] \o order[Max(s)]]
ConcatWalk(l, lists) ==
    /\ l[0] = <<>>
    /\ \A k \in 1..Len(lists) : l[k] = l[k - 1] \o lists[k]
    /\ Concat(lists) = l[Len(lists)]

LEMMA ConcatUnfolds ==
    ASSUME NEW S, NEW lists \in Seq(Seq(S))
    PROVE  \E l : ConcatWalk(l, lists)
<1>1. PICK n : n \in Nat /\ n = Len(lists) /\ DOMAIN lists = 1..n /\ \A k \in 1..n : lists[k] \in Seq(S)
  OBVIOUS
<1>2. PICK order : order = lists
  OBVIOUS
<1>3. DOMAIN order = 1..n /\ \A k \in 1..n : order[k] = lists[k]
  BY <1>1, <1>2
<1>4. Concat(lists) = (CHOOSE u : IsConcat(u, lists, order))[DOMAIN order]
  BY <1>1, <1>2 DEF Concat, FoldLeft, MapThenFoldSet, IsConcat
<1>5. PICK X : X = Seq(S)
  OBVIOUS
<1>6. PICK base : base = <<>> /\ base \in X
  <2>1. <<>> \in X
    BY <1>5, NoElement
  <2>. QED BY <2>1
<1>7. PICK step : step = [p \in X \X (1..n) |-> p[1] \o lists[p[2]]]
  OBVIOUS
<1>8. \E u : IsConcat(u, lists, order)
  <2>1. ASSUME NEW c \in X, NEW i \in 1..n PROVE c \o lists[i] \in X
    <3>1. PICK g : g = lists[i] /\ g \in Seq(S)
      BY <1>1
    <3>2. c \o g \in Seq(S)
      BY <1>5, <2>1, <3>1, Together
    <3>. QED BY <1>5, <3>1, <3>2
  <2>2. IsFold(n, X, base, step)
    BY <1>1, <1>6, <1>7, <2>1 DEF IsFold
  <2>3. PICK v : IsFoldOf(v, n, X, base, step)
    BY <2>2, FoldUnfolds
  <2>4. ASSUME NEW s \in SUBSET (1..n), s # {}
        PROVE  v[s] = v[s \ {Max(s)}] \o order[Max(s)]
    <3>1. Max(s) \in 1..n /\ s \ {Max(s)} \in SUBSET (1..n)
      BY <2>3, <2>4 DEF IsFoldOf
    <3>2. v[s \ {Max(s)}] \in X /\ v[s] = step[<<v[s \ {Max(s)}], Max(s)>>]
      BY <2>3, <2>4, <3>1 DEF IsFoldOf
    <3>3. v[s] = v[s \ {Max(s)}] \o lists[Max(s)]
      BY <1>7, <3>1, <3>2
    <3>. QED BY <1>3, <3>1, <3>3
  <2>5. v = [s \in SUBSET DOMAIN order |->
                IF s = {} THEN <<>> ELSE v[s \ {Max(s)}] \o order[Max(s)]]
    BY <1>3, <1>6, <2>3, <2>4 DEF IsFoldOf
  <2>. QED BY <2>5 DEF IsConcat
<1>9. PICK u : IsConcat(u, lists, order) /\ Concat(lists) = u[DOMAIN order]
  BY <1>4, <1>8
<1>10. PICK l : l = [k \in 0..n |-> u[1..k]]
  OBVIOUS
<1>11. l[0] = <<>>
  <2>1. 1..0 = {} /\ 0 \in 0..n
    BY <1>1
  <2>2. u[{}] = <<>>
    BY <1>9 DEF IsConcat
  <2>. QED BY <1>10, <2>1, <2>2
<1>12. ASSUME NEW k \in 1..n PROVE l[k] = l[k - 1] \o lists[k]
  <2>1. PICK s : s = 1..k
    OBVIOUS
  <2>2. s \in SUBSET DOMAIN order /\ s # {} /\ Max(s) = k /\ s \ {k} = 1..(k - 1)
    BY <1>1, <1>3, <2>1, UpTo
  <2>3. u[s] = u[s \ {Max(s)}] \o order[Max(s)]
    BY <1>9, <2>2 DEF IsConcat
  <2>4. k \in 0..n /\ k - 1 \in 0..n
    BY <1>1
  <2>. QED BY <1>3, <1>10, <2>1, <2>2, <2>3, <2>4
<1>13. Concat(lists) = l[n]
  <2>1. n \in 0..n
    BY <1>1
  <2>. QED BY <1>3, <1>9, <1>10, <2>1
<1>14. ConcatWalk(l, lists)
  BY <1>1, <1>11, <1>12, <1>13 DEF ConcatWalk
<1>. QED BY <1>14

LEMMA OneMore ==
    ASSUME NEW S, NEW s \in Seq(S), NEW x \in S
    PROVE  Append(s, x) \in Seq(S)
  OBVIOUS

\* What r is when it is a list with one element more.
IsWith(r, n, front, v) ==
    /\ n \in Nat /\ Len(front) = n - 1
    /\ r = [k \in 1..n |-> r[k]] /\ r[n] = v
    /\ \A k \in 1..(n - 1) : r[k] = front[k]

LEMMA IsAppended ==
    ASSUME NEW S, NEW front \in Seq(S), NEW v \in S, NEW r, NEW n, IsWith(r, n, front, v)
    PROVE  r = Append(front, v)
<1>1. PICK s : s = Append(front, v)
  OBVIOUS
<1>2. n \in Nat /\ Len(front) = n - 1
  BY DEF IsWith
<1>3. s \in Seq(S) /\ Len(s) = n
  BY <1>1, <1>2
<1>4. s = [k \in 1..n |-> s[k]]
  BY <1>3
<1>5. s[n] = v /\ \A k \in 1..(n - 1) : s[k] = front[k]
  BY <1>1, <1>2
<1>6. r = [k \in 1..n |-> r[k]] /\ r[n] = v
  BY DEF IsWith
<1>7. \A k \in 1..(n - 1) : r[k] = front[k]
  BY DEF IsWith
<1>8. ASSUME NEW k \in 1..n PROVE s[k] = r[k]
  <2>1. k = n \/ k \in 1..(n - 1)
    BY <1>2
  <2>. QED BY <1>5, <1>6, <1>7, <2>1
<1>. QED BY <1>1, <1>4, <1>6, <1>8

LEMMA OneAtTheEnd ==
    ASSUME NEW S, NEW c \in Seq(S), NEW x \in S
    PROVE  c \o <<x>> = Append(c, x)
<1>1. PICK n : n = Len(c) + 1 /\ n \in Nat /\ Len(c) = n - 1
  OBVIOUS
<1>2. PICK r : r = c \o <<x>>
  OBVIOUS
<1>3. r \in Seq(S) /\ Len(r) = n
  BY <1>1, <1>2
<1>4. r[n] = x /\ \A k \in 1..(n - 1) : r[k] = c[k]
  BY <1>1, <1>2
<1>5. r = [k \in 1..n |-> r[k]]
  BY <1>3
<1>6. IsWith(r, n, c, x)
  BY <1>1, <1>4, <1>5 DEF IsWith
<1>. QED BY <1>2, <1>6, IsAppended

LEMMA AppendedLast ==
    ASSUME NEW S, NEW c \in Seq(S), NEW d \in Seq(S), NEW x \in S
    PROVE  c \o Append(d, x) = Append(c \o d, x)
<1>1. PICK p \in Nat : p = Len(c)
  OBVIOUS
<1>2. PICK q \in Nat : q = Len(d)
  OBVIOUS
<1>3. PICK s : s = c \o Append(d, x)
  OBVIOUS
<1>4. PICK t : t = Append(c \o d, x)
  OBVIOUS
<1>5. s \in Seq(S) /\ Len(s) = p + (q + 1)
  BY <1>1, <1>2, <1>3
<1>6. t \in Seq(S) /\ Len(t) = p + (q + 1)
  BY <1>1, <1>2, <1>4
<1>7. ASSUME NEW k \in 1..(p + (q + 1)) PROVE s[k] = t[k]
  <2>1. CASE k <= p
    <3>1. s[k] = c[k]
      BY <1>1, <1>2, <1>3, <1>7, <2>1
    <3>2. t[k] = c[k]
      BY <1>1, <1>2, <1>4, <1>7, <2>1
    <3>. QED BY <3>1, <3>2
  <2>2. CASE k > p /\ k <= p + q
    <3>1. s[k] = d[k - p]
      BY <1>1, <1>2, <1>3, <1>7, <2>2
    <3>2. t[k] = d[k - p]
      BY <1>1, <1>2, <1>4, <1>7, <2>2
    <3>. QED BY <3>1, <3>2
  <2>3. CASE k = p + (q + 1)
    <3>1. s[k] = x
      BY <1>1, <1>2, <1>3, <1>7, <2>3
    <3>2. t[k] = x
      BY <1>1, <1>2, <1>4, <1>7, <2>3
    <3>. QED BY <3>1, <3>2
  <2>. QED BY <1>7, <2>1, <2>2, <2>3
<1>8. s = [k \in 1..(p + (q + 1)) |-> s[k]]
  BY <1>5
<1>9. t = [k \in 1..(p + (q + 1)) |-> t[k]]
  BY <1>6
<1>10. s = t
  BY <1>7, <1>8, <1>9
<1>. QED BY <1>3, <1>4, <1>10

LEMMA ConcatAppends ==
    ASSUME NEW S, NEW lists \in Seq(Seq(S)), NEW g \in Seq(S)
    PROVE  /\ Concat(lists) \in Seq(S)
           /\ Concat(Append(lists, g)) = Concat(lists) \o g
<1>1. PICK n \in Nat : n = Len(lists)
  OBVIOUS
<1>2. PICK longer : longer = Append(lists, g)
  OBVIOUS
<1>3. longer \in Seq(Seq(S)) /\ Len(longer) = n + 1 /\ longer[n + 1] = g
  BY <1>1, <1>2
<1>4. \A k \in 1..n : longer[k] = lists[k] /\ lists[k] \in Seq(S)
  BY <1>1, <1>2
<1>5. PICK l : ConcatWalk(l, lists)
  BY ConcatUnfolds
<1>6. PICK m : ConcatWalk(m, longer)
  BY <1>3, ConcatUnfolds
<1> DEFINE Same(k) == l[k] = m[k] /\ l[k] \in Seq(S)
<1> DEFINE T == {k \in Nat : k <= n => Same(k)}
<1>7. Same(0)
  BY <1>5, <1>6, NoElement DEF ConcatWalk
<1>8. ASSUME NEW k \in Nat, k + 1 <= n, Same(k) PROVE Same(k + 1)
  <2>1. PICK i \in 1..n : i = k + 1 /\ i \in 1..(n + 1) /\ i - 1 = k
    BY <1>1, <1>8
  <2>2. l[i] = l[i - 1] \o lists[i]
    BY <1>1, <1>5, <2>1 DEF ConcatWalk
  <2>3. m[i] = m[i - 1] \o longer[i]
    BY <1>3, <1>6, <2>1 DEF ConcatWalk
  <2>4. PICK a, b : a = l[k] /\ b = lists[i] /\ a \in Seq(S) /\ b \in Seq(S)
    BY <1>4, <1>8, <2>1
  <2>5. l[i] = a \o b /\ m[i] = a \o b
    BY <1>4, <1>8, <2>1, <2>2, <2>3, <2>4, Zenon
  <2>6. a \o b \in Seq(S)
    BY <2>4, Together
  <2>. QED BY <2>1, <2>5, <2>6, Zenon
<1>9. Same(n)
  <2>1. ASSUME NEW k \in Nat, k \in T PROVE k + 1 \in T
    <3>. SUFFICES ASSUME k + 1 <= n PROVE Same(k + 1)
      OBVIOUS
    <3>1. k <= n
      BY <1>1
    <3>2. Same(k)
      BY <2>1, <3>1
    <3>. QED BY <1>8, <3>2
  <2>2. 0 \in T
    BY <1>7
  <2>3. n \in T
    <3>. HIDE DEF T
    <3>. QED BY <1>1, <2>1, <2>2, NatSetInduction
  <2>. HIDE DEF Same
  <2>. QED BY <1>1, <2>3
<1>10. Concat(lists) = l[n] /\ Concat(longer) = m[n + 1]
  BY <1>1, <1>3, <1>5, <1>6 DEF ConcatWalk
<1>11. m[n + 1] = m[n] \o g
  <2>1. n + 1 \in 1..(n + 1) /\ (n + 1) - 1 = n
    BY <1>1
  <2>2. m[n + 1] = m[(n + 1) - 1] \o longer[n + 1]
    BY <1>3, <1>6, <2>1 DEF ConcatWalk
  <2>. QED BY <1>3, <2>1, <2>2
<1>. QED BY <1>2, <1>9, <1>10, <1>11, Zenon

\* An element more at the end of the last list.
LEMMA ConcatGrows ==
    ASSUME NEW S, NEW lists \in Seq(Seq(S)), lists # <<>>, NEW x \in S
    PROVE  /\ [lists EXCEPT ![Len(lists)] = Append(@, x)] \in Seq(Seq(S))
           /\ Concat([lists EXCEPT ![Len(lists)] = Append(@, x)]) = Append(Concat(lists), x)
<1>1. PICK n \in Nat \ {0} : n = Len(lists) /\ DOMAIN lists = 1..n
  OBVIOUS
<1>2. PICK front : front = SubSeq(lists, 1, n - 1)
  OBVIOUS
<1>3. PICK last : last = lists[n] /\ last \in Seq(S)
  BY <1>1
<1>4. /\ front \in Seq(Seq(S)) /\ Len(front) = n - 1
      /\ \A k \in 1..(n - 1) : front[k] = lists[k]
  BY <1>1, <1>2
<1>5. PICK grown : grown = Append(last, x) /\ grown \in Seq(S)
  BY <1>3, OneMore
<1>6. PICK more : more = [lists EXCEPT ![n] = Append(@, x)]
  OBVIOUS
<1>7. /\ DOMAIN more = 1..n /\ more[n] = grown
      /\ \A k \in 1..(n - 1) : more[k] = front[k]
  BY <1>1, <1>3, <1>4, <1>5, <1>6
<1>8. more = [k \in 1..n |-> more[k]]
  BY <1>1, <1>6
<1>9. PICK T : T = Seq(S)
  OBVIOUS
<1>10. lists = Append(front, last)
  <2>1. lists = [k \in 1..n |-> lists[k]]
    BY <1>1
  <2>2. IsWith(lists, n, front, last)
    BY <1>1, <1>3, <1>4, <2>1 DEF IsWith
  <2>3. front \in Seq(T) /\ last \in T
    BY <1>3, <1>4, <1>9
  <2>. QED BY <2>2, <2>3, IsAppended
<1>11. more = Append(front, grown)
  <2>1. IsWith(more, n, front, grown)
    BY <1>1, <1>4, <1>7, <1>8 DEF IsWith
  <2>2. front \in Seq(T) /\ grown \in T
    BY <1>4, <1>5, <1>9
  <2>. QED BY <2>1, <2>2, IsAppended
<1>12. Concat(lists) = Concat(front) \o last /\ Concat(front) \in Seq(S)
  BY <1>3, <1>4, <1>10, ConcatAppends
<1>13. Concat(more) = Concat(front) \o grown
  BY <1>4, <1>5, <1>11, ConcatAppends
<1>14. PICK c : c = Concat(front) /\ c \in Seq(S)
  BY <1>12
<1>15. c \o Append(last, x) = Append(c \o last, x)
  BY <1>3, <1>14, AppendedLast
<1>16. more \in Seq(Seq(S))
  BY <1>4, <1>5, <1>11
<1>17. Concat(more) = Append(Concat(lists), x)
  BY <1>5, <1>12, <1>13, <1>14, <1>15, Zenon
<1>. QED BY <1>1, <1>6, <1>16, <1>17, Zenon

\* A list that ascends, and one that holds what another holds.
Ascends(a) == \A m, n \in DOMAIN a : m < n => a[m] < a[n]
HoldsAllOf(a, b) == \A m \in DOMAIN b : \E n \in DOMAIN a : b[m] = a[n]

\* Of two such lists the first has, as far as the second goes, the same members.
LEMMA AscendingAgree ==
    ASSUME NEW a, NEW b, NEW p \in Nat, NEW q \in Nat,
           DOMAIN a = 1..p, DOMAIN b = 1..q,
           \A n \in 1..p : a[n] \in Nat, \A n \in 1..q : b[n] \in Nat,
           Ascends(a), Ascends(b), HoldsAllOf(a, b), HoldsAllOf(b, a)
    PROVE  p <= q /\ \A n \in 1..p : a[n] = b[n]
<1> DEFINE Bad == {n \in 1..p : n > q \/ a[n] # b[n]}
<1>. SUFFICES ASSUME Bad # {} PROVE FALSE
  <2>1. ASSUME Bad = {} PROVE p <= q /\ \A n \in 1..p : a[n] = b[n]
    <3>1. ASSUME NEW n \in 1..p PROVE n <= q /\ a[n] = b[n]
      <4>1. ~(n > q \/ a[n] # b[n])
        BY <2>1, Zenon
      <4>2. n \in Nat
        OBVIOUS
      <4>. QED BY <4>1, <4>2
    <3>2. p \in 1..p \/ p = 0
      OBVIOUS
    <3>. QED BY <3>1, <3>2
  <2>. QED BY <2>1
<1>1. PICK n \in Bad : \A m \in Bad : n <= m
  <2>1. Bad \in SUBSET Nat
    OBVIOUS
  <2>. HIDE DEF Bad
  <2>. QED BY <2>1, LeastNatural
<1>2. n \in 1..p /\ (n > q \/ a[n] # b[n])
  BY <1>1
<1>3. \A m \in 1..p : m < n => m <= q /\ a[m] = b[m]
  BY <1>1
<1>. HIDE DEF Bad
<1>4. PICK j \in 1..q : a[n] = b[j]
  BY <1>2 DEF HoldsAllOf
<1>5. ~(j < n)
  <2>. SUFFICES ASSUME j < n PROVE FALSE
    OBVIOUS
  <2>1. j \in 1..p /\ a[j] = b[j]
    BY <1>2, <1>3
  <2>2. a[j] < a[n]
    BY <1>2, <2>1 DEF Ascends
  <2>. QED BY <1>2, <1>4, <2>1, <2>2
<1>6. n <= q
  BY <1>2, <1>4, <1>5
<1>7. j # n
  BY <1>2, <1>4, <1>6
<1>8. n < j /\ n \in 1..q
  BY <1>2, <1>5, <1>6, <1>7
<1>9. b[n] < b[j]
  BY <1>8 DEF Ascends
<1>10. PICK i \in 1..p : b[n] = a[i]
  BY <1>8 DEF HoldsAllOf
<1>11. i < n
  <2>. SUFFICES ASSUME ~(i < n) PROVE FALSE
    OBVIOUS
  <2>1. i = n \/ n < i
    BY <1>2
  <2>2. a[n] < b[n] \/ a[n] = b[n]
    BY <1>2, <1>10, <2>1 DEF Ascends
  <2>. QED BY <1>2, <1>4, <1>8, <1>9, <2>2
<1>12. a[i] = b[i] /\ i \in 1..q
  BY <1>3, <1>8, <1>11
<1>13. b[i] < b[n]
  BY <1>8, <1>11, <1>12 DEF Ascends
<1>. QED BY <1>8, <1>10, <1>12, <1>13

\* Two lists that ascend and hold the same are the same.
LEMMA AscendingIsUnique ==
    ASSUME NEW a \in Seq(Nat), NEW b \in Seq(Nat),
           Ascends(a), Ascends(b), HoldsAllOf(a, b), HoldsAllOf(b, a)
    PROVE  a = b
<1>1. PICK p \in Nat : DOMAIN a = 1..p /\ Len(a) = p
  OBVIOUS
<1>2. PICK q \in Nat : DOMAIN b = 1..q /\ Len(b) = q
  OBVIOUS
<1>3. a = [n \in 1..p |-> a[n]] /\ b = [n \in 1..q |-> b[n]]
  BY <1>1, <1>2
<1>4. \A n \in 1..p : a[n] \in Nat
  BY <1>1
<1>5. \A n \in 1..q : b[n] \in Nat
  BY <1>2
<1>6. p <= q /\ \A n \in 1..p : a[n] = b[n]
  BY <1>1, <1>2, <1>4, <1>5, AscendingAgree
<1>7. q <= p
  BY <1>1, <1>2, <1>4, <1>5, AscendingAgree
<1>8. p = q
  BY <1>6, <1>7
<1>. QED BY <1>3, <1>6, <1>8
-----------------------------------------------------------------------------
(* Reasons *)

\* What one reason makes of the groups, and all of them in turn.
TakeReason(reasons, s, i) ==
    CASE reasons[i] = "blank"             -> s
      [] reasons[i] = "item" /\ s.open    ->
            [s EXCEPT !.groups[Len(s.groups)] = Append(@, i)]
      [] OTHER -> [groups |-> Append(s.groups, <<i>>), open |-> reasons[i] = "events"]
Grouped(reasons) ==
    FoldLeft(LAMBDA s, i : TakeReason(reasons, s, i), [groups |-> <<>>, open |-> FALSE],
             [i \in DOMAIN reasons |-> i])

LEMMA GroupsAre ==
    ASSUME NEW reasons
    PROVE  GroupReasons(reasons) = Grouped(reasons).groups
  BY DEF GroupReasons, Grouped, TakeReason, FoldLeft, MapThenFoldSet

\* The groups d are the groups c and the reason i.
GrownBy(d, c, reasons, i) ==
    /\ reasons[i] = "blank" => d = c
    /\ reasons[i] # "blank" => Concat(d.groups) = Append(Concat(c.groups), i)

\* A reason that says something becomes the last one of all the groups.
LEMMA TakeReasonIs ==
    ASSUME NEW reasons, NEW n, NEW i \in 1..n,
           NEW c \in [groups : Seq(Seq(1..n)), open : BOOLEAN], c.open => c.groups # <<>>
    PROVE  /\ TakeReason(reasons, c, i) \in [groups : Seq(Seq(1..n)), open : BOOLEAN]
           /\ TakeReason(reasons, c, i).open => TakeReason(reasons, c, i).groups # <<>>
           /\ GrownBy(TakeReason(reasons, c, i), c, reasons, i)
<1>1. PICK S : S = 1..n
  OBVIOUS
<1>2. PICK g : g = c.groups /\ g \in Seq(Seq(S)) /\ (c.open => g # <<>>)
  BY <1>1
<1>3. CASE reasons[i] = "blank"
  <2>1. TakeReason(reasons, c, i) = c
    BY <1>3 DEF TakeReason
  <2>2. GrownBy(c, c, reasons, i)
    BY <1>3 DEF GrownBy
  <2>. QED BY <2>1, <2>2
<1>4. CASE reasons[i] = "item" /\ c.open
  <2>1. TakeReason(reasons, c, i) = [c EXCEPT !.groups[Len(c.groups)] = Append(@, i)]
    BY <1>4 DEF TakeReason
  <2>2. PICK r : r = [g EXCEPT ![Len(g)] = Append(@, i)]
    OBVIOUS
  <2>3. r \in Seq(Seq(S)) /\ Concat(r) = Append(Concat(g), i)
    <3>1. g \in Seq(Seq(S)) /\ g # <<>> /\ i \in S
      BY <1>1, <1>2, <1>4
    <3>2. /\ [g EXCEPT ![Len(g)] = Append(@, i)] \in Seq(Seq(S))
          /\ Concat([g EXCEPT ![Len(g)] = Append(@, i)]) = Append(Concat(g), i)
      BY ONLY <3>1, ConcatGrows, Zenon
    <3>. QED BY <2>2, <3>2, Zenon
  <2>4. TakeReason(reasons, c, i) = [groups |-> r, open |-> c.open]
    BY <1>2, <2>1, <2>2
  <2>5. r # <<>>
    <3>1. Len(r) = Len(g)
      BY <1>2, <1>4, <2>2
    <3>. QED BY <1>2, <1>4, <3>1
  <2>6. PICK d : d = [groups |-> r, open |-> c.open]
    OBVIOUS
  <2>7. GrownBy(d, c, reasons, i)
    BY <1>2, <1>4, <2>3, <2>6 DEF GrownBy
  <2>8. d \in [groups : Seq(Seq(1..n)), open : BOOLEAN] /\ (d.open => d.groups # <<>>)
    BY <1>1, <2>3, <2>5, <2>6
  <2>9. TakeReason(reasons, c, i) = d
    BY <2>4, <2>6
  <2>. QED BY <2>7, <2>8, <2>9
<1>5. CASE reasons[i] # "blank" /\ ~(reasons[i] = "item" /\ c.open)
  <2>1. PICK o \in BOOLEAN : o = (reasons[i] = "events")
    OBVIOUS
  <2>2. PICK r : r = Append(g, <<i>>)
    OBVIOUS
  <2>3. TakeReason(reasons, c, i) = [groups |-> r, open |-> o]
    BY <1>2, <1>5, <2>1, <2>2 DEF TakeReason
  <2>4. <<i>> \in Seq(S)
    BY <1>1, OneElement
  <2>5. r \in Seq(Seq(S))
    BY <1>2, <2>2, <2>4, OneMore
  <2>6. r # <<>>
    <3>1. PICK T : T = Seq(S)
      OBVIOUS
    <3>2. g \in Seq(T) /\ <<i>> \in T
      BY <1>2, <2>4, <3>1
    <3>. QED BY <2>2, <3>2
  <2>7. Concat(r) = Concat(g) \o <<i>> /\ Concat(g) \in Seq(S)
    BY <1>2, <2>2, <2>4, ConcatAppends
  <2>8. PICK d \in Seq(S) : d = Concat(g)
    BY <2>7
  <2>9. d \o <<i>> = Append(d, i)
    BY <1>1, <2>8, OneAtTheEnd
  <2>10. Concat(r) = Append(Concat(g), i)
    BY <2>7, <2>8, <2>9
  <2>11. PICK e : e = [groups |-> r, open |-> o]
    OBVIOUS
  <2>12. GrownBy(e, c, reasons, i)
    BY <1>2, <1>5, <2>10, <2>11 DEF GrownBy
  <2>13. e \in [groups : Seq(Seq(1..n)), open : BOOLEAN] /\ (e.open => e.groups # <<>>)
    BY <1>1, <2>1, <2>5, <2>6, <2>11
  <2>14. TakeReason(reasons, c, i) = e
    BY <2>3, <2>11
  <2>. QED BY <2>12, <2>13, <2>14
<1>. QED BY <1>3, <1>4, <1>5

IsGroups(u, reasons, order) ==
    u = [s \in SUBSET DOMAIN order |->
            IF s = {} THEN [groups |-> <<>>, open |-> FALSE] ELSE TakeReason(reasons, u[s \ {Max(s)}], order[Max(s)])]
GroupsWalk(l, reasons) ==
    /\ l[0] = [groups |-> <<>>, open |-> FALSE]
    /\ \A k \in 1..Len(reasons) : l[k] = TakeReason(reasons, l[k - 1], k)
    /\ Grouped(reasons) = l[Len(reasons)]

LEMMA GroupsUnfolds ==
    ASSUME NEW reasons \in Seq(ReasonKinds)
    PROVE  \E l : GroupsWalk(l, reasons)
<1>1. PICK n : n \in Nat /\ n = Len(reasons) /\ DOMAIN reasons = 1..n
  OBVIOUS
<1>2. PICK order : order = [i \in 1..n |-> i]
  OBVIOUS
<1>3. DOMAIN order = 1..n /\ \A k \in 1..n : order[k] = k
  BY <1>1, <1>2
<1>4. Grouped(reasons) = (CHOOSE u : IsGroups(u, reasons, order))[DOMAIN order]
  BY <1>1, <1>2 DEF Grouped, FoldLeft, MapThenFoldSet, IsGroups
<1>5. PICK X : X = {s \in [groups : Seq(Seq(1..n)), open : BOOLEAN] : s.open => s.groups # <<>>}
  OBVIOUS
<1>6. PICK base : base = [groups |-> <<>>, open |-> FALSE] /\ base \in X
  <2>1. [groups |-> <<>>, open |-> FALSE] \in X
    BY <1>5, NoElement
  <2>. QED BY <2>1
<1>7. PICK step : step = [p \in X \X (1..n) |-> TakeReason(reasons, p[1], p[2])]
  OBVIOUS
<1>8. \E u : IsGroups(u, reasons, order)
  <2>1. ASSUME NEW c \in X, NEW i \in 1..n PROVE TakeReason(reasons, c, i) \in X
    <3>1. c \in [groups : Seq(Seq(1..n)), open : BOOLEAN] /\ (c.open => c.groups # <<>>)
      BY <1>5, <2>1
    <3>2. TakeReason(reasons, c, i) \in [groups : Seq(Seq(1..n)), open : BOOLEAN]
      BY <3>1, TakeReasonIs
    <3>3. TakeReason(reasons, c, i).open => TakeReason(reasons, c, i).groups # <<>>
      BY <3>1, TakeReasonIs
    <3>. QED BY <1>5, <3>2, <3>3
  <2>2. IsFold(n, X, base, step)
    BY <1>1, <1>6, <1>7, <2>1 DEF IsFold
  <2>3. PICK v : IsFoldOf(v, n, X, base, step)
    BY <2>2, FoldUnfolds
  <2>4. ASSUME NEW s \in SUBSET (1..n), s # {}
        PROVE  v[s] = TakeReason(reasons, v[s \ {Max(s)}], order[Max(s)])
    <3>1. Max(s) \in 1..n /\ s \ {Max(s)} \in SUBSET (1..n)
      BY <2>3, <2>4 DEF IsFoldOf
    <3>2. v[s \ {Max(s)}] \in X /\ v[s] = step[<<v[s \ {Max(s)}], Max(s)>>]
      BY <2>3, <2>4, <3>1 DEF IsFoldOf
    <3>3. v[s] = TakeReason(reasons, v[s \ {Max(s)}], Max(s))
      BY <1>7, <3>1, <3>2
    <3>. QED BY <1>3, <3>1, <3>3
  <2>5. v = [s \in SUBSET DOMAIN order |->
                IF s = {} THEN [groups |-> <<>>, open |-> FALSE] ELSE TakeReason(reasons, v[s \ {Max(s)}], order[Max(s)])]
    BY <1>3, <1>6, <2>3, <2>4 DEF IsFoldOf
  <2>. QED BY <2>5 DEF IsGroups
<1>9. PICK u : IsGroups(u, reasons, order) /\ Grouped(reasons) = u[DOMAIN order]
  BY <1>4, <1>8
<1>10. PICK l : l = [k \in 0..n |-> u[1..k]]
  OBVIOUS
<1>11. l[0] = [groups |-> <<>>, open |-> FALSE]
  <2>1. 1..0 = {} /\ 0 \in 0..n
    BY <1>1
  <2>2. u[{}] = [groups |-> <<>>, open |-> FALSE]
    BY <1>9 DEF IsGroups
  <2>. QED BY <1>10, <2>1, <2>2
<1>12. ASSUME NEW k \in 1..n PROVE l[k] = TakeReason(reasons, l[k - 1], k)
  <2>1. PICK s : s = 1..k
    OBVIOUS
  <2>2. s \in SUBSET DOMAIN order /\ s # {} /\ Max(s) = k /\ s \ {k} = 1..(k - 1)
    BY <1>1, <1>3, <2>1, UpTo
  <2>3. u[s] = TakeReason(reasons, u[s \ {Max(s)}], order[Max(s)])
    BY <1>9, <2>2 DEF IsGroups
  <2>4. k \in 0..n /\ k - 1 \in 0..n
    BY <1>1
  <2>. QED BY <1>3, <1>10, <2>1, <2>2, <2>3, <2>4
<1>13. Grouped(reasons) = l[n]
  <2>1. n \in 0..n
    BY <1>1
  <2>. QED BY <1>3, <1>9, <1>10, <2>1
<1>14. GroupsWalk(l, reasons)
  BY <1>1, <1>11, <1>12, <1>13 DEF GroupsWalk
<1>. QED BY <1>14

\* The reasons up to k that say something, in their order.
Told(reasons, k) == {i \in 1..k : reasons[i] # "blank"}
Tells(t, reasons, k) ==
    /\ t \in Seq(Nat) /\ Ascends(t)
    /\ \A j \in DOMAIN t : t[j] \in Told(reasons, k)
    /\ \A i \in Told(reasons, k) : \E j \in DOMAIN t : t[j] = i

LEMMA OneToldMore ==
    ASSUME NEW reasons, NEW k \in Nat, NEW t, Tells(t, reasons, k)
    PROVE  /\ reasons[k + 1] = "blank" => Tells(t, reasons, k + 1)
           /\ reasons[k + 1] # "blank" => Tells(Append(t, k + 1), reasons, k + 1)
<1>1. t \in Seq(Nat) /\ Ascends(t)
  BY DEF Tells
<1>2. PICK p \in Nat : p = Len(t) /\ DOMAIN t = 1..p
  BY <1>1
<1>3. PICK i : i = k + 1 /\ i \in Nat
  OBVIOUS
<1>4. Told(reasons, i) = IF reasons[i] = "blank" THEN Told(reasons, k)
                                               ELSE Told(reasons, k) \cup {i}
  <2>1. 1..i = (1..k) \cup {i}
    BY <1>3
  <2>. QED BY <2>1 DEF Told
<1>5. \A j \in 1..p : t[j] \in Told(reasons, k)
  BY <1>2 DEF Tells
<1>6. \A n \in Told(reasons, k) : \E j \in 1..p : t[j] = n
  BY <1>2 DEF Tells
<1>7. \A n \in Told(reasons, k) : n \in 1..k
  BY DEF Told
<1>8. CASE reasons[i] = "blank"
  <2>1. Told(reasons, i) = Told(reasons, k)
    BY <1>4, <1>8
  <2>. QED BY <1>3, <1>8, <2>1 DEF Tells
<1>9. CASE reasons[i] # "blank"
  <2>1. PICK r : r = Append(t, i)
    OBVIOUS
  <2>2. r \in Seq(Nat) /\ DOMAIN r = 1..(p + 1)
    BY <1>1, <1>2, <1>3, <2>1
  <2>3. r[p + 1] = i /\ \A j \in 1..p : r[j] = t[j]
    BY <1>1, <1>2, <1>3, <2>1
  <2>4. Told(reasons, i) = Told(reasons, k) \cup {i}
    BY <1>4, <1>9
  <2>5. ASSUME NEW m \in DOMAIN r, NEW n \in DOMAIN r, m < n PROVE r[m] < r[n]
    <3>1. CASE n = p + 1
      <4>1. m \in 1..p /\ r[m] \in 1..k
        BY <1>2, <1>5, <1>7, <2>2, <2>3, <2>5, <3>1
      <4>. QED BY <1>3, <2>3, <3>1, <4>1
    <3>2. CASE n \in 1..p
      <4>1. m \in 1..p
        BY <1>2, <2>2, <2>5, <3>2
      <4>2. t[m] < t[n]
        BY <1>1, <1>2, <2>5, <3>2, <4>1 DEF Ascends
      <4>. QED BY <2>3, <3>2, <4>1, <4>2
    <3>. QED BY <1>2, <2>2, <3>1, <3>2
  <2>6. Ascends(r)
    BY <2>5 DEF Ascends
  <2>7. ASSUME NEW j \in DOMAIN r PROVE r[j] \in Told(reasons, i)
    <3>1. j = p + 1 \/ j \in 1..p
      BY <1>2, <2>2
    <3>. QED BY <1>5, <2>3, <2>4, <3>1
  <2>8. ASSUME NEW n \in Told(reasons, i) PROVE \E j \in DOMAIN r : r[j] = n
    <3>1. CASE n = i
      <4>1. p + 1 \in DOMAIN r
        BY <1>2, <2>2
      <4>. QED BY <2>3, <3>1, <4>1
    <3>2. CASE n \in Told(reasons, k)
      <4>1. PICK j \in 1..p : t[j] = n
        BY <1>6, <3>2
      <4>2. j \in DOMAIN r
        BY <1>2, <2>2
      <4>. QED BY <2>3, <4>1, <4>2
    <3>. QED BY <2>4, <3>1, <3>2
  <2>9. Tells(r, reasons, i)
    BY <2>2, <2>6, <2>7, <2>8 DEF Tells
  <2>. QED BY <1>3, <1>9, <2>1, <2>9
<1>. QED BY <1>3, <1>8, <1>9

\* What is kept of the places of a list is told.
LEMMA KeptIsTold ==
    ASSUME NEW reasons, NEW n \in Nat,
           NEW t, t = Taken([i \in 1..n |-> i], Ascending(Told(reasons, n)))
    PROVE  Tells(t, reasons, n)
<1>1. PICK s : s = [i \in 1..n |-> i]
  OBVIOUS
<1>2. s \in Seq(Nat) /\ DOMAIN s = 1..n
  BY <1>1
<1>3. PICK T : T = Told(reasons, n)
  OBVIOUS
<1>4. T \in SUBSET (DOMAIN s) /\ t = Taken(s, Ascending(T))
  BY <1>1, <1>2, <1>3 DEF Told
<1>5. t \in Seq(Nat) /\ \E e : KeepsAt(e, t, s, T)
  BY <1>2, <1>4, KeptIs
<1>6. PICK e : KeepsAt(e, t, s, T)
  BY <1>5
<1>7. PICK p \in Nat : DOMAIN t = 1..p
  BY <1>5
<1>8. \A j \in 1..p : t[j] = e[j] /\ t[j] \in T
  BY <1>1, <1>2, <1>4, <1>6, <1>7 DEF KeepsAt
<1>9. Ascends(t)
  BY <1>6, <1>7, <1>8 DEF Ascends, KeepsAt
<1>10. \A i \in T : \E j \in DOMAIN t : t[j] = i
  BY <1>6, <1>7, <1>8 DEF KeepsAt
<1>11. \A j \in DOMAIN t : t[j] \in T
  BY <1>7, <1>8
<1>. QED BY <1>3, <1>5, <1>9, <1>10, <1>11 DEF Tells

\* Two lists that tell the same reasons are the same.
LEMMA ToldOnce ==
    ASSUME NEW reasons, NEW n, NEW a, NEW b, Tells(a, reasons, n), Tells(b, reasons, n)
    PROVE  a = b
<1>1. HoldsAllOf(a, b)
  BY DEF Tells, HoldsAllOf
<1>2. HoldsAllOf(b, a)
  BY DEF Tells, HoldsAllOf
<1>3. a \in Seq(Nat) /\ b \in Seq(Nat) /\ Ascends(a) /\ Ascends(b)
  BY DEF Tells
<1>. QED BY <1>1, <1>2, <1>3, AscendingIsUnique

\* Whatever the reasons of a decision, grouping them keeps each that says something,
\* once and in order.
THEOREM ReasonsAreAlwaysKept ==
    \A reasons \in Seq(ReasonKinds) : ReasonsAreKept(reasons)
<1>. SUFFICES ASSUME NEW reasons \in Seq(ReasonKinds) PROVE ReasonsAreKept(reasons)
  OBVIOUS
<1>1. PICK n \in Nat : n = Len(reasons) /\ DOMAIN reasons = 1..n
  OBVIOUS
<1>2. PICK l : GroupsWalk(l, reasons)
  BY GroupsUnfolds
<1> DEFINE Good(k) ==
              /\ l[k] \in [groups : Seq(Seq(1..n)), open : BOOLEAN]
              /\ l[k].open => l[k].groups # <<>>
              /\ Tells(Concat(l[k].groups), reasons, k)
<1> DEFINE T == {k \in Nat : k <= n => Good(k)}
<1>3. Good(0)
  <2>1. l[0] = [groups |-> <<>>, open |-> FALSE]
    BY <1>2 DEF GroupsWalk
  <2>2. l[0] \in [groups : Seq(Seq(1..n)), open : BOOLEAN]
    BY <2>1, NoElement
  <2>3. Concat(<<>>) = <<>>
    <3>1. PICK m : ConcatWalk(m, <<>>)
      BY NoElement, ConcatUnfolds
    <3>2. Concat(<<>>) = m[Len(<<>>)] /\ m[0] = <<>>
      BY <3>1 DEF ConcatWalk
    <3>. QED BY <3>2
  <2>4. Tells(<<>>, reasons, 0)
    <3>1. Told(reasons, 0) = {}
      BY DEF Told
    <3>2. <<>> \in Seq(Nat) /\ DOMAIN <<>> = {}
      OBVIOUS
    <3>. QED BY <3>1, <3>2 DEF Tells, Ascends
  <2>5. l[0].groups = <<>> /\ l[0].open = FALSE
    BY <2>1
  <2>. QED BY <2>2, <2>3, <2>4, <2>5
<1>4. ASSUME NEW k \in Nat, k + 1 <= n, Good(k) PROVE Good(k + 1)
  <2>1. PICK i \in 1..n : i = k + 1 /\ i - 1 = k
    BY <1>1, <1>4
  <2>2. l[i] = TakeReason(reasons, l[k], i)
    BY <1>1, <1>2, <2>1 DEF GroupsWalk
  <2>3. PICK c \in [groups : Seq(Seq(1..n)), open : BOOLEAN] :
           c = l[k] /\ (c.open => c.groups # <<>>) /\ Tells(Concat(c.groups), reasons, k)
    BY <1>4
  <2>4. PICK d : d = TakeReason(reasons, c, i)
    OBVIOUS
  <2>5. d \in [groups : Seq(Seq(1..n)), open : BOOLEAN] /\ (d.open => d.groups # <<>>)
    BY <2>3, <2>4, TakeReasonIs
  <2>7. /\ reasons[i] = "blank" => d = c
        /\ reasons[i] # "blank" => Concat(d.groups) = Append(Concat(c.groups), i)
    <3>1. c.open => c.groups # <<>>
      BY <2>3
    <3>2. GrownBy(d, c, reasons, i)
      BY <2>4, <3>1, TakeReasonIs
    <3>. QED BY <3>2 DEF GrownBy
  <2>6. Tells(Concat(d.groups), reasons, i)
    <3>1. CASE reasons[i] = "blank"
      <4>1. d = c
        BY <2>7, <3>1
      <4>. QED BY <2>1, <2>3, <3>1, <4>1, OneToldMore
    <3>2. CASE reasons[i] # "blank"
      <4>1. Concat(d.groups) = Append(Concat(c.groups), i)
        BY <2>7, <3>2
      <4>. QED BY <2>1, <2>3, <3>2, <4>1, OneToldMore
    <3>. QED BY <3>1, <3>2
  <2>. QED BY <2>1, <2>2, <2>3, <2>4, <2>5, <2>6
<1>5. Good(n)
  <2>. HIDE DEF Good
  <2>1. ASSUME NEW k \in Nat, k \in T PROVE k + 1 \in T
    <3>. SUFFICES ASSUME k + 1 <= n PROVE Good(k + 1)
      OBVIOUS
    <3>1. k <= n
      BY <1>1
    <3>. QED BY <1>4, <2>1, <3>1
  <2>2. 0 \in T
    BY <1>3
  <2>3. n \in T
    <3>. HIDE DEF T
    <3>. QED BY <1>1, <2>1, <2>2, NatSetInduction
  <2>. QED BY <1>1, <2>3
<1>6. GroupReasons(reasons) = l[n].groups
  <2>1. Grouped(reasons) = l[n]
    BY <1>1, <1>2 DEF GroupsWalk
  <2>. QED BY <2>1, GroupsAre
<1>7. PICK t : t = Kept([i \in DOMAIN reasons |-> i], LAMBDA i : reasons[i] # "blank")
  OBVIOUS
<1>8. Tells(t, reasons, n)
  <2>1. t = Taken([i \in 1..n |-> i], Ascending(Told(reasons, n)))
    BY <1>1, <1>7 DEF Kept, Told
  <2>. QED BY <2>1, KeptIsTold
<1>9. Concat(GroupReasons(reasons)) = t
  BY <1>5, <1>6, <1>8, ToldOnce
<1>. QED BY <1>7, <1>9 DEF ReasonsAreKept, Concat
-----------------------------------------------------------------------------
(* Events *)

\* The events a workflow can have: each has a date, and the titles are any texts.
DatedEvents(Titles) == [age : {<<a>> : a \in Nat}, severity : Range(Severities), title : Titles]
Age(e) == e.age[1]

LEMMA DatesAreAges ==
    ASSUME NEW Titles, NEW a \in DatedEvents(Titles)
    PROVE  /\ Age(a) \in Nat /\ a.age = <<Age(a)>> /\ a.age # <<>>
           /\ Recent(a) <=> Age(a) <= LookbackDays
<1>1. PICK n \in Nat : a.age = <<n>>
  BY DEF DatedEvents
<1>2. Age(a) = n /\ a.age # <<>>
  BY <1>1 DEF Age
<1>. QED BY <1>1, <1>2 DEF Recent, Age

LEMMA NewerIsYounger ==
    ASSUME NEW Titles, NEW a \in DatedEvents(Titles), NEW b \in DatedEvents(Titles)
    PROVE  /\ Newer(a, b) <=> Age(a) < Age(b)
           /\ (a.age = b.age) <=> (Age(a) = Age(b))
<1>1. a.age = <<Age(a)>> /\ a.age # <<>> /\ b.age = <<Age(b)>> /\ b.age # <<>>
  BY DatesAreAges
<1>2. (a.age = b.age) <=> (Age(a) = Age(b))
  BY <1>1
<1>3. Newer(a, b) <=> Age(a) < Age(b)
  BY <1>1, Zenon DEF Newer, Age
<1>. QED BY <1>2, <1>3

LEMMA OrdersAreNumbers ==
    ASSUME NEW s \in Range(Severities)
    PROVE  Order(s) \in Nat
<1>1. DOMAIN Severities = 1..4
  BY DEF Severities
<1>2. PICK i \in 1..4 : Severities[i] = s
  BY <1>1 DEF Range
<1>3. \E k : k \in DOMAIN Severities /\ Severities[k] = s
  BY <1>1, <1>2
<1>4. Order(s) \in DOMAIN Severities
  BY <1>3 DEF Order
<1>. QED BY <1>1, <1>4

\* By age, and by age and severity in a day.
ByAge(X) == {p \in X \X X : Age(p[1]) < Age(p[2])}
ByDay(X) ==
    {p \in X \X X : \/ Age(p[1]) < Age(p[2])
                    \/ Age(p[1]) = Age(p[2]) /\ Order(p[1].severity) < Order(p[2].severity)}

LEMMA InByAge ==
    ASSUME NEW X, NEW a \in X, NEW b \in X
    PROVE  <<a, b>> \in ByAge(X) <=> Age(a) < Age(b)
  BY DEF ByAge

LEMMA InByDay ==
    ASSUME NEW X, NEW a \in X, NEW b \in X
    PROVE  <<a, b>> \in ByDay(X) <=>
              \/ Age(a) < Age(b)
              \/ Age(a) = Age(b) /\ Order(a.severity) < Order(b.severity)
  BY DEF ByDay

LEMMA AgeIsOrder ==
    ASSUME NEW Titles, NEW X, X = DatedEvents(Titles)
    PROVE  IsWeakOrder(ByAge(X), X)
<1>1. ByAge(X) \in SUBSET (X \X X)
  BY DEF ByAge
<1>2. \A a \in X : Age(a) \in Nat
  BY DatesAreAges
<1>3. ASSUME NEW a \in X, NEW b \in X, <<a, b>> \in ByAge(X) PROVE <<b, a>> \notin ByAge(X)
  BY <1>2, <1>3, InByAge
<1>4. ASSUME NEW a \in X, NEW b \in X, NEW c \in X,
             <<a, b>> \notin ByAge(X), <<b, c>> \notin ByAge(X)
      PROVE  <<a, c>> \notin ByAge(X)
  BY <1>2, <1>4, InByAge
<1>. QED BY <1>1, <1>3, <1>4 DEF IsWeakOrder

LEMMA DayIsOrder ==
    ASSUME NEW Titles, NEW X, X = DatedEvents(Titles)
    PROVE  IsWeakOrder(ByDay(X), X)
<1>1. ByDay(X) \in SUBSET (X \X X)
  BY DEF ByDay
<1>2. ASSUME NEW a \in X PROVE Age(a) \in Nat /\ Order(a.severity) \in Nat
  <2>1. Age(a) \in Nat
    BY DatesAreAges
  <2>2. a.severity \in Range(Severities)
    BY DEF DatedEvents
  <2>. QED BY <2>1, <2>2, OrdersAreNumbers
<1>3. ASSUME NEW a \in X, NEW b \in X, <<a, b>> \in ByDay(X) PROVE <<b, a>> \notin ByDay(X)
  BY <1>2, <1>3, InByDay
<1>4. ASSUME NEW a \in X, NEW b \in X, NEW c \in X,
             <<a, b>> \notin ByDay(X), <<b, c>> \notin ByDay(X)
      PROVE  <<a, c>> \notin ByDay(X)
  BY <1>2, <1>4, InByDay
<1>. QED BY <1>1, <1>3, <1>4 DEF IsWeakOrder

\* The sorts of the page and of the timeline.
LEMMA NewestFirst ==
    ASSUME NEW Titles, NEW X, X = DatedEvents(Titles), NEW s \in Seq(X)
    PROVE  IsSortOf(StableSort(s, Newer), s, ByAge(X))
<1>1. ASSUME NEW k \in DOMAIN s, NEW i \in DOMAIN s
      PROVE  Newer(s[k], s[i]) <=> <<s[k], s[i]>> \in ByAge(X)
  <2>1. PICK a, b \in X : a = s[k] /\ b = s[i]
    OBVIOUS
  <2>2. Newer(a, b) <=> <<a, b>> \in ByAge(X)
    BY NewerIsYounger, InByAge
  <2>. QED BY <2>1, <2>2
<1>2. \A i \in DOMAIN s :
         {k \in DOMAIN s : Newer(s[k], s[i]) \/ (~Newer(s[i], s[k]) /\ k <= i)}
            = {k \in DOMAIN s : \/ <<s[k], s[i]>> \in ByAge(X)
                                \/ <<s[i], s[k]>> \notin ByAge(X) /\ k <= i}
  BY <1>1
<1>3. PICK place : place = [i \in DOMAIN s |-> Cardinality(
         {k \in DOMAIN s : Newer(s[k], s[i]) \/ (~Newer(s[i], s[k]) /\ k <= i)})]
  OBVIOUS
<1>4. place = [i \in DOMAIN s |-> Cardinality(
         {k \in DOMAIN s : \/ <<s[k], s[i]>> \in ByAge(X)
                           \/ <<s[i], s[k]>> \notin ByAge(X) /\ k <= i})]
  BY <1>2, <1>3
<1>5. StableSort(s, Newer) = Taken(s, [n \in 1..Cardinality(DOMAIN s) |->
                                           CHOOSE i \in DOMAIN s : place[i] = n])
  BY <1>3 DEF StableSort, InOrder
<1>6. IsCount(place, s, ByAge(X))
  BY <1>4 DEF IsCount
<1>7. IsByPlace(StableSort(s, Newer), s, place)
  BY <1>5 DEF IsByPlace
<1>. QED BY <1>6, <1>7 DEF IsSortOf

LEMMA TimelineOrder ==
    ASSUME NEW Titles, NEW X, X = DatedEvents(Titles), NEW s \in Seq(X)
    PROVE  IsSortOf(Timeline(s), s, ByDay(X))
<1> DEFINE Before(a, b) ==
             Newer(a, b) \/ (a.age = b.age /\ Order(a.severity) < Order(b.severity))
<1>1. ASSUME NEW k \in DOMAIN s, NEW i \in DOMAIN s
      PROVE  Before(s[k], s[i]) <=> <<s[k], s[i]>> \in ByDay(X)
  <2>1. PICK a, b \in X : a = s[k] /\ b = s[i]
    OBVIOUS
  <2>2. Before(a, b) <=> <<a, b>> \in ByDay(X)
    BY NewerIsYounger, InByDay
  <2>. QED BY <2>1, <2>2
<1>2. \A i \in DOMAIN s :
         {k \in DOMAIN s : Before(s[k], s[i]) \/ (~Before(s[i], s[k]) /\ k <= i)}
            = {k \in DOMAIN s : \/ <<s[k], s[i]>> \in ByDay(X)
                                \/ <<s[i], s[k]>> \notin ByDay(X) /\ k <= i}
  <2>. HIDE DEF Before
  <2>. QED BY <1>1
<1>3. PICK place : place = [i \in DOMAIN s |-> Cardinality(
         {k \in DOMAIN s : Before(s[k], s[i]) \/ (~Before(s[i], s[k]) /\ k <= i)})]
  OBVIOUS
<1>4. place = [i \in DOMAIN s |-> Cardinality(
         {k \in DOMAIN s : \/ <<s[k], s[i]>> \in ByDay(X)
                           \/ <<s[i], s[k]>> \notin ByDay(X) /\ k <= i})]
  <2>. HIDE DEF Before
  <2>. QED BY <1>2, <1>3
<1>5. Timeline(s) = Taken(s, [n \in 1..Cardinality(DOMAIN s) |->
                                  CHOOSE i \in DOMAIN s : place[i] = n])
  BY <1>3 DEF Timeline, StableSort, InOrder
<1>6. IsCount(place, s, ByDay(X))
  BY <1>4 DEF IsCount
<1>7. IsByPlace(Timeline(s), s, place)
  BY <1>5 DEF IsByPlace
<1>. QED BY <1>6, <1>7 DEF IsSortOf

AgesAscend(t) == \A m, n \in DOMAIN t : m <= n => Age(t[m]) <= Age(t[n])

LEMMA SortedAges ==
    ASSUME NEW Titles, NEW X, X = DatedEvents(Titles), NEW s, NEW e,
           NEW t \in Seq(X), SortsAt(e, t, s, ByAge(X))
    PROVE  AgesAscend(t)
<1>1. PICK l \in Nat : DOMAIN t = 1..l
  OBVIOUS
<1>2. \A n \in 1..l : t[n] \in X /\ Age(t[n]) \in Nat
  <2>1. ASSUME NEW n \in 1..l PROVE t[n] \in X
    BY <1>1
  <2>. QED BY <2>1, DatesAreAges
<1>3. ASSUME NEW m \in 1..l, NEW n \in 1..l, m < n PROVE Age(t[m]) <= Age(t[n])
  <2>1. <<t[m], t[n]>> \in ByAge(X) \/ <<t[n], t[m]>> \notin ByAge(X)
    BY <1>1, <1>3 DEF SortsAt
  <2>2. /\ <<t[m], t[n]>> \in ByAge(X) <=> Age(t[m]) < Age(t[n])
        /\ <<t[n], t[m]>> \in ByAge(X) <=> Age(t[n]) < Age(t[m])
    BY <1>2, InByAge
  <2>. QED BY <1>2, <2>1, <2>2
<1>4. ASSUME NEW m \in 1..l, NEW n \in 1..l, m <= n PROVE Age(t[m]) <= Age(t[n])
  <2>1. CASE m = n
    BY <1>2, <2>1
  <2>2. CASE m < n
    BY <1>3, <2>2
  <2>. QED BY <1>4, <2>1, <2>2
<1>. QED BY <1>1, <1>4 DEF AgesAscend

\* Two sorts of the same events have the same ages.
LEMMA NoOlder ==
    ASSUME NEW s, NEW T, \A i \in T : Age(s[i]) \in Nat, NEW l \in Nat,
           NEW a, NEW f, DOMAIN a = 1..l, ArrangedAt(f, a, s, T), AgesAscend(a),
           NEW b, NEW g, DOMAIN b = 1..l, ArrangedAt(g, b, s, T), AgesAscend(b),
           NEW n \in 1..l
    PROVE  Age(a[n]) <= Age(b[n])
<1>1. \A m \in 1..l : f[m] \in T /\ a[m] = s[f[m]] /\ Age(a[m]) \in Nat
  BY DEF ArrangedAt
<1>2. \A m \in 1..l : g[m] \in T /\ b[m] = s[g[m]] /\ Age(b[m]) \in Nat
  BY DEF ArrangedAt
<1>3. SUFFICES ASSUME Age(b[n]) < Age(a[n]) PROVE FALSE
  BY <1>1, <1>2
<1>4. PICK A : A = {i \in T : \E m \in 1..(n - 1) : f[m] = i}
  OBVIOUS
<1>5. IsFiniteSet(A) /\ Cardinality(A) \in Nat /\ Cardinality(A) <= n - 1
  <2>1. Names(f, n - 1, A) /\ Covers(f, n - 1, A)
    BY <1>1, <1>4 DEF Names, Covers
  <2>. QED BY <2>1, CountIsAtMost
<1>6. ASSUME NEW m \in 1..n PROVE g[m] \in A
  <2>1. m \in 1..l /\ Age(b[m]) <= Age(b[n])
    BY <1>6 DEF AgesAscend
  <2>2. PICK k \in 1..l : f[k] = g[m]
    BY <1>2, <2>1 DEF ArrangedAt
  <2>3. Age(a[k]) = Age(b[m])
    BY <1>1, <1>2, <2>1, <2>2
  <2>4. Age(a[k]) < Age(a[n])
    BY <1>1, <1>2, <1>3, <2>1, <2>3
  <2>5. ~(n <= k)
    <3>. SUFFICES ASSUME n <= k PROVE FALSE
      OBVIOUS
    <3>1. Age(a[n]) <= Age(a[k])
      BY DEF AgesAscend
    <3>. QED BY <1>1, <2>4, <3>1
  <2>6. k \in 1..(n - 1)
    BY <2>5
  <2>. QED BY <1>2, <1>4, <2>1, <2>2, <2>6
<1>7. n <= Cardinality(A)
  <2>1. Names(g, n, A)
    BY <1>6 DEF Names
  <2>2. Distinct(g, n)
    <3>1. ASSUME NEW m \in 1..n, NEW k \in 1..n, m < k PROVE g[m] # g[k]
      <4>1. m \in DOMAIN b /\ k \in DOMAIN b
        OBVIOUS
      <4>. QED BY <3>1, <4>1 DEF ArrangedAt
    <3>. QED BY <3>1 DEF Distinct
  <2>. QED BY <1>5, <2>1, <2>2, CountIsAtLeast
<1>. QED BY <1>5, <1>7

\* The first n of a list.
StartsWith(t, s, n) ==
    /\ \A i : i \in DOMAIN t <=> i \in DOMAIN s /\ i <= n
    /\ \A i \in DOMAIN t : t[i] = s[i]

LEMMA FirstIs ==
    ASSUME NEW X, NEW s \in Seq(X), NEW n \in Nat
    PROVE  First(s, n) \in Seq(X) /\ StartsWith(First(s, n), s, n)
<1>1. PICK l \in Nat : l = Len(s) /\ DOMAIN s = 1..l
  OBVIOUS
<1>2. PICK k \in Nat : k = (IF l < n THEN l ELSE n)
  OBVIOUS
<1>3. PICK t : t = SubSeq(s, 1, k)
  OBVIOUS
<1>4. First(s, n) = t
  BY <1>1, <1>2, <1>3 DEF First
<1>5. t \in Seq(X) /\ DOMAIN t = 1..k
  BY <1>1, <1>2, <1>3
<1>6. \A i \in 1..k : t[i] = s[i]
  BY <1>1, <1>2, <1>3
<1>7. \A i : i \in 1..k <=> i \in 1..l /\ i <= n
  BY <1>2
<1>8. StartsWith(t, s, n)
  BY <1>1, <1>5, <1>6, <1>7 DEF StartsWith
<1>. QED BY <1>4, <1>5, <1>8

\* Sorting the recent events of a list.
RecentAt(s) == {i \in DOMAIN s : Recent(s[i])}

LEMMA RecentSorted ==
    ASSUME NEW Titles, NEW X, X = DatedEvents(Titles), NEW s \in Seq(X),
           NEW r, r = Kept(s, Recent), NEW c, c = StableSort(r, Newer)
    PROVE  /\ r \in Seq(X) /\ c \in Seq(X) /\ Len(c) = Len(r) /\ AgesAscend(c)
           /\ \E q : SortsAt(q, c, r, ByAge(X))
           /\ \E h : ArrangedAt(h, c, s, RecentAt(s))
<1>1. PICK T : T = RecentAt(s)
  OBVIOUS
<1>2. T \in SUBSET (DOMAIN s) /\ T \in SUBSET Nat
  BY <1>1 DEF RecentAt
<1>3. r = Taken(s, Ascending(T))
  BY <1>1 DEF Kept, RecentAt
<1>4. r \in Seq(X) /\ \E k : KeepsAt(k, r, s, T)
  BY <1>2, <1>3, KeptIs
<1>5. PICK k : ArrangedAt(k, r, s, T)
  BY <1>2, <1>4, KeptIsArranged
<1>6. IsSortOf(c, r, ByAge(X)) /\ IsWeakOrder(ByAge(X), X)
  BY <1>4, NewestFirst, AgeIsOrder
<1>7. c \in Seq(X) /\ Len(c) = Len(r) /\ \E q : SortsAt(q, c, r, ByAge(X))
  BY <1>4, <1>6, SortIs
<1>8. PICK q : SortsAt(q, c, r, ByAge(X))
  BY <1>7
<1>9. AgesAscend(c)
  BY <1>7, <1>8, SortedAges
<1>10. ArrangedAt(q, c, r, DOMAIN r)
  BY <1>8, SortedIsArranged
<1>11. PICK h : h = [n \in DOMAIN c |-> k[q[n]]]
  OBVIOUS
<1>12. ArrangedAt(h, c, s, T)
  <2>1. DOMAIN r \in SUBSET Nat
    BY <1>4
  <2>2. \A n \in DOMAIN r : k[n] \in T
    BY <1>5 DEF ArrangedAt
  <2>. QED BY <1>5, <1>10, <1>11, <2>1, <2>2, ArrangedTwice
<1>. QED BY <1>1, <1>4, <1>7, <1>9, <1>12

\* The recent events of the timeline are the recent events of the list.
LEMMA TimelineRecent ==
    ASSUME NEW Titles, NEW X, X = DatedEvents(Titles), NEW s \in Seq(X),
           NEW c, c = StableSort(Kept(Timeline(s), Recent), Newer)
    PROVE  c \in Seq(X) /\ AgesAscend(c) /\ \E h : ArrangedAt(h, c, s, RecentAt(s))
<1>1. PICK t : t = Timeline(s)
  OBVIOUS
<1>2. IsSortOf(t, s, ByDay(X)) /\ IsWeakOrder(ByDay(X), X)
  BY <1>1, TimelineOrder, DayIsOrder
<1>3. t \in Seq(X) /\ \E e : SortsAt(e, t, s, ByDay(X))
  BY <1>2, SortIs
<1>4. PICK e : ArrangedAt(e, t, s, DOMAIN s)
  BY <1>3, SortedIsArranged
<1>5. /\ c \in Seq(X) /\ AgesAscend(c)
      /\ \E h : ArrangedAt(h, c, t, RecentAt(t))
  BY <1>1, <1>3, RecentSorted
<1>6. PICK h : ArrangedAt(h, c, t, RecentAt(t))
  BY <1>5
<1>7. PICK g : g = [n \in DOMAIN c |-> e[h[n]]]
  OBVIOUS
<1>8. /\ RecentAt(t) \subseteq DOMAIN t /\ RecentAt(s) \subseteq DOMAIN s
      /\ DOMAIN t \in SUBSET Nat
  BY <1>3 DEF RecentAt
<1>9. ASSUME NEW n \in DOMAIN t PROVE e[n] \in RecentAt(s) <=> n \in RecentAt(t)
  <2>1. e[n] \in DOMAIN s /\ t[n] = s[e[n]]
    BY <1>4 DEF ArrangedAt
  <2>. QED BY <2>1 DEF RecentAt
<1>10. ArrangedAt(g, c, s, RecentAt(s))
  BY <1>4, <1>6, <1>7, <1>8, <1>9, ArrangedTwice
<1>. QED BY <1>5, <1>10

\* The section shows what the points to monitor watch, as far as days go.
LEMMA SameDays ==
    ASSUME NEW Titles, NEW X, X = DatedEvents(Titles), NEW s \in Seq(X),
           NEW c, c = StableSort(Kept(s, Recent), Newer),
           NEW d, d = StableSort(Kept(Timeline(s), Recent), Newer)
    PROVE  DOMAIN c = DOMAIN d /\ \A n \in DOMAIN c : c[n].age = d[n].age
<1>1. c \in Seq(X) /\ AgesAscend(c) /\ \E f : ArrangedAt(f, c, s, RecentAt(s))
  <2>1. PICK r : r = Kept(s, Recent)
    OBVIOUS
  <2>. QED BY <2>1, RecentSorted
<1>2. d \in Seq(X) /\ AgesAscend(d) /\ \E g : ArrangedAt(g, d, s, RecentAt(s))
  BY TimelineRecent
<1>3. PICK f : ArrangedAt(f, c, s, RecentAt(s))
  BY <1>1
<1>4. PICK g : ArrangedAt(g, d, s, RecentAt(s))
  BY <1>2
<1>5. PICK l \in Nat : DOMAIN c = 1..l
  BY <1>1
<1>6. PICK k \in Nat : DOMAIN d = 1..k
  BY <1>2
<1>7. Cardinality(RecentAt(s)) = l
  BY <1>3, <1>5, ArrangedCount
<1>8. Cardinality(RecentAt(s)) = k
  BY <1>4, <1>6, ArrangedCount
<1>9. \A i \in RecentAt(s) : Age(s[i]) \in Nat
  <2>1. \A i \in RecentAt(s) : s[i] \in X
    BY DEF RecentAt
  <2>. QED BY <2>1, DatesAreAges
<1>10. DOMAIN d = 1..l
  BY <1>6, <1>7, <1>8
<1>11. ASSUME NEW n \in 1..l PROVE c[n].age = d[n].age
  <2>1. Age(c[n]) <= Age(d[n])
    BY <1>1, <1>2, <1>3, <1>4, <1>5, <1>9, <1>10, NoOlder
  <2>2. Age(d[n]) <= Age(c[n])
    BY <1>1, <1>2, <1>3, <1>4, <1>5, <1>9, <1>10, NoOlder
  <2>3. c[n] \in X /\ d[n] \in X
    BY <1>1, <1>2, <1>5, <1>10
  <2>4. /\ Age(c[n]) \in Nat /\ c[n].age = <<Age(c[n])>>
        /\ Age(d[n]) \in Nat /\ d[n].age = <<Age(d[n])>>
    BY <2>3, DatesAreAges
  <2>5. Age(c[n]) = Age(d[n])
    BY <2>1, <2>2, <2>4
  <2>. QED BY <2>4, <2>5
<1>. QED BY <1>5, <1>10, <1>11

\* Of n events that are not behind another each is as recent.
AsRecent(e, r) == {i \in DOMAIN r : ~Newer(e, r[i])}

LEMMA ManyAsRecent ==
    ASSUME NEW Titles, NEW X, X = DatedEvents(Titles), NEW r \in Seq(X), NEW c \in Seq(X),
           NEW q, SortsAt(q, c, r, ByAge(X)), NEW j \in DOMAIN c,
           NEW n, NEW p, Names(p, n, 1..j), Distinct(p, n)
    PROVE  Cardinality(AsRecent(c[j], r)) \in Nat /\ n <= Cardinality(AsRecent(c[j], r))
<1>1. PICK l \in Nat : DOMAIN c = 1..l
  OBVIOUS
<1>2. PICK A : A = AsRecent(c[j], r)
  OBVIOUS
<1>3. IsFiniteSet(A)
  <2>1. A \subseteq DOMAIN r
    BY <1>2 DEF AsRecent
  <2>. QED BY <2>1, SomePlaces
<1>4. AgesAscend(c)
  BY SortedAges
<1>5. ASSUME NEW m \in 1..n PROVE p[m] \in DOMAIN c /\ q[p[m]] \in A
  <2>1. p[m] \in 1..j
    BY DEF Names
  <2>2. PICK i \in DOMAIN c : i = p[m] /\ i <= j
    BY <1>1, <2>1
  <2>3. Age(c[i]) <= Age(c[j])
    BY <1>1, <2>2, <1>4 DEF AgesAscend
  <2>4. c[i] \in X /\ c[j] \in X
    OBVIOUS
  <2>5. ~Newer(c[j], c[i])
    BY <2>3, <2>4, NewerIsYounger, DatesAreAges
  <2>6. q[i] \in DOMAIN r /\ c[i] = r[q[i]]
    BY DEF SortsAt
  <2>. QED BY <1>2, <2>2, <2>5, <2>6 DEF AsRecent
<1>6. PICK h : h = [m \in 1..n |-> q[p[m]]]
  OBVIOUS
<1>7. Names(h, n, A)
  BY <1>5, <1>6 DEF Names
<1>8. ASSUME NEW m \in 1..n, NEW k \in 1..n, m < k PROVE h[m] # h[k]
  <2>1. PICK a, b \in 1..l : a = p[m] /\ b = p[k]
    BY <1>1, <1>5
  <2>2. a # b
    BY <1>8, <2>1 DEF Distinct
  <2>3. a < b \/ b < a
    BY <2>2
  <2>4. q[a] # q[b]
    BY <1>1, <2>3 DEF SortsAt
  <2>. QED BY <1>6, <2>1, <2>4
<1>9. Distinct(h, n)
  BY <1>8 DEF Distinct
<1>. QED BY <1>2, <1>3, <1>7, <1>9, CountIsAtLeast

LEMMA CriticalCounted ==
    ASSUME NEW events, RepaymentImpact(events) = "critical"
    PROVE  \E i \in DOMAIN events : events[i].severity = "critical"
<1>. SUFFICES ASSUME \A i \in DOMAIN events : events[i].severity # "critical" PROVE FALSE
  OBVIOUS
<1>1. {i \in DOMAIN events : events[i].severity = "critical"} = {}
  OBVIOUS
<1>2. CountOf(events, "critical") = 0
  BY <1>1, FS_EmptySet DEF CountOf
<1>3. RepaymentImpact(events) \in {"high", "medium", "limited"}
  BY <1>2 DEF RepaymentImpact
<1>. QED BY <1>3

LEMMA RepeatedIs ==
    ASSUME NEW X, NEW s \in Seq(X)
    PROVE  (Repeated(s) = 0) <=> IsInjective([i \in DOMAIN s |-> s[i].title])
<1>1. PICK n \in Nat : n = Len(s) /\ DOMAIN s = 1..n
  OBVIOUS
<1>2. PICK f : f = [i \in DOMAIN s |-> s[i].title]
  OBVIOUS
<1>3. PICK A : A = {s[i].title : i \in DOMAIN s}
  OBVIOUS
<1>4. Names(f, n, A) /\ Covers(f, n, A)
  BY <1>1, <1>2, <1>3 DEF Names, Covers
<1>5. Cardinality(A) \in Nat /\ (Cardinality(A) = n <=> Distinct(f, n))
  BY <1>4, CountIsAtMost
<1>6. Repeated(s) = 0 <=> Distinct(f, n)
  BY <1>1, <1>3, <1>5 DEF Repeated
<1>7. ASSUME Distinct(f, n), NEW a \in DOMAIN f, NEW b \in DOMAIN f, f[a] = f[b] PROVE a = b
  <2>1. a \in 1..n /\ b \in 1..n
    BY <1>1, <1>2
  <2>2. ~(a < b) /\ ~(b < a)
    BY <1>7, <2>1 DEF Distinct
  <2>. QED BY <2>1, <2>2
<1>8. ASSUME IsInjective(f), NEW a \in 1..n, NEW b \in 1..n, a < b PROVE f[a] # f[b]
  <2>1. a \in DOMAIN f /\ b \in DOMAIN f /\ a # b
    BY <1>1, <1>2, <1>8
  <2>. QED BY <1>8, <2>1 DEF IsInjective
<1>9. IsInjective(f) <=> Distinct(f, n)
  BY <1>7, <1>8 DEF IsInjective, Distinct
<1>. QED BY <1>2, <1>6, <1>9

\* Whatever dated events a workflow found, the page tells them: what it leaves out
\* it leaves out for a reason, and its two sections do not contradict each other.
THEOREM PageAlwaysTells ==
    ASSUME NEW Titles
    PROVE  \A events \in Seq(DatedEvents(Titles)) : PageTellsTheEvents(events)
<1>1. PICK X : X = DatedEvents(Titles)
  OBVIOUS
<1>. SUFFICES ASSUME NEW events \in Seq(X) PROVE PageTellsTheEvents(events)
  BY <1>1
<1>2. PICK r : r = Kept(events, Recent)
  OBVIOUS
<1>3. PICK c : c = StableSort(r, Newer)
  OBVIOUS
<1>4. PICK d : d = StableSort(Kept(Timeline(events), Recent), Newer)
  OBVIOUS
<1>5. r \in Seq(X) /\ c \in Seq(X) /\ Len(c) = Len(r) /\ AgesAscend(c)
  BY <1>1, <1>2, <1>3, RecentSorted
<1>6. PICK q : SortsAt(q, c, r, ByAge(X))
  BY <1>1, <1>2, <1>3, RecentSorted
<1>7. PICK h : ArrangedAt(h, c, events, RecentAt(events))
  BY <1>1, <1>2, <1>3, RecentSorted
<1>8. d \in Seq(X)
  BY <1>1, <1>4, TimelineRecent
<1>9. DOMAIN c = DOMAIN d /\ \A n \in DOMAIN c : c[n].age = d[n].age
  BY <1>1, <1>2, <1>3, <1>4, SameDays
<1>10. ReadLimit \in Nat /\ ShownLimit \in Nat /\ KeyLimit \in Nat
       /\ KeyLimit <= ShownLimit /\ ShownLimit <= ReadLimit
  BY PageAssumption
<1>11. PICK items : items = EventItems(events)
  OBVIOUS
<1>12. items = First(c, ReadLimit)
  <2>1. ClassifiedItems(events) = c
    BY <1>2, <1>3 DEF ClassifiedItems
  <2>2. c = <<>> => d = c
    <3>1. ASSUME c = <<>> PROVE d = <<>>
      <4>1. DOMAIN d = {}
        BY <1>9, <3>1
      <4>. QED BY <1>8, <4>1
    <3>. QED BY <3>1
  <2>. QED BY <1>4, <1>11, <2>1, <2>2 DEF EventItems
<1>13. items \in Seq(X) /\ StartsWith(items, c, ReadLimit)
  BY <1>5, <1>10, <1>12, FirstIs
<1>14. PICK shown : shown = First(items, ShownLimit)
  OBVIOUS
<1>15. shown \in Seq(X) /\ StartsWith(shown, items, ShownLimit)
  BY <1>10, <1>13, <1>14, FirstIs
<1>16. PICK S : S = {i \in DOMAIN items : Severe(items[i])}
  OBVIOUS
<1>17. S \in SUBSET (DOMAIN items)
  BY <1>16
<1>18. PICK severe : severe = Kept(items, Severe)
  OBVIOUS
<1>19. severe \in Seq(X) /\ \E k : KeepsAt(k, severe, items, S)
  <2>1. severe = Taken(items, Ascending(S))
    BY <1>16, <1>18 DEF Kept
  <2>. QED BY <1>13, <1>17, <2>1, KeptIs
<1>20. PICK k : KeepsAt(k, severe, items, S)
  BY <1>19
<1>21. PICK key : key = First(IF severe # <<>> THEN severe ELSE shown, KeyLimit)
  OBVIOUS
<1>22. PICK section : section = EventSection(events)
  OBVIOUS
<1>23. /\ section.items = shown /\ section.key = key
       /\ section.impact = RepaymentImpact(events) /\ section.repeated = Repeated(shown)
  BY <1>11, <1>14, <1>18, <1>21, <1>22 DEF EventSection
<1>24. PICK watched : watched = First(d, ShownLimit)
  OBVIOUS
<1>25. watched = RecentRiskEvents(events)
  BY <1>4, <1>24 DEF RecentRiskEvents
\* The two sections show as many events of the same days.
<1>26. [i \in DOMAIN shown |-> shown[i].age] = [i \in DOMAIN watched |-> watched[i].age]
  <2>1. watched \in Seq(X) /\ StartsWith(watched, d, ShownLimit)
    BY <1>8, <1>10, <1>24, FirstIs
  <2>2. DOMAIN items \in SUBSET Nat /\ DOMAIN c \in SUBSET Nat
    BY <1>5, <1>13
  <2>3. \A i : i \in DOMAIN items <=> i \in DOMAIN c /\ i <= ReadLimit
    BY <1>13 DEF StartsWith
  <2>4. \A i : i \in DOMAIN shown <=> i \in DOMAIN c /\ i <= ShownLimit
    <3>1. \A i : i \in DOMAIN shown <=> i \in DOMAIN items /\ i <= ShownLimit
      BY <1>15 DEF StartsWith
    <3>2. \A i \in DOMAIN c : i <= ShownLimit => i <= ReadLimit
      BY <1>10, <2>2
    <3>. QED BY <2>3, <3>1, <3>2
  <2>5. \A i : i \in DOMAIN watched <=> i \in DOMAIN d /\ i <= ShownLimit
    BY <2>1 DEF StartsWith
  <2>6. DOMAIN shown = DOMAIN watched
    BY <1>9, <2>4, <2>5
  <2>7. ASSUME NEW i \in DOMAIN shown PROVE shown[i].age = watched[i].age
    <3>1. i \in DOMAIN items /\ shown[i] = items[i]
      BY <1>15, <2>7 DEF StartsWith
    <3>2. i \in DOMAIN c /\ items[i] = c[i]
      BY <1>13, <3>1 DEF StartsWith
    <3>3. watched[i] = d[i]
      BY <2>1, <2>6, <2>7 DEF StartsWith
    <3>. QED BY <1>9, <3>1, <3>2, <3>3
  <2>. QED BY <2>6, <2>7
\* An event among the first n of the sorted list has n as recent ones.
<1>27. ASSUME NEW j \in DOMAIN c
       PROVE  Cardinality(AsRecent(c[j], r)) \in Nat /\ j <= Cardinality(AsRecent(c[j], r))
  <2>1. PICK p : p = [m \in 1..j |-> m]
    OBVIOUS
  <2>2. j \in Nat
    BY <1>5
  <2>3. Names(p, j, 1..j) /\ Distinct(p, j)
    BY <2>1, <2>2 DEF Names, Distinct
  <2>. QED BY <1>1, <1>5, <1>6, <2>3, ManyAsRecent
<1>28. ASSUME NEW i \in DOMAIN events, Recent(events[i])
       PROVE  \E j \in DOMAIN c : c[j] = events[i]
  <2>1. i \in RecentAt(events)
    BY <1>28 DEF RecentAt
  <2>. QED BY <1>7, <2>1 DEF ArrangedAt
<1>29. ASSUME NEW i \in DOMAIN events, events[i] \notin Range(items), Recent(events[i])
       PROVE  Cardinality(AsRecent(events[i], r)) > ReadLimit
  <2>1. PICK j \in DOMAIN c : c[j] = events[i]
    BY <1>28, <1>29
  <2>2. j \notin DOMAIN items
    <3>. SUFFICES ASSUME j \in DOMAIN items PROVE FALSE
      OBVIOUS
    <3>1. items[j] = events[i]
      BY <1>13, <2>1 DEF StartsWith
    <3>. QED BY <1>29, <3>1 DEF Range
  <2>3. ~(j <= ReadLimit) /\ j \in Nat
    BY <1>5, <1>13, <2>2 DEF StartsWith
  <2>4. Cardinality(AsRecent(events[i], r)) \in Nat /\ j <= Cardinality(AsRecent(events[i], r))
    BY <1>27, <2>1
  <2>. QED BY <1>10, <2>3, <2>4
<1>30. \A i \in DOMAIN events : \/ events[i] \in Range(items)
                                \/ events[i].age[1] > LookbackDays
                                \/ Cardinality(AsRecent(events[i], r)) > ReadLimit
  <2>. SUFFICES ASSUME NEW i \in DOMAIN events, ~Recent(events[i])
                PROVE  events[i].age[1] > LookbackDays
    BY <1>29
  <2>1. events[i] \in X
    OBVIOUS
  <2>2. Age(events[i]) \in Nat /\ ~(Age(events[i]) <= LookbackDays)
    BY <1>1, <2>1, DatesAreAges
  <2>. QED BY <2>2, PageAssumption DEF Age
\* The highlights are severe if one of the items is.
<1>31. \A n \in DOMAIN severe : k[n] \in S /\ severe[n] = items[k[n]] /\ Severe(severe[n])
  BY <1>16, <1>20 DEF KeepsAt
<1>32. ASSUME S # {}
       PROVE  severe # <<>> /\ StartsWith(key, severe, KeyLimit)
  <2>1. PICK n \in DOMAIN severe : k[n] \in S
    BY <1>20, <1>32 DEF KeepsAt
  <2>2. severe # <<>>
    BY <2>1
  <2>3. key = First(severe, KeyLimit)
    BY <1>21, <2>2
  <2>. QED BY <1>10, <1>19, <2>2, <2>3, FirstIs
<1>33. (\E e \in Range(items) : Severe(e)) => \A e \in Range(key) : Severe(e)
  <2>. SUFFICES ASSUME NEW e \in Range(items), Severe(e), NEW f \in Range(key) PROVE Severe(f)
    OBVIOUS
  <2>1. S # {}
    BY <1>16 DEF Range
  <2>2. PICK n \in DOMAIN key : f = key[n]
    BY DEF Range
  <2>3. n \in DOMAIN severe /\ key[n] = severe[n]
    BY <1>32, <2>1, <2>2 DEF StartsWith
  <2>. QED BY <1>31, <2>2, <2>3
\* A severe item that is not highlighted has enough severe ones before it.
<1>34. ASSUME NEW j \in DOMAIN items, Severe(items[j]), items[j] \notin Range(key)
       PROVE  \E n \in Nat : /\ n > KeyLimit /\ Names(k, n, 1..j) /\ Distinct(k, n)
                             /\ \A m \in 1..n : k[m] \in S
  <2>1. j \in S
    BY <1>16, <1>34
  <2>2. PICK n \in DOMAIN severe : k[n] = j
    BY <1>20, <2>1 DEF KeepsAt
  <2>3. PICK l \in Nat : DOMAIN severe = 1..l
    BY <1>19
  <2>4. n \in 1..l /\ n \in Nat
    BY <2>2, <2>3
  <2>5. StartsWith(key, severe, KeyLimit)
    BY <1>32, <2>1
  <2>6. n > KeyLimit
    <3>. SUFFICES ASSUME n <= KeyLimit PROVE FALSE
      BY <1>10, <2>4
    <3>1. n \in DOMAIN key /\ key[n] = severe[n]
      BY <2>2, <2>5 DEF StartsWith
    <3>2. key[n] = items[j]
      BY <1>31, <2>2, <3>1
    <3>. QED BY <1>34, <3>1, <3>2 DEF Range
  <2>7. \A m \in 1..n : k[m] \in S
    BY <1>31, <2>3, <2>4
  <2>8. S \in SUBSET Nat /\ 0 \notin S
    <3>1. PICK w \in Nat : DOMAIN items = 1..w
      BY <1>13
    <3>. QED BY <1>17, <3>1
  <2>9. ASSUME NEW m \in 1..n, NEW i \in 1..n, m < i PROVE k[m] < k[i]
    BY <1>20, <2>3, <2>4, <2>9 DEF KeepsAt
  <2>10. ASSUME NEW m \in 1..n PROVE k[m] \in 1..j
    <3>1. k[m] \in Nat /\ k[m] # 0 /\ j \in Nat
      BY <2>1, <2>7, <2>8, <2>10
    <3>2. m = n \/ k[m] < k[n]
      BY <2>4, <2>9, <2>10
    <3>. QED BY <2>2, <3>1, <3>2
  <2>11. Distinct(k, n)
    <3>1. ASSUME NEW m \in 1..n, NEW i \in 1..n, m < i PROVE k[m] # k[i]
      <4>1. k[m] < k[i] /\ k[m] \in 1..j /\ j \in Nat
        BY <2>1, <2>8, <2>9, <2>10, <3>1
      <4>. QED BY <4>1
    <3>. QED BY <3>1 DEF Distinct
  <2>12. Names(k, n, 1..j)
    BY <2>4, <2>10 DEF Names
  <2>. QED BY <2>4, <2>6, <2>7, <2>11, <2>12
<1>35. \A e \in Range(items) : Severe(e) =>
          \/ e \in Range(key)
          \/ Cardinality({i \in DOMAIN items : Severe(items[i]) /\ ~Newer(e, items[i])}) > KeyLimit
  <2>. SUFFICES ASSUME NEW e \in Range(items), Severe(e), e \notin Range(key)
                PROVE  Cardinality({i \in DOMAIN items : Severe(items[i]) /\ ~Newer(e, items[i])})
                          > KeyLimit
    OBVIOUS
  <2>1. PICK j \in DOMAIN items : e = items[j]
    BY DEF Range
  <2>2. PICK n \in Nat : /\ n > KeyLimit /\ Names(k, n, 1..j) /\ Distinct(k, n)
                         /\ \A m \in 1..n : k[m] \in S
    BY <1>34, <2>1
  <2>3. PICK A : A = {i \in DOMAIN items : Severe(items[i]) /\ ~Newer(e, items[i])}
    OBVIOUS
  <2>4. ASSUME NEW m \in 1..n PROVE k[m] \in A
    <3>1. k[m] \in S /\ k[m] \in 1..j
      BY <2>2 DEF Names
    <3>2. PICK i \in DOMAIN items : i = k[m] /\ i <= j /\ Severe(items[i])
      BY <1>16, <3>1
    <3>3. i \in DOMAIN c /\ j \in DOMAIN c /\ items[i] = c[i] /\ items[j] = c[j]
      BY <1>13 DEF StartsWith
    <3>4. Age(items[i]) <= Age(items[j])
      BY <1>5, <3>2, <3>3 DEF AgesAscend
    <3>5. items[i] \in X /\ items[j] \in X
      BY <1>13
    <3>6. ~Newer(items[j], items[i])
      BY <1>1, <3>4, <3>5, NewerIsYounger, DatesAreAges
    <3>. QED BY <2>1, <2>3, <3>2, <3>6
  <2>5. IsFiniteSet(A)
    <3>1. A \subseteq DOMAIN items
      BY <2>3
    <3>. QED BY <1>13, <3>1, SomePlaces
  <2>6. Names(k, n, A)
    BY <2>4 DEF Names
  <2>7. Cardinality(A) \in Nat /\ n <= Cardinality(A)
    BY <2>2, <2>5, <2>6, CountIsAtLeast
  <2>. QED BY <1>10, <2>2, <2>3, <2>7
\* A sentence about critical events counts old or displaced ones.
<1>36. ASSUME RepaymentImpact(events) = "critical", \A e \in Range(key) : e.severity # "critical"
       PROVE  \E i \in DOMAIN events :
                 /\ events[i].severity = "critical"
                 /\ ~Recent(events[i]) \/ Cardinality(AsRecent(events[i], r)) > KeyLimit
  <2>1. PICK i \in DOMAIN events : events[i].severity = "critical"
    BY <1>36, CriticalCounted
  <2>2. CASE ~Recent(events[i])
    BY <2>1, <2>2
  <2>3. CASE Recent(events[i]) /\ events[i] \notin Range(items)
    <3>1. Cardinality(AsRecent(events[i], r)) > ReadLimit
      BY <1>29, <2>3
    <3>2. PICK j \in DOMAIN c : c[j] = events[i]
      BY <1>28, <2>3
    <3>3. Cardinality(AsRecent(events[i], r)) \in Nat
      BY <1>27, <3>2
    <3>4. Cardinality(AsRecent(events[i], r)) > KeyLimit
      BY <1>10, <3>1, <3>3
    <3>. QED BY <2>1, <3>4
  <2>4. CASE events[i] \in Range(items)
    <3>1. PICK j \in DOMAIN items : events[i] = items[j]
      BY <2>4 DEF Range
    <3>2. Severe(items[j]) /\ items[j] \notin Range(key)
      BY <1>36, <2>1, <3>1 DEF Severe
    <3>3. PICK n \in Nat : n > KeyLimit /\ Names(k, n, 1..j) /\ Distinct(k, n)
      BY <1>34, <3>2
    <3>4. j \in DOMAIN c /\ items[j] = c[j]
      BY <1>13 DEF StartsWith
    <3>5. /\ Cardinality(AsRecent(c[j], r)) \in Nat
          /\ n <= Cardinality(AsRecent(c[j], r))
      BY <1>1, <1>5, <1>6, <3>3, <3>4, ManyAsRecent
    <3>6. Cardinality(AsRecent(events[i], r)) > KeyLimit
      BY <1>10, <3>1, <3>3, <3>4, <3>5
    <3>. QED BY <2>1, <3>6
  <2>. QED BY <2>2, <2>3, <2>4
<1>37. (Repeated(shown) = 0) <=> IsInjective([i \in DOMAIN shown |-> shown[i].title])
  BY <1>15, RepeatedIs
<1>. QED
  <2>1. section.impact = "critical" /\ (\A e \in Range(section.key) : e.severity # "critical") =>
           \E i \in DOMAIN events :
              /\ events[i].severity = "critical"
              /\ \/ ~Recent(events[i])
                 \/ Cardinality(AsRecent(events[i], r)) > KeyLimit
    BY <1>23, <1>36
  <2>2. \A e : AsRecent(e, r) = {i \in DOMAIN Kept(events, Recent) :
                                   ~Newer(e, Kept(events, Recent)[i])}
    BY <1>2 DEF AsRecent
  <2>. QED BY <1>11, <1>22, <1>23, <1>25, <1>26, <1>30, <1>33, <1>35, <1>37, <2>1, <2>2
           DEF PageTellsTheEvents
-----------------------------------------------------------------------------
(* Rankings *)

\* A ranking has no chunk twice.
IsRanking(s, Ids) == s \in Seq(Ids) /\ \A i, k \in DOMAIN s : s[i] = s[k] => i = k
RankIn(s, d) == CHOOSE i \in DOMAIN s : s[i] = d

LEMMA RankIs ==
    ASSUME NEW s, NEW d \in Range(s)
    PROVE  RankIn(s, d) \in DOMAIN s /\ s[RankIn(s, d)] = d
<1>1. \E i : i \in DOMAIN s /\ s[i] = d
  BY DEF Range
<1>. QED BY <1>1 DEF RankIn

LEMMA NoLess ==
    ASSUME NEW a \in Nat, NEW b \in Nat, NEW c \in Nat, a <= b
    PROVE  a * c <= b * c /\ a * c \in Nat /\ b * c \in Nat
<1>1. PICK d \in Nat : b = a + d
  <2>1. b - a \in Nat /\ b = a + (b - a)
    OBVIOUS
  <2>. QED BY <2>1
<1>2. b * c = a * c + d * c
  BY <1>1
<1>3. a * c \in Nat /\ d * c \in Nat /\ b * c \in Nat
  <2>1. \A x, y \in Nat : x * y \in Nat
    OBVIOUS
  <2>. QED BY <2>1
<1>. QED BY <1>2, <1>3

LEMMA Less ==
    ASSUME NEW a \in Nat, NEW b \in Nat, NEW c \in Nat \ {0}, a < b
    PROVE  a * c < b * c /\ a * c \in Nat /\ b * c \in Nat
<1>1. (a + 1) * c <= b * c /\ b * c \in Nat
  BY NoLess
<1>2. (a + 1) * c = a * c + c
  OBVIOUS
<1>3. a * c \in Nat
  BY NoLess
<1>. QED BY <1>1, <1>2, <1>3

\* Fractions by cross multiplication.
LEMMA FractionsAreOrdered ==
    ASSUME NEW p1 \in Nat, NEW q1 \in Nat \ {0}, NEW p2 \in Nat, NEW q2 \in Nat \ {0},
           NEW p3 \in Nat, NEW q3 \in Nat \ {0},
           p1 * q2 <= p2 * q1, p2 * q3 <= p3 * q2
    PROVE  p1 * q3 <= p3 * q1
<1>1. \A x, y \in Nat : x * y \in Nat
  OBVIOUS
<1>2. PICK a, b, c, d \in Nat : a = p1 * q2 /\ b = p2 * q1 /\ c = p2 * q3 /\ d = p3 * q2
  BY <1>1
<1>3. a * q3 <= b * q3 /\ c * q1 <= d * q1
  BY <1>2, NoLess
<1>4. b * q3 = c * q1
  BY <1>2
<1>5. a * q3 \in Nat /\ b * q3 \in Nat /\ c * q1 \in Nat /\ d * q1 \in Nat
  BY <1>1
<1>6. a * q3 <= d * q1
  BY <1>3, <1>4, <1>5
<1>7. PICK u, v \in Nat : u = p1 * q3 /\ v = p3 * q1
  BY <1>1
<1>8. a * q3 = u * q2 /\ d * q1 = v * q2
  BY <1>2, <1>7
<1>9. ~(v < u)
  <2>. SUFFICES ASSUME v < u PROVE FALSE
    OBVIOUS
  <2>1. v * q2 < u * q2 /\ v * q2 \in Nat /\ u * q2 \in Nat
    BY Less
  <2>. QED BY <1>6, <1>8, <2>1
<1>. QED BY <1>7, <1>9

\* Two ranks within the first sixty weigh more than any one.
LEMMA TwoOutweighOne ==
    ASSUME NEW a \in 61..120, NEW b \in 61..120, NEW c \in Nat, 61 <= c
    PROVE  (a + b) * c > 1 * (a * b)
<1>1. a * b <= 120 * b /\ a * b \in Nat
  BY NoLess
<1>2. b * a <= 120 * a
  BY NoLess
<1>3. b * a = a * b
  OBVIOUS
<1>4. 2 * (a * b) <= 120 * (a + b)
  BY <1>1, <1>2, <1>3
<1>5. a * b < 61 * (a + b)
  BY <1>1, <1>4
<1>6. 61 * (a + b) <= c * (a + b) /\ c * (a + b) \in Nat
  BY NoLess
<1>7. c * (a + b) = (a + b) * c
  OBVIOUS
<1>. QED BY <1>1, <1>5, <1>6, <1>7

LEMMA ScoreOfBoth ==
    ASSUME NEW dense, NEW sparse, NEW d, d \in Range(dense), d \in Range(sparse)
    PROVE  RrfScore(d, dense, sparse)
              = <<(60 + RankIn(dense, d)) + (60 + RankIn(sparse, d)),
                  (60 + RankIn(dense, d)) * (60 + RankIn(sparse, d))>>
  BY DEF RrfScore, RankIn, RrfConstant

LEMMA ScoreOfDense ==
    ASSUME NEW dense, NEW sparse, NEW d, d \in Range(dense), d \notin Range(sparse)
    PROVE  RrfScore(d, dense, sparse) = <<1, 60 + RankIn(dense, d)>>
  BY DEF RrfScore, RankIn, RrfConstant

LEMMA ScoreOfSparse ==
    ASSUME NEW dense, NEW sparse, NEW d, d \notin Range(dense)
    PROVE  RrfScore(d, dense, sparse) = <<1, 60 + RankIn(sparse, d)>>
  BY DEF RrfScore, RankIn, RrfConstant

\* Scores are fractions; of a chunk of one ranking with one above.
LEMMA ScoreIs ==
    ASSUME NEW Ids, NEW dense \in Seq(Ids), NEW sparse \in Seq(Ids),
           NEW d \in Range(dense) \cup Range(sparse),
           NEW p, p = RrfScore(d, dense, sparse)[1], NEW q, q = RrfScore(d, dense, sparse)[2]
    PROVE  /\ p \in Nat /\ q \in Nat \ {0}
           /\ d \notin Range(dense) \cap Range(sparse) => p = 1 /\ 61 <= q
<1>1. DOMAIN dense \in SUBSET (Nat \ {0}) /\ DOMAIN sparse \in SUBSET (Nat \ {0})
  OBVIOUS
<1>2. CASE d \in Range(dense) /\ d \in Range(sparse)
  <2>1. PICK a, b \in Nat \ {0} : a = 60 + RankIn(dense, d) /\ b = 60 + RankIn(sparse, d)
    <3>1. RankIn(dense, d) \in Nat \ {0} /\ RankIn(sparse, d) \in Nat \ {0}
      BY <1>1, <1>2, RankIs
    <3>. QED BY <3>1
  <2>2. RrfScore(d, dense, sparse) = <<a + b, a * b>>
    BY <1>2, <2>1, ScoreOfBoth
  <2>3. a * b \in Nat \ {0}
    <3>1. 0 * b < a * b /\ 0 * b \in Nat /\ a * b \in Nat
      BY Less
    <3>. QED BY <3>1
  <2>. QED BY <1>2, <2>2, <2>3
<1>3. CASE d \in Range(dense) /\ d \notin Range(sparse)
  <2>1. RankIn(dense, d) \in Nat \ {0}
    BY <1>1, <1>3, RankIs
  <2>2. RrfScore(d, dense, sparse) = <<1, 60 + RankIn(dense, d)>>
    BY <1>3, ScoreOfDense
  <2>. QED BY <2>1, <2>2
<1>4. CASE d \notin Range(dense)
  <2>1. RankIn(sparse, d) \in Nat \ {0}
    BY <1>1, <1>4, RankIs
  <2>2. RrfScore(d, dense, sparse) = <<1, 60 + RankIn(sparse, d)>>
    BY <1>4, ScoreOfSparse
  <2>. QED BY <2>1, <2>2
<1>. QED BY <1>2, <1>3, <1>4

\* Which chunks the merge puts ahead of which.
Outweighs(d, e, dense, sparse) ==
    RrfScore(d, dense, sparse)[1] * RrfScore(e, dense, sparse)[2]
       > RrfScore(e, dense, sparse)[1] * RrfScore(d, dense, sparse)[2]
ByScore(X, dense, sparse) == {p \in X \X X : Outweighs(p[1], p[2], dense, sparse)}

LEMMA InByScore ==
    ASSUME NEW X, NEW dense, NEW sparse, NEW d \in X, NEW e \in X
    PROVE  <<d, e>> \in ByScore(X, dense, sparse) <=> Outweighs(d, e, dense, sparse)
  BY DEF ByScore

LEMMA ScoreIsOrder ==
    ASSUME NEW Ids, NEW dense \in Seq(Ids), NEW sparse \in Seq(Ids),
           NEW X, X = Range(dense) \cup Range(sparse)
    PROVE  IsWeakOrder(ByScore(X, dense, sparse), X)
<1> DEFINE P(d) == RrfScore(d, dense, sparse)[1]
           Q(d) == RrfScore(d, dense, sparse)[2]
<1>1. PICK before : before = ByScore(X, dense, sparse)
  OBVIOUS
<1>2. before \in SUBSET (X \X X)
  BY <1>1 DEF ByScore
<1>3. \A d, e \in X : <<d, e>> \in before <=> P(d) * Q(e) > P(e) * Q(d)
  BY <1>1, InByScore DEF Outweighs
<1>4. \A d \in X : P(d) \in Nat /\ Q(d) \in Nat \ {0}
  BY ScoreIs
<1>. HIDE DEF P, Q
<1>5. \A x, y \in Nat : x * y \in Nat
  OBVIOUS
<1>6. ASSUME NEW d \in X, NEW e \in X, <<d, e>> \in before PROVE <<e, d>> \notin before
  <2>1. PICK x, y \in Nat : x = P(d) * Q(e) /\ y = P(e) * Q(d)
    BY <1>4, <1>5
  <2>. QED BY <1>3, <1>6, <2>1
<1>7. ASSUME NEW d \in X, NEW e \in X, NEW f \in X,
             <<d, e>> \notin before, <<e, f>> \notin before
      PROVE  <<d, f>> \notin before
  <2>1. PICK p1, p2, p3 \in Nat : p1 = P(d) /\ p2 = P(e) /\ p3 = P(f)
    BY <1>4
  <2>2. PICK q1, q2, q3 \in Nat \ {0} : q1 = Q(d) /\ q2 = Q(e) /\ q3 = Q(f)
    BY <1>4
  <2>3. /\ p1 * q2 \in Nat /\ p2 * q1 \in Nat /\ p2 * q3 \in Nat /\ p3 * q2 \in Nat
        /\ p1 * q3 \in Nat /\ p3 * q1 \in Nat
    BY <1>5
  <2>4. p1 * q2 <= p2 * q1
    <3>1. ~(p1 * q2 > p2 * q1)
      BY <1>3, <1>7, <2>1, <2>2
    <3>. QED BY <2>3, <3>1
  <2>5. p2 * q3 <= p3 * q2
    <3>1. ~(p2 * q3 > p3 * q2)
      BY <1>3, <1>7, <2>1, <2>2
    <3>. QED BY <2>3, <3>1
  <2>6. p1 * q3 <= p3 * q1
    BY <2>4, <2>5, FractionsAreOrdered
  <2>7. ~(p1 * q3 > p3 * q1)
    BY <2>3, <2>6
  <2>8. <<d, f>> \in before <=> p1 * q3 > p3 * q1
    BY <1>3, <2>1, <2>2
  <2>. QED BY <2>7, <2>8
<1>. QED BY <1>1, <1>2, <1>6, <1>7 DEF IsWeakOrder

\* The chunks of both rankings, the nearest first.
Found(dense, sparse) == dense \o Kept(sparse, LAMBDA d : d \notin Range(dense))

Once(u) == \A i, k \in DOMAIN u : u[i] = u[k] => i = k
Begins(u, dense) == \A i \in DOMAIN dense : i \in DOMAIN u /\ u[i] = dense[i]

LEMMA FoundOnce ==
    ASSUME NEW Ids, NEW dense, NEW sparse, IsRanking(dense, Ids), IsRanking(sparse, Ids),
           NEW X, X = Range(dense) \cup Range(sparse), NEW u, u = Found(dense, sparse)
    PROVE  /\ u \in Seq(X) /\ Range(u) = X
           /\ Once(u)
           /\ Begins(u, dense)
<1>1. dense \in Seq(Ids) /\ sparse \in Seq(Ids)
  BY DEF IsRanking
<1>2. PICK T : T = {i \in DOMAIN sparse : sparse[i] \notin Range(dense)}
  OBVIOUS
<1>3. PICK r : r = Kept(sparse, LAMBDA d : d \notin Range(dense))
  OBVIOUS
<1>4. r \in Seq(Ids) /\ \E k : KeepsAt(k, r, sparse, T)
  <2>1. r = Taken(sparse, Ascending(T))
    BY <1>2, <1>3 DEF Kept
  <2>2. T \in SUBSET (DOMAIN sparse)
    BY <1>2
  <2>. QED BY <1>1, <2>1, <2>2, KeptIs
<1>5. PICK k : KeepsAt(k, r, sparse, T)
  BY <1>4
<1>6. PICK m \in Nat : m = Len(dense) /\ DOMAIN dense = 1..m
  BY <1>1
<1>7. PICK n \in Nat : n = Len(r) /\ DOMAIN r = 1..n
  BY <1>4
<1>8. u = dense \o r
  BY <1>3 DEF Found
<1>9. DOMAIN u = 1..(m + n)
  <2>1. u \in Seq(Ids) /\ Len(u) = m + n
    BY <1>1, <1>4, <1>6, <1>7, <1>8
  <2>. QED BY <2>1
<1>10. \A i \in 1..m : u[i] = dense[i]
  BY <1>1, <1>4, <1>6, <1>7, <1>8
<1>11. \A i \in 1..n : u[m + i] = r[i]
  BY <1>1, <1>4, <1>6, <1>7, <1>8
<1>12. \A i \in 1..n : r[i] = sparse[k[i]] /\ k[i] \in DOMAIN sparse /\ r[i] \notin Range(dense)
  BY <1>2, <1>5, <1>7 DEF KeepsAt
<1>13. \A i \in 1..(m + n) : i \in 1..m \/ \E j \in 1..n : i = m + j
  <2>. SUFFICES ASSUME NEW i \in 1..(m + n), i \notin 1..m PROVE \E j \in 1..n : i = m + j
    OBVIOUS
  <2>1. i - m \in 1..n /\ i = m + (i - m)
    OBVIOUS
  <2>. QED BY <2>1
<1>14. ASSUME NEW i \in 1..(m + n) PROVE u[i] \in X
  <2>1. CASE i \in 1..m
    BY <1>6, <1>10, <2>1 DEF Range
  <2>2. CASE \E j \in 1..n : i = m + j
    <3>1. PICK j \in 1..n : i = m + j
      BY <2>2
    <3>. QED BY <1>11, <1>12, <3>1 DEF Range
  <2>. QED BY <1>13, <2>1, <2>2
<1>15. u \in Seq(X)
  <2>1. u \in [1..(m + n) -> X]
    <3>1. u \in Seq(Ids)
      BY <1>1, <1>4, <1>8, Together
    <3>2. u = [i \in 1..(m + n) |-> u[i]]
      BY <1>9, <3>1
    <3>. QED BY <1>14, <3>2
  <2>2. m + n \in Nat
    OBVIOUS
  <2>. QED BY <2>1, <2>2, IsSequence
<1>16. ASSUME NEW d \in X PROVE d \in Range(u)
  <2>1. CASE d \in Range(dense)
    <3>1. PICK i \in 1..m : dense[i] = d
      BY <1>6, <2>1 DEF Range
    <3>2. i \in DOMAIN u /\ u[i] = d
      BY <1>9, <1>10, <3>1
    <3>. QED BY <3>2 DEF Range
  <2>2. CASE d \notin Range(dense)
    <3>1. PICK i \in DOMAIN sparse : sparse[i] = d
      BY <2>2 DEF Range
    <3>2. i \in T
      BY <1>2, <2>2, <3>1
    <3>3. PICK j \in 1..n : k[j] = i
      BY <1>5, <1>7, <3>2 DEF KeepsAt
    <3>4. m + j \in DOMAIN u /\ u[m + j] = d
      BY <1>9, <1>11, <1>12, <3>1, <3>3
    <3>. QED BY <3>4 DEF Range
  <2>. QED BY <2>1, <2>2
<1>17. Range(u) = X
  <2>1. \A d \in Range(u) : d \in X
    BY <1>9, <1>14 DEF Range
  <2>. QED BY <1>16, <2>1
<1>18. ASSUME NEW i \in 1..(m + n), NEW j \in 1..(m + n), u[i] = u[j], i < j PROVE FALSE
  <2>1. CASE j \in 1..m
    <3>1. i \in 1..m
      BY <1>18, <2>1
    <3>2. i \in DOMAIN dense /\ j \in DOMAIN dense /\ dense[i] = dense[j]
      BY <1>6, <1>10, <1>18, <2>1, <3>1
    <3>. QED BY <1>18, <3>2 DEF IsRanking
  <2>2. CASE i \in 1..m /\ \E b \in 1..n : j = m + b
    <3>1. PICK b \in 1..n : j = m + b
      BY <2>2
    <3>2. u[i] \in Range(dense)
      BY <1>6, <1>10, <2>2 DEF Range
    <3>. QED BY <1>11, <1>12, <1>18, <3>1, <3>2
  <2>3. CASE (\E a \in 1..n : i = m + a) /\ (\E b \in 1..n : j = m + b)
    <3>1. PICK a, b \in 1..n : i = m + a /\ j = m + b
      BY <2>3
    <3>2. a < b
      BY <1>18, <3>1
    <3>3. k[a] < k[b]
      BY <1>5, <1>7, <3>2 DEF KeepsAt
    <3>4. sparse[k[a]] = sparse[k[b]] /\ k[a] \in DOMAIN sparse /\ k[b] \in DOMAIN sparse
      BY <1>11, <1>12, <1>18, <3>1
    <3>5. k[a] = k[b] /\ k[a] \in Nat
      BY <1>1, <3>4 DEF IsRanking
    <3>. QED BY <3>3, <3>5
  <2>4. \/ j \in 1..m
        \/ i \in 1..m /\ \E b \in 1..n : j = m + b
        \/ (\E a \in 1..n : i = m + a) /\ (\E b \in 1..n : j = m + b)
    BY <1>13
  <2>. QED BY <2>1, <2>2, <2>3, <2>4
<1>19. ASSUME NEW i \in DOMAIN u, NEW j \in DOMAIN u, u[i] = u[j] PROVE i = j
  <2>1. ~(i < j) /\ ~(j < i)
    BY <1>9, <1>18, <1>19
  <2>. QED BY <1>9, <2>1
<1>20. \A i \in DOMAIN dense : i \in DOMAIN u /\ u[i] = dense[i]
  BY <1>6, <1>9, <1>10
<1>. QED BY <1>15, <1>17, <1>19, <1>20 DEF Begins, Once

LEMMA MergeOrder ==
    ASSUME NEW Ids, NEW dense, NEW sparse, IsRanking(dense, Ids), IsRanking(sparse, Ids),
           NEW X, X = Range(dense) \cup Range(sparse)
    PROVE  IsSortOf(RrfMerge(dense, sparse), Found(dense, sparse), ByScore(X, dense, sparse))
<1>1. PICK s : s = Found(dense, sparse)
  OBVIOUS
<1>2. s \in Seq(X)
  BY <1>1, FoundOnce
<1> DEFINE Before(a, b) == Outweighs(a, b, dense, sparse)
<1>3. ASSUME NEW k \in DOMAIN s, NEW i \in DOMAIN s
      PROVE  Before(s[k], s[i]) <=> <<s[k], s[i]>> \in ByScore(X, dense, sparse)
  <2>1. s[k] \in X /\ s[i] \in X
    BY <1>2
  <2>. QED BY <2>1, InByScore
<1>4. \A i \in DOMAIN s :
         {k \in DOMAIN s : Before(s[k], s[i]) \/ (~Before(s[i], s[k]) /\ k <= i)}
            = {k \in DOMAIN s : \/ <<s[k], s[i]>> \in ByScore(X, dense, sparse)
                                \/ <<s[i], s[k]>> \notin ByScore(X, dense, sparse) /\ k <= i}
  <2>. HIDE DEF Before
  <2>. QED BY <1>3
<1>5. PICK place : place = [i \in DOMAIN s |-> Cardinality(
         {k \in DOMAIN s : Before(s[k], s[i]) \/ (~Before(s[i], s[k]) /\ k <= i)})]
  OBVIOUS
<1>6. IsCount(place, s, ByScore(X, dense, sparse))
  <2>. HIDE DEF Before
  <2>. QED BY <1>4, <1>5 DEF IsCount
<1>7. RrfMerge(dense, sparse) = Taken(s, [n \in 1..Cardinality(DOMAIN s) |->
                                              CHOOSE i \in DOMAIN s : place[i] = n])
  BY <1>1, <1>5 DEF RrfMerge, StableSort, InOrder, Found, Outweighs
<1>8. IsByPlace(RrfMerge(dense, sparse), s, place)
  BY <1>7 DEF IsByPlace
<1>. QED BY <1>1, <1>6, <1>8 DEF IsSortOf

\* The merge has every chunk of both rankings once.
LEMMA MergeIs ==
    ASSUME NEW Ids, NEW dense, NEW sparse, IsRanking(dense, Ids), IsRanking(sparse, Ids),
           NEW X, X = Range(dense) \cup Range(sparse),
           NEW u, u = Found(dense, sparse), NEW t, t = RrfMerge(dense, sparse)
    PROVE  /\ t \in Seq(X) /\ Range(t) = X
           /\ Once(t)
           /\ \E e : SortsAt(e, t, u, ByScore(X, dense, sparse))
<1>1. dense \in Seq(Ids) /\ sparse \in Seq(Ids)
  BY DEF IsRanking
<1>2. PICK before : before = ByScore(X, dense, sparse)
  OBVIOUS
<1>3. IsSortOf(t, u, before) /\ IsWeakOrder(before, X)
  BY <1>1, <1>2, MergeOrder, ScoreIsOrder
<1>4. u \in Seq(X) /\ Range(u) = X
  BY FoundOnce
<1>5. Once(u)
  BY FoundOnce
<1>6. t \in Seq(X) /\ \E e : SortsAt(e, t, u, before)
  BY <1>3, <1>4, SortIs
<1>7. PICK e : SortsAt(e, t, u, before)
  BY <1>6
<1>8. PICK n \in Nat : DOMAIN t = 1..n
  BY <1>6
<1>9. ASSUME NEW d \in X PROVE d \in Range(t)
  <2>1. PICK i \in DOMAIN u : u[i] = d
    BY <1>4 DEF Range
  <2>2. PICK k \in DOMAIN t : e[k] = i /\ t[k] = u[i]
    BY <1>7 DEF SortsAt
  <2>. QED BY <2>1, <2>2 DEF Range
<1>10. Range(t) = X
  <2>1. \A d \in Range(t) : d \in X
    BY <1>6 DEF Range
  <2>. QED BY <1>9, <2>1
<1>11. ASSUME NEW i \in DOMAIN t, NEW k \in DOMAIN t, t[i] = t[k] PROVE i = k
  <2>1. e[i] \in DOMAIN u /\ e[k] \in DOMAIN u /\ u[e[i]] = u[e[k]]
    BY <1>7, <1>11 DEF SortsAt
  <2>2. e[i] = e[k]
    BY <1>5, <2>1 DEF Once
  <2>3. ~(i < k) /\ ~(k < i)
    BY <1>7, <2>2 DEF SortsAt
  <2>. QED BY <1>8, <2>3
<1>. QED BY <1>2, <1>6, <1>7, <1>10, <1>11 DEF Once

LEMMA WithinLength ==
    ASSUME NEW S, NEW s \in Seq(S), NEW n \in Nat, Len(s) <= n, NEW i \in DOMAIN s
    PROVE  i \in 1..n
  OBVIOUS

\* Of rankings no longer than sixty, a chunk of both is above every chunk of one.
LEMMA BothAboveOne ==
    ASSUME NEW Ids, NEW dense, NEW sparse, IsRanking(dense, Ids), IsRanking(sparse, Ids),
           Len(dense) <= 60, Len(sparse) <= 60,
           NEW t, t = RrfMerge(dense, sparse),
           NEW i \in DOMAIN t, t[i] \in Range(dense) \cap Range(sparse),
           NEW k \in DOMAIN t, t[k] \notin Range(dense) \cap Range(sparse)
    PROVE  i < k
<1>1. dense \in Seq(Ids) /\ sparse \in Seq(Ids)
  BY DEF IsRanking
<1>2. PICK X : X = Range(dense) \cup Range(sparse)
  OBVIOUS
<1>3. PICK u : u = Found(dense, sparse)
  OBVIOUS
<1>4. PICK before : before = ByScore(X, dense, sparse)
  OBVIOUS
<1>5. t \in Seq(X) /\ \E e : SortsAt(e, t, u, before)
  BY <1>2, <1>3, <1>4, MergeIs
<1>6. PICK e : SortsAt(e, t, u, before)
  BY <1>5
<1>7. PICK d \in X : d = t[i]
  BY <1>5
<1>8. PICK f \in X : f = t[k]
  BY <1>5
<1>9. PICK a, b \in 61..120 : RrfScore(d, dense, sparse) = <<a + b, a * b>>
  <2>1. RankIn(dense, d) \in DOMAIN dense /\ RankIn(sparse, d) \in DOMAIN sparse
    BY <1>7, RankIs
  <2>2. RankIn(dense, d) \in 1..60
    BY <1>1, <2>1, WithinLength
  <2>3. RankIn(sparse, d) \in 1..60
    BY <1>1, <2>1, WithinLength
  <2>4. PICK x, y \in 1..60 : x = RankIn(dense, d) /\ y = RankIn(sparse, d)
    BY <2>2, <2>3
  <2>5. RrfScore(d, dense, sparse) = <<(60 + x) + (60 + y), (60 + x) * (60 + y)>>
    BY <1>7, <2>4, ScoreOfBoth
  <2>6. PICK v, w \in 61..120 : v = 60 + x /\ w = 60 + y
    OBVIOUS
  <2>. QED BY <2>5, <2>6
<1>10. RrfScore(f, dense, sparse)[1] = 1
  BY <1>1, <1>2, <1>8, ScoreIs
<1>11. PICK c \in Nat : c = RrfScore(f, dense, sparse)[2] /\ 61 <= c
  BY <1>1, <1>2, <1>8, ScoreIs
<1>12. (a + b) * c > 1 * (a * b)
  BY <1>11, TwoOutweighOne
<1>13. Outweighs(d, f, dense, sparse)
  <2>1. RrfScore(d, dense, sparse)[1] = a + b /\ RrfScore(d, dense, sparse)[2] = a * b
    BY <1>9
  <2>. QED BY <1>10, <1>11, <1>12, <2>1 DEF Outweighs
<1>14. <<d, f>> \in before
  BY <1>4, <1>13, InByScore
<1>15. <<f, d>> \notin before
  <2>1. IsWeakOrder(before, X)
    BY <1>1, <1>2, <1>4, ScoreIsOrder
  <2>. QED BY <1>14, <2>1 DEF IsWeakOrder
<1>16. ~(k < i)
  BY <1>6, <1>7, <1>8, <1>14, <1>15 DEF SortsAt
<1>17. i # k /\ i \in Nat /\ k \in Nat
  BY <1>5
<1>. QED BY <1>16, <1>17

\* Only chunks of both rankings are put before the nearest one.
LEMMA NearestIsBehindBoth ==
    ASSUME NEW Ids, NEW dense, NEW sparse, IsRanking(dense, Ids), IsRanking(sparse, Ids),
           dense # <<>>, NEW t, t = RrfMerge(dense, sparse),
           NEW i \in DOMAIN t, t[i] = dense[1], NEW k \in DOMAIN t, k < i
    PROVE  t[k] \in Range(dense) \cap Range(sparse)
<1>1. dense \in Seq(Ids) /\ sparse \in Seq(Ids)
  BY DEF IsRanking
<1>2. PICK X : X = Range(dense) \cup Range(sparse)
  OBVIOUS
<1>3. PICK u : u = Found(dense, sparse)
  OBVIOUS
<1>4. PICK before : before = ByScore(X, dense, sparse)
  OBVIOUS
<1>5. t \in Seq(X) /\ \E e : SortsAt(e, t, u, before)
  BY <1>2, <1>3, <1>4, MergeIs
<1>6. PICK e : SortsAt(e, t, u, before)
  BY <1>5
<1>7. PICK d \in X : d = t[i]
  BY <1>5
<1>8. PICK f \in X : f = t[k]
  BY <1>5
<1>. SUFFICES ASSUME f \notin Range(dense) \cap Range(sparse) PROVE FALSE
  BY <1>8
<1>9. 1 \in DOMAIN dense /\ d = dense[1] /\ d \in Range(dense)
  <2>1. 1 \in DOMAIN dense
    BY <1>1
  <2>. QED BY <1>7, <2>1 DEF Range
<1>10. 1 \in DOMAIN u /\ u[1] = d
  <2>1. Begins(u, dense)
    BY <1>2, <1>3, FoundOnce
  <2>. QED BY <1>9, <2>1 DEF Begins
<1>11. Once(u)
  BY <1>2, <1>3, FoundOnce
<1>12. e[i] = 1
  BY <1>6, <1>7, <1>10, <1>11 DEF SortsAt, Once
<1>13. u \in Seq(X)
  BY <1>2, <1>3, FoundOnce
<1>14. e[k] \in Nat /\ e[k] # 0
  <2>1. e[k] \in DOMAIN u
    BY <1>6 DEF SortsAt
  <2>. QED BY <1>13, <2>1
<1>15. <<f, d>> \in before
  <2>1. <<t[k], t[i]>> \in before \/ e[k] < e[i]
    BY <1>6 DEF SortsAt
  <2>2. ~(e[k] < e[i])
    BY <1>12, <1>14
  <2>. QED BY <1>7, <1>8, <2>1, <2>2
<1>16. Outweighs(f, d, dense, sparse)
  BY <1>4, <1>15, InByScore
<1>17. RrfScore(f, dense, sparse)[1] = 1
  BY <1>1, <1>2, <1>8, ScoreIs
<1>18. PICK c \in Nat : c = RrfScore(f, dense, sparse)[2] /\ 61 <= c
  BY <1>1, <1>2, <1>8, ScoreIs
<1>19. RankIn(dense, d) = 1
  <2>1. RankIn(dense, d) \in DOMAIN dense /\ dense[RankIn(dense, d)] = dense[1]
    BY <1>9, RankIs
  <2>. QED BY <1>9, <2>1 DEF IsRanking
<1>20. PICK p, q \in Nat : /\ p = RrfScore(d, dense, sparse)[1]
                           /\ q = RrfScore(d, dense, sparse)[2]
                           /\ q <= p * 61
  <2>1. CASE d \in Range(sparse)
    <3>1. PICK y \in Nat : y = 60 + RankIn(sparse, d)
      <4>1. RankIn(sparse, d) \in DOMAIN sparse
        BY <2>1, RankIs
      <4>. QED BY <1>1, <4>1
    <3>2. RrfScore(d, dense, sparse) = <<61 + y, 61 * y>>
      <4>1. 60 + RankIn(dense, d) = 61
        BY <1>19
      <4>. QED BY <1>9, <2>1, <3>1, <4>1, ScoreOfBoth
    <3>3. 61 + y \in Nat /\ 61 * y \in Nat /\ 61 * y <= (61 + y) * 61
      OBVIOUS
    <3>. QED BY <3>2, <3>3
  <2>2. CASE d \notin Range(sparse)
    <3>1. RrfScore(d, dense, sparse) = <<1, 61>>
      BY <1>9, <1>19, <2>2, ScoreOfDense
    <3>. QED BY <3>1
  <2>. QED BY <2>1, <2>2
<1>21. 1 * q > p * c
  BY <1>16, <1>17, <1>18, <1>20 DEF Outweighs
<1>22. 61 * p <= c * p
  BY <1>18, <1>20, NoLess
<1>23. c * p = p * c /\ 61 * p = p * 61 /\ p * c \in Nat /\ 61 * p \in Nat
  <2>1. \A x, y \in Nat : x * y \in Nat /\ x * y = y * x
    OBVIOUS
  <2>. QED BY <2>1
<1>. QED BY <1>20, <1>21, <1>22, <1>23

\* The head of a ranking.
LEMMA HeadIs ==
    ASSUME NEW Ids, NEW s, IsRanking(s, Ids), NEW n \in Nat, NEW h, h = First(s, n)
    PROVE  /\ IsRanking(h, Ids) /\ Len(h) <= n
           /\ n > 0 /\ s # <<>> => h # <<>> /\ h[1] = s[1]
<1>1. s \in Seq(Ids)
  BY DEF IsRanking
<1>2. h \in Seq(Ids) /\ StartsWith(h, s, n)
  BY <1>1, FirstIs
<1>3. ASSUME NEW i \in DOMAIN h, NEW k \in DOMAIN h, h[i] = h[k] PROVE i = k
  <2>1. i \in DOMAIN s /\ k \in DOMAIN s /\ s[i] = s[k]
    BY <1>2, <1>3 DEF StartsWith
  <2>. QED BY <2>1 DEF IsRanking
<1>4. Len(h) <= n
  <2>1. Len(h) = 0 \/ Len(h) \in DOMAIN h
    BY <1>2
  <2>. QED BY <1>2, <2>1 DEF StartsWith
<1>5. ASSUME n > 0, s # <<>> PROVE h # <<>> /\ h[1] = s[1]
  <2>1. 1 \in DOMAIN s /\ 1 <= n
    BY <1>1, <1>5
  <2>2. 1 \in DOMAIN h /\ h[1] = s[1]
    BY <1>2, <2>1 DEF StartsWith
  <2>. QED BY <2>2
<1>. QED BY <1>2, <1>3, <1>4, <1>5 DEF IsRanking

\* The nearest chunk stays among the first n if the rankings are not longer.
LEMMA NearestStays ==
    ASSUME NEW Ids, NEW dense, NEW sparse, IsRanking(dense, Ids), IsRanking(sparse, Ids),
           dense # <<>>, NEW n \in Nat, Len(dense) <= n,
           NEW t, t = RrfMerge(dense, sparse)
    PROVE  \E i \in DOMAIN t : t[i] = dense[1] /\ i <= n
<1>1. dense \in Seq(Ids)
  BY DEF IsRanking
<1>2. PICK X : X = Range(dense) \cup Range(sparse)
  OBVIOUS
<1>3. PICK u : u = Found(dense, sparse)
  OBVIOUS
<1>4. t \in Seq(X) /\ Range(t) = X
  BY <1>2, <1>3, MergeIs
<1>5. Once(t)
  BY <1>2, <1>3, MergeIs
<1>6. 1 \in DOMAIN dense /\ dense[1] \in Range(dense)
  <2>1. 1 \in DOMAIN dense
    BY <1>1
  <2>. QED BY <2>1 DEF Range
<1>7. PICK i \in DOMAIN t : t[i] = dense[1]
  BY <1>2, <1>4, <1>6 DEF Range
<1>8. PICK l \in Nat : DOMAIN t = 1..l
  BY <1>4
<1>9. PICK A : A = Range(dense) \ {dense[1]}
  OBVIOUS
<1>10. ASSUME NEW k \in 1..(i - 1) PROVE k \in DOMAIN t /\ t[k] \in A
  <2>1. k \in DOMAIN t /\ k < i
    BY <1>7, <1>8
  <2>2. t[k] \in Range(dense)
    BY <1>7, <2>1, NearestIsBehindBoth
  <2>3. t[k] # t[i]
    BY <1>5, <1>7, <1>8, <2>1 DEF Once
  <2>. QED BY <1>7, <1>9, <2>1, <2>2, <2>3
<1>11. IsFiniteSet(Range(dense)) /\ Cardinality(Range(dense)) <= n
       /\ Cardinality(Range(dense)) \in Nat
  <2>1. PICK m \in Nat : m = Len(dense) /\ DOMAIN dense = 1..m
    BY <1>1
  <2>2. Names(dense, m, Range(dense)) /\ Covers(dense, m, Range(dense))
    BY <2>1 DEF Names, Covers, Range
  <2>3. /\ IsFiniteSet(Range(dense)) /\ Cardinality(Range(dense)) \in Nat
        /\ Cardinality(Range(dense)) <= m
    BY <2>2, CountIsAtMost
  <2>. QED BY <2>1, <2>3
<1>12. IsFiniteSet(A) /\ Cardinality(A) = Cardinality(Range(dense)) - 1
  BY <1>6, <1>9, <1>11, FS_RemoveElement
<1>13. Names(t, i - 1, A) /\ Distinct(t, i - 1)
  <2>1. i - 1 \in Nat
    BY <1>7, <1>8
  <2>2. ASSUME NEW k \in 1..(i - 1), NEW j \in 1..(i - 1), k < j PROVE t[k] # t[j]
    <3>1. k \in DOMAIN t /\ j \in DOMAIN t /\ k # j
      BY <1>10, <2>2
    <3>. QED BY <1>5, <3>1 DEF Once
  <2>3. Distinct(t, i - 1)
    BY <2>2 DEF Distinct
  <2>. QED BY <1>10, <2>1, <2>3 DEF Names
<1>14. i - 1 <= Cardinality(A)
  BY <1>12, <1>13, CountIsAtLeast
<1>15. i <= n
  BY <1>7, <1>8, <1>11, <1>12, <1>14
<1>. QED BY <1>7, <1>15

\* What is among the places of a list has a first place.
LEMMA HitIsFirst ==
    ASSUME NEW X, NEW ids \in Seq(X), NEW gold, NEW i \in DOMAIN ids, ids[i] \in gold
    PROVE  FirstHit(ids, gold) > 0
<1>1. PICK hits : hits = {k \in DOMAIN ids : ids[k] \in gold}
  OBVIOUS
<1>2. hits # {} /\ hits \in SUBSET Nat /\ 0 \notin hits
  BY <1>1
<1>3. PICK m \in hits : \A k \in hits : m <= k
  BY <1>2, LeastNatural
<1>4. PICK f : f = CHOOSE k \in hits : \A j \in hits : k <= j
  OBVIOUS
<1>5. f \in hits
  BY <1>3, <1>4
<1>6. FirstHit(ids, gold) = f
  BY <1>1, <1>2, <1>4 DEF FirstHit
<1>. QED BY <1>2, <1>5, <1>6

\* What is claimed of two rankings.
Agrees(dense, sparse, topK) ==
    LET merged == RrfMerge(dense, sparse)
        both   == Range(dense) \cap Range(sparse)
    IN  /\ Range(merged) = Range(dense) \cup Range(sparse) /\ IsInjective(merged)
        /\ \A i, k \in DOMAIN merged : merged[i] \in both /\ merged[k] \notin both => i < k
        /\ \A n \in 1..topK : dense # <<>> =>
              FirstHit(HybridIds(dense, sparse, n), {dense[1]}) > 0

\* Whatever chunks are ranked, as long as no ranking is longer than sixty (the
\* code takes at most topK of each, and asks for fewer): the merge has each chunk
\* once, those of both rankings first, and never drops the nearest.
THEOREM RankingsAlwaysAgree ==
    ASSUME NEW Ids, NEW topK \in 0..60
    PROVE  RankingsAgree(Ids, topK)
<1>1. PICK Rankings : Rankings = {s \in UNION {[1..n -> Ids] : n \in 0..topK} : IsInjective(s)}
  OBVIOUS
<1>2. ASSUME NEW s \in Rankings PROVE IsRanking(s, Ids) /\ Len(s) <= 60
  <2>1. PICK n \in 0..topK : s \in [1..n -> Ids]
    BY <1>1
  <2>2. n \in Nat /\ n <= 60
    OBVIOUS
  <2>3. s \in Seq(Ids) /\ Len(s) = n
    BY <2>1, <2>2, IsSequence
  <2>4. IsInjective(s)
    BY <1>1
  <2>. QED BY <2>2, <2>3, <2>4 DEF IsRanking, IsInjective
<1>3. RankingsAgree(Ids, topK) <=>
         \A dense, sparse \in {s \in UNION {[1..n -> Ids] : n \in 0..topK} : IsInjective(s)} :
            Agrees(dense, sparse, topK)
  BY Zenon DEF RankingsAgree, Agrees
<1>. SUFFICES ASSUME NEW dense \in Rankings, NEW sparse \in Rankings
              PROVE  Agrees(dense, sparse, topK)
  BY <1>1, <1>3, Zenon
<1>4. PICK merged : merged = RrfMerge(dense, sparse)
  OBVIOUS
<1>5. PICK both : both = Range(dense) \cap Range(sparse)
  OBVIOUS
<1>6. PICK u : u = Found(dense, sparse)
  OBVIOUS
<1>7. IsRanking(dense, Ids) /\ IsRanking(sparse, Ids) /\ Len(dense) <= 60 /\ Len(sparse) <= 60
  BY <1>2
<1>8. PICK X : X = Range(dense) \cup Range(sparse)
  OBVIOUS
<1>9. merged \in Seq(X) /\ Range(merged) = X
  BY <1>7, <1>8, <1>4, <1>6, MergeIs
<1>10. IsInjective(merged)
  <2>1. Once(merged)
    BY <1>7, <1>8, <1>4, <1>6, MergeIs
  <2>. QED BY <2>1 DEF IsInjective, Once
<1>11. \A i, k \in DOMAIN merged : merged[i] \in both /\ merged[k] \notin both => i < k
  BY <1>7, <1>5, <1>4, BothAboveOne
<1>12. ASSUME NEW n \in 1..topK, dense # <<>>
      PROVE  FirstHit(HybridIds(dense, sparse, n), {dense[1]}) > 0
  <2>1. n \in Nat /\ n > 0
    OBVIOUS
  <2>2. PICK d : d = First(dense, n)
    OBVIOUS
  <2>3. PICK s : s = First(sparse, n)
    OBVIOUS
  <2>4. IsRanking(d, Ids) /\ Len(d) <= n /\ d # <<>> /\ d[1] = dense[1]
    BY <1>7, <1>12, <2>1, <2>2, HeadIs
  <2>5. IsRanking(s, Ids)
    BY <1>7, <2>1, <2>3, HeadIs
  <2>6. PICK t : t = RrfMerge(d, s)
    OBVIOUS
  <2>7. PICK i \in DOMAIN t : t[i] = d[1] /\ i <= n
    BY <2>1, <2>4, <2>5, <2>6, NearestStays
  <2>8. PICK Y : Y = Range(d) \cup Range(s)
    OBVIOUS
  <2>9. t \in Seq(Y)
    <3>1. PICK w : w = Found(d, s)
      OBVIOUS
    <3>. QED BY <3>1, <2>4, <2>5, <2>6, <2>8, MergeIs
  <2>10. PICK ids : ids = First(t, n)
    OBVIOUS
  <2>11. ids \in Seq(Y) /\ StartsWith(ids, t, n)
    BY <2>1, <2>9, <2>10, FirstIs
  <2>12. i \in DOMAIN ids /\ ids[i] \in {dense[1]}
    BY <2>4, <2>7, <2>11 DEF StartsWith
  <2>13. HybridIds(dense, sparse, n) = ids
    BY <2>2, <2>3, <2>6, <2>10 DEF HybridIds, First
  <2>. QED BY <2>11, <2>12, <2>13, HitIsFirst
<1>. QED BY <1>8, <1>9, <1>10, <1>11, <1>12, <1>5, <1>4 DEF Agrees

LEMMA RankingRulesHold == RankingRules
<1>1. 3 \in 0..60
  OBVIOUS
<1>. QED BY <1>1, RankingsAlwaysAgree DEF RankingRules
-----------------------------------------------------------------------------
(* The windows of a text *)

TextWindow == [from : Nat, to : Nat]
EndOf(start, n) == IF start + ChunkSize - 1 < n THEN start + ChunkSize - 1 ELSE n
SlideFrom(f, start, n) ==
    <<[from |-> start, to |-> EndOf(start, n)]>>
       \o (IF EndOf(start, n) = n THEN <<>> ELSE f[EndOf(start, n) - Overlap + 1])
IsSlide(f, n) == f = [start \in 1..n |-> SlideFrom(f, start, n)]

LEMMA NextStart ==
    ASSUME NEW n \in Nat, NEW start \in 1..n
    PROVE  /\ EndOf(start, n) \in start..n /\ EndOf(start, n) - start < ChunkSize
           /\ EndOf(start, n) # n =>
                 /\ EndOf(start, n) - Overlap + 1 \in (start + 1)..n
                 /\ EndOf(EndOf(start, n) - Overlap + 1, n) > EndOf(start, n)
<1>1. Overlap \in Nat /\ ChunkSize \in Nat /\ Overlap < ChunkSize
  BY ChunkAssumption
<1>2. CASE start + ChunkSize - 1 < n
  <2>1. EndOf(start, n) = start + ChunkSize - 1
    BY <1>2 DEF EndOf
  <2>2. PICK next : next = EndOf(start, n) - Overlap + 1
    OBVIOUS
  <2>3. next \in (start + 1)..n
    BY <1>1, <1>2, <2>1, <2>2
  <2>4. EndOf(next, n) > EndOf(start, n)
    BY <1>1, <1>2, <2>1, <2>3 DEF EndOf
  <2>. QED BY <1>1, <1>2, <2>1, <2>2, <2>3, <2>4
<1>3. CASE ~(start + ChunkSize - 1 < n)
  <2>1. EndOf(start, n) = n
    BY <1>3 DEF EndOf
  <2>. QED BY <1>1, <1>3, <2>1
<1>. QED BY <1>2, <1>3

LEMMA SlideExists ==
    ASSUME NEW n \in Nat
    PROVE  \E f : IsSlide(f, n)
<1> DEFINE D(m) == {s \in 1..n : s > n - m}
           P(m) == \E f : f = [start \in D(m) |-> SlideFrom(f, start, n)]
           T == {m \in Nat : P(m)}
<1>1. P(0)
  <2>1. D(0) = {}
    OBVIOUS
  <2>2. PICK f : f = [start \in D(0) |-> <<>>]
    OBVIOUS
  <2>3. f = [start \in D(0) |-> SlideFrom(f, start, n)]
    BY <2>1, <2>2
  <2>. QED BY <2>3
<1>2. ASSUME NEW m \in Nat, P(m) PROVE P(m + 1)
  <2>1. PICK f : f = [start \in D(m) |-> SlideFrom(f, start, n)]
    BY <1>2
  <2>2. PICK v : v = [start \in D(m + 1) |-> SlideFrom(f, start, n)]
    OBVIOUS
  <2>3. D(m) \subseteq D(m + 1)
    OBVIOUS
  <2>4. ASSUME NEW start \in D(m + 1), EndOf(start, n) # n
        PROVE  EndOf(start, n) - Overlap + 1 \in D(m)
    <3>1. start \in 1..n /\ start > n - (m + 1)
      BY <2>4
    <3>2. EndOf(start, n) - Overlap + 1 \in (start + 1)..n
      BY <2>4, <3>1, NextStart
    <3>. QED BY <3>1, <3>2
  <2>. HIDE DEF D
  <2>5. \A start \in D(m) : v[start] = f[start]
    BY <2>1, <2>2, <2>3
  <2>6. \A start \in D(m + 1) : SlideFrom(f, start, n) = SlideFrom(v, start, n)
    BY <2>4, <2>5 DEF SlideFrom
  <2>7. v = [start \in D(m + 1) |-> SlideFrom(v, start, n)]
    BY <2>2, <2>6
  <2>. QED BY <2>7
<1>3. P(n)
  <2>. HIDE DEF P
  <2>1. 0 \in T /\ \A m \in Nat : m \in T => m + 1 \in T
    BY <1>1, <1>2
  <2>2. n \in T
    <3>. HIDE DEF T
    <3>. QED BY <2>1, NatSetInduction
  <2>. QED BY <2>2
<1>4. D(n) = 1..n
  OBVIOUS
<1>. HIDE DEF D
<1>. QED BY <1>3, <1>4 DEF IsSlide

\* Windows that cover the characters from start to n in order, with the overlap.
Slides(w, start, n) ==
    /\ w \in Seq(TextWindow) /\ Len(w) \in Nat \ {0}
    /\ w[1].from = start /\ w[Len(w)].to = n
    /\ \A k \in 1..(Len(w) - 1) : /\ w[k + 1].from = w[k].to - Overlap + 1
                                  /\ w[k + 1].to > w[k].to
Short(w) == \A k \in DOMAIN w : w[k].to - w[k].from < ChunkSize

LEMMA OneWindow ==
    ASSUME NEW n \in Nat, NEW start \in Nat
    PROVE  Slides(<<[from |-> start, to |-> n]>>, start, n)
<1>1. PICK x \in TextWindow : x = [from |-> start, to |-> n]
  BY DEF TextWindow
<1>2. PICK w : w = <<x>>
  OBVIOUS
<1>3. w \in Seq(TextWindow) /\ Len(w) = 1 /\ w[1] = x
  BY <1>2
<1>. QED BY <1>1, <1>2, <1>3 DEF Slides

LEMMA WindowInFront ==
    ASSUME NEW n \in Nat, NEW x \in TextWindow, NEW start, NEW v, Slides(v, start, n),
           start = x.to - Overlap + 1, v[1].to > x.to
    PROVE  /\ Slides(<<x>> \o v, x.from, n)
           /\ Short(v) /\ x.to - x.from < ChunkSize => Short(<<x>> \o v)
           /\ (<<x>> \o v)[1] = x
<1>1. PICK m \in Nat \ {0} : m = Len(v)
  <2>1. Len(v) \in Nat \ {0}
    BY DEF Slides
  <2>. QED BY <2>1
<1>2. v \in Seq(TextWindow)
  BY DEF Slides
<1>3. PICK w : w = <<x>> \o v
  OBVIOUS
<1>4. w \in Seq(TextWindow) /\ Len(w) = m + 1
  BY <1>1, <1>2, <1>3
<1>5. w[1] = x /\ \A k \in 1..m : w[k + 1] = v[k]
  BY <1>1, <1>2, <1>3
<1>6. w[Len(w)].to = n
  <2>1. v[m].to = n
    BY <1>1 DEF Slides
  <2>. QED BY <1>1, <1>4, <1>5, <2>1
<1>7. ASSUME NEW k \in 1..m
      PROVE  w[k + 1].from = w[k].to - Overlap + 1 /\ w[k + 1].to > w[k].to
  <2>1. CASE k = 1
    <3>1. w[2] = v[1] /\ w[1] = x
      BY <1>1, <1>5
    <3>2. v[1].from = start
      BY DEF Slides
    <3>. QED BY <2>1, <3>1, <3>2
  <2>2. CASE k # 1
    <3>1. PICK j \in 1..(m - 1) : k = j + 1
      <4>1. k - 1 \in 1..(m - 1) /\ k = (k - 1) + 1
        BY <1>1, <1>7, <2>2
      <4>. QED BY <4>1
    <3>2. w[k + 1] = v[j + 1] /\ w[k] = v[j]
      BY <1>1, <1>5, <3>1
    <3>3. v[j + 1].from = v[j].to - Overlap + 1 /\ v[j + 1].to > v[j].to
      BY <1>1, <3>1 DEF Slides
    <3>. QED BY <3>2, <3>3
  <2>. QED BY <2>1, <2>2
<1>8. Slides(w, x.from, n)
  <2>1. Len(w) - 1 = m /\ Len(w) \in Nat \ {0}
    BY <1>1, <1>4
  <2>. QED BY <1>4, <1>5, <1>6, <1>7, <2>1 DEF Slides
<1>9. ASSUME Short(v), x.to - x.from < ChunkSize, NEW k \in DOMAIN w
      PROVE  w[k].to - w[k].from < ChunkSize
  <2>1. k \in 1..(m + 1)
    BY <1>4, <1>9
  <2>2. CASE k = 1
    BY <1>5, <1>9, <2>2
  <2>3. CASE k # 1
    <3>1. PICK j \in 1..m : k = j + 1
      <4>1. k - 1 \in 1..m /\ k = (k - 1) + 1
        BY <1>1, <2>1, <2>3
      <4>. QED BY <4>1
    <3>2. w[k] = v[j] /\ j \in DOMAIN v
      BY <1>1, <1>2, <1>5, <3>1
    <3>. QED BY <1>9, <3>2 DEF Short
  <2>. QED BY <2>2, <2>3
<1>10. Short(v) /\ x.to - x.from < ChunkSize => Short(w)
  BY <1>9 DEF Short
<1>. QED BY <1>3, <1>5, <1>8, <1>10

\* The windows of a text cover it, in order and with the overlap; none is longer
\* than a chunk.
LEMMA WindowsCover ==
    ASSUME NEW n \in Nat \ {0}
    PROVE  Slides(ChunkText(n), 1, n) /\ Short(ChunkText(n))
<1>1. PICK f : f = (CHOOSE g : IsSlide(g, n))
  OBVIOUS
<1>2. IsSlide(f, n)
  BY <1>1, SlideExists
<1>3. ChunkText(n) = f[1]
  BY <1>1 DEF ChunkText, IsSlide, SlideFrom, EndOf
<1> DEFINE Covered(start) == /\ Slides(f[start], start, n) /\ Short(f[start])
                             /\ f[start][1].to = EndOf(start, n)
           T == {m \in Nat : \A start \in 1..n : start > n - m => Covered(start)}
<1>4. 0 \in T
  OBVIOUS
<1>5. ASSUME NEW m \in Nat, m \in T PROVE m + 1 \in T
  <2>. SUFFICES ASSUME NEW start \in 1..n, start > n - (m + 1) PROVE Covered(start)
    OBVIOUS
  <2>1. f[start] = SlideFrom(f, start, n)
    BY <1>2 DEF IsSlide
  <2>2. PICK end \in start..n : end = EndOf(start, n) /\ end - start < ChunkSize
    BY NextStart
  <2>3. PICK x : x = [from |-> start, to |-> end]
    OBVIOUS
  <2>4. x \in TextWindow /\ x.from = start /\ x.to = end
    BY <2>2, <2>3 DEF TextWindow
  <2>5. CASE end = n
    <3>1. f[start] = <<x>> \o <<>>
      BY <2>1, <2>2, <2>3, <2>5 DEF SlideFrom
    <3>2. f[start] = <<x>> /\ f[start][1] = x
      BY <3>1, ShortConcatenations
    <3>3. Slides(f[start], start, n)
      BY <2>3, <2>5, <3>2, OneWindow
    <3>4. Short(f[start])
      BY <2>2, <2>4, <3>2 DEF Short
    <3>. QED BY <2>2, <2>4, <3>2, <3>3, <3>4
  <2>6. CASE end # n
    <3>1. PICK next : next = end - Overlap + 1 /\ next \in (start + 1)..n /\ EndOf(next, n) > end
      BY <2>2, <2>6, NextStart
    <3>2. next \in 1..n /\ next > n - m
      BY <3>1
    <3>3. Covered(next)
      BY <1>5, <3>2
    <3>4. PICK v : v = f[next]
      OBVIOUS
    <3>5. f[start] = <<x>> \o v
      BY <2>1, <2>2, <2>3, <2>6, <3>1, <3>4 DEF SlideFrom
    <3>6. Slides(v, next, n) /\ Short(v) /\ v[1].to > x.to /\ next = x.to - Overlap + 1
      BY <2>4, <3>1, <3>3, <3>4
    <3>7. /\ Slides(<<x>> \o v, x.from, n) /\ (<<x>> \o v)[1] = x
          /\ Short(v) /\ x.to - x.from < ChunkSize => Short(<<x>> \o v)
      BY <2>4, <3>6, WindowInFront
    <3>. QED BY <2>2, <2>4, <3>5, <3>6, <3>7
  <2>. QED BY <2>5, <2>6
<1>6. n \in T
  <2>. HIDE DEF T
  <2>. QED BY <1>4, <1>5, NatSetInduction
<1>7. Covered(1)
  BY <1>6
<1>. QED BY <1>3, <1>7
-----------------------------------------------------------------------------
(* The width of a section; a page is called a sheet, because the news have a page *)

IsJoined(u, sheet, lines, order) ==
    u = [s \in SUBSET DOMAIN order |->
            IF s = {} THEN Len(lines) - 1 ELSE u[s \ {Max(s)}] + sheet[order[Max(s)]].width]
JoinedWalk(l, sheet, lines) ==
    /\ l[0] = Len(lines) - 1
    /\ \A k \in 1..Len(lines) : l[k] = l[k - 1] + sheet[lines[k]].width
    /\ JoinedWidth(sheet, lines) = l[Len(lines)]

LEMMA JoinedUnfolds ==
    ASSUME NEW sheet \in Seq(Lines), NEW lines \in Seq(DOMAIN sheet), lines # <<>>
    PROVE  \E l : JoinedWalk(l, sheet, lines)
<1>1. PICK n : n \in Nat /\ n = Len(lines) /\ n # 0 /\ DOMAIN lines = 1..n
  OBVIOUS
<1>0. ASSUME NEW k \in 1..n PROVE sheet[lines[k]].width \in Nat
  <2>1. lines[k] \in DOMAIN sheet
    BY <1>1
  <2>2. sheet[lines[k]] \in Lines
    BY <2>1
  <2>. QED BY <2>2, ChunkAssumption DEF Lines
<1>2. PICK order : order = lines
  OBVIOUS
<1>3. DOMAIN order = 1..n /\ \A k \in 1..n : order[k] = lines[k]
  BY <1>1, <1>2
<1>4. JoinedWidth(sheet, lines) = (CHOOSE u : IsJoined(u, sheet, lines, order))[DOMAIN order]
  BY <1>1, <1>2 DEF JoinedWidth, FoldLeft, MapThenFoldSet, IsJoined
<1>5. PICK X : X = Nat
  OBVIOUS
<1>6. PICK base : base = Len(lines) - 1 /\ base \in X
  <2>1. Len(lines) - 1 \in X
    BY <1>1, <1>5
  <2>. QED BY <2>1
<1>7. PICK step : step = [p \in X \X (1..n) |-> p[1] + sheet[lines[p[2]]].width]
  OBVIOUS
<1>8. \E u : IsJoined(u, sheet, lines, order)
  <2>1. ASSUME NEW c \in X, NEW i \in 1..n PROVE c + sheet[lines[i]].width \in X
    <3>1. c \in Nat /\ sheet[lines[i]].width \in Nat
      BY <1>0, <1>5, <2>1
    <3>. QED BY <1>5, <3>1
  <2>2. IsFold(n, X, base, step)
    BY <1>1, <1>6, <1>7, <2>1 DEF IsFold
  <2>3. PICK v : IsFoldOf(v, n, X, base, step)
    BY <2>2, FoldUnfolds
  <2>4. ASSUME NEW s \in SUBSET (1..n), s # {}
        PROVE  v[s] = v[s \ {Max(s)}] + sheet[order[Max(s)]].width
    <3>1. Max(s) \in 1..n /\ s \ {Max(s)} \in SUBSET (1..n)
      BY <2>3, <2>4 DEF IsFoldOf
    <3>2. v[s \ {Max(s)}] \in X /\ v[s] = step[<<v[s \ {Max(s)}], Max(s)>>]
      BY <2>3, <2>4, <3>1 DEF IsFoldOf
    <3>3. v[s] = v[s \ {Max(s)}] + sheet[lines[Max(s)]].width
      BY <1>7, <3>1, <3>2
    <3>. QED BY <1>3, <3>1, <3>3
  <2>5. v = [s \in SUBSET DOMAIN order |->
                IF s = {} THEN Len(lines) - 1 ELSE v[s \ {Max(s)}] + sheet[order[Max(s)]].width]
    BY <1>3, <1>6, <2>3, <2>4 DEF IsFoldOf
  <2>. QED BY <2>5 DEF IsJoined
<1>9. PICK u : IsJoined(u, sheet, lines, order) /\ JoinedWidth(sheet, lines) = u[DOMAIN order]
  BY <1>4, <1>8
<1>10. PICK l : l = [k \in 0..n |-> u[1..k]]
  OBVIOUS
<1>11. l[0] = Len(lines) - 1
  <2>1. 1..0 = {} /\ 0 \in 0..n
    BY <1>1
  <2>2. u[{}] = Len(lines) - 1
    BY <1>9 DEF IsJoined
  <2>. QED BY <1>10, <2>1, <2>2
<1>12. ASSUME NEW k \in 1..n PROVE l[k] = l[k - 1] + sheet[lines[k]].width
  <2>1. PICK s : s = 1..k
    OBVIOUS
  <2>2. s \in SUBSET DOMAIN order /\ s # {} /\ Max(s) = k /\ s \ {k} = 1..(k - 1)
    BY <1>1, <1>3, <2>1, UpTo
  <2>3. u[s] = u[s \ {Max(s)}] + sheet[order[Max(s)]].width
    BY <1>9, <2>2 DEF IsJoined
  <2>4. k \in 0..n /\ k - 1 \in 0..n
    BY <1>1
  <2>. QED BY <1>3, <1>10, <2>1, <2>2, <2>3, <2>4
<1>13. JoinedWidth(sheet, lines) = l[n]
  <2>1. n \in 0..n
    BY <1>1
  <2>. QED BY <1>3, <1>9, <1>10, <2>1
<1>14. JoinedWalk(l, sheet, lines)
  BY <1>1, <1>11, <1>12, <1>13 DEF JoinedWalk
<1>. QED BY <1>14

\* A section that has a line has a character.
LEMMA JoinedIsWide ==
    ASSUME NEW sheet \in Seq(Lines), NEW lines \in Seq(DOMAIN sheet), lines # <<>>
    PROVE  JoinedWidth(sheet, lines) \in Nat \ {0}
<1>1. PICK n \in Nat \ {0} : n = Len(lines) /\ DOMAIN lines = 1..n
  OBVIOUS
<1>2. ASSUME NEW k \in 1..n PROVE sheet[lines[k]].width \in Nat \ {0}
  <2>1. lines[k] \in DOMAIN sheet
    BY <1>1
  <2>2. sheet[lines[k]] \in Lines
    BY <2>1
  <2>. QED BY <2>2, ChunkAssumption DEF Lines
<1>3. PICK l : JoinedWalk(l, sheet, lines)
  BY JoinedUnfolds
<1> DEFINE T == {k \in Nat : k <= n => l[k] \in Nat /\ l[k] >= k}
<1>4. 0 \in T
  BY <1>1, <1>3 DEF JoinedWalk
<1>5. ASSUME NEW k \in Nat, k \in T PROVE k + 1 \in T
  <2>. SUFFICES ASSUME k + 1 <= n PROVE l[k + 1] \in Nat /\ l[k + 1] >= k + 1
    OBVIOUS
  <2>1. PICK i \in 1..n : i = k + 1 /\ i - 1 = k
    OBVIOUS
  <2>2. l[i] = l[i - 1] + sheet[lines[i]].width
    BY <1>1, <1>3, <2>1 DEF JoinedWalk
  <2>3. l[k] \in Nat /\ l[k] >= k
    BY <1>5
  <2>. QED BY <1>2, <2>1, <2>2, <2>3
<1>6. n \in T
  <2>. HIDE DEF T
  <2>. QED BY <1>4, <1>5, NatSetInduction
<1>7. JoinedWidth(sheet, lines) = l[n]
  BY <1>1, <1>3 DEF JoinedWalk
<1>. QED BY <1>6, <1>7
-----------------------------------------------------------------------------
(* The sections of a page *)

SectionsTo(n)   == [title : 0..n, lines : Seq(1..n)]
OpenSections(n) == [done : Seq(SectionsTo(n)), title : 0..n, lines : Seq(1..n)]

\* What one line makes of the sections, and all of them in turn.
TakeLine(sheet, s, i) ==
    IF sheet[i].kind = "text" THEN [s EXCEPT !.lines = Append(@, i)]
    ELSE [done |-> EndSection(s), title |-> i, lines |-> <<>>]
LinesTaken(sheet) ==
    FoldLeft(LAMBDA s, i : TakeLine(sheet, s, i), [done |-> <<>>, title |-> 0, lines |-> <<>>],
             [i \in DOMAIN sheet |-> i])

LEMMA SectionsAre ==
    ASSUME NEW sheet
    PROVE  Sections(sheet) = EndSection(LinesTaken(sheet))
  BY DEF Sections, LinesTaken, TakeLine, FoldLeft, MapThenFoldSet

LEMMA EndSectionIs ==
    ASSUME NEW n, NEW s \in OpenSections(n)
    PROVE  /\ EndSection(s) \in Seq(SectionsTo(n))
           /\ s.lines = <<>> => EndSection(s) = s.done
           /\ s.lines # <<>> =>
                 /\ Len(EndSection(s)) = Len(s.done) + 1
                 /\ \A j \in 1..Len(s.done) : EndSection(s)[j] = s.done[j]
                 /\ EndSection(s)[Len(s.done) + 1] = [title |-> s.title, lines |-> s.lines]
<1>1. PICK S : S = SectionsTo(n)
  OBVIOUS
<1>2. s.done \in Seq(S)
  BY <1>1 DEF OpenSections
<1>3. CASE s.lines = <<>>
  BY <1>1, <1>2, <1>3 DEF EndSection
<1>4. CASE s.lines # <<>>
  <2>1. PICK d \in S : d = [title |-> s.title, lines |-> s.lines]
    BY <1>1 DEF OpenSections, SectionsTo
  <2>2. EndSection(s) = Append(s.done, d)
    BY <1>4, <2>1 DEF EndSection
  <2>. QED BY <1>1, <1>2, <1>4, <2>1, <2>2
<1>. QED BY <1>3, <1>4

LEMMA TakeLineIs ==
    ASSUME NEW sheet, NEW n, NEW i \in 1..n, NEW s \in OpenSections(n)
    PROVE  TakeLine(sheet, s, i) \in OpenSections(n)
<1>1. CASE sheet[i].kind = "text"
  <2>1. PICK t \in Seq(1..n) : t = Append(s.lines, i)
    BY OneMore DEF OpenSections
  <2>2. TakeLine(sheet, s, i) = [s EXCEPT !.lines = t]
    BY <1>1, <2>1 DEF TakeLine, OpenSections
  <2>. QED BY <2>2 DEF OpenSections
<1>2. CASE sheet[i].kind # "text"
  <2>1. PICK t \in Seq(SectionsTo(n)) : t = EndSection(s)
    BY EndSectionIs
  <2>2. TakeLine(sheet, s, i) = [done |-> t, title |-> i, lines |-> <<>>]
    BY <1>2, <2>1 DEF TakeLine
  <2>3. i \in 0..n /\ <<>> \in Seq(1..n)
    BY NoElement
  <2>. QED BY <2>2, <2>3 DEF OpenSections
<1>. QED BY <1>1, <1>2

IsLinesTaken(u, sheet, order) ==
    u = [s \in SUBSET DOMAIN order |->
            IF s = {} THEN [done |-> <<>>, title |-> 0, lines |-> <<>>] ELSE TakeLine(sheet, u[s \ {Max(s)}], order[Max(s)])]
LinesWalk(l, sheet) ==
    /\ l[0] = [done |-> <<>>, title |-> 0, lines |-> <<>>]
    /\ \A k \in 1..Len(sheet) : l[k] = TakeLine(sheet, l[k - 1], k)
    /\ LinesTaken(sheet) = l[Len(sheet)]

LEMMA LinesUnfolds ==
    ASSUME NEW sheet \in Seq(Lines)
    PROVE  \E l : LinesWalk(l, sheet)
<1>1. PICK n : n \in Nat /\ n = Len(sheet) /\ DOMAIN sheet = 1..n
  OBVIOUS
<1>2. PICK order : order = [i \in 1..n |-> i]
  OBVIOUS
<1>3. DOMAIN order = 1..n /\ \A k \in 1..n : order[k] = k
  BY <1>1, <1>2
<1>4. LinesTaken(sheet) = (CHOOSE u : IsLinesTaken(u, sheet, order))[DOMAIN order]
  BY <1>1, <1>2 DEF LinesTaken, FoldLeft, MapThenFoldSet, IsLinesTaken
<1>5. PICK X : X = OpenSections(n)
  OBVIOUS
<1>6. PICK base : base = [done |-> <<>>, title |-> 0, lines |-> <<>>] /\ base \in X
  <2>1. [done |-> <<>>, title |-> 0, lines |-> <<>>] \in X
    BY <1>1, <1>5, NoElement DEF OpenSections
  <2>. QED BY <2>1
<1>7. PICK step : step = [p \in X \X (1..n) |-> TakeLine(sheet, p[1], p[2])]
  OBVIOUS
<1>8. \E u : IsLinesTaken(u, sheet, order)
  <2>1. ASSUME NEW c \in X, NEW i \in 1..n PROVE TakeLine(sheet, c, i) \in X
    <3>. QED BY <1>1, <1>5, <2>1, TakeLineIs
  <2>2. IsFold(n, X, base, step)
    BY <1>1, <1>6, <1>7, <2>1 DEF IsFold
  <2>3. PICK v : IsFoldOf(v, n, X, base, step)
    BY <2>2, FoldUnfolds
  <2>4. ASSUME NEW s \in SUBSET (1..n), s # {}
        PROVE  v[s] = TakeLine(sheet, v[s \ {Max(s)}], order[Max(s)])
    <3>1. Max(s) \in 1..n /\ s \ {Max(s)} \in SUBSET (1..n)
      BY <2>3, <2>4 DEF IsFoldOf
    <3>2. v[s \ {Max(s)}] \in X /\ v[s] = step[<<v[s \ {Max(s)}], Max(s)>>]
      BY <2>3, <2>4, <3>1 DEF IsFoldOf
    <3>3. v[s] = TakeLine(sheet, v[s \ {Max(s)}], Max(s))
      BY <1>7, <3>1, <3>2
    <3>. QED BY <1>3, <3>1, <3>3
  <2>5. v = [s \in SUBSET DOMAIN order |->
                IF s = {} THEN [done |-> <<>>, title |-> 0, lines |-> <<>>] ELSE TakeLine(sheet, v[s \ {Max(s)}], order[Max(s)])]
    BY <1>3, <1>6, <2>3, <2>4 DEF IsFoldOf
  <2>. QED BY <2>5 DEF IsLinesTaken
<1>9. PICK u : IsLinesTaken(u, sheet, order) /\ LinesTaken(sheet) = u[DOMAIN order]
  BY <1>4, <1>8
<1>10. PICK l : l = [k \in 0..n |-> u[1..k]]
  OBVIOUS
<1>11. l[0] = [done |-> <<>>, title |-> 0, lines |-> <<>>]
  <2>1. 1..0 = {} /\ 0 \in 0..n
    BY <1>1
  <2>2. u[{}] = [done |-> <<>>, title |-> 0, lines |-> <<>>]
    BY <1>9 DEF IsLinesTaken
  <2>. QED BY <1>10, <2>1, <2>2
<1>12. ASSUME NEW k \in 1..n PROVE l[k] = TakeLine(sheet, l[k - 1], k)
  <2>1. PICK s : s = 1..k
    OBVIOUS
  <2>2. s \in SUBSET DOMAIN order /\ s # {} /\ Max(s) = k /\ s \ {k} = 1..(k - 1)
    BY <1>1, <1>3, <2>1, UpTo
  <2>3. u[s] = TakeLine(sheet, u[s \ {Max(s)}], order[Max(s)])
    BY <1>9, <2>2 DEF IsLinesTaken
  <2>4. k \in 0..n /\ k - 1 \in 0..n
    BY <1>1
  <2>. QED BY <1>3, <1>10, <2>1, <2>2, <2>3, <2>4
<1>13. LinesTaken(sheet) = l[n]
  <2>1. n \in 0..n
    BY <1>1
  <2>. QED BY <1>3, <1>9, <1>10, <2>1
<1>14. LinesWalk(l, sheet)
  BY <1>1, <1>11, <1>12, <1>13 DEF LinesWalk
<1>. QED BY <1>14

\* The lines after the line t, and which one is the last.
Run(t, m) == [j \in 1..m |-> t + j]
LastLine(d) == d.title + Len(d.lines)

\* A section is the text under a heading, or at the start.
IsSection(d, sheet) ==
    /\ d.title \in Nat /\ Len(d.lines) \in Nat \ {0} /\ LastLine(d) <= Len(sheet)
    /\ d.lines = Run(d.title, Len(d.lines))
    /\ d.title = 0 \/ sheet[d.title].kind # "text"
    /\ \A i \in (d.title + 1)..LastLine(d) : sheet[i].kind = "text"

\* The sections of the first k lines, with every text line in one of them.
AreSections(done, sheet, k) ==
    /\ \A j \in DOMAIN done : IsSection(done[j], sheet) /\ LastLine(done[j]) <= k
    /\ \A j, m \in DOMAIN done : j < m => LastLine(done[j]) < done[m].title
    /\ \A i \in 1..k : sheet[i].kind = "text" =>
          \E j \in DOMAIN done : done[j].title < i /\ i <= LastLine(done[j])

\* The sections and the one that is open after k lines.
OpenAfter(s, sheet, k) ==
    /\ s.title \in 0..k /\ (s.title = 0 \/ sheet[s.title].kind # "text")
    /\ \A i \in (s.title + 1)..k : sheet[i].kind = "text"
    /\ s.lines = Run(s.title, k - s.title)
    /\ AreSections(s.done, sheet, s.title - 1)

LEMMA RunIs ==
    ASSUME NEW t \in Nat, NEW m \in Nat, NEW n \in Nat, t + m <= n
    PROVE  Run(t, m) \in Seq(1..n) /\ Len(Run(t, m)) = m
<1>1. \A j \in 1..m : t + j \in 1..n
  OBVIOUS
<1>2. Run(t, m) \in [1..m -> 1..n]
  BY <1>1 DEF Run
<1>. QED BY <1>2, IsSequence

LEMMA RunGrows ==
    ASSUME NEW t \in Nat, NEW m \in Nat
    PROVE  Append(Run(t, m), t + (m + 1)) = Run(t, m + 1)
<1>1. PICK front \in Seq(Nat) : front = Run(t, m) /\ Len(front) = m
  <2>1. t + m \in Nat /\ t + m <= t + m
    OBVIOUS
  <2>2. Run(t, m) \in Seq(1..(t + m)) /\ Len(Run(t, m)) = m
    BY <2>1, RunIs
  <2>3. PICK f : f = Run(t, m)
    OBVIOUS
  <2>4. f \in Seq(Nat)
    BY <2>2, <2>3
  <2>. QED BY <2>2, <2>3, <2>4
<1>2. PICK r : r = Run(t, m + 1)
  OBVIOUS
<1>3. r = [j \in 1..(m + 1) |-> t + j] /\ front = [j \in 1..m |-> t + j]
  BY <1>1, <1>2 DEF Run
<1>5. PICK v \in Nat : v = t + (m + 1)
  OBVIOUS
<1>4. IsWith(r, m + 1, front, v)
  <2>1. m + 1 \in Nat /\ (m + 1) - 1 = m /\ m + 1 \in 1..(m + 1)
    OBVIOUS
  <2>2. r = [j \in 1..(m + 1) |-> r[j]]
    BY <1>3
  <2>3. r[m + 1] = v
    BY <1>3, <1>5, <2>1
  <2>4. \A j \in 1..m : r[j] = front[j]
    BY <1>3
  <2>. QED BY <1>1, <2>1, <2>2, <2>3, <2>4 DEF IsWith
<1>6. r = Append(front, v)
  BY <1>4, IsAppended
<1>. QED BY <1>1, <1>2, <1>5, <1>6

\* Ending the open section makes sections of all the lines that were taken.
LEMMA EndedAre ==
    ASSUME NEW sheet \in Seq(Lines), NEW n \in Nat, n = Len(sheet), NEW k \in 0..n,
           NEW s \in OpenSections(n), OpenAfter(s, sheet, k)
    PROVE  AreSections(EndSection(s), sheet, k)
<1>1. PICK t \in 0..k : t = s.title
  BY DEF OpenAfter
<1>2. /\ t = 0 \/ sheet[t].kind # "text"
      /\ \A i \in (t + 1)..k : sheet[i].kind = "text"
      /\ s.lines = Run(t, k - t) /\ AreSections(s.done, sheet, t - 1)
  BY <1>1 DEF OpenAfter
<1>3. PICK m \in Nat : m = k - t /\ t + m = k
  OBVIOUS
<1>4. Len(s.lines) = m
  BY <1>2, <1>3, RunIs
<1>5. PICK done \in Seq(SectionsTo(n)) : done = s.done
  BY DEF OpenSections
<1>6. PICK p \in Nat : p = Len(done) /\ DOMAIN done = 1..p
  OBVIOUS
<1>7. PICK ended \in Seq(SectionsTo(n)) : ended = EndSection(s)
  BY EndSectionIs
<1>8. CASE m = 0
  <2>1. s.lines = <<>>
    <3>1. k - t = 0 /\ Run(t, 0) = <<>>
      BY <1>3, <1>8 DEF Run
    <3>. QED BY <1>2, <3>1
  <2>2. ended = done
    BY <1>5, <1>7, <2>1, EndSectionIs
  <2>3. t = k /\ (k = 0 \/ sheet[k].kind # "text")
    <3>1. t = k
      BY <1>3, <1>8
    <3>2. t = 0 \/ sheet[t].kind # "text"
      BY <1>2
    <3>. QED BY <3>1, <3>2
  <2>4. AreSections(done, sheet, k)
    <3>1. AreSections(done, sheet, k - 1)
      BY <1>2, <1>5, <2>3
    <3>2. \A j \in DOMAIN done : IsSection(done[j], sheet) /\ LastLine(done[j]) <= k - 1
      BY <3>1 DEF AreSections
    <3>3. \A j \in DOMAIN done : LastLine(done[j]) \in Nat
      BY <3>2 DEF IsSection, LastLine
    <3>4. \A j \in DOMAIN done : IsSection(done[j], sheet) /\ LastLine(done[j]) <= k
      BY <3>2, <3>3
    <3>5. \A i \in 1..k : sheet[i].kind = "text" =>
             \E j \in DOMAIN done : done[j].title < i /\ i <= LastLine(done[j])
      <4>1. ASSUME NEW i \in 1..k, sheet[i].kind = "text" PROVE i \in 1..(k - 1)
        BY <2>3, <4>1
      <4>. QED BY <3>1, <4>1 DEF AreSections
    <3>6. \A j, i \in DOMAIN done : j < i => LastLine(done[j]) < done[i].title
      BY <3>1 DEF AreSections
    <3>. QED BY <3>4, <3>5, <3>6 DEF AreSections
  <2>. QED BY <1>7, <2>2, <2>4
<1>9. CASE m # 0
  <2>1. PICK d : d = [title |-> t, lines |-> s.lines]
    OBVIOUS
  <2>2. d.title = t /\ Len(d.lines) = m /\ LastLine(d) = k
    BY <1>3, <1>4, <2>1 DEF LastLine
  <2>3. IsSection(d, sheet)
    BY <1>2, <1>3, <1>9, <2>1, <2>2 DEF IsSection
  <2>4. /\ Len(ended) = p + 1 /\ ended[p + 1] = d
        /\ \A j \in 1..p : ended[j] = done[j]
    <3>1. s.lines # <<>>
      BY <1>4, <1>9
    <3>. QED BY <1>1, <1>5, <1>6, <1>7, <2>1, <3>1, EndSectionIs
  <2>5. DOMAIN ended = 1..(p + 1)
    BY <2>4
  <2>6. /\ \A j \in 1..p : IsSection(done[j], sheet) /\ LastLine(done[j]) <= t - 1
        /\ \A j, i \in 1..p : j < i => LastLine(done[j]) < done[i].title
        /\ \A i \in 1..(t - 1) : sheet[i].kind = "text" =>
              \E j \in 1..p : done[j].title < i /\ i <= LastLine(done[j])
    BY <1>2, <1>5, <1>6 DEF AreSections
  <2>7. ASSUME NEW j \in 1..p PROVE LastLine(done[j]) \in Nat /\ LastLine(done[j]) < t
    <3>1. PICK e : e = done[j]
      OBVIOUS
    <3>2. IsSection(e, sheet) /\ LastLine(e) <= t - 1
      BY <2>6, <3>1
    <3>3. LastLine(e) \in Nat
      BY <3>2 DEF IsSection, LastLine
    <3>. QED BY <1>2, <3>1, <3>2, <3>3
  <2>8. ASSUME NEW j \in 1..(p + 1) PROVE IsSection(ended[j], sheet) /\ LastLine(ended[j]) <= k
    <3>1. CASE j = p + 1
      BY <2>2, <2>3, <2>4, <3>1
    <3>2. CASE j \in 1..p
      BY <2>4, <2>6, <2>7, <3>2
    <3>. QED BY <3>1, <3>2
  <2>9. ASSUME NEW j \in 1..(p + 1), NEW i \in 1..(p + 1), j < i
        PROVE  LastLine(ended[j]) < ended[i].title
    <3>1. j \in 1..p /\ ended[j] = done[j]
      BY <2>4, <2>9
    <3>2. CASE i = p + 1
      BY <2>2, <2>4, <2>7, <3>1, <3>2
    <3>3. CASE i \in 1..p
      BY <2>4, <2>6, <2>9, <3>1, <3>3
    <3>. QED BY <3>2, <3>3
  <2>10. ASSUME NEW i \in 1..k, sheet[i].kind = "text"
         PROVE  \E j \in 1..(p + 1) : ended[j].title < i /\ i <= LastLine(ended[j])
    <3>1. CASE i > t
      <4>1. ended[p + 1].title = t /\ LastLine(ended[p + 1]) = k
        BY <2>2, <2>4, Zenon
      <4>2. p + 1 \in 1..(p + 1) /\ i <= k
        OBVIOUS
      <4>. QED BY <3>1, <4>1, <4>2
    <3>2. CASE ~(i > t)
      <4>1. i \in 1..(t - 1)
        BY <1>2, <2>10, <3>2
      <4>2. PICK j \in 1..p : done[j].title < i /\ i <= LastLine(done[j])
        BY <2>6, <2>10, <4>1
      <4>3. j \in 1..(p + 1) /\ ended[j] = done[j]
        BY <2>4
      <4>. QED BY <4>2, <4>3
    <3>. QED BY <3>1, <3>2
  <2>11. AreSections(ended, sheet, k)
    BY <2>5, <2>8, <2>9, <2>10 DEF AreSections
  <2>. QED BY <1>7, <2>11
<1>. QED BY <1>8, <1>9

LEMMA TakenAre ==
    ASSUME NEW sheet \in Seq(Lines), NEW n \in Nat, n = Len(sheet), NEW k \in 0..n,
           NEW s \in OpenSections(n), OpenAfter(s, sheet, k), k + 1 <= n
    PROVE  OpenAfter(TakeLine(sheet, s, k + 1), sheet, k + 1)
<1>1. PICK t \in 0..k : t = s.title
  BY DEF OpenAfter
<1>2. /\ t = 0 \/ sheet[t].kind # "text"
      /\ \A i \in (t + 1)..k : sheet[i].kind = "text"
      /\ s.lines = Run(t, k - t) /\ AreSections(s.done, sheet, t - 1)
  BY <1>1 DEF OpenAfter
<1>3. PICK m \in Nat : m = k - t /\ t + (m + 1) = k + 1
  OBVIOUS
<1>4. CASE sheet[k + 1].kind = "text"
  <2>1. PICK lines : lines = Run(t, m + 1)
    OBVIOUS
  <2>2. Append(s.lines, k + 1) = lines
    <3>1. s.lines = Run(t, m) /\ t + (m + 1) = k + 1
      BY <1>2, <1>3
    <3>2. Append(Run(t, m), t + (m + 1)) = Run(t, m + 1)
      <4>1. t \in Nat
        OBVIOUS
      <4>. QED BY <4>1, RunGrows
    <3>. QED BY <2>1, <3>1, <3>2
  <2>3. TakeLine(sheet, s, k + 1) = [s EXCEPT !.lines = lines]
    BY <1>4, <2>2 DEF TakeLine, OpenSections
  <2>4. PICK r : r = [s EXCEPT !.lines = lines]
    OBVIOUS
  <2>5. r.title = t /\ r.lines = lines /\ r.done = s.done
    BY <1>1, <2>4 DEF OpenSections
  <2>6. \A i \in (t + 1)..(k + 1) : sheet[i].kind = "text"
    BY <1>2, <1>4
  <2>7. (k + 1) - t = m + 1 /\ t \in 0..(k + 1)
    BY <1>3
  <2>8. OpenAfter(r, sheet, k + 1)
    BY <1>2, <2>1, <2>5, <2>6, <2>7 DEF OpenAfter
  <2>. QED BY <2>3, <2>4, <2>8
<1>5. CASE sheet[k + 1].kind # "text"
  <2>1. PICK r : r = [done |-> EndSection(s), title |-> k + 1, lines |-> <<>>]
    OBVIOUS
  <2>2. TakeLine(sheet, s, k + 1) = r
    BY <1>5, <2>1 DEF TakeLine
  <2>3. r.title = k + 1 /\ r.lines = <<>> /\ r.done = EndSection(s)
    BY <2>1
  <2>4. AreSections(r.done, sheet, k)
    BY <2>3, EndedAre
  <2>5. Run(k + 1, 0) = <<>>
    BY DEF Run
  <2>6. (k + 1) - (k + 1) = 0 /\ (k + 1) - 1 = k /\ k + 1 \in 0..(k + 1)
    OBVIOUS
  <2>7. OpenAfter(r, sheet, k + 1)
    BY <1>5, <2>3, <2>4, <2>5, <2>6 DEF OpenAfter
  <2>. QED BY <2>2, <2>7
<1>. QED BY <1>4, <1>5

\* The sections of a page are runs of text lines, each under its heading, apart from
\* one another and in order, and leave no text line out.
LEMMA SectionsHold ==
    ASSUME NEW sheet \in Seq(Lines)
    PROVE  /\ Sections(sheet) \in Seq(SectionsTo(Len(sheet)))
           /\ AreSections(Sections(sheet), sheet, Len(sheet))
<1>1. PICK n \in Nat : n = Len(sheet)
  OBVIOUS
<1>2. PICK l : LinesWalk(l, sheet)
  BY LinesUnfolds
<1> DEFINE T == {k \in Nat : k <= n => l[k] \in OpenSections(n) /\ OpenAfter(l[k], sheet, k)}
<1>3. 0 \in T
  <2>1. PICK s : s = [done |-> <<>>, title |-> 0, lines |-> <<>>]
    OBVIOUS
  <2>2. s.done = <<>> /\ s.title = 0 /\ s.lines = <<>>
    BY <2>1
  <2>3. s \in OpenSections(n)
    BY <2>1, NoElement DEF OpenSections
  <2>4. AreSections(<<>>, sheet, -1)
    BY DEF AreSections
  <2>5. Run(0, 0) = <<>> /\ 0 - 0 = 0 /\ 0 - 1 = -1
    BY DEF Run
  <2>6. OpenAfter(s, sheet, 0)
    BY <2>2, <2>4, <2>5 DEF OpenAfter
  <2>7. l[0] = s
    BY <1>2, <2>1 DEF LinesWalk
  <2>. QED BY <2>3, <2>6, <2>7
<1>4. ASSUME NEW k \in Nat, k \in T PROVE k + 1 \in T
  <2>. SUFFICES ASSUME k + 1 <= n
                PROVE  l[k + 1] \in OpenSections(n) /\ OpenAfter(l[k + 1], sheet, k + 1)
    OBVIOUS
  <2>1. PICK s \in OpenSections(n) : s = l[k] /\ OpenAfter(s, sheet, k)
    BY <1>4
  <2>2. PICK i \in 1..n : i = k + 1 /\ i - 1 = k
    OBVIOUS
  <2>3. l[i] = TakeLine(sheet, s, i)
    BY <1>1, <1>2, <2>1, <2>2 DEF LinesWalk
  <2>4. TakeLine(sheet, s, i) \in OpenSections(n)
    BY TakeLineIs
  <2>5. OpenAfter(TakeLine(sheet, s, k + 1), sheet, k + 1)
    BY <1>1, <2>1, TakenAre
  <2>. QED BY <2>2, <2>3, <2>4, <2>5
<1>5. n \in T
  <2>. HIDE DEF T
  <2>. QED BY <1>3, <1>4, NatSetInduction
<1>6. PICK s \in OpenSections(n) : s = l[n] /\ OpenAfter(s, sheet, n)
  BY <1>5
<1>7. Sections(sheet) = EndSection(s)
  BY <1>1, <1>2, <1>6, SectionsAre DEF LinesWalk
<1>8. EndSection(s) \in Seq(SectionsTo(n))
  BY EndSectionIs
<1>9. AreSections(EndSection(s), sheet, n)
  BY <1>1, <1>6, EndedAre
<1>. QED BY <1>1, <1>7, <1>8, <1>9
-----------------------------------------------------------------------------
(* The chunks of the sections *)

ChunksTo(n) == [title : 0..n, lines : Seq(1..n), from : Nat, to : Nat]
Pieces(d, w) == [k \in DOMAIN w |-> Piece(d, w[k])]

\* Windows that cover a section and are not too long, unless it is a table.
CoverSection(w, d, sheet) ==
    /\ Slides(w, 1, JoinedWidth(sheet, d.lines))
    /\ Short(w) \/ (d.title # 0 /\ sheet[d.title].kind = "table" /\ Len(w) = 1)

LEMMA PieceIs ==
    ASSUME NEW d, NEW w
    PROVE  /\ Piece(d, w).title = d.title /\ Piece(d, w).lines = d.lines
           /\ Piece(d, w).from = w.from /\ Piece(d, w).to = w.to
  BY DEF Piece

LEMMA PiecesAre ==
    ASSUME NEW n, NEW d \in SectionsTo(n), NEW w \in Seq(TextWindow)
    PROVE  /\ Pieces(d, w) \in Seq(ChunksTo(n)) /\ Len(Pieces(d, w)) = Len(w)
           /\ \A k \in 1..Len(w) : Pieces(d, w)[k] = Piece(d, w[k])
<1>1. PICK m \in Nat : m = Len(w) /\ DOMAIN w = 1..m
  OBVIOUS
<1>2. ASSUME NEW k \in 1..m PROVE Piece(d, w[k]) \in ChunksTo(n)
  <2>1. w[k] \in TextWindow
    BY <1>1
  <2>. QED BY <2>1 DEF Piece, SectionsTo, ChunksTo, TextWindow
<1>3. Pieces(d, w) \in [1..m -> ChunksTo(n)]
  BY <1>1, <1>2 DEF Pieces
<1>. QED BY <1>1, <1>3, IsSequence DEF Pieces

\* What a section is cut into.
LEMMA SectionIsCut ==
    ASSUME NEW sheet \in Seq(Lines), NEW d \in SectionsTo(Len(sheet)), d.lines # <<>>
    PROVE  /\ \E w : CoverSection(w, d, sheet) /\ SectionChunks(sheet, d) = Pieces(d, w)
           /\ SectionChunks(sheet, d) \in Seq(ChunksTo(Len(sheet)))
<1>1. PICK n \in Nat \ {0} : n = JoinedWidth(sheet, d.lines)
  <2>1. d.lines \in Seq(DOMAIN sheet)
    <3>1. DOMAIN sheet = 1..Len(sheet)
      OBVIOUS
    <3>. QED BY <3>1 DEF SectionsTo
  <2>. QED BY <2>1, JoinedIsWide
<1>2. PICK prefix \in Nat : prefix = IF d.title = 0 THEN 0 ELSE sheet[d.title].width + 3
  <2>1. CASE d.title = 0
    BY <2>1
  <2>2. CASE d.title # 0
    <3>1. d.title \in DOMAIN sheet
      BY <2>2 DEF SectionsTo
    <3>2. sheet[d.title] \in Lines
      BY <3>1
    <3>4. PICK y \in Lines : y = sheet[d.title]
      BY <3>2
    <3>5. y.width \in Nat
      BY ChunkAssumption DEF Lines
    <3>3. sheet[d.title].width + 3 \in Nat
      BY <3>4, <3>5
    <3>. QED BY <2>2, <3>3
  <2>. QED BY <2>1, <2>2
<1>3. PICK w : w = IF (d.title # 0 /\ sheet[d.title].kind = "table") \/ prefix + n <= ChunkSize
                   THEN <<[from |-> 1, to |-> n]>> ELSE ChunkText(n)
  OBVIOUS
<1>4. SectionChunks(sheet, d) = Pieces(d, w)
  BY <1>1, <1>2, <1>3 DEF SectionChunks, Pieces
<1>5. CoverSection(w, d, sheet)
  <2>1. PICK x : x = [from |-> 1, to |-> n]
    OBVIOUS
  <2>2. PICK v : v = <<x>>
    OBVIOUS
  <2>3. Slides(v, 1, n) /\ Len(v) = 1
    BY <2>1, <2>2, OneWindow
  <2>4. CASE d.title # 0 /\ sheet[d.title].kind = "table"
    <3>1. w = v
      BY <1>3, <2>1, <2>2, <2>4
    <3>. QED BY <1>1, <2>3, <2>4, <3>1 DEF CoverSection
  <2>5. CASE ~(d.title # 0 /\ sheet[d.title].kind = "table") /\ prefix + n <= ChunkSize
    <3>1. w = v
      BY <1>3, <2>1, <2>2, <2>5
    <3>2. n - 1 < ChunkSize
      BY <1>1, <1>2, <2>5, ChunkAssumption
    <3>3. Short(v)
      BY <2>1, <2>2, <3>2 DEF Short
    <3>. QED BY <1>1, <2>3, <3>1, <3>3 DEF CoverSection
  <2>6. CASE ~(d.title # 0 /\ sheet[d.title].kind = "table") /\ ~(prefix + n <= ChunkSize)
    <3>1. w = ChunkText(n)
      BY <1>3, <2>6
    <3>. QED BY <1>1, <3>1, WindowsCover DEF CoverSection
  <2>. QED BY <2>4, <2>5, <2>6
<1>6. w \in Seq(TextWindow)
  BY <1>5 DEF CoverSection, Slides
<1>. QED BY <1>4, <1>5, <1>6, PiecesAre

HaveLines(sections) == \A j \in DOMAIN sections : sections[j].lines # <<>>

AllChunks(sheet, sections) ==
    FoldLeft(LAMBDA pieces, s : pieces \o SectionChunks(sheet, s), <<>>, sections)

IsJoins(u, sheet, sections, order) ==
    u = [s \in SUBSET DOMAIN order |->
            IF s = {} THEN <<>> ELSE u[s \ {Max(s)}] \o SectionChunks(sheet, order[Max(s)])]
JoinsWalk(l, sheet, sections) ==
    /\ l[0] = <<>>
    /\ \A k \in 1..Len(sections) : l[k] = l[k - 1] \o SectionChunks(sheet, sections[k])
    /\ AllChunks(sheet, sections) = l[Len(sections)]

LEMMA JoinsUnfolds ==
    ASSUME NEW sheet \in Seq(Lines), NEW sections \in Seq(SectionsTo(Len(sheet))), HaveLines(sections)
    PROVE  \E l : JoinsWalk(l, sheet, sections)
<1>0. PICK q : q = Len(sheet)
  OBVIOUS
<1>1. PICK n : n \in Nat /\ n = Len(sections) /\ DOMAIN sections = 1..n /\ \A k \in 1..n : sections[k] \in SectionsTo(q)
  BY <1>0
<1>2. PICK order : order = sections
  OBVIOUS
<1>3. DOMAIN order = 1..n /\ \A k \in 1..n : order[k] = sections[k]
  BY <1>1, <1>2
<1>4. AllChunks(sheet, sections) = (CHOOSE u : IsJoins(u, sheet, sections, order))[DOMAIN order]
  BY <1>1, <1>2 DEF AllChunks, FoldLeft, MapThenFoldSet, IsJoins
<1>5. PICK X : X = Seq(ChunksTo(q))
  OBVIOUS
<1>6. PICK base : base = <<>> /\ base \in X
  <2>1. <<>> \in X
    BY <1>5, NoElement
  <2>. QED BY <2>1
<1>7. PICK step : step = [p \in X \X (1..n) |-> p[1] \o SectionChunks(sheet, sections[p[2]])]
  OBVIOUS
<1>8. \E u : IsJoins(u, sheet, sections, order)
  <2>1. ASSUME NEW c \in X, NEW i \in 1..n PROVE c \o SectionChunks(sheet, sections[i]) \in X
    <3>1. PICK d : d = sections[i] /\ d \in SectionsTo(Len(sheet)) /\ d.lines # <<>>
      BY <1>0, <1>1 DEF HaveLines
    <3>2. PICK g : g = SectionChunks(sheet, d) /\ g \in Seq(ChunksTo(q))
      BY <1>0, <3>1, SectionIsCut
    <3>3. c \o g \in Seq(ChunksTo(q))
      BY <1>5, <2>1, <3>2, Together
    <3>. QED BY <1>5, <3>1, <3>2, <3>3
  <2>2. IsFold(n, X, base, step)
    BY <1>1, <1>6, <1>7, <2>1 DEF IsFold
  <2>3. PICK v : IsFoldOf(v, n, X, base, step)
    BY <2>2, FoldUnfolds
  <2>4. ASSUME NEW s \in SUBSET (1..n), s # {}
        PROVE  v[s] = v[s \ {Max(s)}] \o SectionChunks(sheet, order[Max(s)])
    <3>1. Max(s) \in 1..n /\ s \ {Max(s)} \in SUBSET (1..n)
      BY <2>3, <2>4 DEF IsFoldOf
    <3>2. v[s \ {Max(s)}] \in X /\ v[s] = step[<<v[s \ {Max(s)}], Max(s)>>]
      BY <2>3, <2>4, <3>1 DEF IsFoldOf
    <3>3. v[s] = v[s \ {Max(s)}] \o SectionChunks(sheet, sections[Max(s)])
      BY <1>7, <3>1, <3>2
    <3>. QED BY <1>3, <3>1, <3>3
  <2>5. v = [s \in SUBSET DOMAIN order |->
                IF s = {} THEN <<>> ELSE v[s \ {Max(s)}] \o SectionChunks(sheet, order[Max(s)])]
    BY <1>3, <1>6, <2>3, <2>4 DEF IsFoldOf
  <2>. QED BY <2>5 DEF IsJoins
<1>9. PICK u : IsJoins(u, sheet, sections, order) /\ AllChunks(sheet, sections) = u[DOMAIN order]
  BY <1>4, <1>8
<1>10. PICK l : l = [k \in 0..n |-> u[1..k]]
  OBVIOUS
<1>11. l[0] = <<>>
  <2>1. 1..0 = {} /\ 0 \in 0..n
    BY <1>1
  <2>2. u[{}] = <<>>
    BY <1>9 DEF IsJoins
  <2>. QED BY <1>10, <2>1, <2>2
<1>12. ASSUME NEW k \in 1..n PROVE l[k] = l[k - 1] \o SectionChunks(sheet, sections[k])
  <2>1. PICK s : s = 1..k
    OBVIOUS
  <2>2. s \in SUBSET DOMAIN order /\ s # {} /\ Max(s) = k /\ s \ {k} = 1..(k - 1)
    BY <1>1, <1>3, <2>1, UpTo
  <2>3. u[s] = u[s \ {Max(s)}] \o SectionChunks(sheet, order[Max(s)])
    BY <1>9, <2>2 DEF IsJoins
  <2>4. k \in 0..n /\ k - 1 \in 0..n
    BY <1>1
  <2>. QED BY <1>3, <1>10, <2>1, <2>2, <2>3, <2>4
<1>13. AllChunks(sheet, sections) = l[n]
  <2>1. n \in 0..n
    BY <1>1
  <2>. QED BY <1>3, <1>9, <1>10, <2>1
<1>14. JoinsWalk(l, sheet, sections)
  BY <1>1, <1>11, <1>12, <1>13 DEF JoinsWalk
<1>. QED BY <1>14

\* From the place o on the list has the pieces of the section d, and none elsewhere.
PiecesAt(pieces, o, d, w) ==
    /\ o \in Nat
    /\ \A i \in 1..Len(w) : o + i \in DOMAIN pieces /\ pieces[o + i] = Piece(d, w[i])
    /\ \A x \in DOMAIN pieces : pieces[x].lines = d.lines => x \in (o + 1)..(o + Len(w))

\* The list has the pieces of the first k sections, and no others.
IsCutAt(pieces, o, d, w, sheet) == CoverSection(w, d, sheet) /\ PiecesAt(pieces, o, d, w)
AreCut(pieces, sections, k, sheet) ==
    /\ pieces \in Seq(ChunksTo(Len(sheet)))
    /\ \A j \in 1..k : \E o, w : IsCutAt(pieces, o, sections[j], w, sheet)
    /\ \A x \in DOMAIN pieces : \E j \in 1..k :
          pieces[x].lines = sections[j].lines /\ pieces[x].title = sections[j].title

LEMMA BothParts ==
    ASSUME NEW S, NEW s \in Seq(S), NEW t \in Seq(S)
    PROVE  /\ DOMAIN (s \o t) = 1..(Len(s) + Len(t))
           /\ \A i \in 1..Len(s) : (s \o t)[i] = s[i]
           /\ \A i \in 1..Len(t) : (s \o t)[Len(s) + i] = t[i]
  OBVIOUS

LEMMA JoinedDomain ==
    ASSUME NEW S, NEW s \in Seq(S), NEW t \in Seq(S)
    PROVE  DOMAIN (s \o t) = 1..(Len(s) + Len(t))
  OBVIOUS

LEMMA CutFurther ==
    ASSUME NEW sheet, NEW sections, NEW k \in Nat, NEW pieces,
           AreCut(pieces, sections, k, sheet),
           NEW d, d = sections[k + 1], d \in SectionsTo(Len(sheet)),
           \A j \in 1..k : sections[j].lines # d.lines,
           NEW w, CoverSection(w, d, sheet)
    PROVE  AreCut(pieces \o Pieces(d, w), sections, k + 1, sheet)
<1>1. PICK n : n = Len(sheet)
  OBVIOUS
<1>2. pieces \in Seq(ChunksTo(n))
  BY <1>1 DEF AreCut
<1>3. PICK g : g = Pieces(d, w)
  OBVIOUS
<1>4. w \in Seq(TextWindow)
  BY DEF CoverSection, Slides
<1>5. PICK m \in Nat : m = Len(w)
  BY <1>4
<1>6. g \in Seq(ChunksTo(n)) /\ Len(g) = m /\ \A i \in 1..m : g[i] = Piece(d, w[i])
  BY <1>1, <1>3, <1>4, <1>5, PiecesAre
<1>7. PICK q \in Nat : q = Len(pieces) /\ DOMAIN pieces = 1..q
  BY <1>2
<1>8. PICK longer : longer = pieces \o g
  OBVIOUS
<1>9. longer \in Seq(ChunksTo(n)) /\ DOMAIN longer = 1..(q + m)
  <2>1. PICK X : X = ChunksTo(n)
    OBVIOUS
  <2>2. longer \in Seq(X)
    BY <1>2, <1>6, <1>8, <2>1, Together
  <2>3. pieces \in Seq(X) /\ g \in Seq(X) /\ Len(g) = m /\ Len(pieces) = q
    BY <1>2, <1>6, <1>7, <2>1
  <2>4. DOMAIN longer = 1..(q + m)
    <3>1. DOMAIN (pieces \o g) = 1..(Len(pieces) + Len(g))
      BY <2>3, JoinedDomain, Zenon
    <3>. QED BY <1>8, <2>3, <3>1, Zenon
  <2>. QED BY <2>1, <2>2, <2>4
<1>10. \A x \in 1..q : longer[x] = pieces[x]
  BY <1>2, <1>6, <1>7, <1>8
<1>11. \A i \in 1..m : longer[q + i] = Piece(d, w[i])
  <2>1. \A i \in 1..m : longer[q + i] = g[i]
    BY <1>2, <1>6, <1>7, <1>8
  <2>. QED BY <1>6, <2>1
<1>12. ASSUME NEW x \in 1..(q + m), ~(x \in 1..q) PROVE \E i \in 1..m : x = q + i
  <2>1. x - q \in 1..m /\ x = q + (x - q)
    BY <1>12
  <2>. QED BY <2>1
<1>13. ASSUME NEW j \in 1..k PROVE \E o, v : IsCutAt(longer, o, sections[j], v, sheet)
  <2>1. PICK o, v : IsCutAt(pieces, o, sections[j], v, sheet)
    BY <1>13 DEF AreCut
  <2>2. /\ CoverSection(v, sections[j], sheet) /\ o \in Nat
        /\ \A i \in 1..Len(v) : o + i \in 1..q /\ pieces[o + i] = Piece(sections[j], v[i])
        /\ \A x \in 1..q : pieces[x].lines = sections[j].lines => x \in (o + 1)..(o + Len(v))
    BY <1>7, <2>1 DEF IsCutAt, PiecesAt
  <2>3. ASSUME NEW i \in 1..Len(v)
        PROVE  o + i \in DOMAIN longer /\ longer[o + i] = Piece(sections[j], v[i])
    <3>1. PICK x : x = o + i
      OBVIOUS
    <3>2. x \in 1..q /\ pieces[x] = Piece(sections[j], v[i])
      BY <2>2, <3>1, Zenon
    <3>3. x \in 1..(q + m)
      BY <3>2
    <3>. QED BY <1>9, <1>10, <3>1, <3>2, <3>3, Zenon
  <2>4. ASSUME NEW x \in DOMAIN longer, longer[x].lines = sections[j].lines
        PROVE  x \in (o + 1)..(o + Len(v))
    <3>1. CASE x \in 1..q
      BY <1>10, <2>2, <2>4, <3>1
    <3>2. CASE ~(x \in 1..q)
      <4>1. PICK i \in 1..m : x = q + i
        BY <1>9, <1>12, <3>2
      <4>2. longer[x].lines = d.lines
        BY <1>11, <4>1, PieceIs
      <4>. QED BY <1>13, <2>4, <4>2
    <3>. QED BY <3>1, <3>2
  <2>5. PiecesAt(longer, o, sections[j], v)
    BY <2>2, <2>3, <2>4 DEF PiecesAt
  <2>. QED BY <2>2, <2>5 DEF IsCutAt
<1>14. IsCutAt(longer, q, d, w, sheet)
  <2>1. ASSUME NEW x \in DOMAIN longer, longer[x].lines = d.lines PROVE x \in (q + 1)..(q + m)
    <3>1. CASE x \in 1..q
      <4>1. PICK j \in 1..k : pieces[x].lines = sections[j].lines
        BY <1>7, <3>1 DEF AreCut
      <4>. QED BY <1>10, <2>1, <3>1, <4>1
    <3>2. CASE ~(x \in 1..q)
      BY <1>9, <3>2
    <3>. QED BY <3>1, <3>2
  <2>2. \A i \in 1..m : q + i \in DOMAIN longer
    BY <1>9
  <2>3. PiecesAt(longer, q, d, w)
    BY <1>5, <1>11, <2>1, <2>2 DEF PiecesAt
  <2>. QED BY <2>3 DEF IsCutAt
<1>15. ASSUME NEW j \in 1..(k + 1) PROVE \E o, v : IsCutAt(longer, o, sections[j], v, sheet)
  <2>1. j \in 1..k \/ j = k + 1
    OBVIOUS
  <2>. QED BY <1>13, <1>14, <2>1
<1>16. ASSUME NEW x \in DOMAIN longer
       PROVE  \E j \in 1..(k + 1) : /\ longer[x].lines = sections[j].lines
                                    /\ longer[x].title = sections[j].title
  <2>1. CASE x \in 1..q
    <3>1. PICK j \in 1..k : pieces[x].lines = sections[j].lines /\ pieces[x].title = sections[j].title
      BY <1>7, <2>1 DEF AreCut
    <3>2. j \in 1..(k + 1)
      OBVIOUS
    <3>. QED BY <1>10, <2>1, <3>1, <3>2
  <2>2. CASE ~(x \in 1..q)
    <3>1. PICK i \in 1..m : x = q + i
      BY <1>9, <1>12, <2>2
    <3>2. longer[x].lines = d.lines /\ longer[x].title = d.title
      <4>1. longer[x] = Piece(d, w[i])
        BY <1>11, <3>1
      <4>. QED BY <4>1, PieceIs
    <3>3. k + 1 \in 1..(k + 1)
      OBVIOUS
    <3>. QED BY <3>2, <3>3
  <2>. QED BY <2>1, <2>2
<1>17. AreCut(longer, sections, k + 1, sheet)
  BY <1>1, <1>9, <1>15, <1>16 DEF AreCut
<1>. QED BY <1>3, <1>8, <1>17

\* No two sections have the same lines.
LEMMA SectionsDiffer ==
    ASSUME NEW sheet, NEW n \in Nat, NEW sections \in Seq(SectionsTo(n)),
           AreSections(sections, sheet, n),
           NEW j \in DOMAIN sections, NEW m \in DOMAIN sections, j # m
    PROVE  sections[j].lines # sections[m].lines
<1>1. ASSUME NEW i \in DOMAIN sections
      PROVE  /\ sections[i].title \in Nat /\ LastLine(sections[i]) \in Nat
             /\ LastLine(sections[i]) > sections[i].title
             /\ sections[i].lines[1] = sections[i].title + 1
  <2>1. PICK d : d = sections[i]
    OBVIOUS
  <2>2. IsSection(d, sheet)
    BY <1>1, <2>1 DEF AreSections
  <2>3. PICK l \in Nat \ {0} : l = Len(d.lines)
    BY <2>2 DEF IsSection
  <2>4. d.title \in Nat /\ d.lines = Run(d.title, l)
    BY <2>2, <2>3 DEF IsSection
  <2>5. LastLine(d) = d.title + l
    BY <2>3 DEF LastLine
  <2>6. 1 \in 1..l
    OBVIOUS
  <2>7. d.lines[1] = d.title + 1
    BY <2>4, <2>6 DEF Run
  <2>. QED BY <2>1, <2>4, <2>5, <2>7
<1>2. j \in Nat /\ m \in Nat
  OBVIOUS
<1>3. LastLine(sections[j]) < sections[m].title \/ LastLine(sections[m]) < sections[j].title
  <2>1. j < m \/ m < j
    BY <1>2
  <2>. QED BY <2>1 DEF AreSections
<1>4. sections[j].title # sections[m].title
  BY <1>1, <1>3
<1>5. sections[j].lines[1] = sections[j].title + 1 /\ sections[m].lines[1] = sections[m].title + 1
  BY <1>1, Zenon
<1>6. sections[j].title \in Nat /\ sections[m].title \in Nat
  BY <1>1, Zenon
<1>7. sections[j].lines[1] # sections[m].lines[1]
  BY <1>4, <1>5, <1>6
<1>. QED BY <1>7, Zenon

LEMMA AllAreCut ==
    ASSUME NEW sheet \in Seq(Lines), NEW sections, sections = Sections(sheet)
    PROVE  AreCut(AllChunks(sheet, sections), sections, Len(sections), sheet)
<1>1. PICK n \in Nat : n = Len(sheet)
  OBVIOUS
<1>2. sections \in Seq(SectionsTo(n)) /\ AreSections(sections, sheet, n)
  BY <1>1, SectionsHold
<1>3. PICK p \in Nat : p = Len(sections) /\ DOMAIN sections = 1..p
  BY <1>2
<1>4. HaveLines(sections)
  <2>1. ASSUME NEW j \in DOMAIN sections PROVE sections[j].lines # <<>>
    <3>1. Len(sections[j].lines) # 0
      BY <1>2, <2>1 DEF AreSections, IsSection
    <3>. QED BY <3>1
  <2>. QED BY <2>1 DEF HaveLines
<1>5. PICK l : JoinsWalk(l, sheet, sections)
  BY <1>1, <1>2, <1>4, JoinsUnfolds
<1> DEFINE T == {k \in Nat : k <= p => AreCut(l[k], sections, k, sheet)}
<1>6. 0 \in T
  <2>1. l[0] = <<>>
    BY <1>5 DEF JoinsWalk
  <2>2. <<>> \in Seq(ChunksTo(Len(sheet))) /\ DOMAIN <<>> = {} /\ 1..0 = {}
    BY NoElement
  <2>3. AreCut(l[0], sections, 0, sheet)
    BY <2>1, <2>2 DEF AreCut
  <2>. QED BY <2>3
<1>7. ASSUME NEW k \in Nat, k \in T PROVE k + 1 \in T
  <2>. SUFFICES ASSUME k + 1 <= p PROVE AreCut(l[k + 1], sections, k + 1, sheet)
    OBVIOUS
  <2>1. AreCut(l[k], sections, k, sheet)
    BY <1>7
  <2>2. PICK i \in 1..p : i = k + 1 /\ i - 1 = k
    OBVIOUS
  <2>3. PICK d : d = sections[i]
    OBVIOUS
  <2>4. d \in SectionsTo(n) /\ d.lines # <<>>
    BY <1>2, <1>3, <1>4, <2>3 DEF HaveLines
  <2>5. l[i] = l[k] \o SectionChunks(sheet, d)
    BY <1>3, <1>5, <2>2, <2>3 DEF JoinsWalk
  <2>6. PICK w : CoverSection(w, d, sheet) /\ SectionChunks(sheet, d) = Pieces(d, w)
    BY <1>1, <2>4, SectionIsCut
  <2>7. \A j \in 1..k : sections[j].lines # d.lines
    <3>1. \A j \in 1..k : j \in DOMAIN sections /\ i \in DOMAIN sections /\ j # i
      BY <1>3, <2>2
    <3>. QED BY <1>2, <2>3, <3>1, SectionsDiffer
  <2>8. d = sections[k + 1] /\ d \in SectionsTo(Len(sheet))
    BY <1>1, <2>2, <2>3, <2>4
  <2>9. AreCut(l[k] \o Pieces(d, w), sections, k + 1, sheet)
    BY <2>1, <2>6, <2>7, <2>8, CutFurther
  <2>. QED BY <2>2, <2>5, <2>6, <2>9
<1>8. p \in T
  <2>. HIDE DEF T
  <2>. QED BY <1>6, <1>7, NatSetInduction
<1>9. AllChunks(sheet, sections) = l[p]
  BY <1>3, <1>5 DEF JoinsWalk
<1>. QED BY <1>3, <1>8, <1>9

\* The chunks with the lines of c, and what is true of them.
ChunksWith(pieces, c) == Kept(pieces, LAMBDA x : x.lines = c.lines)
ChunksCover(of, c, sheet) ==
    /\ \/ c.to - c.from < ChunkSize
       \/ c.title # 0 /\ sheet[c.title].kind = "table" /\ Len(of) = 1
    /\ of[1].from = 1
    /\ Last(of).to = JoinedWidth(sheet, c.lines)
    /\ \A k \in 1..(Len(of) - 1) :
          /\ of[k + 1].from = of[k].to - Overlap + 1
          /\ of[k + 1].to > of[k].to

\* The parts of what is true of the chunks of a page.
TextOnce(pieces, sheet) ==
    \A i \in DOMAIN sheet : sheet[i].kind = "text" =>
       Cardinality({c.lines : c \in {x \in Range(pieces) : i \in Range(x.lines)}}) = 1
IsBare(sheet) == \A i \in DOMAIN sheet : sheet[i].kind # "text"
IsHeard(pieces, i) == \E c \in Range(pieces) : c.title = i \/ i \in Range(c.lines)
HeadsText(sheet, i) == i < Len(sheet) /\ sheet[i + 1].kind = "text"
HeadingsKept(pieces, sheet) ==
    \A i \in DOMAIN sheet : sheet[i].kind # "text" =>
       (IsHeard(pieces, i) <=> IsBare(sheet) \/ HeadsText(sheet, i))
AllCover(pieces, sheet) ==
    \A c \in Range(pieces) : ChunksCover(ChunksWith(pieces, c), c, sheet)

LEMMA PartsOfKept ==
    ASSUME NEW sheet, NEW pieces, pieces = ChunkPage(sheet), pieces # <<>>,
           TextOnce(pieces, sheet), HeadingsKept(pieces, sheet), AllCover(pieces, sheet)
    PROVE  PageIsKept(sheet)
<1>1. \A c \in Range(pieces) :
         ChunksCover(Kept(pieces, LAMBDA x : x.lines = c.lines), c, sheet)
  BY DEF AllCover, ChunksWith
<1>2. \A i \in DOMAIN sheet : sheet[i].kind # "text" =>
         ((\E c \in Range(pieces) : c.title = i \/ i \in Range(c.lines)) <=>
             (\A j \in DOMAIN sheet : sheet[j].kind # "text")
                \/ (i < Len(sheet) /\ sheet[i + 1].kind = "text"))
  BY Zenon DEF HeadingsKept, IsHeard, IsBare, HeadsText
<1>3. \A i \in DOMAIN sheet : sheet[i].kind = "text" =>
         Cardinality({c.lines : c \in {x \in Range(pieces) : i \in Range(x.lines)}}) = 1
  BY DEF TextOnce
<1>. QED BY <1>1, <1>2, <1>3, Zenon DEF PageIsKept, ChunksCover

\* The chunks with the lines of a section are the pieces of it.
LEMMA PiecesAreKept ==
    ASSUME NEW n \in Nat, NEW pieces \in Seq(ChunksTo(n)), NEW d, NEW w \in Seq(TextWindow),
           NEW o, PiecesAt(pieces, o, d, w),
           NEW c, c.lines = d.lines, NEW of, of = ChunksWith(pieces, c)
    PROVE  Len(of) = Len(w) /\ \A i \in 1..Len(w) : of[i] = Piece(d, w[i])
<1>1. PICK X : X = ChunksTo(n)
  OBVIOUS
<1>2. pieces \in Seq(X)
  BY <1>1
<1>3. PICK q \in Nat : DOMAIN pieces = 1..q
  BY <1>2
<1>4. PICK m \in Nat : m = Len(w)
  OBVIOUS
<1>5. PICK T : T = {i \in DOMAIN pieces : pieces[i].lines = d.lines}
  OBVIOUS
<1>6. of = Taken(pieces, Ascending(T))
  BY <1>5 DEF ChunksWith, Kept
<1>7. /\ o \in Nat
      /\ \A i \in 1..m : o + i \in DOMAIN pieces /\ pieces[o + i] = Piece(d, w[i])
      /\ \A x \in DOMAIN pieces : pieces[x].lines = d.lines => x \in (o + 1)..(o + m)
  BY <1>4 DEF PiecesAt
<1>8. \A i \in 1..m : o + i \in T
  <2>1. \A i \in 1..m : Piece(d, w[i]).lines = d.lines
    BY PieceIs
  <2>. QED BY <1>5, <1>7, <2>1
<1>9. \A x \in T : x \in (o + 1)..(o + m)
  BY <1>5, <1>7
<1>10. T \in SUBSET DOMAIN pieces
  BY <1>5
<1>11. of \in Seq(X) /\ \E e : KeepsAt(e, of, pieces, T)
  BY <1>2, <1>6, <1>10, KeptIs
<1>12. PICK e : KeepsAt(e, of, pieces, T)
  BY <1>11
<1>13. PICK p \in Nat : p = Len(of) /\ DOMAIN of = 1..p
  BY <1>11
<1>14. /\ \A i \in 1..p : e[i] \in T /\ of[i] = pieces[e[i]]
       /\ \A x \in T : \E i \in 1..p : e[i] = x
       /\ \A i, k \in 1..p : i < k => e[i] < e[k]
  BY <1>12, <1>13 DEF KeepsAt
<1>15. PICK a : a = [i \in 1..p |-> e[i]]
  OBVIOUS
<1>16. PICK b : b = Run(o, m)
  OBVIOUS
<1>17. a \in Seq(Nat)
  <2>1. \A i \in 1..p : e[i] \in Nat
    BY <1>3, <1>10, <1>14
  <2>2. a \in [1..p -> Nat]
    BY <1>15, <2>1
  <2>. QED BY <2>2, IsSequence
<1>18. b \in Seq(Nat) /\ DOMAIN b = 1..m /\ \A i \in 1..m : b[i] = o + i
  <2>1. \A i \in 1..m : o + i \in Nat
    BY <1>7
  <2>2. b \in [1..m -> Nat] /\ \A i \in 1..m : b[i] = o + i
    BY <1>16, <2>1 DEF Run
  <2>. QED BY <2>2, IsSequence
<1>19. DOMAIN a = 1..p /\ \A i \in 1..p : a[i] = e[i]
  BY <1>15
<1>20. Ascends(a)
  BY <1>14, <1>19 DEF Ascends
<1>21. Ascends(b)
  <2>1. \A i, k \in 1..m : i < k => o + i < o + k
    BY <1>7
  <2>. QED BY <1>18, <2>1 DEF Ascends
<1>22. HoldsAllOf(a, b)
  <2>1. ASSUME NEW i \in 1..m PROVE \E k \in 1..p : b[i] = a[k]
    <3>1. PICK k \in 1..p : e[k] = o + i
      BY <1>8, <1>14, <2>1
    <3>. QED BY <1>18, <1>19, <3>1
  <2>. QED BY <1>18, <1>19, <2>1 DEF HoldsAllOf
<1>23. HoldsAllOf(b, a)
  <2>1. ASSUME NEW i \in 1..p PROVE \E k \in 1..m : a[i] = b[k]
    <3>1. PICK x \in (o + 1)..(o + m) : x = e[i]
      BY <1>9, <1>14, <2>1
    <3>2. PICK k \in 1..m : x = o + k
      <4>1. x - o \in 1..m /\ x = o + (x - o)
        BY <1>7, <3>1
      <4>. QED BY <4>1
    <3>. QED BY <1>18, <1>19, <3>1, <3>2
  <2>. QED BY <1>18, <1>19, <2>1 DEF HoldsAllOf
<1>24. a = b
  BY <1>17, <1>18, <1>20, <1>21, <1>22, <1>23, AscendingIsUnique
<1>25. p = m
  <2>1. 1..p = 1..m
    BY <1>18, <1>19, <1>24
  <2>. QED BY <1>17, <1>18, <1>19, <1>24
<1>26. ASSUME NEW i \in 1..m PROVE of[i] = Piece(d, w[i])
  <2>1. e[i] = o + i
    BY <1>18, <1>19, <1>24, <1>25
  <2>2. of[i] = pieces[e[i]]
    BY <1>14, <1>25
  <2>. QED BY <1>7, <2>1, <2>2
<1>. QED BY <1>4, <1>13, <1>25, <1>26

\* Chunks that are the pieces of sections cover them.
LEMMA CutCovers ==
    ASSUME NEW sheet \in Seq(Lines), NEW sections, NEW k \in Nat, NEW pieces,
           AreCut(pieces, sections, k, sheet)
    PROVE  AllCover(pieces, sheet)
<1>1. PICK n \in Nat : n = Len(sheet)
  OBVIOUS
<1>2. pieces \in Seq(ChunksTo(n))
  BY <1>1 DEF AreCut
<1>3. ASSUME NEW c \in Range(pieces) PROVE ChunksCover(ChunksWith(pieces, c), c, sheet)
  <2>1. PICK x \in DOMAIN pieces : c = pieces[x]
    BY <1>3 DEF Range
  <2>2. PICK j \in 1..k : pieces[x].lines = sections[j].lines /\ pieces[x].title = sections[j].title
    BY <2>1 DEF AreCut
  <2>3. PICK d : d = sections[j]
    OBVIOUS
  <2>4. c.lines = d.lines /\ c.title = d.title
    BY <2>1, <2>2, <2>3
  <2>5. PICK o, w : IsCutAt(pieces, o, d, w, sheet)
    BY <2>3 DEF AreCut
  <2>6. CoverSection(w, d, sheet) /\ PiecesAt(pieces, o, d, w)
    BY <2>5 DEF IsCutAt
  <2>7. w \in Seq(TextWindow) /\ Slides(w, 1, JoinedWidth(sheet, d.lines))
    BY <2>6 DEF CoverSection, Slides
  <2>8. PICK of : of = ChunksWith(pieces, c)
    OBVIOUS
  <2>9. PICK m \in Nat : m = Len(w)
    BY <2>7
  <2>10. Len(of) = m /\ \A i \in 1..m : of[i] = Piece(d, w[i])
    BY <1>2, <2>4, <2>6, <2>7, <2>8, <2>9, PiecesAreKept
  <2>11. ASSUME NEW i \in 1..m PROVE of[i].from = w[i].from /\ of[i].to = w[i].to
    <3>1. of[i] = Piece(d, w[i])
      BY <2>10
    <3>. QED BY <3>1, PieceIs
  <2>12. m # 0 /\ w[1].from = 1 /\ w[m].to = JoinedWidth(sheet, d.lines)
    BY <2>7, <2>9 DEF Slides
  <2>13. of[1].from = 1 /\ Last(of).to = JoinedWidth(sheet, c.lines)
    <3>1. 1 \in 1..m /\ m \in 1..m
      BY <2>12
    <3>2. of[1].from = w[1].from /\ of[m].to = w[m].to
      BY <2>11, <3>1
    <3>3. Last(of) = of[m]
      BY <2>10 DEF Last
    <3>. QED BY <2>4, <2>12, <3>2, <3>3
  <2>14. ASSUME NEW i \in 1..(m - 1)
         PROVE  of[i + 1].from = of[i].to - Overlap + 1 /\ of[i + 1].to > of[i].to
    <3>1. i \in 1..m /\ i + 1 \in 1..m
      BY <2>14
    <3>2. w[i + 1].from = w[i].to - Overlap + 1 /\ w[i + 1].to > w[i].to
      BY <2>7, <2>9, <2>14 DEF Slides
    <3>3. of[i + 1].from = w[i + 1].from /\ of[i + 1].to = w[i + 1].to /\ of[i].to = w[i].to
      BY <2>11, <3>1
    <3>. QED BY <3>2, <3>3
  <2>15. \/ c.to - c.from < ChunkSize
         \/ c.title # 0 /\ sheet[c.title].kind = "table" /\ Len(of) = 1
    <3>1. CASE Short(w)
      <4>1. x \in (o + 1)..(o + m) /\ o \in Nat
        BY <2>1, <2>4, <2>6, <2>9 DEF PiecesAt
      <4>2. PICK i \in 1..m : x = o + i
        <5>1. x - o \in 1..m /\ x = o + (x - o)
          BY <4>1
        <5>. QED BY <5>1
      <4>3. c = Piece(d, w[i])
        BY <2>1, <2>6, <2>9, <4>2 DEF PiecesAt
      <4>4. c.to = w[i].to /\ c.from = w[i].from
        BY <4>3, PieceIs
      <4>5. i \in DOMAIN w
        BY <2>7, <2>9
      <4>. QED BY <3>1, <4>4, <4>5 DEF Short
    <3>2. CASE d.title # 0 /\ sheet[d.title].kind = "table" /\ Len(w) = 1
      BY <2>4, <2>9, <2>10, <3>2
    <3>. QED BY <2>6, <3>1, <3>2 DEF CoverSection
  <2>16. ChunksCover(of, c, sheet)
    BY <2>10, <2>13, <2>14, <2>15 DEF ChunksCover
  <2>. QED BY <2>8, <2>16
<1>. QED BY <1>3 DEF AllCover

LEMMA SectionSpan ==
    ASSUME NEW sheet, NEW d, IsSection(d, sheet)
    PROVE  d.title \in Nat /\ LastLine(d) \in Nat /\ d.title < LastLine(d)
<1>1. PICK m \in Nat \ {0} : m = Len(d.lines)
  BY DEF IsSection
<1>2. PICK t \in Nat : t = d.title
  BY DEF IsSection
<1>3. LastLine(d) = t + m
  BY <1>1, <1>2 DEF LastLine
<1>. QED BY <1>2, <1>3

\* A line of a section is after its title and not after its last line.
LEMMA InSection ==
    ASSUME NEW sheet, NEW d, IsSection(d, sheet), NEW i
    PROVE  i \in Range(d.lines) <=> i \in (d.title + 1)..LastLine(d)
<1>1. PICK m \in Nat : m = Len(d.lines)
  BY DEF IsSection
<1>2. PICK t \in Nat : t = d.title
  BY DEF IsSection
<1>3. d.lines = Run(t, m) /\ LastLine(d) = t + m
  BY <1>1, <1>2 DEF IsSection, LastLine
<1>4. Range(d.lines) = {t + j : j \in 1..m}
  BY <1>3 DEF Range, Run
<1>5. ASSUME i \in (t + 1)..(t + m) PROVE i \in {t + j : j \in 1..m}
  <2>1. i - t \in 1..m /\ i = t + (i - t)
    BY <1>5
  <2>. QED BY <2>1
<1>6. ASSUME i \in {t + j : j \in 1..m} PROVE i \in (t + 1)..(t + m)
  BY <1>6
<1>. QED BY <1>2, <1>3, <1>4, <1>5, <1>6

\* Each text line of a page is in one section, and is in its chunks only.
LEMMA SectionsTellOnce ==
    ASSUME NEW sheet \in Seq(Lines), NEW sections \in Seq(SectionsTo(Len(sheet))),
           AreSections(sections, sheet, Len(sheet)), NEW pieces,
           AreCut(pieces, sections, Len(sections), sheet)
    PROVE  TextOnce(pieces, sheet)
<1>1. PICK n \in Nat : n = Len(sheet) /\ DOMAIN sheet = 1..n
  OBVIOUS
<1>2. PICK p \in Nat : p = Len(sections) /\ DOMAIN sections = 1..p
  OBVIOUS
<1>3. ASSUME NEW i \in 1..n, sheet[i].kind = "text"
      PROVE  Cardinality({c.lines : c \in {x \in Range(pieces) : i \in Range(x.lines)}}) = 1
  <2>1. PICK j \in 1..p : sections[j].title < i /\ i <= LastLine(sections[j])
    BY <1>1, <1>2, <1>3 DEF AreSections
  <2>2. \A k \in 1..p : /\ IsSection(sections[k], sheet)
                        /\ sections[k].title \in Nat /\ LastLine(sections[k]) \in Nat
                        /\ sections[k].title < LastLine(sections[k])
    <3>1. \A k \in 1..p : IsSection(sections[k], sheet)
      BY <1>2 DEF AreSections
    <3>. QED BY <3>1, SectionSpan
  <2>3. ASSUME NEW k \in 1..p, i \in (sections[k].title + 1)..LastLine(sections[k])
        PROVE  k = j
    <3>1. k < j => LastLine(sections[k]) < sections[j].title
      BY <1>2 DEF AreSections
    <3>2. j < k => LastLine(sections[j]) < sections[k].title
      BY <1>2 DEF AreSections
    <3>. QED BY <2>1, <2>2, <2>3, <3>1, <3>2
  <2>4. PICK L : L = sections[j].lines
    OBVIOUS
  <2>5. ASSUME NEW c \in Range(pieces), i \in Range(c.lines) PROVE c.lines = L
    <3>1. PICK x \in DOMAIN pieces : c = pieces[x]
      BY <2>5 DEF Range
    <3>2. PICK k \in 1..p : pieces[x].lines = sections[k].lines
      BY <1>2, <3>1 DEF AreCut
    <3>3. i \in Range(sections[k].lines)
      BY <2>5, <3>1, <3>2
    <3>4. i \in (sections[k].title + 1)..LastLine(sections[k])
      BY <2>2, <3>3, InSection
    <3>. QED BY <2>3, <2>4, <3>1, <3>2, <3>4
  <2>6. PICK c \in Range(pieces) : c.lines = L /\ i \in Range(c.lines)
    <3>1. PICK o, w : IsCutAt(pieces, o, sections[j], w, sheet)
      BY <1>2 DEF AreCut
    <3>2. CoverSection(w, sections[j], sheet) /\ PiecesAt(pieces, o, sections[j], w)
      BY <3>1 DEF IsCutAt
    <3>3. 1 \in 1..Len(w)
      BY <3>2 DEF CoverSection, Slides
    <3>4. o + 1 \in DOMAIN pieces /\ pieces[o + 1] = Piece(sections[j], w[1])
      BY <3>2, <3>3 DEF PiecesAt
    <3>5. PICK c : c = pieces[o + 1] /\ c \in Range(pieces)
      BY <3>4 DEF Range
    <3>6. c.lines = L
      BY <2>4, <3>4, <3>5, PieceIs
    <3>7. i \in (sections[j].title + 1)..LastLine(sections[j])
      BY <2>1, <2>2
    <3>8. i \in Range(L)
      BY <2>2, <2>4, <3>7, InSection
    <3>. QED BY <3>5, <3>6, <3>8
  <2>7. {b.lines : b \in {x \in Range(pieces) : i \in Range(x.lines)}} = {L}
    BY <2>5, <2>6
  <2>. QED BY <2>7, FS_Singleton
<1>. QED BY <1>1, <1>3 DEF TextOnce

\* A heading is the title of a chunk if text follows it.
LEMMA SectionsTellHeadings ==
    ASSUME NEW sheet \in Seq(Lines), NEW sections \in Seq(SectionsTo(Len(sheet))),
           AreSections(sections, sheet, Len(sheet)), sections # <<>>, NEW pieces,
           AreCut(pieces, sections, Len(sections), sheet)
    PROVE  HeadingsKept(pieces, sheet)
<1>1. PICK n \in Nat : n = Len(sheet) /\ DOMAIN sheet = 1..n
  OBVIOUS
<1>2. PICK p \in Nat \ {0} : p = Len(sections) /\ DOMAIN sections = 1..p
  OBVIOUS
<1>3. \A k \in 1..p : IsSection(sections[k], sheet)
  BY <1>2 DEF AreSections
<1>4. ASSUME NEW k \in 1..p
      PROVE  /\ sections[k].title \in 0..(n - 1) /\ LastLine(sections[k]) \in 1..n
             /\ sections[k].title < LastLine(sections[k])
             /\ \A i \in (sections[k].title + 1)..LastLine(sections[k]) : sheet[i].kind = "text"
  <2>1. PICK d : d = sections[k] /\ IsSection(d, sheet)
    BY <1>3, <1>4
  <2>2. PICK t \in Nat : t = d.title
    BY <2>1 DEF IsSection
  <2>3. PICK m \in Nat \ {0} : m = Len(d.lines) /\ LastLine(d) = t + m /\ t + m <= n
    BY <1>1, <2>1, <2>2 DEF IsSection, LastLine
  <2>4. \A i \in (t + 1)..(t + m) : sheet[i].kind = "text"
    BY <2>1, <2>2, <2>3 DEF IsSection
  <2>. QED BY <2>1, <2>2, <2>3, <2>4
<1>5. ~IsBare(sheet)
  <2>1. 1 \in 1..p
    BY <1>2
  <2>2. PICK i : i = sections[1].title + 1
    OBVIOUS
  <2>3. i \in 1..n /\ sheet[i].kind = "text"
    BY <1>4, <2>1, <2>2
  <2>. QED BY <1>1, <2>3 DEF IsBare
<1>6. ASSUME NEW i \in 1..n, sheet[i].kind # "text", IsHeard(pieces, i)
      PROVE  HeadsText(sheet, i)
  <2>1. PICK x \in DOMAIN pieces : pieces[x].title = i \/ i \in Range(pieces[x].lines)
    BY <1>6 DEF IsHeard, Range
  <2>2. PICK k \in 1..p : pieces[x].lines = sections[k].lines /\ pieces[x].title = sections[k].title
    BY <1>2, <2>1 DEF AreCut
  <2>3. ~(i \in Range(sections[k].lines))
    <3>. SUFFICES ASSUME i \in Range(sections[k].lines) PROVE FALSE
      OBVIOUS
    <3>1. i \in (sections[k].title + 1)..LastLine(sections[k])
      BY <1>3, InSection
    <3>. QED BY <1>4, <1>6, <3>1
  <2>4. sections[k].title = i
    BY <2>1, <2>2, <2>3
  <2>5. i + 1 \in (i + 1)..LastLine(sections[k]) /\ i < n
    BY <1>4, <2>4
  <2>6. sheet[i + 1].kind = "text"
    BY <1>4, <2>4, <2>5
  <2>. QED BY <1>1, <2>5, <2>6 DEF HeadsText
<1>7. ASSUME NEW i \in 1..n, sheet[i].kind # "text", HeadsText(sheet, i)
      PROVE  IsHeard(pieces, i)
  <2>1. i + 1 \in 1..n /\ sheet[i + 1].kind = "text"
    BY <1>1, <1>7 DEF HeadsText
  <2>2. PICK k \in 1..p : sections[k].title < i + 1 /\ i + 1 <= LastLine(sections[k])
    BY <1>1, <1>2, <2>1 DEF AreSections
  <2>3. sections[k].title = i
    <3>. SUFFICES ASSUME sections[k].title # i PROVE FALSE
      OBVIOUS
    <3>1. i \in (sections[k].title + 1)..LastLine(sections[k])
      BY <1>4, <2>2
    <3>. QED BY <1>4, <1>7, <3>1
  <2>4. PICK o, w : IsCutAt(pieces, o, sections[k], w, sheet)
    BY <1>2 DEF AreCut
  <2>5. CoverSection(w, sections[k], sheet) /\ PiecesAt(pieces, o, sections[k], w)
    BY <2>4 DEF IsCutAt
  <2>6. 1 \in 1..Len(w)
    BY <2>5 DEF CoverSection, Slides
  <2>7. o + 1 \in DOMAIN pieces /\ pieces[o + 1] = Piece(sections[k], w[1])
    BY <2>5, <2>6 DEF PiecesAt
  <2>8. PICK c : c = pieces[o + 1] /\ c \in Range(pieces)
    BY <2>7 DEF Range
  <2>9. c.title = i
    BY <2>3, <2>7, <2>8, PieceIs
  <2>. QED BY <2>8, <2>9 DEF IsHeard
<1>8. ASSUME NEW i \in 1..n, sheet[i].kind # "text"
      PROVE  IsHeard(pieces, i) <=> IsBare(sheet) \/ HeadsText(sheet, i)
  BY <1>5, <1>6, <1>7, <1>8
<1>. QED BY <1>1, <1>8 DEF HeadingsKept

LEMMA SomePieces ==
    ASSUME NEW sheet, NEW sections, NEW k \in Nat \ {0}, NEW pieces,
           AreCut(pieces, sections, k, sheet)
    PROVE  pieces # <<>>
<1>1. 1 \in 1..k
  OBVIOUS
<1>2. PICK o, w : IsCutAt(pieces, o, sections[1], w, sheet)
  BY <1>1 DEF AreCut
<1>3. CoverSection(w, sections[1], sheet) /\ PiecesAt(pieces, o, sections[1], w)
  BY <1>2 DEF IsCutAt
<1>4. 1 \in 1..Len(w)
  BY <1>3 DEF CoverSection, Slides
<1>5. o + 1 \in DOMAIN pieces
  BY <1>3, <1>4 DEF PiecesAt
<1>. QED BY <1>5

\* A page of headings only is one section of all its lines.
LEMMA BareIsKept ==
    ASSUME NEW sheet \in Seq(Lines), sheet # <<>>, Sections(sheet) = <<>>
    PROVE  PageIsKept(sheet)
<1>1. PICK n \in Nat \ {0} : n = Len(sheet) /\ DOMAIN sheet = 1..n
  OBVIOUS
<1>2. PICK all : all = [i \in 1..n |-> i]
  OBVIOUS
<1>3. all \in Seq(1..n) /\ Len(all) = n /\ \A i \in 1..n : all[i] = i
  BY <1>2
<1>4. PICK whole \in SectionsTo(n) : whole = [title |-> 0, lines |-> all]
  <2>1. PICK d : d = [title |-> 0, lines |-> all]
    OBVIOUS
  <2>2. 0 \in 0..n
    OBVIOUS
  <2>3. d \in SectionsTo(n)
    BY <1>3, <2>1, <2>2 DEF SectionsTo
  <2>. QED BY <2>1, <2>3
<1>5. whole.title = 0 /\ whole.lines = all
  BY <1>4
<1>6. PICK width \in Nat \ {0} : width = JoinedWidth(sheet, all)
  <2>1. all \in Seq(DOMAIN sheet) /\ all # <<>>
    BY <1>1, <1>3
  <2>. QED BY <2>1, JoinedIsWide
<1>7. PICK w : w = ChunkText(width)
  OBVIOUS
<1>8. Slides(w, 1, width) /\ Short(w)
  BY <1>7, WindowsCover
<1>9. CoverSection(w, whole, sheet)
  BY <1>5, <1>6, <1>8 DEF CoverSection
<1>10. PICK pieces : pieces = ChunkPage(sheet)
  OBVIOUS
<1>11. pieces = Pieces(whole, w)
  BY <1>1, <1>2, <1>4, <1>6, <1>7, <1>10 DEF ChunkPage, Pieces
<1>12. w \in Seq(TextWindow)
  BY <1>8 DEF Slides
<1>13. PICK sections : sections = <<whole>>
  OBVIOUS
<1>14. AreCut(pieces, sections, 1, sheet)
  <2>1. sections[0 + 1] = whole
    BY <1>13
  <2>2. <<>> \in Seq(ChunksTo(n)) /\ DOMAIN <<>> = {} /\ 1..0 = {}
    BY NoElement
  <2>3. AreCut(<<>>, sections, 0, sheet)
    BY <1>1, <2>2 DEF AreCut
  <2>4. AreCut(<<>> \o Pieces(whole, w), sections, 0 + 1, sheet)
    BY <1>1, <1>9, <2>1, <2>2, <2>3, CutFurther
  <2>5. PICK X : X = ChunksTo(n)
    OBVIOUS
  <2>6. PICK g : g = Pieces(whole, w) /\ g \in Seq(X)
    BY <1>12, <2>5, PiecesAre
  <2>7. <<>> \o g = g
    BY <2>6
  <2>8. 0 + 1 = 1
    OBVIOUS
  <2>. QED BY <1>11, <2>4, <2>6, <2>7, <2>8, Zenon
<1>15. pieces # <<>>
  BY <1>14, SomePieces
<1>16. AllCover(pieces, sheet)
  BY <1>14, CutCovers
<1>17. IsBare(sheet)
  <2>1. AreSections(<<>>, sheet, n)
    BY <1>1, SectionsHold
  <2>2. \A i \in 1..n : sheet[i].kind # "text"
    <3>1. DOMAIN <<>> = {}
      OBVIOUS
    <3>. QED BY <2>1, <3>1 DEF AreSections
  <2>. QED BY <1>1, <2>2 DEF IsBare
<1>18. TextOnce(pieces, sheet)
  BY <1>17 DEF IsBare, TextOnce
<1>19. HeadingsKept(pieces, sheet)
  <2>1. PICK c : c = pieces[1] /\ c \in Range(pieces)
    <3>1. pieces \in Seq(ChunksTo(Len(sheet)))
      BY <1>14 DEF AreCut
    <3>2. 1 \in DOMAIN pieces
      BY <1>15, <3>1
    <3>. QED BY <3>2 DEF Range
  <2>2. c.lines = all
    <3>1. PICK x \in DOMAIN pieces : c = pieces[x]
      BY <2>1 DEF Range
    <3>2. PICK j \in 1..1 : pieces[x].lines = sections[j].lines
      BY <1>14, <3>1 DEF AreCut
    <3>3. sections[j] = whole
      BY <1>13, <3>2
    <3>. QED BY <1>5, <3>1, <3>2, <3>3
  <2>3. ASSUME NEW i \in 1..n PROVE IsHeard(pieces, i)
    <3>1. i \in DOMAIN all /\ all[i] = i
      BY <1>2
    <3>2. i \in Range(all)
      BY <3>1 DEF Range
    <3>. QED BY <2>1, <2>2, <3>2 DEF IsHeard
  <2>. QED BY <1>1, <1>17, <2>3 DEF HeadingsKept
<1>. QED BY <1>10, <1>15, <1>16, <1>18, <1>19, PartsOfKept

\* Nothing that a page of a methodology says is lost when it is cut, however long
\* the page and its lines are: _split_sections and chunk_page_by_section.
THEOREM PagesAreAlwaysKept ==
    \A sheet \in Seq(Lines) : sheet # <<>> => PageIsKept(sheet)
<1>. SUFFICES ASSUME NEW sheet \in Seq(Lines), sheet # <<>> PROVE PageIsKept(sheet)
  OBVIOUS
<1>1. CASE Sections(sheet) = <<>>
  BY <1>1, BareIsKept
<1>2. CASE Sections(sheet) # <<>>
  <2>1. PICK sections : sections = Sections(sheet)
    OBVIOUS
  <2>2. /\ sections \in Seq(SectionsTo(Len(sheet))) /\ sections # <<>>
        /\ AreSections(sections, sheet, Len(sheet))
    BY <1>2, <2>1, SectionsHold
  <2>3. PICK k \in Nat \ {0} : k = Len(sections)
    BY <2>2
  <2>4. PICK pieces : pieces = AllChunks(sheet, sections)
    OBVIOUS
  <2>5. AreCut(pieces, sections, k, sheet)
    BY <2>1, <2>3, <2>4, AllAreCut
  <2>6. pieces = ChunkPage(sheet)
    BY <1>2, <2>1, <2>4 DEF ChunkPage, AllChunks, FoldLeft, MapThenFoldSet
  <2>7. pieces # <<>>
    BY <2>5, SomePieces
  <2>8. AllCover(pieces, sheet)
    BY <2>5, CutCovers
  <2>9. TextOnce(pieces, sheet)
    BY <2>2, <2>3, <2>5, SectionsTellOnce
  <2>10. HeadingsKept(pieces, sheet)
    BY <2>2, <2>3, <2>5, SectionsTellHeadings
  <2>. QED BY <2>6, <2>7, <2>8, <2>9, <2>10, PartsOfKept
<1>. QED BY <1>1, <1>2
-----------------------------------------------------------------------------
(* The runs of these rules *)

\* What the rules of a behaviour are applied to is of the kind they are proved for.
SampleIsOfKind ==
    /\ pipeline = "chunks"  => sample \in Seq(Lines) /\ sample # <<>>
    /\ pipeline = "events"  => sample \in Seq(DatedEvents({"distress", "decline"}))
    /\ pipeline = "reasons" => sample \in Seq(ReasonKinds)

\* The events the run puts on a page have a date.
LEMMA PageEventsAreDated == PageEvents \subseteq DatedEvents({"distress", "decline"})
<1>1. PICK S : S = Range(Severities)
  OBVIOUS
<1>2. PICK D : D = {<<a>> : a \in Nat}
  OBVIOUS
<1>3. PICK T : T = {"distress", "decline"}
  OBVIOUS
<1>4. DatedEvents(T) = [age : D, severity : S, title : T]
  BY <1>1, <1>2, Zenon DEF DatedEvents
<1>5. \A a \in Ages : <<a>> \in D
  <2>1. \A a \in Ages : a \in Nat
    BY PageAssumption
  <2>. QED BY <1>2, <2>1, Zenon
<1>6. ASSUME NEW e \in PageEvents PROVE e \in [age : D, severity : S, title : T]
  <2>1. PICK a \in Ages, s \in S :
          e = [age |-> <<a>>, severity |-> s,
               title |-> IF s \in {"critical", "high"} THEN "distress" ELSE "decline"]
    BY <1>1 DEF PageEvents
  <2>2. PICK d : d = <<a>>
    OBVIOUS
  <2>3. PICK x : x = IF s \in {"critical", "high"} THEN "distress" ELSE "decline"
    OBVIOUS
  <2>4. d \in D
    BY <1>5, <2>2
  <2>5. x \in T
    BY <1>3, <2>3
  <2>6. e = [age |-> d, severity |-> s, title |-> x]
    BY <2>1, <2>2, <2>3, Zenon
  <2>. QED BY <2>4, <2>5, <2>6
<1>. QED BY <1>3, <1>4, <1>6

LEMMA SampleStart == StoresInit => SampleIsOfKind
<1>. SUFFICES ASSUME StoresInit PROVE SampleIsOfKind
  OBVIOUS
<1>1. ASSUME pipeline = "chunks" PROVE sample \in Seq(Lines) /\ sample # <<>>
  <2>1. sample \in Pages
    BY <1>1 DEF StoresInit
  <2>2. PICK n \in 1..MaxLines : sample \in [1..n -> Lines]
    BY <2>1 DEF Pages
  <2>3. n \in Nat \ {0}
    BY ChunkAssumption
  <2>4. sample \in Seq(Lines) /\ Len(sample) = n
    BY <2>2, <2>3, IsSequence
  <2>. QED BY <2>3, <2>4
<1>2. ASSUME pipeline = "events"
      PROVE  sample \in Seq(DatedEvents({"distress", "decline"}))
  <2>1. PICK n \in 0..4 : sample \in [1..n -> PageEvents]
    BY <1>2 DEF StoresInit
  <2>2. PageEvents \subseteq DatedEvents({"distress", "decline"})
    BY PageEventsAreDated
  <2>3. PICK X : X = DatedEvents({"distress", "decline"})
    OBVIOUS
  <2>4. sample \in [1..n -> X]
    BY <2>1, <2>2, <2>3
  <2>5. n \in Nat
    OBVIOUS
  <2>. QED BY <2>3, <2>4, <2>5, IsSequence
<1>3. ASSUME pipeline = "reasons" PROVE sample \in Seq(ReasonKinds)
  <2>1. PICK n \in 0..5 : sample \in [1..n -> ReasonKinds]
    BY <1>3 DEF StoresInit
  <2>2. n \in Nat
    OBVIOUS
  <2>. QED BY <2>1, <2>2, IsSequence
<1>. QED BY <1>1, <1>2, <1>3 DEF SampleIsOfKind

LEMMA SampleStays == SampleIsOfKind /\ [StoresNext]_allVars => SampleIsOfKind'
<1>. SUFFICES ASSUME SampleIsOfKind, [StoresNext]_allVars PROVE SampleIsOfKind'
  OBVIOUS
<1>1. pipeline' = pipeline /\ sample' = sample
  BY DEF StoresNext, allVars
<1>. QED BY <1>1 DEF SampleIsOfKind

LEMMA SampleAlways == StoresSpec => []SampleIsOfKind
  BY SampleStart, SampleStays, PTL DEF StoresSpec

\* In every behaviour the rules of the stores hold: no page of a methodology loses
\* what it says, extraction keeps exactly the declared sentences, rankings merge
\* fairly and the verdicts are ordered as the figures are.
THEOREM TextRulesHold == StoresSpec => []TextRules
<1>1. SampleIsOfKind => PagesAreKept
  BY PagesAreAlwaysKept DEF SampleIsOfKind, PagesAreKept
<1>2. SampleIsOfKind => TextRules
  BY <1>1, ExtractionRuleHolds, RankingRulesHold, FigureRulesHold DEF TextRules
<1>. QED BY <1>2, SampleAlways, PTL

\* In every behaviour the report page shows the events and the reasons it is given.
THEOREM PageShowsAllHolds == StoresSpec => []PageShowsAll
<1>1. SampleIsOfKind => PageShowsAll
  BY PageAlwaysTells, ReasonsAreAlwaysKept DEF SampleIsOfKind, PageShowsAll
<1>. QED BY <1>1, SampleAlways, PTL
=============================================================================
