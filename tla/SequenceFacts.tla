---------------------------- MODULE SequenceFacts ----------------------------
(***************************************************************************)
(* Facts about the operators the models are built from.  Those of the        *)
(* community modules are recursive functions, so each fact is proved by      *)
(* induction; here that is the least element of a set of naturals.           *)
(***************************************************************************)
EXTENDS Integers, Sequences, SequencesExt, FiniteSets, FiniteSetsExt, FiniteSetTheorems,
        WellFoundedInduction, Lists, TLAPS

(* Induction *)

LEMMA LeastNatural ==
    ASSUME NEW T \in SUBSET Nat, T # {}
    PROVE  \E n \in T : \A m \in T : n <= m
  <1> DEFINE R == {ss \in Nat \X Nat : ss[1] < ss[2]}
  <1>1. IsWellFoundedOn(R, Nat)
    BY NatLessThanWellFounded DEF OpToRel
  <1> HIDE DEF R
  <1>2. PICK n \in T : \A m \in T : <<m, n>> \notin R
    BY <1>1, WFMin
  <1>3. \A m \in T : ~(m < n)
    BY <1>2 DEF R
  <1> QED BY <1>3

LEMMA NatSetInduction ==
    ASSUME NEW T, 0 \in T, \A n \in Nat : n \in T => n + 1 \in T
    PROVE  Nat \subseteq T
  <1> SUFFICES ASSUME Nat \ T # {} PROVE FALSE
    OBVIOUS
  <1>1. PICK n \in Nat \ T : \A m \in Nat \ T : n <= m
    BY LeastNatural
  <1>2. n # 0 /\ n - 1 \in Nat
    BY <1>1
  <1>3. n - 1 \in T
    BY <1>1, <1>2
  <1> QED BY <1>1, <1>2, <1>3

LEMMA MinIs ==
    ASSUME NEW T \in SUBSET Nat, T # {}
    PROVE  Min(T) \in T /\ \A m \in T : Min(T) <= m
  <1>1. \E n \in T : \A m \in T : n <= m
    BY LeastNatural
  <1> QED BY <1>1 DEF Min

LEMMA MaxIs ==
    ASSUME NEW n \in Nat, NEW T \in SUBSET (1..n), T # {}
    PROVE  Max(T) \in T /\ \A m \in T : m <= Max(T)
  <1>1. PICK U : U = {n - m : m \in T}
    OBVIOUS
  <1>2. U \in SUBSET Nat /\ U # {}
    <2>1. \A m \in 1..n : n - m \in Nat
      OBVIOUS
    <2>2. \A u \in U : u \in Nat
      BY <1>1, <2>1
    <2>3. PICK x : x \in T
      OBVIOUS
    <2>4. n - x \in U
      BY <1>1, <2>3
    <2> QED BY <2>2, <2>4
  <1>3. PICK u \in U : \A v \in U : u <= v
    BY <1>2, LeastNatural
  <1>4. PICK x \in T : u = n - x
    BY <1>1
  <1>5. \A m \in T : x >= m
    BY <1>1, <1>3, <1>4
  <1> QED BY <1>5 DEF Max
-----------------------------------------------------------------------------
(* Sequences *)

LEMMA Elements ==
    ASSUME NEW S, NEW s \in Seq(S)
    PROVE  Len(s) \in Nat /\ DOMAIN s = 1..Len(s) /\ \A i \in 1..Len(s) : s[i] \in S
  OBVIOUS

LEMMA IsSequence ==
    ASSUME NEW S, NEW n \in Nat, NEW t \in [1..n -> S]
    PROVE  t \in Seq(S) /\ Len(t) = n
  OBVIOUS

LEMMA NoElement == \A S : <<>> \in Seq(S)
  OBVIOUS

LEMMA OneElement ==
    ASSUME NEW S, NEW e \in S
    PROVE  <<e>> \in Seq(S)
  OBVIOUS

LEMMA Together ==
    ASSUME NEW S, NEW s \in Seq(S), NEW t \in Seq(S)
    PROVE  s \o t \in Seq(S)
  OBVIOUS

LEMMA SecondPart ==
    ASSUME NEW S, NEW s \in Seq(S), NEW t \in Seq(S), NEW i \in DOMAIN t
    PROVE  Len(s) + i \in DOMAIN (s \o t) /\ (s \o t)[Len(s) + i] = t[i]
  OBVIOUS

LEMMA ShortConcatenations ==
    ASSUME NEW x, NEW y, NEW z
    PROVE  /\ <<>> \o <<>> = <<>> /\ <<>> \o <<x>> = <<x>> /\ <<x>> \o <<>> = <<x>>
           /\ <<x>> \o <<y>> = <<x, y>> /\ <<x, y>> \o <<>> = <<x, y>>
           /\ <<x, y>> \o <<z>> = <<x, y, z>>
  <1>1. PICK S : x \in S /\ y \in S /\ z \in S
    <2>1. x \in {x, y, z} /\ y \in {x, y, z} /\ z \in {x, y, z}
      OBVIOUS
    <2> QED BY <2>1
  <1>2. /\ <<>> \o <<>> = <<>> /\ <<>> \o <<x>> = <<x>> /\ <<x>> \o <<>> = <<x>>
        /\ <<x, y>> \o <<>> = <<x, y>>
    OBVIOUS
  <1>3. <<x>> \o <<y>> = <<x, y>>
    <2>1. PICK s, t, r : s = <<x>> /\ t = <<y>> /\ r = s \o t
      OBVIOUS
    <2>2. s \in Seq(S) /\ t \in Seq(S) /\ Len(s) = 1 /\ Len(t) = 1
      BY <1>1, <2>1
    <2>3. r \in Seq(S) /\ Len(r) = 2 /\ r[1] = s[1] /\ r[2] = t[1]
      BY <2>1, <2>2
    <2>4. r[1] = x /\ r[2] = y
      BY <2>1, <2>3
    <2>5. r = [i \in 1..2 |-> r[i]] /\ <<x, y>> = [i \in 1..2 |-> <<x, y>>[i]]
      BY <2>3
    <2>6. \A i \in 1..2 : <<x, y>>[i] = r[i]
      BY <2>4
    <2> QED BY <2>1, <2>5, <2>6
  <1>4. <<x, y>> \o <<z>> = <<x, y, z>>
    <2>1. PICK s, t, r : s = <<x, y>> /\ t = <<z>> /\ r = s \o t
      OBVIOUS
    <2>2. s \in Seq(S) /\ t \in Seq(S) /\ Len(s) = 2 /\ Len(t) = 1
      BY <1>1, <2>1
    <2>3. r \in Seq(S) /\ Len(r) = 3 /\ r[1] = s[1] /\ r[2] = s[2] /\ r[3] = t[1]
      BY <2>1, <2>2
    <2>4. r[1] = x /\ r[2] = y /\ r[3] = z
      BY <2>1, <2>3
    <2>5. r = [i \in 1..3 |-> r[i]]
      BY <2>3
    <2>6. <<x, y, z>> = [i \in 1..3 |-> <<x, y, z>>[i]]
      OBVIOUS
    <2>7. \A i \in 1..3 : <<x, y, z>>[i] = r[i]
      BY <2>4
    <2> QED BY <2>1, <2>5, <2>6, <2>7
  <1> QED BY <1>2, <1>3, <1>4

(* FlattenSeq *)

LEMMA FlattenUnfolds ==
    ASSUME NEW s, NEW n \in Nat
    PROVE  \E f : f = [i \in 1..n |-> IF i = 1 THEN s[i] ELSE f[i - 1] \o s[i]]
  <1> DEFINE P(m) == \E f : f = [i \in 1..m |-> IF i = 1 THEN s[i] ELSE f[i - 1] \o s[i]]
  <1> DEFINE T == {m \in Nat : P(m)}
  <1>1. P(0)
    <2>1. PICK f : f = [i \in 1..0 |-> s[i]]
      OBVIOUS
    <2>2. f = [i \in 1..0 |-> IF i = 1 THEN s[i] ELSE f[i - 1] \o s[i]]
      BY <2>1
    <2> QED BY <2>2
  <1>2. ASSUME NEW m \in Nat, P(m) PROVE P(m + 1)
    <2>1. PICK f : f = [i \in 1..m |-> IF i = 1 THEN s[i] ELSE f[i - 1] \o s[i]]
      BY <1>2
    <2>2. PICK g : g = [i \in 1..m + 1 |-> IF i = 1 THEN s[i] ELSE f[i - 1] \o s[i]]
      OBVIOUS
    <2>3. \A i \in 1..m : f[i] = IF i = 1 THEN s[i] ELSE f[i - 1] \o s[i]
      BY <2>1
    <2>4. \A i \in 1..m + 1 : g[i] = IF i = 1 THEN s[i] ELSE f[i - 1] \o s[i]
      BY <2>2
    <2>5. \A i \in 1..m : g[i] = f[i]
      BY <2>3, <2>4
    <2>6. \A i \in 1..m + 1 : i # 1 => i - 1 \in 1..m
      OBVIOUS
    <2>7. \A i \in 1..m + 1 : (IF i = 1 THEN s[i] ELSE f[i - 1] \o s[i])
                                = IF i = 1 THEN s[i] ELSE g[i - 1] \o s[i]
      BY <2>5, <2>6
    <2>8. g = [i \in 1..m + 1 |-> IF i = 1 THEN s[i] ELSE g[i - 1] \o s[i]]
      BY <2>2, <2>7
    <2>9. \E h : h = [i \in 1..m + 1 |-> IF i = 1 THEN s[i] ELSE h[i - 1] \o s[i]]
      BY <2>8
    <2> QED BY <2>9
  <1>3. P(n)
    <2> HIDE DEF P
    <2>1. 0 \in T /\ \A m \in Nat : m \in T => m + 1 \in T
      BY <1>1, <1>2
    <2> HIDE DEF T
    <2>2. n \in T
      BY <2>1, NatSetInduction
    <2> QED BY <2>2 DEF T
  <1> QED BY <1>3

\* Putting sequences one after the other keeps what they hold, and nothing else.
LEMMA FlattenHolds ==
    ASSUME NEW S, NEW s \in Seq(Seq(S))
    PROVE  /\ FlattenSeq(s) \in Seq(S)
           /\ \A i \in DOMAIN s : \A k \in DOMAIN s[i] :
                 \E j \in DOMAIN FlattenSeq(s) : FlattenSeq(s)[j] = s[i][k]
           /\ \A j \in DOMAIN FlattenSeq(s) :
                 \E i \in DOMAIN s : \E k \in DOMAIN s[i] : FlattenSeq(s)[j] = s[i][k]
  <1>1. CASE s = <<>>
    BY <1>1 DEF FlattenSeq
  <1>2. CASE s # <<>>
    <2>1. Len(s) \in Nat \ {0} /\ DOMAIN s = 1..Len(s)
      BY <1>2
    <2>2. PICK f : /\ f = [i \in 1..Len(s) |-> IF i = 1 THEN s[i] ELSE f[i - 1] \o s[i]]
                   /\ FlattenSeq(s) = f[Len(s)]
      BY <2>1, FlattenUnfolds DEF FlattenSeq
    <2> DEFINE Holds(n) ==
                 /\ f[n] \in Seq(S)
                 /\ \A i \in 1..n : \A k \in DOMAIN s[i] :
                       \E j \in DOMAIN f[n] : f[n][j] = s[i][k]
                 /\ \A j \in DOMAIN f[n] :
                       \E i \in 1..n : \E k \in DOMAIN s[i] : f[n][j] = s[i][k]
    <2> DEFINE T == {n \in Nat : n \in 1..Len(s) => Holds(n)}
    <2>3. 0 \in T
      BY <2>1
    <2>4. ASSUME NEW n \in Nat, n \in 1..Len(s) => Holds(n), n + 1 \in 1..Len(s)
          PROVE  Holds(n + 1)
      <3>1. PICK m : m = n + 1
        OBVIOUS
      <3>2. m \in Nat /\ m \in 1..Len(s) /\ s[m] \in Seq(S)
        BY <2>1, <2>4, <3>1
      <3>3. CASE n = 0
        <4>1. m = 1 /\ f[m] = s[m]
          BY <2>2, <3>1, <3>2, <3>3
        <4>2. Holds(m)
          BY <3>2, <4>1
        <4> QED BY <3>1, <4>2
      <3>4. CASE n # 0
        <4>1. n \in 1..Len(s) /\ n = m - 1 /\ m # 1
          BY <2>1, <3>1, <3>2, <3>4
        <4>2. PICK a, b : a = f[n] /\ b = s[m]
          OBVIOUS
        <4>3. f[m] = a \o b /\ a \in Seq(S) /\ b \in Seq(S)
          BY <2>2, <2>4, <3>2, <4>1, <4>2
        <4>4. /\ f[m] \in Seq(S) /\ DOMAIN a = 1..Len(a) /\ DOMAIN b = 1..Len(b)
              /\ Len(a) \in Nat /\ Len(b) \in Nat
              /\ DOMAIN f[m] = 1..(Len(a) + Len(b))
              /\ \A j \in 1..(Len(a) + Len(b)) :
                    f[m][j] = IF j <= Len(a) THEN a[j] ELSE b[j - Len(a)]
          BY <4>3
        <4>5. ASSUME NEW i \in 1..m, NEW k \in DOMAIN s[i]
              PROVE  \E j \in DOMAIN f[m] : f[m][j] = s[i][k]
          <5>1. CASE i = m
            <6>3. k \in 1..Len(b)
              BY <4>2, <4>4, <4>5, <5>1
            <6>1. k \in 1..Len(b) /\ Len(a) + k \in 1..(Len(a) + Len(b))
              BY <4>4, <6>3
            <6>2. f[m][Len(a) + k] = b[k]
              BY <4>4, <6>1
            <6> QED BY <4>2, <4>4, <5>1, <6>1, <6>2
          <5>2. CASE i # m
            <6>1. i \in 1..n
              BY <3>2, <4>1, <5>2
            <6>2. PICK j \in DOMAIN a : a[j] = s[i][k]
              BY <2>4, <4>1, <4>2, <4>5, <6>1
            <6>3. j \in DOMAIN f[m] /\ f[m][j] = a[j]
              BY <4>4
            <6> QED BY <6>2, <6>3
          <5> QED BY <5>1, <5>2
        <4>6. ASSUME NEW j \in DOMAIN f[m]
              PROVE  \E i \in 1..m : \E k \in DOMAIN s[i] : f[m][j] = s[i][k]
          <5>1. CASE j <= Len(a)
            <6>1. j \in DOMAIN a /\ f[m][j] = a[j]
              BY <4>4, <4>6, <5>1
            <6>2. PICK i \in 1..n : \E k \in DOMAIN s[i] : a[j] = s[i][k]
              BY <2>4, <4>1, <4>2, <6>1
            <6>3. i \in 1..m
              BY <3>2, <4>1
            <6> QED BY <6>1, <6>2, <6>3
          <5>2. CASE ~(j <= Len(a))
            <6>1. j - Len(a) \in DOMAIN b /\ f[m][j] = b[j - Len(a)]
              BY <4>4, <4>6, <5>2
            <6>2. m \in 1..m
              BY <3>2
            <6> QED BY <4>2, <6>1, <6>2
          <5> QED BY <5>1, <5>2
        <4>7. Holds(m)
          BY <4>4, <4>5, <4>6
        <4> QED BY <3>1, <4>7
      <3> QED BY <3>3, <3>4
    <2>5. Holds(Len(s))
      <3> HIDE DEF Holds
      <3>1. \A n \in Nat : n \in T => n + 1 \in T
        <4> SUFFICES ASSUME NEW n \in Nat, n \in T PROVE n + 1 \in T
          OBVIOUS
        <4>1. n + 1 \in Nat /\ (n \in 1..Len(s) => Holds(n))
          OBVIOUS
        <4>2. n + 1 \in 1..Len(s) => Holds(n + 1)
          BY <4>1, <2>4
        <4> QED BY <4>1, <4>2
      <3> HIDE DEF T
      <3>2. Len(s) \in T
        BY <2>1, <2>3, <3>1, NatSetInduction
      <3> QED BY <2>1, <3>2 DEF T
    <2>6. PICK r : r = f[Len(s)] /\ r = FlattenSeq(s)
      BY <2>2
    <2>7. /\ r \in Seq(S)
          /\ \A i \in DOMAIN s : \A k \in DOMAIN s[i] : \E j \in DOMAIN r : r[j] = s[i][k]
          /\ \A j \in DOMAIN r : \E i \in DOMAIN s : \E k \in DOMAIN s[i] : r[j] = s[i][k]
      <3>1. PICK n : n = Len(s)
        OBVIOUS
      <3>2. Holds(n)
        BY <2>5, <3>1
      <3>3. f[n] = r /\ DOMAIN s = 1..n
        BY <2>1, <2>6, <3>1
      <3>4. /\ r \in Seq(S)
            /\ \A i \in 1..n : \A k \in DOMAIN s[i] : \E j \in DOMAIN r : r[j] = s[i][k]
        BY <3>2, <3>3
      <3>5. \A j \in DOMAIN r : \E i \in 1..n : \E k \in DOMAIN s[i] : r[j] = s[i][k]
        BY <3>2, <3>3
      <3>6. \A i : i \in DOMAIN s <=> i \in 1..n
        BY <3>3
      <3> HIDE DEF Holds, T
      <3> QED BY <3>4, <3>5, <3>6, Zenon
    <2> QED BY <2>6, <2>7
  <1> QED BY <1>1, <1>2
-----------------------------------------------------------------------------
(* Folds *)

LEMMA UpTo ==
    ASSUME NEW n \in Nat, NEW k \in 1..n
    PROVE  /\ 1..k \in SUBSET (1..n) /\ 1..k # {} /\ Max(1..k) = k
           /\ (1..k) \ {k} = 1..(k - 1) /\ 1..0 = {}
  <1>1. PICK T : T = 1..k
    OBVIOUS
  <1>2. T \in SUBSET (1..n) /\ k \in T
    BY <1>1
  <1>3. Max(T) \in T /\ \A m \in T : m <= Max(T)
    BY <1>2, MaxIs
  <1>4. k <= Max(T) /\ Max(T) \in 1..k
    BY <1>1, <1>2, <1>3
  <1>5. Max(T) = k
    BY <1>4
  <1> QED BY <1>1, <1>2, <1>5

\* A fold over n places: what it starts with and how it goes on.
IsFold(n, X, base, step) == n \in Nat /\ base \in X /\ step \in [X \X (1..n) -> X]
IsFoldOf(u, n, X, base, step) ==
    /\ u \in [SUBSET (1..n) -> X] /\ u[{}] = base
    /\ \A s \in SUBSET (1..n) : s # {} =>
          Max(s) \in 1..n /\ u[s] = step[<<u[s \ {Max(s)}], Max(s)>>]

\* A fold over a list is a recursive function on the sets of its places, and there
\* is one.
LEMMA FoldUnfolds ==
    ASSUME NEW n, NEW X, NEW base, NEW step, IsFold(n, X, base, step)
    PROVE  \E u : IsFoldOf(u, n, X, base, step)
  <1> DEFINE F(m) == {s \in SUBSET (1..n) : Cardinality(s) <= m}
  <1> DEFINE P(m) == \E u : /\ u = [s \in F(m) |->
                             IF s = {} THEN base ELSE step[<<u[s \ {Max(s)}], Max(s)>>]]
                            /\ u \in [F(m) -> X]
  <1>0. n \in Nat /\ base \in X /\ step \in [X \X (1..n) -> X]
    BY DEF IsFold
  <1> USE <1>0
  <1>1. IsFiniteSet(1..n) /\ Cardinality(1..n) = n
    BY FS_Interval
  <1>2. ASSUME NEW s \in SUBSET (1..n)
        PROVE  /\ IsFiniteSet(s) /\ Cardinality(s) \in Nat /\ Cardinality(s) <= n
               /\ Cardinality(s) = 0 => s = {}
               /\ s # {} => Max(s) \in 1..n /\ Cardinality(s \ {Max(s)}) = Cardinality(s) - 1
    <2>1. IsFiniteSet(s) /\ Cardinality(s) <= n
      <3>1. IsFiniteSet(s) /\ Cardinality(s) <= Cardinality(1..n)
        BY <1>1, FS_Subset
      <3> QED BY <1>1, <3>1
    <2>2. Cardinality(s) \in Nat /\ (Cardinality(s) = 0 => s = {})
      BY <2>1, FS_CardinalityType, FS_EmptySet
    <2>3. s # {} => Max(s) \in s
      BY MaxIs
    <2>4. s # {} => Cardinality(s \ {Max(s)}) = Cardinality(s) - 1
      BY <2>1, <2>3, FS_RemoveElement
    <2> QED BY <2>1, <2>2, <2>3, <2>4
  <1>3. P(0)
    <2>1. ASSUME NEW s \in F(0) PROVE s = {}
      <3>1. s \in SUBSET (1..n) /\ Cardinality(s) <= 0
        BY <2>1
      <3>2. Cardinality(s) \in Nat /\ (Cardinality(s) = 0 => s = {})
        BY <1>2, <3>1
      <3> QED BY <3>1, <3>2
    <2>2. PICK u : u = [s \in F(0) |-> base]
      OBVIOUS
    <2> HIDE DEF F
    <2>3. u = [s \in F(0) |->
                  IF s = {} THEN base ELSE step[<<u[s \ {Max(s)}], Max(s)>>]]
      BY <2>1, <2>2
    <2>4. u \in [F(0) -> X]
      BY <2>2
    <2> QED BY <2>3, <2>4
  <1>4. ASSUME NEW m \in Nat, P(m) PROVE P(m + 1)
    <2>1. PICK u : /\ u = [s \in F(m) |->
                             IF s = {} THEN base ELSE step[<<u[s \ {Max(s)}], Max(s)>>]]
                   /\ u \in [F(m) -> X]
      BY <1>4
    <2>2. PICK v : v = [s \in F(m + 1) |->
                  IF s = {} THEN base ELSE step[<<u[s \ {Max(s)}], Max(s)>>]]
      OBVIOUS
    <2>3. ASSUME NEW s \in F(m + 1), s # {}
          PROVE  s \ {Max(s)} \in F(m) /\ Max(s) \in 1..n
      <3>1. s \in SUBSET (1..n) /\ Cardinality(s) <= m + 1
        BY <2>3
      <3>2. Cardinality(s) \in Nat /\ Cardinality(s \ {Max(s)}) = Cardinality(s) - 1
        BY <1>2, <2>3, <3>1
      <3>3. Cardinality(s \ {Max(s)}) <= m
        BY <3>1, <3>2
      <3>4. Max(s) \in 1..n
        BY <1>2, <2>3, <3>1
      <3> QED BY <3>1, <3>3, <3>4
    <2>4. ASSUME NEW s \in F(m) PROVE s \in F(m + 1)
      <3>1. s \in SUBSET (1..n) /\ Cardinality(s) <= m
        BY <2>4
      <3>2. Cardinality(s) \in Nat
        BY <1>2, <3>1
      <3>3. Cardinality(s) <= m + 1
        BY <3>1, <3>2
      <3> QED BY <3>1, <3>3
    <2> HIDE DEF F
    <2>5. \A s \in F(m) : v[s] = u[s]
      BY <2>1, <2>2, <2>4
    <2>6. \A s \in F(m + 1) : s # {} => u[s \ {Max(s)}] = v[s \ {Max(s)}]
      BY <2>3, <2>5
    <2>7. \A s \in F(m + 1) :
             (IF s = {} THEN base ELSE step[<<u[s \ {Max(s)}], Max(s)>>])
                = IF s = {} THEN base ELSE step[<<v[s \ {Max(s)}], Max(s)>>]
      BY <2>6
    <2>8. v = [s \in F(m + 1) |->
                  IF s = {} THEN base ELSE step[<<v[s \ {Max(s)}], Max(s)>>]]
      BY <2>2, <2>7
    <2>9. \A s \in F(m + 1) : s # {} => step[<<u[s \ {Max(s)}], Max(s)>>] \in X
      BY <2>1, <2>3
    <2>10. v \in [F(m + 1) -> X]
      BY <2>2, <2>9
    <2> QED BY <2>8, <2>10
  <1>5. P(n)
    <2> DEFINE T == {m \in Nat : P(m)}
    <2> HIDE DEF P
    <2>1. 0 \in T /\ \A m \in Nat : m \in T => m + 1 \in T
      BY <1>3, <1>4
    <2> HIDE DEF T
    <2>2. n \in T
      BY <2>1, NatSetInduction
    <2> QED BY <2>2 DEF T
  <1>6. F(n) = SUBSET (1..n)
    BY <1>2
  <1> HIDE DEF F
  <1>7. PICK u : /\ u = [s \in SUBSET (1..n) |->
                           IF s = {} THEN base ELSE step[<<u[s \ {Max(s)}], Max(s)>>]]
                 /\ u \in [SUBSET (1..n) -> X]
    BY <1>5, <1>6
  <1>8. u[{}] = base
    BY <1>7
  <1>9. ASSUME NEW s \in SUBSET (1..n), s # {}
        PROVE  Max(s) \in 1..n /\ u[s] = step[<<u[s \ {Max(s)}], Max(s)>>]
    BY <1>2, <1>7, <1>9
  <1>10. IsFoldOf(u, n, X, base, step)
    BY <1>7, <1>8, <1>9 DEF IsFoldOf
  <1> QED BY <1>10
-----------------------------------------------------------------------------
(* Orders *)

\* A place found by counting is the place in the order.
LEMMA PlacesAreOrder ==
    ASSUME NEW S, IsFiniteSet(S), NEW ahead, \A i \in S : ahead[i] \in SUBSET S,
           \A i \in S : i \in ahead[i],
           \A i, k \in S : i \in ahead[k] \/ k \in ahead[i],
           \A i, k \in S : i \in ahead[k] /\ k \in ahead[i] => i = k,
           \A i, k \in S : k \in ahead[i] => ahead[k] \subseteq ahead[i],
           NEW place, DOMAIN place = S, \A i \in S : place[i] = Cardinality(ahead[i]),
           NEW e,
           \A n \in 1..Cardinality(S) : \A i \in S :
              place[i] = n => e[n] \in S /\ place[e[n]] = n
    PROVE  /\ Cardinality(S) \in Nat
           /\ \A n \in 1..Cardinality(S) : e[n] \in S
           /\ \A i \in S : \E n \in 1..Cardinality(S) : e[n] = i
           /\ \A m, n \in 1..Cardinality(S) : m < n => e[m] \in ahead[e[n]] /\ e[m] # e[n]
  <1>1. PICK c : c = Cardinality(S)
    OBVIOUS
  <1>2. c \in Nat
    BY <1>1, FS_CardinalityType
  <1>3. ASSUME NEW i \in S
        PROVE  /\ IsFiniteSet(ahead[i]) /\ place[i] \in 1..c
    <2>1. ahead[i] \in SUBSET S
      OBVIOUS
    <2>2. IsFiniteSet(ahead[i]) /\ Cardinality(ahead[i]) <= c
      BY <1>1, <2>1, FS_Subset
    <2>3. Cardinality(ahead[i]) \in Nat /\ Cardinality(ahead[i]) # 0
      BY <2>2, FS_CardinalityType, FS_EmptySet
    <2> QED BY <1>2, <2>2, <2>3
  <1>4. ASSUME NEW i \in S, NEW k \in S, k \in ahead[i], k # i
        PROVE  place[k] < place[i]
    <2>1. PICK A, B : A = ahead[i] /\ B = ahead[k]
      OBVIOUS
    <2>2. B \subseteq A \ {i} /\ i \in A
      BY <1>4, <2>1
    <2>3. IsFiniteSet(A) /\ place[i] = Cardinality(A) /\ place[k] = Cardinality(B)
      BY <1>3, <2>1
    <2>4. IsFiniteSet(A \ {i}) /\ Cardinality(A \ {i}) = Cardinality(A) - 1
      BY <2>2, <2>3, FS_RemoveElement
    <2>5. B \in SUBSET (A \ {i})
      BY <2>2
    <2>6. Cardinality(B) <= Cardinality(A \ {i})
      BY <2>4, <2>5, FS_Subset
    <2>7. place[i] \in 1..c /\ place[k] \in 1..c
      BY <1>3
    <2> QED BY <1>2, <2>3, <2>4, <2>6, <2>7
  <1>5. \A i, k \in S : place[i] = place[k] => i = k
    <2> SUFFICES ASSUME NEW i \in S, NEW k \in S, place[i] = place[k], i # k
                 PROVE  FALSE
      OBVIOUS
    <2>1. place[i] \in 1..c /\ place[k] \in 1..c
      BY <1>3
    <2>2. place[k] < place[i] \/ place[i] < place[k]
      BY <1>4
    <2> QED BY <1>2, <2>1, <2>2
  <1>6. \A n \in 1..c : \E i \in S : place[i] = n
    <2>1. PICK f : f = [i \in S |-> place[i]]
      OBVIOUS
    <2>2. f \in [S -> 1..c]
      BY <1>3, <2>1
    <2>3. f \in Injection(S, 1..c)
      BY <1>5, <2>1, <2>2 DEF Injection, IsInjective
    <2>4. IsFiniteSet(1..c) /\ Cardinality(1..c) = c
      BY <1>2, FS_Interval
    <2>5. f \in Surjection(S, 1..c)
      BY <1>1, <2>3, <2>4, FS_Injection
    <2> QED BY <2>1, <2>5 DEF Surjection
  <1>8. \A n \in 1..c : e[n] \in S /\ place[e[n]] = n
    BY <1>1, <1>6
  <1>9. ASSUME NEW i \in S PROVE e[place[i]] = i
    <2>1. PICK n \in 1..c : n = place[i]
      BY <1>3
    <2>2. e[n] \in S /\ place[e[n]] = place[i]
      BY <1>8, <2>1
    <2>3. e[n] = i
      BY <1>5, <2>2
    <2> QED BY <2>1, <2>3
  <1>10. ASSUME NEW m \in 1..c, NEW n \in 1..c, m < n
         PROVE  e[m] \in ahead[e[n]] /\ e[m] # e[n]
    <2>1. PICK i, k \in S : i = e[m] /\ k = e[n]
      BY <1>8
    <2>2. place[i] = m /\ place[k] = n
      BY <1>8, <2>1
    <2>3. i # k
      BY <1>10, <2>2
    <2>4. i \in ahead[k]
      <3>1. SUFFICES ASSUME k \in ahead[i] PROVE FALSE
        OBVIOUS
      <3>2. place[k] < place[i]
        BY <1>4, <2>3, <3>1
      <3> QED BY <1>2, <1>10, <2>2, <3>2
    <2> QED BY <2>1, <2>3, <2>4
  <1>12. \A i \in S : \E n \in 1..c : e[n] = i
    BY <1>3, <1>9
  <1> QED BY <1>1, <1>2, <1>8, <1>10, <1>12

LEMMA AscendingIs ==
    ASSUME NEW S \in SUBSET Nat, IsFiniteSet(S), NEW e, e = Ascending(S)
    PROVE  /\ Cardinality(S) \in Nat
           /\ e \in [1..Cardinality(S) -> S]
           /\ \A i \in S : \E n \in 1..Cardinality(S) : e[n] = i
           /\ \A m, n \in 1..Cardinality(S) : m < n => e[m] < e[n]
  <1>1. PICK ahead : ahead = [i \in S |-> {k \in S : k <= i}]
    OBVIOUS
  <1>2. \A i \in S : ahead[i] \in SUBSET S
    BY <1>1
  <1>3. PICK place : place = [i \in S |-> Cardinality({k \in S : k <= i})]
    OBVIOUS
  <1>4. DOMAIN place = S /\ \A i \in S : place[i] = Cardinality(ahead[i])
    BY <1>1, <1>3
  <1>5. e = [n \in 1..Cardinality(S) |-> CHOOSE i \in S : place[i] = n]
    BY <1>3 DEF Ascending, InOrder
  <1>10. \A n \in 1..Cardinality(S) : \A i \in S :
            place[i] = n => e[n] \in S /\ place[e[n]] = n
    BY <1>5
  <1>6. /\ \A i \in S : i \in ahead[i]
        /\ \A i, k \in S : i \in ahead[k] \/ k \in ahead[i]
        /\ \A i, k \in S : i \in ahead[k] /\ k \in ahead[i] => i = k
    BY <1>1
  <1>7. \A i, k \in S : k \in ahead[i] => ahead[k] \subseteq ahead[i]
    <2> SUFFICES ASSUME NEW i \in S, NEW k \in S, NEW j \in S, k \in ahead[i], j \in ahead[k]
                 PROVE  j \in ahead[i]
      BY <1>1
    <2>1. j <= k /\ k <= i /\ i \in Nat /\ j \in Nat /\ k \in Nat
      BY <1>1
    <2>2. j <= i
      BY <2>1
    <2> QED BY <1>1, <2>2
  <1>8. /\ Cardinality(S) \in Nat
        /\ \A n \in 1..Cardinality(S) : e[n] \in S
        /\ \A i \in S : \E n \in 1..Cardinality(S) : e[n] = i
        /\ \A m, n \in 1..Cardinality(S) : m < n => e[m] \in ahead[e[n]] /\ e[m] # e[n]
    BY <1>2, <1>4, <1>6, <1>7, <1>10, PlacesAreOrder
  <1>9. ASSUME NEW m \in 1..Cardinality(S), NEW n \in 1..Cardinality(S), m < n
        PROVE  e[m] < e[n]
    <2>1. e[m] \in S /\ e[n] \in S /\ e[m] \in ahead[e[n]] /\ e[m] # e[n]
      BY <1>8, <1>9
    <2>2. e[m] <= e[n]
      BY <1>1, <2>1
    <2>3. e[m] \in Nat /\ e[n] \in Nat
      BY <2>1
    <2> QED BY <2>1, <2>2, <2>3
  <1>11. e \in [1..Cardinality(S) -> S]
    BY <1>5, <1>8
  <1> QED BY <1>8, <1>9, <1>11

\* Which places of s the list t was taken from, in the order of s.
KeepsAt(e, t, s, T) ==
    /\ \A n \in DOMAIN t : e[n] \in T /\ t[n] = s[e[n]]
    /\ \A i \in T : \E n \in DOMAIN t : e[n] = i
    /\ \A m, n \in DOMAIN t : m < n => e[m] < e[n]

\* What a list comprehension with a condition keeps, at the places T.
LEMMA KeptIs ==
    ASSUME NEW X, NEW s \in Seq(X), NEW T \in SUBSET (DOMAIN s),
           NEW t, t = Taken(s, Ascending(T))
    PROVE  /\ t \in Seq(X) /\ Len(t) = Cardinality(T) /\ IsFiniteSet(T)
           /\ \E e : KeepsAt(e, t, s, T)
  <1>1. Len(s) \in Nat /\ DOMAIN s = 1..Len(s)
    OBVIOUS
  <1>2. IsFiniteSet(DOMAIN s)
    BY <1>1, FS_Interval
  <1>3. IsFiniteSet(T) /\ T \in SUBSET Nat
    BY <1>1, <1>2, FS_Subset
  <1>4. PICK e, c : e = Ascending(T) /\ c = Cardinality(T)
    OBVIOUS
  <1>5. /\ c \in Nat /\ e \in [1..c -> T]
        /\ \A i \in T : \E n \in 1..c : e[n] = i
        /\ \A m, n \in 1..c : m < n => e[m] < e[n]
    BY <1>3, <1>4, AscendingIs
  <1>6. t = [n \in 1..c |-> s[e[n]]]
    BY <1>4, <1>5 DEF Taken
  <1>7. \A n \in 1..c : s[e[n]] \in X
    BY <1>5
  <1>8. t \in Seq(X) /\ Len(t) = c
    BY <1>5, <1>6, <1>7
  <1>9. DOMAIN t = 1..c
    BY <1>8
  <1>10. KeepsAt(e, t, s, T)
    BY <1>5, <1>6, <1>9 DEF KeepsAt
  <1> QED BY <1>3, <1>4, <1>8, <1>10

\* What sorts like the keys of a sort of Python.
IsWeakOrder(before, X) ==
    /\ before \in SUBSET (X \X X)
    /\ \A a, b \in X : <<a, b>> \in before => <<b, a>> \notin before
    /\ \A a, b, c \in X : <<a, b>> \notin before /\ <<b, c>> \notin before
                              => <<a, c>> \notin before

\* The list that has each member at the place that counting gives it.
IsCount(place, s, before) ==
    place = [i \in DOMAIN s |-> Cardinality(
               {k \in DOMAIN s : \/ <<s[k], s[i]>> \in before
                                 \/ <<s[i], s[k]>> \notin before /\ k <= i})]
IsByPlace(t, s, place) ==
    t = Taken(s, [n \in 1..Cardinality(DOMAIN s) |-> CHOOSE i \in DOMAIN s : place[i] = n])
IsSortOf(t, s, before) == \E place : IsCount(place, s, before) /\ IsByPlace(t, s, place)

\* Which places of s the list t was taken from, where a sort puts them.
SortsAt(e, t, s, before) ==
    /\ \A n \in DOMAIN t : e[n] \in DOMAIN s /\ t[n] = s[e[n]]
    /\ \A i \in DOMAIN s : \E n \in DOMAIN t : e[n] = i
    /\ \A m, n \in DOMAIN t : m < n =>
          /\ e[m] # e[n]
          /\ \/ <<t[m], t[n]>> \in before
             \/ <<t[n], t[m]>> \notin before /\ e[m] < e[n]

\* A sort by a strict weak order rearranges the list, puts what comes before in
\* front, and leaves what is equal as it was.
LEMMA SortIs ==
    ASSUME NEW X, NEW s \in Seq(X), NEW before, IsWeakOrder(before, X),
           NEW t, IsSortOf(t, s, before)
    PROVE  /\ t \in Seq(X) /\ Len(t) = Len(s)
           /\ \E e : SortsAt(e, t, s, before)
  <1>0. PICK place : IsCount(place, s, before) /\ IsByPlace(t, s, place)
    BY DEF IsSortOf
  <1>1. PICK S : S = DOMAIN s
    OBVIOUS
  <1>2. S = 1..Len(s) /\ Len(s) \in Nat /\ \A i \in S : s[i] \in X
    BY <1>1
  <1>3. IsFiniteSet(S) /\ Cardinality(S) = Len(s)
    <2>1. PICK n \in Nat : n = Len(s) /\ S = 1..n
      BY <1>2
    <2>2. IsFiniteSet(1..n) /\ Cardinality(1..n) = n
      BY FS_Interval
    <2> QED BY <2>1, <2>2
  <1> DEFINE AtOrBefore(k, i) == \/ <<s[k], s[i]>> \in before
                                 \/ <<s[i], s[k]>> \notin before /\ k <= i
  <1>4. PICK ahead : ahead = [i \in S |-> {k \in S : AtOrBefore(k, i)}]
    OBVIOUS
  <1>5. \A i \in S : ahead[i] \in SUBSET S
    BY <1>4
  <1>6. DOMAIN place = S /\ \A i \in S : place[i] = Cardinality(ahead[i])
    BY <1>0, <1>1, <1>4 DEF IsCount
  <1>7. PICK e : e = [n \in 1..Cardinality(S) |-> CHOOSE i \in S : place[i] = n]
    OBVIOUS
  <1>8. /\ \A i \in S : AtOrBefore(i, i)
        /\ \A i, k \in S : AtOrBefore(i, k) \/ AtOrBefore(k, i)
        /\ \A i, k \in S : AtOrBefore(i, k) /\ AtOrBefore(k, i) => i = k
    BY <1>2 DEF IsWeakOrder
  <1>9. ASSUME NEW i \in S, NEW k \in S, NEW j \in S, AtOrBefore(k, i), AtOrBefore(j, k)
        PROVE  AtOrBefore(j, i)
    <2>1. PICK a, b, c \in X : a = s[j] /\ b = s[k] /\ c = s[i]
      BY <1>2
    <2>2. /\ <<b, c>> \in before \/ (<<c, b>> \notin before /\ k <= i)
          /\ <<a, b>> \in before \/ (<<b, a>> \notin before /\ j <= k)
      BY <1>9, <2>1
    <2>3. <<a, c>> \in before \/ (<<c, a>> \notin before /\ j <= i)
      BY <1>2, <2>2 DEF IsWeakOrder
    <2> QED BY <2>1, <2>3
  <1> HIDE DEF AtOrBefore
  <1>10. \A i, k \in S : k \in ahead[i] => ahead[k] \subseteq ahead[i]
    BY <1>4, <1>9
  <1>11. /\ \A i \in S : i \in ahead[i]
         /\ \A i, k \in S : i \in ahead[k] \/ k \in ahead[i]
         /\ \A i, k \in S : i \in ahead[k] /\ k \in ahead[i] => i = k
    BY <1>4, <1>8
  <1>12. /\ \A n \in 1..Cardinality(S) : e[n] \in S
         /\ \A i \in S : \E n \in 1..Cardinality(S) : e[n] = i
         /\ \A m, n \in 1..Cardinality(S) : m < n => e[m] \in ahead[e[n]] /\ e[m] # e[n]
    <2>1. \A n \in 1..Cardinality(S) : \A i \in S :
             place[i] = n => e[n] \in S /\ place[e[n]] = n
      BY <1>7
    <2> QED BY <1>3, <1>5, <1>6, <2>1, <1>10, <1>11, PlacesAreOrder
  <1>13. t = [n \in 1..Len(s) |-> s[e[n]]]
    <2>1. t = Taken(s, e)
      BY <1>0, <1>1, <1>7 DEF IsByPlace
    <2>2. DOMAIN e = 1..Len(s)
      BY <1>3, <1>7
    <2> QED BY <2>1, <2>2 DEF Taken
  <1>14. \A n \in 1..Len(s) : e[n] \in 1..Len(s) /\ s[e[n]] \in X
    BY <1>2, <1>3, <1>12
  <1>15. t \in Seq(X) /\ Len(t) = Len(s)
    <2>1. Len(s) \in Nat
      BY <1>2
    <2>2. t \in [1..Len(s) -> X]
      BY <1>13, <1>14
    <2> QED BY <2>1, <2>2, IsSequence
  <1>16. ASSUME NEW m \in 1..Len(s), NEW n \in 1..Len(s), m < n
         PROVE  <<t[m], t[n]>> \in before \/ (<<t[n], t[m]>> \notin before /\ e[m] < e[n])
    <2>1. e[m] \in S /\ e[n] \in S /\ e[m] \in ahead[e[n]] /\ e[m] # e[n]
      BY <1>2, <1>3, <1>12, <1>16
    <2>2. AtOrBefore(e[m], e[n])
      BY <1>4, <2>1
    <2>3. t[m] = s[e[m]] /\ t[n] = s[e[n]]
      BY <1>13
    <2>4. \/ <<t[m], t[n]>> \in before
          \/ <<t[n], t[m]>> \notin before /\ e[m] <= e[n]
      BY <2>2, <2>3 DEF AtOrBefore
    <2> QED BY <1>2, <2>1, <2>4
  <1>18. /\ \A i \in 1..Len(s) : \E n \in 1..Len(s) : e[n] = i
         /\ \A m, n \in 1..Len(s) : m < n => e[m] # e[n]
    BY <1>2, <1>3, <1>12
  <1>19. \A n \in 1..Len(s) : t[n] = s[e[n]]
    BY <1>13
  <1>20. DOMAIN t = 1..Len(s) /\ DOMAIN s = 1..Len(s)
    BY <1>15
  <1>21. SortsAt(e, t, s, before)
    <2>1. \A n \in DOMAIN t : e[n] \in DOMAIN s /\ t[n] = s[e[n]]
      BY <1>14, <1>19, <1>20
    <2>2. \A i \in DOMAIN s : \E n \in DOMAIN t : e[n] = i
      BY <1>18, <1>20
    <2>3. \A m, n \in DOMAIN t : m < n =>
             /\ e[m] # e[n]
             /\ <<t[m], t[n]>> \in before \/ (<<t[n], t[m]>> \notin before /\ e[m] < e[n])
      BY <1>16, <1>18, <1>20
    <2> QED BY <2>1, <2>2, <2>3 DEF SortsAt
  <1> QED BY <1>15, <1>21
-----------------------------------------------------------------------------
(* Counting by naming *)

Names(f, n, A)  == n \in Nat /\ \A m \in 1..n : f[m] \in A
Distinct(f, n)  == \A m, k \in 1..n : m < k => f[m] # f[k]
Covers(f, n, A) == \A i \in A : \E m \in 1..n : f[m] = i

\* A set that has n different members has n at least, and n if it has no others.
LEMMA CountIsAtLeast ==
    ASSUME NEW A, IsFiniteSet(A), NEW n, NEW f, Names(f, n, A), Distinct(f, n)
    PROVE  Cardinality(A) \in Nat /\ n <= Cardinality(A)
  <1>1. PICK g : g = [m \in 1..n |-> f[m]]
    OBVIOUS
  <1>2. g \in [1..n -> A] /\ n \in Nat
    BY <1>1 DEF Names
  <1>3. ASSUME NEW m \in 1..n, NEW k \in 1..n, g[m] = g[k] PROVE m = k
    <2>1. ~(m < k) /\ ~(k < m)
      BY <1>1, <1>3 DEF Distinct
    <2> QED BY <1>2, <2>1
  <1>4. g \in Injection(1..n, A)
    BY <1>2, <1>3 DEF Injection, IsInjective
  <1>5. Cardinality(1..n) = n
    BY <1>2, FS_Interval
  <1>6. Cardinality(1..n) <= Cardinality(A)
    BY <1>4, FS_Injection
  <1>7. Cardinality(A) \in Nat
    BY FS_CardinalityType
  <1> QED BY <1>5, <1>6, <1>7

\* A set whose members are among n is finite, and has n only if they differ.
LEMMA CountIsAtMost ==
    ASSUME NEW A, NEW n, NEW f, Names(f, n, A), Covers(f, n, A)
    PROVE  /\ IsFiniteSet(A) /\ Cardinality(A) \in Nat /\ Cardinality(A) <= n
           /\ Cardinality(A) = n <=> Distinct(f, n)
  <1>1. PICK g : g = [m \in 1..n |-> f[m]]
    OBVIOUS
  <1>2. g \in [1..n -> A] /\ n \in Nat
    BY <1>1 DEF Names
  <1>3. \A i \in A : \E m \in 1..n : g[m] = i
    BY <1>1 DEF Covers
  <1>4. g \in Surjection(1..n, A)
    BY <1>2, <1>3 DEF Surjection
  <1>5. IsFiniteSet(1..n) /\ Cardinality(1..n) = n
    BY <1>2, FS_Interval
  <1>6. /\ IsFiniteSet(A) /\ Cardinality(A) <= Cardinality(1..n)
        /\ Cardinality(A) = Cardinality(1..n) <=> g \in Injection(1..n, A)
    BY <1>4, <1>5, FS_Surjection
  <1>7. g \in Injection(1..n, A) <=> Distinct(f, n)
    <2>1. ASSUME Distinct(f, n), NEW m \in 1..n, NEW k \in 1..n, g[m] = g[k] PROVE m = k
      <3>1. ~(m < k) /\ ~(k < m)
        BY <1>1, <2>1 DEF Distinct
      <3> QED BY <1>2, <3>1
    <2>2. ASSUME g \in Injection(1..n, A), NEW m \in 1..n, NEW k \in 1..n, m < k
          PROVE  f[m] # f[k]
      <3>1. g[m] = g[k] => m = k
        BY <1>1, <2>2 DEF Injection, IsInjective
      <3> QED BY <1>1, <1>2, <2>2, <3>1
    <2>3. Distinct(f, n) => g \in Injection(1..n, A)
      BY <1>2, <2>1 DEF Injection, IsInjective
    <2> QED BY <2>2, <2>3 DEF Distinct
  <1>8. Cardinality(A) \in Nat
    BY <1>6, FS_CardinalityType
  <1> QED BY <1>5, <1>6, <1>7, <1>8

LEMMA Exactly ==
    ASSUME NEW A, NEW n, NEW f, Names(f, n, A), Distinct(f, n), Covers(f, n, A)
    PROVE  IsFiniteSet(A) /\ Cardinality(A) = n
  BY CountIsAtMost
-----------------------------------------------------------------------------
(* Rearranging *)

\* t has what s has at the places T, each once; f tells from which place.
ArrangedAt(f, t, s, T) ==
    /\ \A n \in DOMAIN t : f[n] \in T /\ t[n] = s[f[n]]
    /\ \A i \in T : \E n \in DOMAIN t : f[n] = i
    /\ \A m, n \in DOMAIN t : m < n => f[m] # f[n]

LEMMA KeptIsArranged ==
    ASSUME NEW e, NEW X, NEW t \in Seq(X), NEW s, NEW T, T \in SUBSET Nat, KeepsAt(e, t, s, T)
    PROVE  ArrangedAt(e, t, s, T)
  <1>1. ASSUME NEW m \in DOMAIN t, NEW n \in DOMAIN t, m < n PROVE e[m] # e[n]
    <2>1. e[m] < e[n] /\ e[m] \in Nat
      BY <1>1 DEF KeepsAt
    <2> QED BY <2>1
  <1> QED BY <1>1 DEF KeepsAt, ArrangedAt

LEMMA SortedIsArranged ==
    ASSUME NEW e, NEW t, NEW s, NEW before, SortsAt(e, t, s, before)
    PROVE  ArrangedAt(e, t, s, DOMAIN s)
  BY DEF SortsAt, ArrangedAt

\* Of what was rearranged some is rearranged again.
LEMMA ArrangedTwice ==
    ASSUME NEW s, NEW T, NEW f, NEW t, ArrangedAt(f, t, s, T),
           NEW W, NEW g, NEW u, ArrangedAt(g, u, t, W),
           NEW V, W \subseteq DOMAIN t, V \subseteq T, DOMAIN t \in SUBSET Nat,
           \A n \in DOMAIN t : f[n] \in V <=> n \in W,
           NEW h, h = [n \in DOMAIN u |-> f[g[n]]]
    PROVE  ArrangedAt(h, u, s, V)
  <1>1. ASSUME NEW n \in DOMAIN u PROVE h[n] \in V /\ u[n] = s[h[n]]
    <2>1. g[n] \in W /\ u[n] = t[g[n]]
      BY <1>1 DEF ArrangedAt
    <2>2. g[n] \in DOMAIN t /\ t[g[n]] = s[f[g[n]]]
      BY <2>1 DEF ArrangedAt
    <2>3. f[g[n]] \in V
      BY <2>1, <2>2
    <2> QED BY <1>1, <2>1, <2>2, <2>3
  <1>2. ASSUME NEW i \in V PROVE \E n \in DOMAIN u : h[n] = i
    <2>1. PICK k \in DOMAIN t : f[k] = i
      BY <1>2 DEF ArrangedAt
    <2>2. k \in W
      BY <1>2, <2>1
    <2>3. PICK n \in DOMAIN u : g[n] = k
      BY <2>2 DEF ArrangedAt
    <2> QED BY <2>1, <2>3
  <1>3. ASSUME NEW m \in DOMAIN u, NEW n \in DOMAIN u, m < n PROVE h[m] # h[n]
    <2>1. PICK a, b : a = g[m] /\ b = g[n]
      OBVIOUS
    <2>2. a # b /\ a \in DOMAIN t /\ b \in DOMAIN t
      BY <1>3, <2>1 DEF ArrangedAt
    <2>3. a < b \/ b < a
      BY <2>2
    <2>4. f[a] # f[b]
      BY <2>2, <2>3 DEF ArrangedAt
    <2> QED BY <1>3, <2>1, <2>4
  <1> QED BY <1>1, <1>2, <1>3 DEF ArrangedAt

\* What is rearranged stays as much.
LEMMA ArrangedCount ==
    ASSUME NEW s, NEW T, NEW f, NEW t, ArrangedAt(f, t, s, T), NEW l \in Nat, DOMAIN t = 1..l
    PROVE  IsFiniteSet(T) /\ Cardinality(T) = l
  <1>1. Names(f, l, T)
    BY DEF ArrangedAt, Names
  <1>2. Distinct(f, l)
    BY DEF ArrangedAt, Distinct
  <1>3. Covers(f, l, T)
    BY DEF ArrangedAt, Covers
  <1> QED BY <1>1, <1>2, <1>3, Exactly

LEMMA SomePlaces ==
    ASSUME NEW X, NEW s \in Seq(X), NEW A, A \subseteq DOMAIN s
    PROVE  IsFiniteSet(A)
  <1>1. PICK n \in Nat : DOMAIN s = 1..n
    OBVIOUS
  <1>2. IsFiniteSet(1..n)
    BY FS_Interval
  <1> QED BY <1>1, <1>2, FS_Subset
=============================================================================
