------------------------------ MODULE NewsText ------------------------------
(***************************************************************************)
(* How the news collector decides whether an article is about a company and *)
(* which of its sentences are.  A sentence is what the code asks of it: does *)
(* it name the company, hold one of the words that may refer to one, hold   *)
(* one of the words that surely do, start as a continuation, hold a number. *)
(* The two lists of words overlap, and neither holds the other.             *)
(***************************************************************************)
EXTENDS Naturals, FiniteSets, Sequences, SequencesExt

CONSTANT MaxSentences  \* bound on the sentences of an article

ASSUME SentencesAssumption == MaxSentences \in Nat

Sentences == [direct : BOOLEAN, refers : BOOLEAN, strong : BOOLEAN, continues : BOOLEAN,
              numbers : BOOLEAN]
Texts     == UNION {[1..n -> Sentences] : n \in 0..MaxSentences}

\* inTitle: the title names the company; inContent: the text does, counted across
\* the ends of sentences; finance: a financing marker; crowded: two other
\* companies or more are named.
Articles ==
    {a \in [text : Texts, inTitle : BOOLEAN, inContent : BOOLEAN, finance : BOOLEAN,
            crowded : BOOLEAN] :
        (\E i \in DOMAIN a.text : a.text[i].direct) => a.inContent}

Points(condition, n) == IF condition THEN n ELSE 0

\* The score of _classify_article_relevance for a title that names the company.
\* It may fall below zero: both sides of the comparison count the deductions.
GivenPoints(a) ==
    LET direct  == Cardinality({i \in DOMAIN a.text : a.text[i].direct})
        refers  == \E i \in DOMAIN a.text : i <= 5 /\ a.text[i].refers
    IN    3
        + Points(a.inContent, 4)
        + 2 * (IF direct > 3 THEN 3 ELSE direct)
        + Points(refers, 1)
        + Points(a.inContent /\ refers, 1)
        + Points(a.finance /\ a.inContent, 3)
        + Points(a.finance /\ direct >= 1, 1)

LostPoints(a) ==
    LET direct  == Cardinality({i \in DOMAIN a.text : a.text[i].direct})
        refers  == \E i \in DOMAIN a.text : i <= 5 /\ a.text[i].refers
    IN    Points(direct <= 1 /\ a.crowded, 2)
        + Points(direct = 0 /\ ~refers, 3)

\* Relevant and ambiguous articles go on; an article whose title does not name the
\* company never does.
Relevant(a) == a.inTitle /\ GivenPoints(a) >= 2 + LostPoints(a)

\* Variant: the neighbour after a sentence that names the company is left out.
WindowBefore(text, i) == {i - 1, i} \cap DOMAIN text

\* A sentence that names the company, and its neighbours.
Window(text, i) == {i - 1, i, i + 1} \cap DOMAIN text

\* The first pass over the sentences, in order.
Visit(text, chosen, i) ==
    IF text[i].direct THEN chosen \cup Window(text, i)
    ELSE IF (text[i].refers /\ i <= 5) \/ (text[i].continues /\ i - 1 \in chosen)
    THEN chosen \cup {i}
    ELSE chosen

\* The second pass: sentences with numbers next to a chosen one.
AddNumbers(text, chosen, i) ==
    IF text[i].numbers /\ {i - 1, i + 1} \cap chosen # {} THEN chosen \cup {i}
                                                          ELSE chosen

\* _extract_company_sentences for a title that names the company, as the set of
\* the sentences it keeps.
Extract(text) ==
    LET order  == [i \in 1..Len(text) |-> i]
        first  == FoldLeft(LAMBDA s, i : Visit(text, s, i), {}, order)
        second == IF first = {} THEN {1, 2} \cap DOMAIN text ELSE first
    IN  FoldLeft(LAMBDA s, i : AddNumbers(text, s, i), second, order)

\* The declared meaning: a sentence is kept for the company it names, beside one
\* that does, for a reference near the start, as an unbroken continuation of a
\* kept one, or for a number just before or in an unbroken row after a kept one.
ExtractDeclared(text) ==
    LET seeds == {i \in DOMAIN text :
                     \/ \E k \in Window(text, i) : text[k].direct
                     \/ text[i].refers /\ i <= 5}
        first == {i \in DOMAIN text :
                     \E j \in seeds : j <= i /\ \A k \in (j + 1)..i : text[k].continues}
        base  == IF first = {} THEN {1, 2} \cap DOMAIN text ELSE first
    IN  {i \in DOMAIN text :
            \/ \E j \in base : j <= i /\ \A k \in (j + 1)..i : text[k].numbers
            \/ text[i].numbers /\ i + 1 \in base}

\* _has_sufficient_target_evidence: the company is named in what is kept, or one
\* of the first two kept sentences of several surely refers to it.
Evidence(text) ==
    LET kept == Extract(text)
    IN  \/ \E i \in kept : text[i].direct
        \/ /\ Cardinality(kept) >= 2
           /\ \E i \in kept : Cardinality({k \in kept : k < i}) < 2 /\ text[i].strong

\* build_article_payload stores the article.
Accepts(a) == Relevant(a) /\ a.text # <<>> /\ Evidence(a.text)

Verdicts == {Accepts(a) : a \in Articles}
=============================================================================
