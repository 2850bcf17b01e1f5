------------------------------ MODULE MCStores ------------------------------
(***************************************************************************)
(* Instances of the three stores that are filled beside the workflows: the  *)
(* company registry, the news of a company and the rating methodologies.    *)
(* They share no state, so a behaviour is about one of them.                *)
(***************************************************************************)
EXTENDS RegistryStore, NewsCollection, RagStore, ReportPage

VARIABLES pipeline,
          sample     \* what a rule without state is applied to

allVars == <<registryVars, newsVars, ragVars, pipeline, sample>>

Documents == {"semiconductor", "corporate"}
MethodologyOfDocuments == [f \in Documents |-> [industry |-> "manufacturing", sub |-> f]]
TextSequences == {<<"a">>, <<"a", "b">>}
Manufacturers ==
    {[industry |-> "manufacturing", code |-> "semiconductor", name |-> NoSub],
     [industry |-> "manufacturing", code |-> NoSub, name |-> NoSub]}

\* Percents of a company and of its industry; an industry may lose money.
Figures == (-12)..12
Averages == {-3, 2, 10}

\* Events of the last days, of the day of the cutoff and of the day before it.
PageEvents ==
    {[age |-> <<a>>, severity |-> s,
      title |-> IF s \in {"critical", "high"} THEN "distress" ELSE "decline"] :
        a \in Ages, s \in Range(Severities)}

StoresInit ==
    /\ RegistryInit /\ NewsInit /\ RagInit
    /\ \/ pipeline \in {"registry", "news", "methodologies"} /\ sample = <<>>
       \/ pipeline = "chunks" /\ sample \in Pages
       \/ pipeline = "figures" /\ sample \in Figures \X Averages
       \/ pipeline = "events" /\ sample \in UNION {[1..n -> PageEvents] : n \in 0..4}
       \/ pipeline = "reasons" /\ sample \in UNION {[1..n -> ReasonKinds] : n \in 0..5}
    /\ pipeline # "methodologies" => \A f \in Files : docs[f] = <<"a">>

StoresNext ==
    /\ UNCHANGED <<pipeline, sample>>
    /\ \/ pipeline = "registry" /\ RegistryNext /\ UNCHANGED <<newsVars, ragVars>>
       \/ pipeline = "news" /\ NewsNext /\ UNCHANGED <<registryVars, ragVars>>
       \/ pipeline = "methodologies" /\ RagNext /\ UNCHANGED <<registryVars, newsVars>>

\* Of the processes that were started and not killed some one goes on, and not
\* necessarily each; nothing is assumed of the site, the database and who starts what.
AnyStep ==
    \/ \E p \in Processes : ProcessStep(p) /\ UNCHANGED <<newsVars, ragVars, pipeline, sample>>
    \/ \E c \in Collections : CollectionStep(c) /\ UNCHANGED <<registryVars, ragVars, pipeline, sample>>
    \/ \E i \in Ingests : IngestStep(i) /\ UNCHANGED <<registryVars, newsVars, pipeline, sample>>

StoresSpec == StoresInit /\ [][StoresNext]_allVars /\ WF_allVars(AnyStep)
-----------------------------------------------------------------------------
(* Properties *)

\* The chunks of a page cover it, the sentences kept of an article are the declared
\* ones, two rankings of chunks merge fairly, and the verdicts of the industry
\* tools are ordered as their figures are.
RankingRules == RankingsAgree({"a", "b", "c", "d", "e"}, 3)
FigureRules == FiguresKeepOrder(Figures, {a \in Averages : a > 0})
PagesAreKept == pipeline = "chunks" => PageIsKept(sample)
TextRules == PagesAreKept /\ ExtractionIsExact /\ RankingRules /\ FigureRules

\* The report page shows the events and the reasons it is given.
PageShowsAll ==
    /\ pipeline = "events" => PageTellsTheEvents(sample)
    /\ pipeline = "reasons" => ReasonsAreKept(sample)

\* The pipelines come to rest: none of those that are started pages, waits for a
\* table or reads documents for ever, whatever the others do to what it reads.
PipelinesEnd ==
    []<>(/\ \A p \in Processes : at[p] \in {"new", "done", "failed"}
         /\ \A c \in Collections : phase[c] \in {"new", "done", "raised"}
         /\ \A i \in Ingests : ingest[i] \in {"new", "done", "killed"})

\* A figure that is good when it is high is not called worse than an average it
\* exceeds nor better than one it falls short of: _compare says "the higher the
\* better".
HigherIsBetterThanAverage ==
    pipeline = "figures" =>
       LET own == sample[1]  average == sample[2]
           verdict == Compare(<<own>>, <<average>>, FALSE, 10)
       IN  /\ own > average => verdict # "worse"
           /\ own < average => verdict # "better"
=============================================================================
