----------------------------- MODULE ReportPage -----------------------------
(***************************************************************************)
(* How the report page chooses, from the events of a finished workflow, the *)
(* ones it shows, and how it groups the reasons of the decision.  The page   *)
(* has two sources for the same events: the classified list, in the order   *)
(* the detectors found them, and the timeline the risk agent built of it.    *)
(* An event is its age in days, its severity and its title; the result of a  *)
(* workflow has no event without a date, but the page would take one: <<>>. *)
(***************************************************************************)
EXTENDS Naturals, FiniteSets, Sequences, SequencesExt, Lists

CONSTANTS LookbackDays,  \* RISK_LOOKBACK_DAYS
          ReadLimit,     \* events the section reads, 20
          ShownLimit,    \* events it shows, 5
          KeyLimit,      \* events it highlights, 3
          Ages           \* ages of the events that are checked

ASSUME PageAssumption ==
    /\ Ages \subseteq Nat /\ LookbackDays \in Nat
    /\ {ReadLimit, ShownLimit, KeyLimit} \subseteq Nat
    /\ KeyLimit <= ShownLimit /\ ShownLimit <= ReadLimit

Severities == <<"critical", "high", "medium", "low">>
First(s, n) == SubSeq(s, 1, IF Len(s) < n THEN Len(s) ELSE n)
Order(s)   == CHOOSE i \in DOMAIN Severities : Severities[i] = s
Severe(e)  == e.severity \in {"critical", "high"}

Newer(a, b) == a.age # <<>> /\ (b.age = <<>> \/ a.age[1] < b.age[1])
-----------------------------------------------------------------------------
(* Events *)

\* Variant: the day of the cutoff is out.
RecentBeforeCutoff(e) ==
    IF e.age = <<>> THEN Severe(e) ELSE e.age[1] < LookbackDays

\* An event of the last days; without a date, one that is severe.
Recent(e) == IF e.age = <<>> THEN Severe(e) ELSE e.age[1] <= LookbackDays

\* build_timeline of the risk agent: newest day first, most severe first in a day.
Timeline(events) ==
    StableSort(events, LAMBDA a, b :
        Newer(a, b) \/ (a.age = b.age /\ Order(a.severity) < Order(b.severity)))

\* _extract_classified_event_items
ClassifiedItems(events) == StableSort(Kept(events, Recent), Newer)

\* _extract_timeline_event_items: the timeline only if the list has nothing to show.
EventItems(events) ==
    LET classified == ClassifiedItems(events)
    IN  First(IF classified # <<>> THEN classified
             ELSE StableSort(Kept(Timeline(events), Recent), Newer), ReadLimit)

\* _extract_recent_risk_events, for the points to monitor: always the timeline.
RecentRiskEvents(events) ==
    First(StableSort(Kept(Timeline(events), Recent), Newer), ShownLimit)

CountOf(events, severity) ==
    Cardinality({i \in DOMAIN events : events[i].severity = severity})

\* The first sentence that fits: it goes by the counts of the risk agent.
RepaymentImpact(events) ==
    CASE CountOf(events, "critical") > 0 -> "critical"
      [] CountOf(events, "critical") = 0 /\ CountOf(events, "high") > 0 -> "high"
      [] CountOf(events, "critical") = 0 /\ CountOf(events, "high") = 0
         /\ CountOf(events, "medium") >= 2 -> "medium"
      [] OTHER -> "limited"

\* _count_repeated_titles
Repeated(items) ==
    Len(items) - Cardinality({items[i].title : i \in DOMAIN items})

\* Variant: the highlights are taken from what is shown.
EventSectionOfShown(events) ==
    LET shown  == First(EventItems(events), ShownLimit)
        severe == Kept(shown, Severe)
    IN  [items |-> shown, key |-> First(IF severe # <<>> THEN severe ELSE shown, KeyLimit),
         impact |-> RepaymentImpact(events), repeated |-> Repeated(shown)]

\* _build_non_financial_event_section
EventSection(events) ==
    LET items  == EventItems(events)
        shown  == First(items, ShownLimit)
        severe == Kept(items, Severe)
    IN  [items |-> shown, key |-> First(IF severe # <<>> THEN severe ELSE shown, KeyLimit),
         impact |-> RepaymentImpact(events), repeated |-> Repeated(shown)]
-----------------------------------------------------------------------------
(* Reasons *)

ReasonKinds == {"events", "item", "plain", "blank"}

\* _group_decision_reasons: the items after a reason about risk events are its own,
\* also behind a blank one.
GroupReasons(reasons) ==
    LET Take(s, i) ==
            CASE reasons[i] = "blank"             -> s
              [] reasons[i] = "item" /\ s.open    ->
                    [s EXCEPT !.groups[Len(s.groups)] = Append(@, i)]
              [] OTHER -> [groups |-> Append(s.groups, <<i>>), open |-> reasons[i] = "events"]
    IN  FoldLeft(Take, [groups |-> <<>>, open |-> FALSE], [i \in DOMAIN reasons |-> i]).groups
-----------------------------------------------------------------------------
(* Properties *)

\* What the page leaves out it leaves out for a reason, and its two sections about
\* events, which read different sources, do not contradict each other: they show
\* as many events of the same days; a severe event is missing among the highlights
\* only if it is too old or others as recent took the places; a sentence about
\* critical events without such an event on the page counts old or displaced ones.
PageTellsTheEvents(events) ==
    LET section == EventSection(events)
        items   == EventItems(events)
        recent  == Kept(events, Recent)
        watched == RecentRiskEvents(events)
        Left(e) == {i \in DOMAIN recent : ~Newer(e, recent[i])}
    IN  /\ [i \in DOMAIN section.items |-> section.items[i].age]
              = [i \in DOMAIN watched |-> watched[i].age]
        /\ \A i \in DOMAIN events :
              \/ events[i] \in Range(items)
              \/ events[i].age[1] > LookbackDays
              \/ Cardinality(Left(events[i])) > ReadLimit
        /\ (\E e \in Range(items) : Severe(e)) => \A e \in Range(section.key) : Severe(e)
        /\ \A e \in Range(items) : Severe(e) =>
              \/ e \in Range(section.key)
              \/ Cardinality({i \in DOMAIN items : Severe(items[i]) /\ ~Newer(e, items[i])}) > KeyLimit
        /\ section.impact = "critical" /\ (\A e \in Range(section.key) : e.severity # "critical") =>
              \E i \in DOMAIN events :
                 /\ events[i].severity = "critical"
                 /\ \/ ~Recent(events[i])
                    \/ Cardinality(Left(events[i])) > KeyLimit
        /\ (section.repeated = 0) <=> IsInjective([i \in DOMAIN section.items |->
                                                    section.items[i].title])

\* Grouping keeps every reason that says something, once and in order.
ReasonsAreKept(reasons) ==
    FoldLeft(LAMBDA s, g : s \o g, <<>>, GroupReasons(reasons))
       = Kept([i \in DOMAIN reasons |-> i], LAMBDA i : reasons[i] # "blank")
=============================================================================
