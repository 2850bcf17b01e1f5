------------------------- MODULE WorkflowGraph_proofs -------------------------
(***************************************************************************)
(* The validation gate for any lists of agents, any retry setting and any   *)
(* outcome of the agents.  The invariant says where a run can be: in the    *)
(* resolver, in one of the two supersteps of the analysts, or alone in one  *)
(* reviewer.  That needs branches that end together (Layered), which the    *)
(* default lists have and ValidLists does not ask for.                      *)
(***************************************************************************)
EXTENDS WorkflowGraph, FiniteSetTheorems, TLAPS

(* The steps of a superstep *)

\* No agent has two steps.
OneStepEach == \A s, t \in stepped : s.agent = t.agent => s = t

\* The list s holds the steps of the agents A, each once.
Holds(s, A) ==
    /\ s \in Seq(Step)
    /\ \A i \in DOMAIN s : s[i] \in stepped /\ s[i].agent \in A
    /\ \A x \in stepped : x.agent \in A => \E i \in DOMAIN s : s[i] = x
    /\ \A i, k \in DOMAIN s : s[i].agent = s[k].agent => i = k

LEMMA StepOfHolds ==
    ASSUME stepped \subseteq Step, OneStepEach, NEW A, NEW s, Holds(s, A),
           NEW a \in Agents, a \notin A
    PROVE  Holds(s \o StepOf(a), A \cup {a})
  <1>1. ASSUME NEW x \in stepped, x.agent = a
        PROVE  x = [agent |-> a, ok |-> TRUE] \/ x = [agent |-> a, ok |-> FALSE]
    BY <1>1 DEF Step
  <1>2. CASE StepOf(a) = <<>>
    <2>1. s \o StepOf(a) = s
      BY <1>2 DEF Holds
    <2>2. \A x \in stepped : x.agent # a
      BY <1>1, <1>2 DEF StepOf
    <2> QED BY <2>1, <2>2 DEF Holds
  <1>3. ASSUME NEW e \in stepped, e.agent = a, StepOf(a) = <<e>>
        PROVE  Holds(s \o StepOf(a), A \cup {a})
    <2> DEFINE t == s \o StepOf(a)
    <2>1. /\ t \in Seq(Step) /\ DOMAIN t = 1..Len(s) + 1 /\ t[Len(s) + 1] = e
          /\ \A i \in DOMAIN s : t[i] = s[i]
          /\ DOMAIN s = 1..Len(s) /\ Len(s) \in Nat
      BY <1>3 DEF Holds
    <2>2. \A i \in DOMAIN t : i \in DOMAIN s \/ i = Len(s) + 1
      BY <2>1
    <2>3. \A i \in DOMAIN s : i \in DOMAIN t
      BY <2>1
    <2>4. Len(s) + 1 \in DOMAIN t
      BY <2>1
    <2> HIDE DEF t
    <2>5. \A i \in DOMAIN t : t[i] \in stepped /\ t[i].agent \in A \cup {a}
      BY <1>3, <2>1, <2>2 DEF Holds
    <2>6. ASSUME NEW x \in stepped, x.agent \in A \cup {a}
          PROVE  \E i \in DOMAIN t : t[i] = x
      <3>1. CASE x.agent = a
        BY <1>3, <2>1, <2>4, <3>1 DEF OneStepEach
      <3>2. CASE x.agent \in A
        BY <2>1, <2>3, <3>2 DEF Holds
      <3> QED BY <2>6, <3>1, <3>2
    <2>7. ASSUME NEW i \in DOMAIN t, NEW k \in DOMAIN t, t[i].agent = t[k].agent
          PROVE  i = k
      BY <1>3, <2>1, <2>2, <2>7 DEF Holds
    <2>8. Holds(t, A \cup {a})
      BY <2>1, <2>5, <2>6, <2>7 DEF Holds
    <2> QED BY <2>8 DEF t
  <1>4. \/ StepOf(a) = <<>>
        \/ \E e \in stepped : e.agent = a /\ StepOf(a) = <<e>>
    <2>1. CASE [agent |-> a, ok |-> TRUE] \in stepped
      BY <2>1 DEF StepOf
    <2>2. CASE [agent |-> a, ok |-> TRUE] \notin stepped /\ [agent |-> a, ok |-> FALSE] \in stepped
      BY <2>2 DEF StepOf
    <2>3. CASE [agent |-> a, ok |-> TRUE] \notin stepped /\ [agent |-> a, ok |-> FALSE] \notin stepped
      BY <2>3 DEF StepOf
    <2> QED BY <2>1, <2>2, <2>3
  <1> QED BY <1>2, <1>3, <1>4

\* What is merged at the barrier are the steps of the superstep, each once.
LEMMA MergedHolds ==
    ASSUME stepped \subseteq Step, OneStepEach
    PROVE  Holds(Merged, Agents)
  <1> DEFINE s1 == StepOf("company_resolver")
             s2 == s1 \o StepOf("decision")
             s3 == s2 \o StepOf("financial_analyst")
             s4 == s3 \o StepOf("industry_analyst")
             s5 == s4 \o StepOf("news_collector")
             s6 == s5 \o StepOf("report")
             s7 == s6 \o StepOf("risk_event")
             s8 == s7 \o StepOf("validation")
  <1>0. /\ "company_resolver" \in Agents /\ "decision" \in Agents
        /\ "financial_analyst" \in Agents /\ "industry_analyst" \in Agents
        /\ "news_collector" \in Agents /\ "report" \in Agents
        /\ "risk_event" \in Agents /\ "validation" \in Agents
    BY DEF Agents, Analysts, Reviewers
  <1>1. Holds(s1, {"company_resolver"})
    <2>1. Holds(<<>>, {})
      BY DEF Holds
    <2>2. Holds(<<>> \o s1, {} \cup {"company_resolver"})
      BY <1>0, <2>1, StepOfHolds
    <2>3. s1 \in Seq(Step)
      <3>1. /\ [agent |-> "company_resolver", ok |-> TRUE] \in Step
            /\ [agent |-> "company_resolver", ok |-> FALSE] \in Step
        BY <1>0 DEF Step
      <3>2. \A e \in Step : <<e>> \in Seq(Step)
        OBVIOUS
      <3> QED BY <3>1, <3>2 DEF StepOf
    <2>4. <<>> \o s1 = s1
      BY <2>3
    <2> QED BY <2>2, <2>4
  <1>2. Holds(s2, {"company_resolver", "decision"})
    <2>1. Holds(s2, {"company_resolver"} \cup {"decision"})
      BY <1>0, <1>1, StepOfHolds
    <2> QED BY <2>1
  <1>3. Holds(s3, {"company_resolver", "decision", "financial_analyst"})
    <2>1. Holds(s3, {"company_resolver", "decision"} \cup {"financial_analyst"})
      BY <1>0, <1>2, StepOfHolds
    <2> QED BY <2>1
  <1>4. Holds(s4, {"company_resolver", "decision", "financial_analyst", "industry_analyst"})
    <2>1. Holds(s4, {"company_resolver", "decision", "financial_analyst"} \cup
                    {"industry_analyst"})
      BY <1>0, <1>3, StepOfHolds
    <2> QED BY <2>1
  <1>5. Holds(s5, Agents \ {"report", "risk_event", "validation"})
    <2>1. Holds(s5, {"company_resolver", "decision", "financial_analyst",
                     "industry_analyst"} \cup {"news_collector"})
      BY <1>0, <1>4, StepOfHolds
    <2>2. {"company_resolver", "decision", "financial_analyst", "industry_analyst"} \cup
          {"news_collector"} = Agents \ {"report", "risk_event", "validation"}
      BY DEF Agents, Analysts, Reviewers
    <2> QED BY <2>1, <2>2
  <1>6. Holds(s6, Agents \ {"risk_event", "validation"})
    <2>1. Holds(s6, (Agents \ {"report", "risk_event", "validation"}) \cup {"report"})
      BY <1>0, <1>5, StepOfHolds
    <2>2. (Agents \ {"report", "risk_event", "validation"}) \cup {"report"} =
          Agents \ {"risk_event", "validation"}
      BY <1>0
    <2> QED BY <2>1, <2>2
  <1>7. Holds(s7, Agents \ {"validation"})
    <2>1. Holds(s7, (Agents \ {"risk_event", "validation"}) \cup {"risk_event"})
      BY <1>0, <1>6, StepOfHolds
    <2>2. (Agents \ {"risk_event", "validation"}) \cup {"risk_event"} = Agents \ {"validation"}
      BY <1>0
    <2> QED BY <2>1, <2>2
  <1>8. Holds(s8, Agents)
    <2>1. Holds(s8, (Agents \ {"validation"}) \cup {"validation"})
      BY <1>0, <1>7, StepOfHolds
    <2>2. (Agents \ {"validation"}) \cup {"validation"} = Agents
      BY <1>0
    <2> QED BY <2>1, <2>2
  <1>9. s8 = Merged
    BY DEF Merged
  <1> QED BY <1>8, <1>9
-----------------------------------------------------------------------------
(* The lists and the retries *)

LEMMA ListFacts ==
    ASSUME TypeOK
    PROVE  /\ lists.resolver \in BOOLEAN /\ lists.parallel \subseteq Analysts
           /\ lists.sequential \in Seq(Reviewers)
           /\ Len(lists.sequential) \in Nat
           /\ DOMAIN lists.sequential = 1..Len(lists.sequential)
           /\ \A i, k \in DOMAIN lists.sequential :
                 /\ lists.sequential[i] = lists.sequential[k] => i = k
                 /\ lists.sequential[i] = "validation" => i = Len(lists.sequential)
           /\ lists.resolver \/ lists.parallel # {} \/ lists.sequential # <<>>
           /\ Reviewers \cap Analysts = {} /\ "company_resolver" \notin Reviewers \cup Analysts
  <1>1. ValidLists(lists)
    BY ConfigurationsAssumption DEF TypeOK
  <1>2. lists.sequential \in Seq(Reviewers)
    BY <1>1 DEF ValidLists
  <1>3. Len(lists.sequential) \in Nat /\ DOMAIN lists.sequential = 1..Len(lists.sequential)
    BY <1>2
  <1>4. Reviewers \cap Analysts = {} /\ "company_resolver" \notin Reviewers \cup Analysts
    BY DEF Reviewers, Analysts
  <1> QED BY <1>1, <1>3, <1>4 DEF ValidLists

\* There are three reviewers.
LEMMA ThreeReviewers ==
    ASSUME TypeOK
    PROVE  Len(lists.sequential) <= 3
  <1> DEFINE s == lists.sequential
  <1> SUFFICES ASSUME Len(s) >= 4 PROVE FALSE
    BY ListFacts
  <1>1. 1 \in DOMAIN s /\ 2 \in DOMAIN s /\ 3 \in DOMAIN s /\ 4 \in DOMAIN s
    BY ListFacts
  <1>2. s[1] \in Reviewers /\ s[2] \in Reviewers /\ s[3] \in Reviewers /\ s[4] \in Reviewers
    BY <1>1, ListFacts
  <1>3. /\ s[1] # s[2] /\ s[1] # s[3] /\ s[1] # s[4]
        /\ s[2] # s[3] /\ s[2] # s[4] /\ s[3] # s[4]
    BY <1>1, ListFacts
  <1> QED BY <1>2, <1>3 DEF Reviewers

LEMMA RetriesBounded ==
    ASSUME TypeOK
    PROVE  RetryAttempts \in 0..3 /\ (RetryAttempts > 0 => RetryNode # {})
  <1>1. ValidationRetryAttempts \in 0..3
    <2>1. CASE configured = {}
      BY <2>1 DEF ValidationRetryAttempts, DefaultRetryAttempts
    <2>2. CASE configured # {}
      <3>1. PICK n : n = CHOOSE m \in configured : TRUE
        OBVIOUS
      <3>2. n \in Int
        BY <2>2, <3>1, RetryAssumption DEF TypeOK
      <3> QED BY <2>2, <3>1, <3>2 DEF ValidationRetryAttempts, MaxRetryAttempts
    <2> QED BY <2>1, <2>2
  <1> QED BY <1>1 DEF RetryAttempts

\* The one node a retry goes to, and where validation is.
LEMMA RetryNodeIs ==
    ASSUME TypeOK, RetryNode # {}
    PROVE  /\ Len(lists.sequential) - 1 \in DOMAIN lists.sequential
           /\ lists.sequential[Len(lists.sequential) - 1] = "report"
           /\ RetryNode = {"report"}
  BY ListFacts DEF RetryNode

LEMMA ValidatesIs ==
    ASSUME TypeOK
    PROVE  /\ Validates => /\ Len(lists.sequential) \in DOMAIN lists.sequential
                           /\ lists.sequential[Len(lists.sequential)] = "validation"
           /\ \A i \in DOMAIN lists.sequential :
                 lists.sequential[i] = "validation" => i = Len(lists.sequential) /\ Validates
  <1>1. lists.sequential # <<>> => Len(lists.sequential) \in DOMAIN lists.sequential
    BY ListFacts
  <1>2. \A i \in DOMAIN lists.sequential : lists.sequential # <<>>
    BY ListFacts
  <1> QED BY <1>1, <1>2, ListFacts DEF Validates, Last
-----------------------------------------------------------------------------
(* The edges *)

\* A reviewer leads on to the one behind it.
LEMMA EdgesOfReviewer ==
    ASSUME TypeOK, NEW i \in DOMAIN lists.sequential
    PROVE  Edges(lists.sequential[i]) =
              IF i < Len(lists.sequential) THEN {lists.sequential[i + 1]} ELSE {}
  <1> DEFINE s == lists.sequential
  <1>1. s[i] \in Reviewers
    BY ListFacts
  <1>2. s[i] \notin lists.parallel /\ s[i] # "news_collector" /\ s[i] # "financial_analyst"
    BY <1>1, ListFacts DEF Reviewers
  <1>3. s[i] \notin AnalysisTerminalNodes
    BY <1>2 DEF AnalysisTerminalNodes
  <1>4. {k \in 1..Len(s) - 1 : s[k] = s[i]} = IF i < Len(s) THEN {i} ELSE {}
    BY ListFacts
  <1>5. Edges(s[i]) = {s[k + 1] : k \in {m \in 1..Len(s) - 1 : s[m] = s[i]}}
    BY <1>2, <1>3 DEF Edges
  <1> QED BY <1>4, <1>5

\* In layered lists the analysts that start lead on to all who wait for them, and
\* the last ones to the first reviewer only.
LEMMA EdgesOfAnalysts ==
    ASSUME TypeOK, Layered(lists)
    PROVE  /\ lists.parallel = AnalysisStartNodes \cup Followers
           /\ lists.parallel # {} => AnalysisStartNodes # {}
           /\ Followers # {} => UNION {Edges(a) : a \in AnalysisStartNodes} = Followers
           /\ Followers = {} /\ AnalysisStartNodes # {} =>
                 UNION {Edges(a) : a \in AnalysisStartNodes} = First
           /\ Followers # {} => UNION {Edges(a) : a \in Followers} = First
  <1> DEFINE p == lists.parallel
             chain(a) == {b \in p : \/ a = "news_collector" /\ b = "risk_event"
                                    \/ a = "financial_analyst" /\ b = "industry_analyst"}
  <1>1. p \subseteq Analysts
    BY ListFacts
  <1>2. ASSUME NEW a \in p
        PROVE  Edges(a) = chain(a) \cup (IF a \in AnalysisTerminalNodes THEN First ELSE {})
    <2>1. {k \in 1..Len(lists.sequential) - 1 : lists.sequential[k] = a} = {}
      BY <1>1, <1>2, ListFacts
    <2> QED BY <2>1 DEF Edges
  <1>3. p = AnalysisStartNodes \cup Followers /\ AnalysisStartNodes \subseteq p
    BY DEF Followers, AnalysisStartNodes
  <1>4. p # {} => AnalysisStartNodes # {}
    BY <1>1 DEF AnalysisStartNodes, Analysts
  <1>5. Followers # {} =>
           /\ \A a \in AnalysisStartNodes : a \notin AnalysisTerminalNodes
           /\ \A a \in AnalysisStartNodes : chain(a) \subseteq Followers
           /\ \A b \in Followers : \E a \in AnalysisStartNodes : b \in chain(a)
    BY <1>1 DEF Followers, AnalysisStartNodes, AnalysisTerminalNodes, Layered, Analysts
  <1>6. Followers = {} =>
           \A a \in AnalysisStartNodes : a \in AnalysisTerminalNodes /\ chain(a) = {}
    BY <1>1 DEF Followers, AnalysisStartNodes, AnalysisTerminalNodes, Layered, Analysts
  <1>7. \A a \in Followers : a \in p /\ a \in AnalysisTerminalNodes /\ chain(a) = {}
    BY <1>1 DEF Followers, AnalysisStartNodes, AnalysisTerminalNodes, Layered, Analysts
  <1> HIDE DEF chain, p
  <1>8. Followers # {} => UNION {Edges(a) : a \in AnalysisStartNodes} = Followers
    BY <1>2, <1>3, <1>5
  <1>9. Followers = {} /\ AnalysisStartNodes # {} =>
           UNION {Edges(a) : a \in AnalysisStartNodes} = First
    BY <1>2, <1>3, <1>6
  <1>10. Followers # {} => UNION {Edges(a) : a \in Followers} = First
    BY <1>2, <1>7
  <1> QED BY <1>3, <1>4, <1>8, <1>9, <1>10 DEF p
-----------------------------------------------------------------------------
(* What a step leaves alone *)

\* The graph does not change during a run.
LEMMA GraphStays ==
    ASSUME UNCHANGED given
    PROVE  /\ UNCHANGED <<AnalysisStartNodes, Followers, First, Validates, RetryNode,
                          RetryAttempts, StartNodes>>
           /\ UNCHANGED <<lists, continueOnError, configured>>
           /\ \A a : Edges(a)' = Edges(a)
  <1>1. UNCHANGED <<lists, continueOnError, configured>>
    BY DEF given
  <1>2. UNCHANGED <<AnalysisStartNodes, First, Validates, RetryNode>>
    BY <1>1 DEF AnalysisStartNodes, First, Validates, Last, RetryNode
  <1>3. UNCHANGED <<AnalysisTerminalNodes, Followers, StartNodes>>
    BY <1>1, <1>2 DEF AnalysisTerminalNodes, Followers, StartNodes
  <1>4. UNCHANGED RetryAttempts
    BY <1>1, <1>2 DEF RetryAttempts, ValidationRetryAttempts
  <1>5. \A a : Edges(a)' = Edges(a)
    BY <1>1, <1>2, <1>3 DEF Edges
  <1> QED BY <1>1, <1>2, <1>3, <1>4, <1>5

\* What holds of the run between two barriers.
Settled == /\ StepsSound /\ ReviewAfterAnalysis /\ SuccessIsComplete
           /\ ReportIsLast(lists) => ReportNeedsGate
           /\ RecursionLimit >= 12 => LimitOnlyAfterFailedRetry

LEMMA SettledStays ==
    ASSUME Settled, UNCHANGED <<given, ctx, steps, superstep, result>>
    PROVE  Settled'
  <1>1. /\ UNCHANGED <<RetryAttempts, Validates>>
        /\ UNCHANGED <<lists, continueOnError, configured>>
    BY GraphStays
  <1>2. \A a : Ran(a)' = Ran(a) /\ RanWell(a)' = RanWell(a)
    BY DEF Ran, RanWell
  <1>3. StepsSound'
    BY <1>1, <1>2 DEF Settled, StepsSound
  <1>4. ReviewAfterAnalysis'
    BY <1>1, <1>2 DEF Settled, ReviewAfterAnalysis
  <1>5. SuccessIsComplete'
    BY <1>1, <1>2 DEF Settled, SuccessIsComplete
  <1>6. (ReportIsLast(lists) => ReportNeedsGate)'
    BY <1>1 DEF Settled, ReportNeedsGate, ReportIsLast
  <1>7. (RecursionLimit >= 12 => LimitOnlyAfterFailedRetry)'
    BY <1>1 DEF Settled, LimitOnlyAfterFailedRetry
  <1> QED BY <1>3, <1>4, <1>5, <1>6, <1>7 DEF Settled

LEMMA GraphInvParts == GraphInv <=> TypeOK /\ Settled /\ IF Ended THEN running = {}
                                                         ELSE InSuperstep
  BY DEF GraphInv, Settled
-----------------------------------------------------------------------------
(* The start *)

LEMMA FirstContext ==
    Init => /\ ctx \in Contexts /\ newCtx = ctx /\ Unreviewed(ctx) /\ ctx.found /\ ~ctx.halt
  BY DEF Init, Contexts, Gates, Unreviewed

LEMMA GraphInitInv ==
    ASSUME AllLayered, Init
    PROVE  GraphInv
  <1>1. TypeOK
    <2>1. /\ running \subseteq Agents /\ steps \in Seq(Step) /\ superstep \in 1..RecursionLimit
      <3>1. StartNodes \subseteq Agents
        <4>1. ValidLists(lists)
          BY ConfigurationsAssumption DEF Init
        <4>2. lists.sequential # <<>> => lists.sequential[1] \in Reviewers
          BY <4>1 DEF ValidLists
        <4> QED BY <4>1, <4>2 DEF StartNodes, First, AnalysisStartNodes, Agents, ValidLists
      <3>2. superstep \in 1..RecursionLimit
        BY LimitAssumption DEF Init
      <3> QED BY <3>1, <3>2 DEF Init, Agents
    <2>2. result \in Results
      BY DEF Init, NoResult, Results, Statuses
    <2> QED BY <2>1, <2>2, FirstContext DEF Init, TypeOK
  <1>2. Layered(lists) /\ \A a : ~Ran(a)
    BY DEF AllLayered, Init, Ran
  <1>3. Settled
    <2>1. StepsSound
      <3>1. {i \in DOMAIN steps : steps[i].agent = "validation"} = {}
        BY DEF Init
      <3>2. Cardinality({i \in DOMAIN steps : steps[i].agent = "validation"}) = ctx.attempt
        BY <3>1, FS_EmptySet, FirstContext DEF Unreviewed
      <3>3. ctx.attempt <= 1 + RetryAttempts
        BY <1>1, RetriesBounded, FirstContext DEF Unreviewed
      <3> QED BY <1>2, <3>2, <3>3, FirstContext DEF StepsSound
    <2>2. ReviewAfterAnalysis
      BY <1>2 DEF ReviewAfterAnalysis, Init
    <2>3. SuccessIsComplete /\ ReportNeedsGate /\ LimitOnlyAfterFailedRetry
      BY DEF Init, NoResult, SuccessIsComplete, ReportNeedsGate, LimitOnlyAfterFailedRetry
    <2> QED BY <2>1, <2>2, <2>3 DEF Settled
  <1>4. ~Ended
    BY DEF Ended, Init
  <1>5. InSuperstep
    <2>0. /\ stepped = {} /\ next = {} /\ superstep = 1 /\ steps = <<>>
          /\ running = IF lists.resolver THEN {"company_resolver"} ELSE StartNodes
      BY DEF Init
    <2>1. ASSUME running # {} PROVE Writes(running)
      BY <2>0, <2>1, FirstContext DEF Writes
    <2>2. CASE lists.resolver
      BY <2>0, <2>1, <2>2, FirstContext DEF InSuperstep, InResolver
    <2>3. CASE ~lists.resolver /\ AnalysisStartNodes # {}
      BY <1>2, <2>0, <2>1, <2>3, FirstContext
         DEF InSuperstep, InFirstAnalysis, InAnalysis, StartNodes
    <2>4. CASE ~lists.resolver /\ AnalysisStartNodes = {}
      <3>1. lists.parallel = {} /\ lists.sequential # <<>>
        BY <1>1, <1>2, <2>4, EdgesOfAnalysts, ListFacts
      <3>2. 1 \in DOMAIN lists.sequential /\ running = {lists.sequential[1]}
        BY <1>1, <2>0, <2>4, <3>1, ListFacts DEF StartNodes, First
      <3>3. InReview(1)
        <4>1. Writes({lists.sequential[1]}) /\ running # {}
          BY <2>1, <3>2
        <4>2. /\ ctx.gate = "none" /\ ctx.attempt = 0 /\ ctx.keys = {} /\ ctx.found
              /\ ~ctx.halt /\ newCtx = ctx
          BY FirstContext DEF Unreviewed
        <4>3. Reviewed(1) /\ Retrying(1) /\ DraftIsSafe(1) /\ LimitIsFar(1)
          BY <2>0, <4>1, <4>2 DEF Reviewed, Retrying, DraftIsSafe, LimitIsFar
        <4>4. \A k \in 1..1 - 1 : Ran(lists.sequential[k])
          OBVIOUS
        <4> QED BY <1>2, <2>0, <3>1, <4>1, <4>2, <4>3, <4>4 DEF InReview
      <3> QED BY <3>2, <3>3 DEF InSuperstep
    <2> QED BY <2>2, <2>3, <2>4
  <1> QED BY <1>1, <1>3, <1>4, <1>5, GraphInvParts
-----------------------------------------------------------------------------
(* A node ends *)

LEMMA EdgesType ==
    ASSUME TypeOK, NEW a, NEW c
    PROVE  /\ Edges(a) \subseteq Agents /\ First \subseteq Agents
           /\ StartNodes \subseteq Agents
           /\ Successors(a, c) \subseteq Agents
  <1>1. /\ \A i \in DOMAIN lists.sequential : lists.sequential[i] \in Agents
        /\ lists.parallel \subseteq Agents
    BY ListFacts DEF Agents
  <1>2. First \subseteq Agents
    BY <1>1, ListFacts DEF First
  <1>3. Edges(a) \subseteq Agents
    <2>1. \A i \in 1..Len(lists.sequential) - 1 : i + 1 \in DOMAIN lists.sequential
      BY ListFacts
    <2> QED BY <1>1, <1>2, <2>1 DEF Edges
  <1>4. StartNodes \subseteq Agents
    BY <1>1, <1>2 DEF StartNodes, AnalysisStartNodes
  <1>5. RetryNode \subseteq Agents
    BY <1>1 DEF RetryNode
  <1> QED BY <1>2, <1>3, <1>4, <1>5
         DEF Successors, RouteAfterResolver, RouteAfterValidation

\* The node a of the superstep L ends and writes its step, or nothing in a run that
\* was halted.
LEMMA WritesMore ==
    ASSUME NEW L, Writes(L), NEW a \in running, running' = running \ {a},
           UNCHANGED <<continueOnError, ctx>>,
           \/ ctx.halt /\ UNCHANGED <<newCtx, stepped>>
           \/ /\ ~ctx.halt
              /\ \E ok \in BOOLEAN :
                    /\ stepped' = stepped \cup {[agent |-> a, ok |-> ok]}
                    /\ newCtx'.halt => newCtx.halt \/ (~ok /\ ~continueOnError /\ a # "validation")
    PROVE  Writes(L)'
  <1>1. CASE ctx.halt
    BY <1>1 DEF Writes
  <1>2. CASE ~ctx.halt
    <2>1. PICK ok \in BOOLEAN :
             /\ stepped' = stepped \cup {[agent |-> a, ok |-> ok]}
             /\ newCtx'.halt => newCtx.halt \/ (~ok /\ ~continueOnError /\ a # "validation")
      BY <1>2
    <2>2. a \notin {s.agent : s \in stepped}
      BY <1>2 DEF Writes
    <2>3. {s.agent : s \in stepped'} = {s.agent : s \in stepped} \cup {a}
      <3>1. PICK e : e = [agent |-> a, ok |-> ok]
        OBVIOUS
      <3>2. stepped' = stepped \cup {e} /\ e.agent = a
        BY <2>1, <3>1
      <3> QED BY <3>2
    <2>4. {s.agent : s \in stepped'} = L \ running'
      BY <1>2, <2>3 DEF Writes
    <2>5. \A s, t \in stepped' : s.agent = t.agent => s = t
      BY <1>2, <2>1, <2>2 DEF Writes
    <2>6. newCtx'.halt => ~continueOnError /\ \E s \in stepped' : ~s.ok /\ s.agent # "validation"
      <3>1. ASSUME ~ok, a # "validation"
            PROVE  \E s \in stepped' : ~s.ok /\ s.agent # "validation"
        <4>1. [agent |-> a, ok |-> ok] \in stepped'
          BY <2>1
        <4> QED BY <3>1, <4>1
      <3> QED BY <1>2, <2>1, <3>1 DEF Writes
    <2> QED BY <1>2, <2>4, <2>5, <2>6 DEF Writes
  <1> QED BY <1>1, <1>2

\* What the step of an agent writes.
LEMMA AgentWrites ==
    ASSUME TypeOK, NEW a \in Agents, NEW ok \in BOOLEAN, RunAgent(a, ok)
    PROVE  /\ a \in running /\ a # "validation" /\ ~ctx.halt /\ running' = running \ {a}
           /\ UNCHANGED <<given, ctx, steps, superstep, result>>
           /\ stepped' = stepped \cup {[agent |-> a, ok |-> ok]}
           /\ newCtx' \in Contexts
           /\ newCtx'.gate = newCtx.gate /\ newCtx'.attempt = newCtx.attempt
           /\ newCtx'.halt <=> newCtx.halt \/ (~ok /\ ~continueOnError)
           /\ newCtx'.keys = IF ok THEN newCtx.keys \cup OutputKeys(a) ELSE newCtx.keys
           /\ newCtx'.reports = IF ok /\ a = "report" THEN newCtx.reports + 1
                                                      ELSE newCtx.reports
           /\ a # "company_resolver" => /\ newCtx'.found = newCtx.found
                                        /\ next' = next \cup Edges(a)
           /\ a = "company_resolver" /\ newCtx = ctx =>
                 next' = next \cup RouteAfterResolver(newCtx')
  <1>1. PICK found \in BOOLEAN :
          LET merged(c) ==
                [c EXCEPT !.found   = IF a = "company_resolver" THEN found ELSE @,
                          !.halt    = @ \/ (~ok /\ ~continueOnError),
                          !.keys    = IF ok THEN @ \cup OutputKeys(a) ELSE @,
                          !.reports = IF ok /\ a = "report" THEN @ + 1 ELSE @]
          IN  newCtx' = merged(newCtx) /\ Leave(a, merged(ctx))
    BY DEF RunAgent, TypeOK, Contexts
  <1> DEFINE merged(c) ==
                [c EXCEPT !.found   = IF a = "company_resolver" THEN found ELSE @,
                          !.halt    = @ \/ (~ok /\ ~continueOnError),
                          !.keys    = IF ok THEN @ \cup OutputKeys(a) ELSE @,
                          !.reports = IF ok /\ a = "report" THEN @ + 1 ELSE @]
  <1>2. newCtx' = merged(newCtx) /\ Leave(a, merged(ctx))
    BY <1>1
  <1>3. OutputKeys(a) \subseteq JudgementKeys
    BY DEF OutputKeys, JudgementKeys
  <1>4. newCtx \in Contexts /\ ok \in BOOLEAN /\ continueOnError \in BOOLEAN
    BY DEF TypeOK
  <1>5. newCtx' \in Contexts
    <2>1. (newCtx.halt \/ (~ok /\ ~continueOnError)) \in BOOLEAN
      OBVIOUS
    <2>2. /\ (IF ok THEN newCtx.keys \cup OutputKeys(a) ELSE newCtx.keys)
                \in SUBSET JudgementKeys
          /\ (IF ok /\ a = "report" THEN newCtx.reports + 1 ELSE newCtx.reports) \in Nat
          /\ (IF a = "company_resolver" THEN found ELSE newCtx.found) \in BOOLEAN
      BY <1>3, <1>4 DEF Contexts
    <2>3. newCtx' = [newCtx EXCEPT
                       !.found   = IF a = "company_resolver" THEN found ELSE newCtx.found,
                       !.halt    = newCtx.halt \/ (~ok /\ ~continueOnError),
                       !.keys    = IF ok THEN newCtx.keys \cup OutputKeys(a) ELSE newCtx.keys,
                       !.reports = IF ok /\ a = "report" THEN newCtx.reports + 1
                                                         ELSE newCtx.reports]
      BY <1>2
    <2> QED BY <1>4, <2>1, <2>2, <2>3, Zenon DEF Contexts
  <1>6. /\ newCtx'.gate = newCtx.gate /\ newCtx'.attempt = newCtx.attempt
        /\ newCtx'.halt <=> newCtx.halt \/ (~ok /\ ~continueOnError)
        /\ newCtx'.keys = IF ok THEN newCtx.keys \cup OutputKeys(a) ELSE newCtx.keys
        /\ newCtx'.reports = IF ok /\ a = "report" THEN newCtx.reports + 1
                                                   ELSE newCtx.reports
        /\ a # "company_resolver" => newCtx'.found = newCtx.found
    BY <1>2, <1>4 DEF Contexts
  <1>7. /\ a \in running /\ a # "validation" /\ ~ctx.halt
        /\ stepped' = stepped \cup {[agent |-> a, ok |-> ok]}
    BY DEF RunAgent
  <1>8. /\ running' = running \ {a} /\ next' = next \cup Successors(a, merged(ctx))
        /\ UNCHANGED <<given, ctx, steps, superstep, result>>
    BY <1>2 DEF Leave
  <1>9. a # "company_resolver" => Successors(a, merged(ctx)) = Edges(a)
    BY <1>7 DEF Successors
  <1>10. a = "company_resolver" /\ newCtx = ctx =>
            Successors(a, merged(ctx)) = RouteAfterResolver(newCtx')
    BY <1>2 DEF Successors
  <1> HIDE DEF merged
  <1> QED BY <1>5, <1>6, <1>7, <1>8, <1>9, <1>10

LEMMA StandsIn ==
    ASSUME TypeOK, InSuperstep
    PROVE  \/ InResolver \/ InFirstAnalysis \/ InLastAnalysis
           \/ \E i \in DOMAIN lists.sequential : InReview(i)
  BY DEF InSuperstep

\* The edges of one more analyst.
LEMMA OneMoreEdge ==
    ASSUME NEW L, NEW a \in running, running \subseteq L, running' = running \ {a},
           next = UNION {Edges(b) : b \in L \ running}, UNCHANGED given,
           next' = next \cup Edges(a)
    PROVE  next' = UNION {Edges(b)' : b \in L \ running'}
  <1>1. L \ running' = (L \ running) \cup {a}
    OBVIOUS
  <1>2. ASSUME NEW x
        PROVE  x \in UNION {Edges(b) : b \in L \ running'} <=> x \in next \cup Edges(a)
    <2>1. x \in UNION {Edges(b) : b \in L \ running'} <=>
             \E b \in (L \ running) \cup {a} : x \in Edges(b)
      BY <1>1
    <2>2. x \in next <=> \E b \in L \ running : x \in Edges(b)
      OBVIOUS
    <2> QED BY <2>1, <2>2
  <1>3. next' = UNION {Edges(b) : b \in L \ running'}
    BY <1>2
  <1> QED BY <1>3, GraphStays

\* A node of a halted run only leads on.
LEMMA SkipStep ==
    ASSUME GraphInv, NEW a \in Agents, Skip(a)
    PROVE  GraphInv'
  <1>1. TypeOK /\ Settled /\ InSuperstep /\ ~Ended
    BY GraphInvParts DEF Skip
  <1>2. /\ a \in running /\ ctx.halt /\ running' = running \ {a}
        /\ next' = next \cup Successors(a, ctx)
        /\ UNCHANGED <<given, ctx, newCtx, steps, stepped, superstep, result>>
    BY DEF Skip, Leave
  <1>3. TypeOK'
    <2>1. next' \subseteq Agents
      BY <1>1, <1>2, EdgesType DEF TypeOK
    <2> QED BY <1>1, <1>2, <2>1 DEF TypeOK, given
  <1>4. Settled' /\ ~Ended'
    BY <1>1, <1>2, SettledStays DEF Ended, NoResult
  <1>5. \A b : Ran(b)' = Ran(b)
    BY <1>2 DEF Ran
  <1>6. ASSUME NEW L, Writes(L) PROVE Writes(L)'
    BY <1>2, <1>6, WritesMore DEF given
  <1>7. InSuperstep'
    <2>1. CASE InLastAnalysis
      <3>1. a \notin {"company_resolver", "validation"}
        BY <1>1, <1>2, <2>1, ListFacts
           DEF InLastAnalysis, InAnalysis, Writes, Followers, Analysts
      <3>2. next' = next \cup Edges(a)
        BY <1>2, <3>1 DEF Successors
      <3>3. PICK L : L = Followers
        OBVIOUS
      <3>4. next' = UNION {Edges(b)' : b \in L \ running'}
        BY <1>2, <2>1, <3>2, <3>3, OneMoreEdge DEF InLastAnalysis, InAnalysis, Writes
      <3>5. InAnalysis(L)'
        BY <1>2, <1>5, <1>6, <2>1, <3>3, <3>4 DEF InLastAnalysis, InAnalysis, Unreviewed
      <3>6. InLastAnalysis'
        BY <1>2, <1>5, <2>1, <3>3, <3>5, GraphStays DEF InLastAnalysis
      <3> QED BY <3>6 DEF InSuperstep
    <2>2. ASSUME NEW i \in DOMAIN lists.sequential, InReview(i)
          PROVE  InReview(i)'
      <3>1. a = lists.sequential[i] /\ running' = {} /\ next = {} /\ newCtx = ctx
        BY <1>2, <2>2 DEF InReview, Writes
      <3>2. next' = Successors(lists.sequential[i], newCtx)'
        <4>1. Successors(a, ctx) = Successors(a, newCtx)'
          <5>1. a # "company_resolver"
            BY <1>1, <3>1, ListFacts
          <5>2. lists' = lists /\ Edges(a)' = Edges(a) /\ RetryNode' = RetryNode
            BY <1>2, GraphStays
          <5> QED BY <1>2, <3>1, <5>1, <5>2 DEF Successors, RouteAfterValidation
        <4> QED BY <1>2, <3>1, <4>1, GraphStays
      <3>3. Writes({lists.sequential[i]})'
        BY <1>2, <1>6, <2>2, GraphStays DEF InReview
      <3>4. Reviewed(i)' /\ Retrying(i)' /\ LimitIsFar(i)' /\ DraftIsSafe(i)'
        BY <1>2, <2>2, <3>1, GraphStays
           DEF InReview, Reviewed, Retrying, LimitIsFar, DraftIsSafe, ReportIsLast
      <3> QED BY <1>2, <1>5, <2>2, <3>1, <3>2, <3>3, <3>4, GraphStays DEF InReview
    <2>3. lists' = lists
      BY <1>2, GraphStays
    <2> QED BY <1>1, <1>2, <2>1, <2>2, <2>3 DEF InSuperstep, InResolver, InFirstAnalysis
  <1> QED BY <1>3, <1>4, <1>7 DEF GraphInv, Settled

\* The step of an agent.
LEMMA AgentStep ==
    ASSUME GraphInv, NEW a \in Agents, NEW ok \in BOOLEAN, RunAgent(a, ok)
    PROVE  GraphInv'
  <1>1. TypeOK /\ Settled /\ InSuperstep /\ ~Ended /\ a \in running
    BY GraphInvParts DEF RunAgent
  <1>2. /\ a # "validation" /\ ~ctx.halt /\ running' = running \ {a}
        /\ UNCHANGED <<given, ctx, steps, superstep, result>>
        /\ stepped' = stepped \cup {[agent |-> a, ok |-> ok]}
        /\ newCtx' \in Contexts
        /\ newCtx'.gate = newCtx.gate /\ newCtx'.attempt = newCtx.attempt
        /\ newCtx'.halt <=> newCtx.halt \/ (~ok /\ ~continueOnError)
        /\ newCtx'.keys = IF ok THEN newCtx.keys \cup OutputKeys(a) ELSE newCtx.keys
        /\ newCtx'.reports = IF ok /\ a = "report" THEN newCtx.reports + 1
                                                   ELSE newCtx.reports
        /\ a # "company_resolver" => /\ newCtx'.found = newCtx.found
                                     /\ next' = next \cup Edges(a)
        /\ a = "company_resolver" /\ newCtx = ctx =>
              next' = next \cup RouteAfterResolver(newCtx')
    BY <1>1, AgentWrites
  <1>3. TypeOK'
    <2>1. next' \subseteq Agents
      <3>1. \E c : next' = next \cup Successors(a, c)
        BY DEF RunAgent, Leave
      <3> QED BY <1>1, <3>1, EdgesType DEF TypeOK
    <2>2. [agent |-> a, ok |-> ok] \in Step
      BY DEF Step
    <2> QED BY <1>1, <1>2, <2>1, <2>2 DEF TypeOK, given
  <1>4. Settled' /\ ~Ended'
    BY <1>1, <1>2, SettledStays DEF Ended, NoResult
  <1>5. \A b : Ran(b)' = Ran(b)
    BY <1>2 DEF Ran
  <1>6. ASSUME NEW L, Writes(L) PROVE Writes(L)'
    BY <1>1, <1>2, <1>6, WritesMore DEF given
  <1>7. ASSUME NEW L, L \subseteq Analysts, InAnalysis(L) PROVE InAnalysis(L)'
    <2>1. a \in L /\ a # "company_resolver" /\ a # "report" /\ OutputKeys(a) = {}
      BY <1>1, <1>7 DEF InAnalysis, Writes, Analysts, OutputKeys
    <2>2. next' = UNION {Edges(b)' : b \in L \ running'}
      BY <1>1, <1>2, <1>7, <2>1, OneMoreEdge DEF InAnalysis, Writes
    <2>3. Unreviewed(newCtx)' /\ newCtx'.found /\ Unreviewed(ctx)' /\ ctx'.found
      BY <1>2, <1>7, <2>1 DEF InAnalysis, Unreviewed
    <2> QED BY <1>2, <1>5, <1>6, <1>7, <2>2, <2>3 DEF InAnalysis
  <1>8. AnalysisStartNodes \subseteq Analysts /\ Followers \subseteq Analysts
    BY <1>1, ListFacts DEF AnalysisStartNodes, Followers
  <1>9. InSuperstep'
    <2>1. CASE InResolver
      <3>1. a = "company_resolver" /\ running' = {} /\ newCtx = ctx /\ next = {}
        BY <1>1, <1>2, <2>1 DEF InResolver, Writes
      <3>2. next' = RouteAfterResolver(newCtx)'
        BY <1>2, <3>1, GraphStays DEF RouteAfterResolver
      <3>3. Unreviewed(newCtx)'
        BY <1>2, <2>1, <3>1 DEF InResolver, Unreviewed, OutputKeys
      <3>4. InResolver'
        BY <1>2, <1>6, <2>1, <3>1, <3>2, <3>3, GraphStays DEF InResolver, Unreviewed
      <3> QED BY <3>4 DEF InSuperstep
    <2>2. CASE InFirstAnalysis
      <3>1. PICK L : L = AnalysisStartNodes
        OBVIOUS
      <3>2. InAnalysis(L)'
        BY <1>7, <1>8, <2>2, <3>1 DEF InFirstAnalysis
      <3>3. InFirstAnalysis'
        BY <1>2, <1>5, <2>2, <3>1, <3>2, GraphStays DEF InFirstAnalysis
      <3> QED BY <3>3 DEF InSuperstep
    <2>3. CASE InLastAnalysis
      <3>1. PICK L : L = Followers
        OBVIOUS
      <3>2. InAnalysis(L)'
        BY <1>7, <1>8, <2>3, <3>1 DEF InLastAnalysis
      <3>3. InLastAnalysis'
        BY <1>2, <1>5, <2>3, <3>1, <3>2, GraphStays DEF InLastAnalysis
      <3> QED BY <3>3 DEF InSuperstep
    <2>4. ASSUME NEW i \in DOMAIN lists.sequential, InReview(i)
          PROVE  InReview(i)'
      <3>1. a = lists.sequential[i] /\ running' = {} /\ next = {} /\ newCtx = ctx
        BY <1>1, <1>2, <2>4 DEF InReview, Writes, Reviewed
      <3>2. a # "company_resolver"
        BY <1>1, <3>1, ListFacts
      <3>3. next' = Successors(lists.sequential[i], newCtx)'
        BY <1>2, <3>1, <3>2, GraphStays DEF Successors
      <3>4. Writes({lists.sequential[i]})'
        BY <1>2, <1>6, <2>4, GraphStays DEF InReview
      <3>5. Reviewed(i)'
        <4>1. /\ newCtx'.gate = ctx'.gate /\ newCtx'.attempt = ctx'.attempt
              /\ newCtx'.found = ctx'.found
              /\ newCtx'.keys = IF newCtx'.halt THEN ctx'.keys ELSE newCtx'.keys
              /\ newCtx'.keys \subseteq ctx'.keys \cup OutputKeys(a)
          BY <1>2, <3>1, <3>2
        <4> QED BY <1>2, <3>1, <4>1, GraphStays DEF Reviewed
      <3>6. Retrying(i)' /\ LimitIsFar(i)' /\ DraftIsSafe(i)'
        BY <1>2, <2>4, <3>1, GraphStays
           DEF InReview, Retrying, LimitIsFar, DraftIsSafe, ReportIsLast
      <3> QED BY <1>2, <1>5, <2>4, <3>1, <3>3, <3>4, <3>5, <3>6, GraphStays DEF InReview
    <2>5. lists' = lists
      BY <1>2, GraphStays
    <2> QED BY <1>1, <2>1, <2>2, <2>3, <2>4, <2>5 DEF InSuperstep
  <1> QED BY <1>3, <1>4, <1>9 DEF GraphInv, Settled

\* The step of validation: the gate answers.
LEMMA ValidationStep ==
    ASSUME GraphInv, NEW ok \in BOOLEAN, NEW verdict \in {"passed", "rejected", "missing"},
           RunValidation(ok, verdict)
    PROVE  GraphInv'
  <1> DEFINE gated == Gate(ctx, ok, verdict)
  <1>1. TypeOK /\ Settled /\ InSuperstep /\ ~Ended /\ "validation" \in running /\ ~ctx.halt
    BY GraphInvParts DEF RunValidation
  <1>2. /\ running' = running \ {"validation"}
        /\ UNCHANGED <<given, ctx, steps, superstep, result>>
        /\ stepped' = stepped \cup {[agent |-> "validation", ok |-> ok]}
        /\ newCtx' = [newCtx EXCEPT !.attempt = gated.attempt, !.gate = gated.gate,
                                    !.judged = gated.judged]
        /\ next' = next \cup Successors("validation", gated)
    BY DEF RunValidation, Leave
  <1>3. PICK i \in DOMAIN lists.sequential :
           InReview(i) /\ lists.sequential[i] = "validation"
    <2>1. ~InResolver
      BY <1>1 DEF InResolver, Writes
    <2>2. ~InFirstAnalysis /\ ~InLastAnalysis
      BY <1>1, ListFacts
         DEF InFirstAnalysis, InLastAnalysis, InAnalysis, Writes, AnalysisStartNodes,
             Followers, Analysts
    <2> QED BY <1>1, <2>1, <2>2 DEF InSuperstep, InReview, Writes
  <1>4. running' = {} /\ next = {} /\ newCtx = ctx
    BY <1>1, <1>2, <1>3 DEF InReview, Writes, Reviewed
  <1>5. newCtx' = gated /\ gated \in Contexts /\ (gated.halt <=> ctx.halt)
    <2>1. ctx \in Contexts
      BY <1>1 DEF TypeOK
    <2>2. PICK g : g \in Gates /\ gated = [ctx EXCEPT !.attempt = ctx.attempt + 1,
                                                      !.judged = ctx.reports, !.gate = g]
      BY DEF Gate, Gates
    <2> HIDE DEF gated
    <2>3. gated \in Contexts /\ (gated.halt <=> ctx.halt)
      <3>1. ctx.attempt + 1 \in Nat /\ ctx.reports \in Nat
        BY <2>1 DEF Contexts
      <3>2. gated \in Contexts
        BY <2>1, <2>2, <3>1, Zenon DEF Contexts
      <3>3. gated.halt <=> ctx.halt
        BY <2>1, <2>2 DEF Contexts
      <3> QED BY <3>2, <3>3
    <2>4. /\ gated.attempt = ctx.attempt + 1 /\ gated.judged = ctx.reports /\ gated.gate = g
      BY <2>1, <2>2 DEF Contexts
    <2>5. newCtx' = gated
      BY <1>2, <1>4, <2>2, <2>4
    <2> QED BY <2>3, <2>5
  <1>6. next' = Successors("validation", newCtx)'
    BY <1>2, <1>4, <1>5, GraphStays DEF Successors, RouteAfterValidation
  <1>7. TypeOK'
    <2>1. next' \subseteq Agents
      BY <1>1, <1>2, EdgesType DEF TypeOK
    <2>2. [agent |-> "validation", ok |-> ok] \in Step
      BY DEF Step, Agents, Reviewers
    <2> QED BY <1>1, <1>2, <1>5, <2>1, <2>2 DEF TypeOK, given
  <1>8. Settled' /\ ~Ended'
    BY <1>1, <1>2, SettledStays DEF Ended, NoResult
  <1>9. \A b : Ran(b)' = Ran(b)
    BY <1>2 DEF Ran
  <1>10. Writes({lists.sequential[i]})'
    <2>1. PICK L : L = {lists.sequential[i]}
      OBVIOUS
    <2>2. newCtx'.halt => newCtx.halt
      BY <1>4, <1>5
    <2>3. Writes(L)'
      BY <1>1, <1>2, <1>3, <2>1, <2>2, WritesMore DEF InReview, given
    <2> QED BY <1>2, <2>1, <2>3, GraphStays
  <1>11. Reviewed(i)'
    <2>1. newCtx' = Gate(ctx, ok, verdict)'
      BY <1>2, <1>5, GraphStays DEF Gate, GatePassed
    <2> QED BY <1>1, <1>2, <1>3, <1>4, <2>1, GraphStays DEF Reviewed
  <1>12. Retrying(i)' /\ LimitIsFar(i)' /\ DraftIsSafe(i)'
    BY <1>2, <1>3, GraphStays
       DEF InReview, Retrying, LimitIsFar, DraftIsSafe, ReportIsLast
  <1>13. InReview(i)' /\ lists' = lists
    BY <1>2, <1>3, <1>4, <1>6, <1>9, <1>10, <1>11, <1>12, GraphStays DEF InReview
  <1> QED BY <1>7, <1>8, <1>13 DEF GraphInv, Settled, InSuperstep
-----------------------------------------------------------------------------
(* The barrier: the steps *)

\* The steps of the superstep come behind the others, each once.
LEMMA StepsAfter ==
    ASSUME TypeOK, OneStepEach, Advance
    PROVE  /\ steps' \in Seq(Step) /\ Len(steps) \in Nat /\ Len(steps') \in Nat
           /\ DOMAIN steps = 1..Len(steps) /\ DOMAIN steps' = 1..Len(steps')
           /\ \A i \in DOMAIN steps : i \in DOMAIN steps' /\ steps'[i] = steps[i]
           /\ \A i \in DOMAIN steps' : i \notin DOMAIN steps =>
                 i > Len(steps) /\ steps'[i] \in stepped
           /\ \A x \in stepped : \E i \in DOMAIN steps' : i > Len(steps) /\ steps'[i] = x
           /\ \A i, k \in DOMAIN steps' :
                 i > Len(steps) /\ k > Len(steps) /\ steps'[i].agent = steps'[k].agent => i = k
           /\ stepped = {} => steps' = steps
           /\ \A x \in stepped : stepped = {x} =>
                 steps' # <<>> /\ steps'[Len(steps')] = x
  <1> DEFINE n == Len(steps)
             m == Merged
  <1>1. Holds(m, Agents) /\ steps' = steps \o m /\ steps \in Seq(Step)
    BY MergedHolds DEF TypeOK, Advance
  <1>2. m \in Seq(Step) /\ Len(m) \in Nat /\ n \in Nat /\ DOMAIN m = 1..Len(m)
        /\ DOMAIN steps = 1..n
    BY <1>1 DEF Holds
  <1> HIDE DEF m
  <1>3. /\ steps' \in Seq(Step) /\ Len(steps') = n + Len(m) /\ DOMAIN steps' = 1..(n + Len(m))
        /\ \A i \in 1..n : steps'[i] = steps[i]
        /\ \A i \in 1..Len(m) : steps'[n + i] = m[i]
    BY <1>1, <1>2
  <1>4. \A i \in DOMAIN steps : i \in DOMAIN steps' /\ steps'[i] = steps[i]
    BY <1>2, <1>3
  <1>5. ASSUME NEW i \in DOMAIN steps', i > n
        PROVE  i - n \in DOMAIN m /\ steps'[i] = m[i - n] /\ m[i - n] \in stepped
    <2>1. i - n \in 1..Len(m) /\ n + (i - n) = i
      BY <1>2, <1>3, <1>5
    <2> QED BY <1>1, <1>2, <1>3, <2>1 DEF Holds
  <1>6. \A i \in DOMAIN steps' : i \notin DOMAIN steps => i > n /\ steps'[i] \in stepped
    BY <1>2, <1>3, <1>5
  <1>7. ASSUME NEW x \in stepped PROVE \E i \in DOMAIN steps' : i > n /\ steps'[i] = x
    <2>1. x.agent \in Agents
      BY DEF TypeOK, Step
    <2>2. PICK k \in DOMAIN m : m[k] = x
      BY <1>1, <2>1 DEF Holds
    <2>3. n + k \in DOMAIN steps' /\ n + k > n /\ steps'[n + k] = x
      BY <1>2, <1>3, <2>2
    <2> QED BY <2>3
  <1>8. ASSUME NEW i \in DOMAIN steps', NEW k \in DOMAIN steps', i > n, k > n,
               steps'[i].agent = steps'[k].agent
        PROVE  i = k
    <2>1. i - n = k - n
      BY <1>1, <1>5, <1>8 DEF Holds
    <2> QED BY <1>2, <1>3, <2>1
  <1>9. ASSUME stepped = {} PROVE steps' = steps
    <2>1. \A i \in 1..Len(m) : FALSE
      BY <1>1, <1>2, <1>9 DEF Holds
    <2>2. m = <<>>
      BY <1>2, <2>1
    <2> QED BY <1>1, <2>2
  <1>10. ASSUME NEW x \in stepped, stepped = {x}
         PROVE  steps' # <<>> /\ steps'[Len(steps')] = x
    <2>1. PICK k \in DOMAIN steps' : k > n /\ steps'[k] = x
      BY <1>7
    <2>2. Len(steps') \in DOMAIN steps' /\ Len(steps') > n
      BY <1>2, <1>3, <2>1
    <2>3. steps'[Len(steps')] \in stepped
      BY <1>5, <2>2
    <2> QED BY <1>10, <2>2, <2>3
  <1> QED BY <1>2, <1>3, <1>4, <1>6, <1>7, <1>8, <1>9, <1>10

LEMMA RanAfter ==
    ASSUME TypeOK, OneStepEach, Advance, NEW a
    PROVE  Ran(a)' <=> Ran(a) \/ \E x \in stepped : x.agent = a
  <1>1. ASSUME Ran(a) PROVE Ran(a)'
    BY <1>1, StepsAfter DEF Ran
  <1>2. ASSUME NEW x \in stepped, x.agent = a PROVE Ran(a)'
    BY <1>2, StepsAfter DEF Ran
  <1>3. ASSUME Ran(a)' PROVE Ran(a) \/ \E x \in stepped : x.agent = a
    <2>1. PICK i \in DOMAIN steps' : steps'[i].agent = a
      BY <1>3 DEF Ran
    <2>2. CASE i \in DOMAIN steps
      BY <2>1, <2>2, StepsAfter DEF Ran
    <2>3. CASE i \notin DOMAIN steps
      BY <2>1, <2>3, StepsAfter
    <2> QED BY <2>2, <2>3
  <1> QED BY <1>1, <1>2, <1>3

\* Every agent that ran has a last step.
HaveLast == \A a \in Agents : Ran(a) =>
               \E i \in DOMAIN steps : /\ steps[i].agent = a
                                       /\ \A k \in DOMAIN steps : steps[k].agent = a => k <= i

LEMMA LastAfter ==
    ASSUME TypeOK, OneStepEach, Advance, HaveLast
    PROVE  HaveLast'
  <1> SUFFICES ASSUME NEW a \in Agents, Ran(a)'
               PROVE  \E i \in DOMAIN steps' :
                         /\ steps'[i].agent = a
                         /\ \A k \in DOMAIN steps' : steps'[k].agent = a => k <= i
    BY DEF HaveLast
  <1>1. ASSUME NEW x \in stepped, x.agent = a
        PROVE  \E i \in DOMAIN steps' :
                  /\ steps'[i].agent = a
                  /\ \A k \in DOMAIN steps' : steps'[k].agent = a => k <= i
    <2>1. PICK i \in DOMAIN steps' : i > Len(steps) /\ steps'[i] = x
      BY StepsAfter
    <2>2. \A k \in DOMAIN steps' : steps'[k].agent = a => k <= i
      <3> SUFFICES ASSUME NEW k \in DOMAIN steps', steps'[k].agent = a PROVE k <= i
        OBVIOUS
      <3>1. CASE k > Len(steps)
        BY <1>1, <2>1, <3>1, StepsAfter
      <3>2. CASE ~(k > Len(steps))
        BY <2>1, <3>2, StepsAfter
      <3> QED BY <3>1, <3>2
    <2> QED BY <1>1, <2>1, <2>2
  <1>2. ASSUME \A x \in stepped : x.agent # a
        PROVE  \E i \in DOMAIN steps' :
                  /\ steps'[i].agent = a
                  /\ \A k \in DOMAIN steps' : steps'[k].agent = a => k <= i
    <2>1. Ran(a)
      BY <1>2, RanAfter
    <2>2. PICK i \in DOMAIN steps : /\ steps[i].agent = a
                                    /\ \A k \in DOMAIN steps : steps[k].agent = a => k <= i
      BY <2>1 DEF HaveLast
    <2>3. \A k \in DOMAIN steps' : steps'[k].agent = a => k \in DOMAIN steps
      BY <1>2, StepsAfter
    <2> QED BY <2>2, <2>3, StepsAfter
  <1> QED BY <1>1, <1>2

\* One more validation, or none.
LEMMA ValidationsAfter ==
    ASSUME TypeOK, OneStepEach, Advance
    PROVE  Cardinality({i \in DOMAIN steps' : steps'[i].agent = "validation"}) =
              Cardinality({i \in DOMAIN steps : steps[i].agent = "validation"}) +
                 IF \E x \in stepped : x.agent = "validation" THEN 1 ELSE 0
  <1> DEFINE V == {i \in DOMAIN steps : steps[i].agent = "validation"}
             W == {i \in DOMAIN steps' : steps'[i].agent = "validation"}
  <1>1. IsFiniteSet(V) /\ Cardinality(V) \in Nat
    <2>1. IsFiniteSet(1..Len(steps)) /\ V \in SUBSET (1..Len(steps))
      BY StepsAfter, FS_Interval
    <2> QED BY <2>1, FS_Subset, FS_CardinalityType
  <1>2. CASE \E x \in stepped : x.agent = "validation"
    <2>1. PICK x \in stepped : x.agent = "validation"
      BY <1>2
    <2>2. PICK k \in DOMAIN steps' : k > Len(steps) /\ steps'[k] = x
      BY StepsAfter
    <2>3. k \notin V
      BY <2>2, StepsAfter
    <2>4. W = V \cup {k}
      <3>1. \A i \in W : i \in V \/ i = k
        BY <2>1, <2>2, StepsAfter
      <3>2. k \in W /\ \A i \in V : i \in W
        BY <2>1, <2>2, StepsAfter
      <3> QED BY <3>1, <3>2
    <2> HIDE DEF V, W
    <2> QED BY <1>1, <1>2, <2>3, <2>4, FS_AddElement DEF V, W
  <1>3. CASE ~\E x \in stepped : x.agent = "validation"
    <2>1. \A i : i \in W <=> i \in V
      BY <1>3, StepsAfter
    <2>2. W = V
      BY <2>1
    <2>3. Cardinality(W) = Cardinality(V) + 0
      <3> HIDE DEF V, W
      <3> QED BY <1>1, <2>2
    <2> QED BY <1>3, <2>3
  <1> QED BY <1>2, <1>3
-----------------------------------------------------------------------------
(* The barrier: what the ended nodes have left *)

\* What is known of a superstep all of whose nodes have ended, wherever it was.
AtBarrier ==
    /\ OneStepEach
    /\ newCtx.attempt = ctx.attempt +
          IF \E x \in stepped : x.agent = "validation" THEN 1 ELSE 0
    /\ newCtx.attempt <= 1 + RetryAttempts
    /\ newCtx.halt => /\ ~continueOnError
                      /\ ctx.halt \/ \E x \in stepped : ~x.ok /\ x.agent # "validation"
    /\ \A x \in stepped : x.agent \in Analysts \cup {"decision"} => ~Ran(x.agent)
    /\ \A x \in stepped : x.agent \in Reviewers => \A a \in lists.parallel : Ran(a)

LEMMA BarrierReached ==
    ASSUME TypeOK, StepsSound, InSuperstep, running = {}
    PROVE  AtBarrier
  <1>1. RetryAttempts \in 0..3 /\ ctx.attempt \in Nat /\ newCtx.attempt \in Nat
    BY RetriesBounded DEF TypeOK, Contexts
  <1>2. ASSUME NEW L, Writes(L)
        PROVE  /\ OneStepEach
               /\ newCtx.halt => /\ ~continueOnError
                                 /\ ctx.halt \/ \E x \in stepped : ~x.ok /\ x.agent # "validation"
               /\ \A x \in stepped : x.agent \in L
    <2>1. CASE ctx.halt
      BY <1>2, <2>1 DEF Writes, OneStepEach
    <2>2. CASE ~ctx.halt
      <3>1. {s.agent : s \in stepped} = L \ running
        BY <1>2, <2>2 DEF Writes
      <3>2. \A x \in stepped : x.agent \in L
        BY <3>1
      <3> QED BY <1>2, <2>2, <3>2 DEF Writes, OneStepEach
    <2> QED BY <2>1, <2>2
  <1>3. CASE InResolver
    <2>1. \A x \in stepped : x.agent = "company_resolver"
      BY <1>2, <1>3 DEF InResolver
    <2> QED BY <1>1, <1>2, <1>3, <2>1, ListFacts DEF InResolver, AtBarrier, Unreviewed, Reviewers
  <1>4. ASSUME NEW L, L \subseteq lists.parallel, InAnalysis(L) PROVE AtBarrier
    <2>1. \A x \in stepped : x.agent \in L /\ x.agent \in Analysts
      BY <1>2, <1>4, ListFacts DEF InAnalysis
    <2>2. \A x \in stepped : x.agent \notin Reviewers /\ x.agent # "validation"
      BY <2>1 DEF Reviewers, Analysts
    <2>3. newCtx.attempt = 0 /\ ctx.attempt = 0 /\ \A x \in stepped : ~Ran(x.agent)
      BY <1>4, <2>1 DEF InAnalysis, Unreviewed
    <2>4. Writes(L)
      BY <1>4 DEF InAnalysis
    <2> QED BY <1>1, <1>2, <2>2, <2>3, <2>4 DEF AtBarrier
  <1>5. ASSUME NEW i \in DOMAIN lists.sequential, InReview(i) PROVE AtBarrier
    <2> DEFINE a == lists.sequential[i]
    <2>1. \A x \in stepped : x.agent = a
      BY <1>2, <1>5 DEF InReview
    <2>2. a \in Reviewers /\ a \notin Analysts
      BY ListFacts
    <2>3. \A x \in stepped : x.agent \in Analysts \cup {"decision"} => ~Ran(x.agent)
      BY <1>5, <2>1, <2>2, ListFacts DEF InReview
    <2>4. \A x \in stepped : \A b \in lists.parallel : Ran(b)
      BY <1>5 DEF InReview, Writes
    <2>5. newCtx.attempt = ctx.attempt + IF \E x \in stepped : x.agent = "validation" THEN 1
                                                                                      ELSE 0
      <3>1. CASE ctx.halt
        BY <1>1, <1>5, <3>1 DEF InReview, Writes
      <3>2. CASE ~ctx.halt /\ a = "validation"
        <4>1. "validation" \in {s.agent : s \in stepped}
          BY <1>5, <3>2 DEF InReview, Writes
        <4>2. newCtx.attempt = ctx.attempt + 1
          BY <1>5, <3>2 DEF InReview, Reviewed, Gate, TypeOK, Contexts
        <4> QED BY <4>1, <4>2
      <3>3. CASE ~ctx.halt /\ a # "validation"
        BY <1>1, <1>5, <2>1, <3>3 DEF InReview, Reviewed
      <3> QED BY <3>1, <3>2, <3>3
    <2>6. ctx.attempt <= RetryAttempts
      BY <1>1, <1>5 DEF InReview, Retrying
    <2> QED BY <1>1, <1>2, <1>5, <2>3, <2>4, <2>5, <2>6 DEF AtBarrier, InReview
  <1>6. AnalysisStartNodes \subseteq lists.parallel /\ Followers \subseteq lists.parallel
    BY DEF AnalysisStartNodes, Followers
  <1> QED BY <1>3, <1>4, <1>5, <1>6 DEF InSuperstep, InFirstAnalysis, InLastAnalysis

LEMMA StepsSoundAfter ==
    ASSUME TypeOK, StepsSound, AtBarrier, Advance
    PROVE  StepsSound'
  <1>1. OneStepEach /\ HaveLast /\ UNCHANGED given /\ ctx' = newCtx
    BY DEF AtBarrier, StepsSound, HaveLast, Advance
  <1>2. HaveLast'
    BY <1>1, LastAfter
  <1>3. Cardinality({i \in DOMAIN steps' : steps'[i].agent = "validation"}) = ctx'.attempt
    BY <1>1, ValidationsAfter DEF AtBarrier, StepsSound
  <1>4. ctx'.attempt <= 1 + RetryAttempts'
    BY <1>1, GraphStays DEF AtBarrier
  <1>5. ASSUME ctx'.halt
        PROVE  \E i \in DOMAIN steps' : ~steps'[i].ok /\ steps'[i].agent # "validation"
    <2>1. CASE ctx.halt
      BY <1>1, <2>1, StepsAfter DEF StepsSound
    <2>2. CASE ~ctx.halt
      <3>1. PICK x \in stepped : ~x.ok /\ x.agent # "validation"
        BY <1>1, <1>5, <2>2 DEF AtBarrier
      <3> QED BY <1>1, <3>1, StepsAfter
    <2> QED BY <2>1, <2>2
  <1> QED BY <1>2, <1>3, <1>4, <1>5 DEF StepsSound, HaveLast

LEMMA ReviewAfterAfter ==
    ASSUME TypeOK, ReviewAfterAnalysis, AtBarrier, Advance
    PROVE  ReviewAfterAnalysis'
  <1>1. OneStepEach /\ lists' = lists
    BY DEF AtBarrier, Advance, given
  <1>2. ASSUME NEW r \in Reviewers, Ran(r)', NEW a \in lists.parallel PROVE Ran(a)'
    BY <1>1, <1>2, RanAfter DEF ReviewAfterAnalysis, AtBarrier
  <1>3. ASSUME NEW i \in DOMAIN steps', NEW k \in DOMAIN steps',
               steps'[i].agent = steps'[k].agent,
               steps'[i].agent \in Analysts \cup {"decision"}
        PROVE  i = k
    <2>1. CASE i \in DOMAIN steps /\ k \in DOMAIN steps
      BY <1>1, <1>3, <2>1, StepsAfter DEF ReviewAfterAnalysis
    <2>2. CASE i \notin DOMAIN steps /\ k \notin DOMAIN steps
      BY <1>1, <1>3, <2>2, StepsAfter
    <2>3. CASE i \in DOMAIN steps /\ k \notin DOMAIN steps
      BY <1>1, <1>3, <2>3, StepsAfter DEF AtBarrier, Ran
    <2>4. CASE i \notin DOMAIN steps /\ k \in DOMAIN steps
      BY <1>1, <1>3, <2>4, StepsAfter DEF AtBarrier, Ran
    <2> QED BY <2>1, <2>2, <2>3, <2>4
  <1> QED BY <1>1, <1>2, <1>3 DEF ReviewAfterAnalysis
-----------------------------------------------------------------------------
(* The barrier: the end of a run *)

\* Where a run ends that has not been blocked, and what it then has.
LEMMA EndReached ==
    ASSUME TypeOK, Layered(lists), InSuperstep, AtBarrier, Advance, next = {}
    PROVE  /\ ReportIsLast(lists) /\ Validates /\ newCtx.found /\ newCtx.gate # "blocked" =>
                 \/ newCtx.gate = "passed" /\ newCtx.judged = newCtx.reports
                 \/ "report" \notin newCtx.keys /\ ~(continueOnError /\ newCtx.keys # {})
           /\ ~newCtx.found => newCtx.keys = {}
           /\ newCtx.found /\ ~newCtx.halt /\ newCtx.gate # "blocked" =>
                 /\ \A a \in lists.parallel \cup {lists.sequential[i] : i \in DOMAIN lists.sequential} :
                       Ran(a)'
                 /\ Validates => newCtx.gate = "passed"
  <1>1. running = {} /\ OneStepEach
    BY DEF Advance, AtBarrier
  <1>2. First = {} => lists.sequential = <<>> /\ DOMAIN lists.sequential = {} /\ ~Validates
    BY ListFacts DEF First, Validates, Last
  <1>3. CASE InResolver
    <2>1. newCtx.keys = {}
      BY <1>3 DEF InResolver, Unreviewed
    <2>2. newCtx.found /\ ~newCtx.halt => StartNodes = {}
      BY <1>1, <1>3 DEF InResolver, RouteAfterResolver
    <2>3. StartNodes = {} => AnalysisStartNodes = {} /\ First = {}
      BY DEF StartNodes
    <2>4. AnalysisStartNodes = {} => lists.parallel = {}
      BY EdgesOfAnalysts
    <2> QED BY <1>2, <2>1, <2>2, <2>3, <2>4
  <1>4. ASSUME NEW L, InAnalysis(L), ~newCtx.halt, NEW a \in L PROVE Ran(a)'
    <2>1. {s.agent : s \in stepped} = L
      BY <1>1, <1>4 DEF InAnalysis, Writes
    <2> QED BY <1>1, <1>4, <2>1, RanAfter
  <1>5. CASE InFirstAnalysis
    <2>1. next = UNION {Edges(a) : a \in AnalysisStartNodes} /\ AnalysisStartNodes # {}
      BY <1>1, <1>5 DEF InFirstAnalysis, InAnalysis, Writes
    <2>2. Followers = {} /\ First = {}
      BY <2>1, EdgesOfAnalysts
    <2>3. newCtx.keys = {} /\ newCtx.found
      BY <1>5 DEF InFirstAnalysis, InAnalysis, Unreviewed
    <2>4. lists.parallel = AnalysisStartNodes
      BY <2>2, EdgesOfAnalysts
    <2>5. ~newCtx.halt => \A a \in lists.parallel : Ran(a)'
      BY <1>4, <1>5, <2>4 DEF InFirstAnalysis
    <2> QED BY <1>2, <2>2, <2>3, <2>5
  <1>6. CASE InLastAnalysis
    <2>1. next = UNION {Edges(a) : a \in Followers} /\ Followers # {}
      BY <1>1, <1>6 DEF InLastAnalysis, InAnalysis, Writes
    <2>2. First = {}
      BY <2>1, EdgesOfAnalysts
    <2>3. newCtx.keys = {} /\ newCtx.found
      BY <1>6 DEF InLastAnalysis, InAnalysis, Unreviewed
    <2>4. ~newCtx.halt => \A a \in Followers : Ran(a)'
      BY <1>4, <1>6 DEF InLastAnalysis
    <2>5. ~newCtx.halt => \A a \in AnalysisStartNodes : Ran(a)'
      BY <1>1, <1>6, RanAfter DEF InLastAnalysis, InAnalysis, Writes
    <2> QED BY <1>2, <2>2, <2>3, <2>4, <2>5, EdgesOfAnalysts
  <1>7. ASSUME NEW i \in DOMAIN lists.sequential, InReview(i)
        PROVE  /\ newCtx.found
               /\ ReportIsLast(lists) /\ Validates /\ newCtx.gate # "blocked" =>
                     \/ newCtx.gate = "passed" /\ newCtx.judged = newCtx.reports
                     \/ "report" \notin newCtx.keys /\ ~continueOnError
               /\ ~newCtx.halt /\ newCtx.gate # "blocked" =>
                     /\ \A a \in lists.parallel \cup {lists.sequential[k] : k \in DOMAIN lists.sequential} :
                           Ran(a)'
                     /\ Validates => newCtx.gate = "passed"
    <2> DEFINE s == lists.sequential
    <2>1. next = Successors(s[i], newCtx) /\ s[i] # "company_resolver"
      BY <1>1, <1>7, ListFacts DEF InReview
    <2>2. RetryAttempts \in 0..3 /\ (RetryAttempts > 0 => RetryNode # {})
      BY RetriesBounded
    <2>3. i = Len(s)
      <3>1. CASE s[i] = "validation"
        BY <3>1, ListFacts
      <3>2. CASE s[i] # "validation"
        <4>1. Edges(s[i]) = {}
          BY <2>1, <3>2 DEF Successors
        <4>2. ~(i < Len(s))
          BY <4>1, EdgesOfReviewer
        <4> QED BY <4>2, ListFacts
      <3> QED BY <3>1, <3>2
    <2>4. s[i] = "validation" <=> Validates
      BY <2>3, ValidatesIs
    <2>5. ASSUME Validates
          PROVE  \/ ctx.halt /\ newCtx = ctx /\ ctx.gate = "none"
                 \/ ~ctx.halt /\ newCtx.gate = "passed" /\ newCtx.judged = newCtx.reports
                 \/ ~ctx.halt /\ newCtx.gate = "blocked"
      <3>1. newCtx.gate # "retrying" \/ RetryNode = {}
        BY <2>1, <2>4, <2>5 DEF Successors, RouteAfterValidation
      <3>2. CASE ctx.halt
        <4>1. newCtx = ctx
          BY <1>7, <3>2 DEF InReview, Writes
        <4>2. ctx.gate # "retrying"
          BY <1>7, <2>2, <3>1, <4>1 DEF InReview, Retrying
        <4> QED BY <1>7, <3>2, <4>1, <4>2 DEF InReview
      <3>3. CASE ~ctx.halt
        <4>1. PICK ok \in BOOLEAN, verdict \in {"passed", "rejected", "missing"} :
                 newCtx = Gate(ctx, ok, verdict)
          BY <1>1, <1>7, <2>4, <2>5, <3>3 DEF InReview, Reviewed
        <4>2. /\ newCtx.judged = ctx.reports /\ newCtx.reports = ctx.reports
              /\ newCtx.attempt = ctx.attempt + 1 /\ ctx.attempt \in Nat
              /\ newCtx.gate = IF GatePassed(ok, verdict) THEN "passed"
                               ELSE IF ctx.attempt + 1 <= RetryAttempts THEN "retrying"
                               ELSE "blocked"
          BY <4>1 DEF Gate, TypeOK, Contexts
        <4>3. newCtx.gate # "retrying"
          BY <2>2, <3>1, <4>2
        <4> QED BY <3>3, <4>2, <4>3
      <3> QED BY <3>2, <3>3
    <2>6. newCtx.found
      <3>1. CASE ctx.halt
        BY <1>7, <3>1 DEF InReview, Writes
      <3>2. CASE ~ctx.halt /\ s[i] = "validation"
        BY <1>1, <1>7, <3>2 DEF InReview, Reviewed, Gate, TypeOK, Contexts
      <3>3. CASE ~ctx.halt /\ s[i] # "validation"
        BY <1>1, <1>7, <3>3 DEF InReview, Reviewed
      <3> QED BY <3>1, <3>2, <3>3
    <2>7. ASSUME ReportIsLast(lists), Validates, ctx.halt, newCtx = ctx, ctx.gate = "none"
          PROVE  "report" \notin newCtx.keys /\ ~continueOnError
      BY <1>7, <2>7 DEF InReview, DraftIsSafe, AtBarrier
    <2>8. ASSUME ~newCtx.halt
          PROVE  \A a \in lists.parallel \cup {s[k] : k \in DOMAIN s} : Ran(a)'
      <3>1. ~ctx.halt
        BY <1>7, <2>8 DEF InReview, Writes
      <3>2. {x.agent : x \in stepped} = {s[i]}
        BY <1>1, <1>7, <3>1 DEF InReview, Writes
      <3>3. PICK r : r = s[i] /\ Ran(r)'
        <4>1. PICK r : r = s[i]
          OBVIOUS
        <4>2. \E x \in stepped : x.agent = r
          BY <3>2, <4>1
        <4> QED BY <1>1, <4>1, <4>2, RanAfter
      <3>4. \A a \in lists.parallel : Ran(a)'
        BY <1>1, <1>7, <3>1, RanAfter DEF InReview
      <3>5. ASSUME NEW k \in 1..i - 1, NEW a, a = s[k] PROVE Ran(a)'
        <4>1. Ran(a)
          BY <1>7, <3>1, <3>5 DEF InReview
        <4> QED BY <1>1, <4>1, RanAfter
      <3>6. \A k \in DOMAIN s : k \in 1..i - 1 \/ k = i
        BY <2>3, ListFacts
      <3> QED BY <3>3, <3>4, <3>5, <3>6
    <2> QED BY <2>5, <2>6, <2>7, <2>8
  <1> QED BY <1>3, <1>5, <1>6, <1>7 DEF InSuperstep

\* The result of a run that ends.
LEMMA ResultSound ==
    ASSUME TypeOK, Layered(lists), InSuperstep, AtBarrier, Advance, next = {}, StepsSound',
           newCtx \in Contexts, result' = BuildResult(newCtx, steps')
    PROVE  /\ result' \in Results /\ result'.status \notin {"none", "recursion_limit"}
           /\ SuccessIsComplete' /\ (ReportIsLast(lists) => ReportNeedsGate)'
  <1> DEFINE Eff == EffectiveSteps(newCtx, steps')
  <1>1. UNCHANGED given /\ ctx' = newCtx /\ OneStepEach
    BY DEF Advance, AtBarrier
  <1>2. \/ /\ ~newCtx.found
           /\ result' = [status |-> "not_target", code |-> "COMPANY_NOT_FOUND",
                         keys |-> newCtx.keys]
        \/ /\ newCtx.found /\ newCtx.gate = "blocked"
           /\ result' = [status |-> "failed", code |-> "VALIDATION_FAILED",
                         keys |-> newCtx.keys \ BlockedResultKeys]
        \/ /\ newCtx.found /\ newCtx.gate # "blocked"
           /\ result' = [status |-> DeriveStatus(Eff, steps'), code |-> "none",
                         keys |-> newCtx.keys]
    BY DEF BuildResult
  <1>3. DeriveStatus(Eff, steps') \in {"not_started", "success", "failed", "partial"}
    BY DEF DeriveStatus
  <1>4. newCtx.keys \subseteq JudgementKeys
    BY DEF Contexts
  <1>5. result' \in Results /\ result'.status \notin {"none", "recursion_limit"}
    <2> HIDE DEF Eff
    <2> QED BY <1>2, <1>3, <1>4 DEF Results, Statuses
  <1>6. (ReportIsLast(lists) => ReportNeedsGate)'
    <2> SUFFICES ASSUME ReportIsLast(lists), Validates,
                        "report" \in result'.keys \/ (continueOnError /\ "decision" \in result'.keys)
                 PROVE  newCtx.gate = "passed" /\ newCtx.judged = newCtx.reports
      BY <1>1, GraphStays DEF ReportNeedsGate, ReportIsLast
    <2>1. newCtx.found /\ newCtx.gate # "blocked" /\ result'.keys = newCtx.keys
      BY <1>2, EndReached DEF BlockedResultKeys
    <2> QED BY <2>1, EndReached
  <1>7. SuccessIsComplete'
    <2> SUFFICES ASSUME result'.status = "success"
                 PROVE  /\ \A a \in lists.parallel \cup
                                    {lists.sequential[i] : i \in DOMAIN lists.sequential} :
                              RanWell(a)'
                        /\ Validates => newCtx.gate = "passed"
      BY <1>1, GraphStays DEF SuccessIsComplete
    <2>1. /\ newCtx.found /\ newCtx.gate # "blocked"
          /\ \A i \in Eff : steps'[i].ok
      BY <1>2 DEF DeriveStatus
    <2>2. \A i \in DOMAIN steps' : steps'[i].agent # "validation" => i \in Eff
      BY DEF EffectiveSteps
    <2>3. ~newCtx.halt
      BY <1>1, <2>1, <2>2 DEF StepsSound
    <2>4. /\ \A a \in lists.parallel \cup
                     {lists.sequential[i] : i \in DOMAIN lists.sequential} : Ran(a)'
          /\ Validates => newCtx.gate = "passed"
      BY <2>1, <2>3, EndReached
    <2>5. ASSUME NEW a \in Agents, Ran(a)' PROVE RanWell(a)'
      <3>1. PICK i \in DOMAIN steps' :
               /\ steps'[i].agent = a
               /\ \A k \in DOMAIN steps' : steps'[k].agent = a => k <= i
        BY <2>5 DEF StepsSound
      <3>2. i \in Eff
        BY <2>2, <3>1 DEF EffectiveSteps
      <3>3. steps'[i] \in Step /\ steps'[i].ok
        BY <1>1, <2>1, <3>1, <3>2, StepsAfter
      <3>4. steps'[i] = [agent |-> a, ok |-> TRUE]
        BY <3>1, <3>3 DEF Step
      <3> QED BY <3>1, <3>4 DEF RanWell
    <2>6. \A i \in DOMAIN lists.sequential : lists.sequential[i] \in Agents
      BY ListFacts DEF Agents
    <2>7. lists.parallel \subseteq Agents
      BY ListFacts DEF Agents
    <2> QED BY <2>4, <2>5, <2>6, <2>7
  <1> QED BY <1>5, <1>6, <1>7

\* The only run that is still going at the limit.
LEMMA LimitReached ==
    ASSUME TypeOK, InSuperstep, AtBarrier, Advance, next # {}, RecursionLimit >= 12,
           superstep = RecursionLimit
    PROVE  /\ ~continueOnError /\ newCtx.halt /\ newCtx.gate = "retrying"
           /\ steps'[Len(steps')] = [agent |-> "report", ok |-> FALSE]
  <1>0. superstep \in Nat /\ superstep >= 12 /\ ~(superstep <= 3) /\ superstep # 1
    BY LimitAssumption DEF TypeOK
  <1>1. PICK i \in DOMAIN lists.sequential : InReview(i)
    BY <1>0 DEF InSuperstep, InResolver, InFirstAnalysis, InLastAnalysis
  <1>2. running = {} /\ OneStepEach
    BY DEF Advance, AtBarrier
  <1>3. CASE ctx.halt /\ ctx.gate = "retrying"
    <2>1. newCtx = ctx /\ stepped = {} /\ ~continueOnError
      BY <1>1, <1>3 DEF InReview, Writes
    <2>2. steps' = steps
      BY <1>2, <2>1, StepsAfter
    <2> QED BY <1>1, <1>3, <2>1, <2>2 DEF InReview, LimitIsFar
  <1>4. CASE ~(ctx.halt /\ ctx.gate = "retrying")
    <2> DEFINE s == lists.sequential
    <2>1. RetryAttempts \in 0..3 /\ ctx.attempt \in Nat /\ i \in 1..3 /\ Len(s) \in 1..3
          /\ i <= Len(s)
      <3>1. RetryAttempts \in 0..3 /\ ctx.attempt \in Nat
        BY RetriesBounded DEF TypeOK, Contexts
      <3>2. Len(s) \in Nat /\ Len(s) <= 3 /\ i \in 1..Len(s)
        BY ThreeReviewers, ListFacts
      <3>3. \A n \in Nat : n <= 3 /\ i \in 1..n => i \in 1..3 /\ n \in 1..3 /\ i <= n
        OBVIOUS
      <3> QED BY <3>1, <3>2, <3>3
    <2>2. 3 + i + 2 * ctx.attempt >= 12
      <3>1. superstep <= 3 + i + 2 * ctx.attempt
        BY <1>1, <1>4 DEF InReview, LimitIsFar
      <3> QED BY <1>0, <2>1, <3>1
    <2>3. ctx.gate = "retrying" /\ ctx.attempt = 3 /\ RetryAttempts = 3 /\ ~ctx.halt
      <3>1. ctx.attempt >= 3
        BY <2>1, <2>2
      <3>2. ctx.gate = "retrying"
        BY <1>1, <3>1, <2>1 DEF InReview, Retrying
      <3> QED BY <1>1, <1>4, <2>1, <3>1, <3>2 DEF InReview, Retrying
    <2>4. i = 3 /\ Len(s) = 3
      BY <2>1, <2>2, <2>3
    <2>5. next = Successors(s[i], newCtx) /\ s[i] # "company_resolver"
      BY <1>1, <1>2, ListFacts DEF InReview
    <2>6. s[i] = "validation"
      <3> SUFFICES ASSUME s[i] # "validation" PROVE FALSE
        OBVIOUS
      <3>1. next = Edges(s[i])
        BY <2>5 DEF Successors
      <3>2. ~(i < Len(s))
        BY <2>4
      <3>3. Edges(s[i]) = {}
        BY <3>2, EdgesOfReviewer
      <3> QED BY <3>1, <3>3
    <2>7. newCtx.gate # "retrying"
      <3>1. PICK ok \in BOOLEAN, verdict \in {"passed", "rejected", "missing"} :
               newCtx = Gate(ctx, ok, verdict)
        BY <1>1, <1>2, <2>3, <2>6 DEF InReview, Reviewed
      <3>2. newCtx.gate = IF GatePassed(ok, verdict) THEN "passed"
                          ELSE IF ctx.attempt + 1 <= RetryAttempts THEN "retrying"
                          ELSE "blocked"
        BY <3>1 DEF Gate, TypeOK, Contexts
      <3> QED BY <2>3, <3>2
    <2> QED BY <2>5, <2>6, <2>7 DEF Successors, RouteAfterValidation
  <1> QED BY <1>3, <1>4
-----------------------------------------------------------------------------
(* The barrier: the next superstep *)

\* A new superstep: nothing of it has ended.
GoesOn == Advance /\ next # {} /\ running' = next /\ superstep' = superstep + 1

LEMMA FreshSuperstep ==
    ASSUME AtBarrier, GoesOn
    PROVE  /\ running' = next /\ next' = {} /\ stepped' = {} /\ newCtx' = newCtx /\ ctx' = newCtx
           /\ UNCHANGED given
           /\ \A L : L = next => Writes(L)'
  <1>1. /\ running' = next /\ next' = {} /\ stepped' = {} /\ newCtx' = newCtx /\ ctx' = newCtx
        /\ UNCHANGED given /\ UNCHANGED continueOnError
    BY DEF GoesOn, Advance, given
  <1>2. ASSUME NEW L, L = next PROVE Writes(L)'
    BY <1>1, <1>2 DEF AtBarrier, GoesOn, Writes
  <1> QED BY <1>1, <1>2

\* The first reviewer begins.
LEMMA FirstReview ==
    ASSUME TypeOK, AtBarrier, GoesOn, next = First, Unreviewed(newCtx), newCtx.found,
           superstep <= 3, ~Ran("decision"), \A x \in stepped : x.agent # "decision",
           ~newCtx.halt => \A a \in lists.parallel : Ran(a)'
    PROVE  InSuperstep'
  <1>1. /\ running' = next /\ next' = {} /\ stepped' = {} /\ newCtx' = newCtx /\ ctx' = newCtx
        /\ UNCHANGED given /\ superstep' = superstep + 1 /\ running' # {}
    BY FreshSuperstep DEF GoesOn
  <1>2. 1 \in DOMAIN lists.sequential /\ next = {lists.sequential[1]} /\ lists' = lists
    BY <1>1, ListFacts DEF GoesOn, First, given
  <1>3. Writes({lists.sequential[1]})'
    <2>1. PICK L : L = {lists.sequential[1]}
      OBVIOUS
    <2>2. Writes(L)'
      BY <1>2, <2>1, FreshSuperstep
    <2> QED BY <1>2, <2>1, <2>2
  <1>4. ~Ran("decision")'
    BY RanAfter DEF AtBarrier, GoesOn
  <1>5. Reviewed(1)' /\ Retrying(1)' /\ DraftIsSafe(1)' /\ LimitIsFar(1)'
    <2>1. Unreviewed(ctx)' /\ superstep' <= 4
      BY <1>1, LimitAssumption DEF Unreviewed, TypeOK
    <2> QED BY <1>1, <2>1 DEF Reviewed, Retrying, DraftIsSafe, LimitIsFar, Unreviewed
  <1>6. \A k \in 1..1 - 1 : FALSE
    OBVIOUS
  <1>7. InReview(1)'
    BY <1>1, <1>2, <1>3, <1>4, <1>5, <1>6 DEF InReview, Unreviewed
  <1> QED BY <1>2, <1>7 DEF InSuperstep

LEMMA AnalysisGoesOn ==
    ASSUME TypeOK, Layered(lists), AtBarrier, GoesOn, InFirstAnalysis \/ InLastAnalysis
    PROVE  InSuperstep'
  <1>1. /\ running = {} /\ running' = next /\ next' = {} /\ stepped' = {} /\ newCtx' = newCtx
        /\ ctx' = newCtx /\ UNCHANGED given /\ superstep' = superstep + 1 /\ OneStepEach
        /\ Advance /\ superstep \in Nat
    BY FreshSuperstep, LimitAssumption DEF GoesOn, Advance, AtBarrier, TypeOK
  <1>2. ASSUME NEW L, L \subseteq Analysts, InAnalysis(L)
        PROVE  /\ \A x \in stepped : x.agent \in L
               /\ ~Ran("decision") /\ \A x \in stepped : x.agent # "decision"
               /\ ~newCtx.halt => \A a \in L : Ran(a)'
               /\ \A r \in Reviewers : ~Ran(r)'
               /\ Unreviewed(newCtx) /\ newCtx.found
    <2>1. \A x \in stepped : x.agent \in L
      BY <1>1, <1>2 DEF InAnalysis, Writes
    <2>2. \A x \in stepped : x.agent \notin Reviewers
      BY <1>2, <2>1 DEF Reviewers, Analysts
    <2>3. "decision" \in Reviewers /\ \A r \in Reviewers : ~Ran(r)
      BY <1>2 DEF InAnalysis, Reviewers
    <2>4. ASSUME ~newCtx.halt, NEW a \in L PROVE Ran(a)'
      <3>1. {s.agent : s \in stepped} = L
        BY <1>1, <1>2, <2>4 DEF InAnalysis, Writes
      <3> QED BY <1>1, <3>1, RanAfter
    <2>5. \A r \in Reviewers : ~Ran(r)'
      BY <1>1, <2>2, <2>3, RanAfter
    <2> QED BY <1>2, <2>1, <2>2, <2>3, <2>4, <2>5 DEF InAnalysis
  <1>3. AnalysisStartNodes \subseteq Analysts /\ Followers \subseteq Analysts
    BY ListFacts DEF AnalysisStartNodes, Followers
  <1>4. CASE InFirstAnalysis /\ Followers = {}
    <2>1. next = First /\ lists.parallel = AnalysisStartNodes
      BY <1>1, <1>4, EdgesOfAnalysts DEF InFirstAnalysis, InAnalysis, Writes
    <2>2. InAnalysis(AnalysisStartNodes) /\ superstep <= 3
      BY <1>1, <1>4 DEF InFirstAnalysis
    <2>3. PICK L : L = AnalysisStartNodes
      OBVIOUS
    <2> QED BY <1>2, <1>3, <2>1, <2>2, <2>3, FirstReview
  <1>5. CASE InFirstAnalysis /\ Followers # {}
    <2>1. PICK L : L = AnalysisStartNodes
      OBVIOUS
    <2>2. PICK F : F = Followers
      OBVIOUS
    <2>3. /\ \A x \in stepped : x.agent \in L /\ x.agent \notin F
          /\ ~newCtx.halt => \A a \in L : Ran(a)'
          /\ \A r \in Reviewers : ~Ran(r)'
          /\ Unreviewed(newCtx) /\ newCtx.found
      BY <1>2, <1>3, <1>5, <2>1, <2>2 DEF InFirstAnalysis, Followers
    <2>4. \A a \in F : ~Ran(a)'
      BY <1>1, <1>5, <2>2, <2>3, RanAfter DEF InFirstAnalysis
    <2>5. next = F
      BY <1>1, <1>5, <2>2, EdgesOfAnalysts DEF InFirstAnalysis, InAnalysis, Writes
    <2>6. Writes(F)'
      BY <2>5, FreshSuperstep
    <2>7. next' = UNION {Edges(a)' : a \in F \ running'}
      BY <1>1, <2>5
    <2>8. InAnalysis(F)'
      BY <1>1, <2>3, <2>4, <2>6, <2>7 DEF InAnalysis, Unreviewed
    <2>9. superstep' <= 3
      BY <1>1, <1>5 DEF InFirstAnalysis
    <2>10. InLastAnalysis'
      BY <1>1, <2>1, <2>2, <2>3, <2>8, <2>9, GraphStays DEF InLastAnalysis
    <2> QED BY <2>10 DEF InSuperstep
  <1>6. CASE InLastAnalysis
    <2>1. next = First
      BY <1>1, <1>6, EdgesOfAnalysts DEF InLastAnalysis, InAnalysis, Writes
    <2>2. PICK F : F = Followers
      OBVIOUS
    <2>3. /\ \A x \in stepped : x.agent \in F
          /\ ~Ran("decision") /\ \A x \in stepped : x.agent # "decision"
          /\ ~newCtx.halt => \A a \in F : Ran(a)'
          /\ Unreviewed(newCtx) /\ newCtx.found
      BY <1>2, <1>3, <1>6, <2>2 DEF InLastAnalysis
    <2>4. ~newCtx.halt => \A a \in AnalysisStartNodes : Ran(a)'
      BY <1>1, <1>6, RanAfter DEF InLastAnalysis, InAnalysis, Writes
    <2>5. ~newCtx.halt => \A a \in lists.parallel : Ran(a)'
      BY <2>2, <2>3, <2>4, EdgesOfAnalysts
    <2> QED BY <1>6, <2>1, <2>3, <2>5, FirstReview DEF InLastAnalysis
  <1> QED BY <1>4, <1>5, <1>6

LEMMA ResolverGoesOn ==
    ASSUME TypeOK, Layered(lists), AtBarrier, GoesOn, InResolver
    PROVE  InSuperstep'
  <1>1. /\ running = {} /\ running' = next /\ next' = {} /\ stepped' = {} /\ newCtx' = newCtx
        /\ ctx' = newCtx /\ UNCHANGED given /\ superstep' = 2 /\ OneStepEach /\ Advance
    BY FreshSuperstep DEF GoesOn, Advance, AtBarrier, InResolver
  <1>2. /\ next = StartNodes /\ next # {} /\ newCtx.found /\ ~newCtx.halt
        /\ Unreviewed(newCtx) /\ superstep <= 3
    BY <1>1 DEF InResolver, RouteAfterResolver, GoesOn
  <1>3. \A x \in stepped : x.agent = "company_resolver"
    BY <1>1 DEF InResolver, Writes
  <1>4. \A a : ~Ran(a)
    BY DEF InResolver, Ran
  <1>5. CASE AnalysisStartNodes = {}
    <2>1. next = First /\ lists.parallel = {}
      BY <1>2, <1>5, EdgesOfAnalysts DEF StartNodes
    <2> QED BY <1>2, <1>3, <1>4, <2>1, FirstReview
  <1>6. CASE AnalysisStartNodes # {}
    <2>1. PICK L : L = AnalysisStartNodes
      OBVIOUS
    <2>2. next = L /\ "company_resolver" \notin lists.parallel \cup Reviewers
          /\ L \subseteq lists.parallel /\ Followers \subseteq lists.parallel
      BY <1>2, <1>6, <2>1, ListFacts DEF StartNodes, AnalysisStartNodes, Followers
    <2>3. Writes(L)'
      BY <2>2, FreshSuperstep
    <2>4. \A a \in lists.parallel \cup Reviewers : ~Ran(a)'
      BY <1>1, <1>3, <1>4, <2>2, RanAfter
    <2>5. next' = UNION {Edges(a)' : a \in L \ running'}
      BY <1>1, <2>2
    <2>6. InAnalysis(L)'
      BY <1>1, <1>2, <2>2, <2>3, <2>4, <2>5 DEF InAnalysis, Unreviewed
    <2>7. InFirstAnalysis'
      BY <1>1, <1>2, <2>1, <2>2, <2>4, <2>6, GraphStays DEF InFirstAnalysis
    <2> QED BY <2>7 DEF InSuperstep
  <1> QED BY <1>5, <1>6

\* The reviewer behind, or the report again.
LEMMA ReviewGoesOn ==
    ASSUME TypeOK, AtBarrier, GoesOn, newCtx \in Contexts,
           NEW i \in DOMAIN lists.sequential, InReview(i)
    PROVE  InSuperstep'
  <1> DEFINE s == lists.sequential
  <1>1. /\ running = {} /\ running' = next /\ next # {} /\ next' = {} /\ stepped' = {}
        /\ newCtx' = newCtx /\ ctx' = newCtx /\ UNCHANGED given /\ OneStepEach /\ Advance
        /\ superstep' = superstep + 1 /\ superstep \in Nat /\ lists' = lists
    BY FreshSuperstep, LimitAssumption DEF GoesOn, Advance, AtBarrier, TypeOK, given
  <1>2. next = Successors(s[i], newCtx) /\ s[i] # "company_resolver" /\ s[i] \in Reviewers
    BY <1>1, ListFacts DEF InReview
  <1>3. RetryAttempts \in 0..3 /\ (RetryAttempts > 0 => RetryNode # {})
        /\ ctx.attempt \in Nat /\ newCtx.attempt \in Nat
    BY RetriesBounded DEF TypeOK, Contexts
  <1>4. \A x \in stepped : x.agent = s[i]
    BY <1>1 DEF InReview, Writes
  <1>5. ~ctx.halt => \E x \in stepped : x.agent = s[i] /\ stepped = {x}
    <2>1. ASSUME ~ctx.halt PROVE {x.agent : x \in stepped} = {s[i]}
      BY <1>1, <2>1 DEF InReview, Writes
    <2>2. ASSUME ~ctx.halt PROVE \E x \in stepped : x.agent = s[i] /\ \A y \in stepped : y = x
      BY <1>1, <1>4, <2>1, <2>2 DEF OneStepEach
    <2>3. \A x \in stepped : (\A y \in stepped : y = x) => stepped = {x}
      OBVIOUS
    <2> QED BY <2>2, <2>3
  <1>6. ASSUME NEW k \in DOMAIN s, next = {s[k]} PROVE Writes({s[k]})'
    <2>1. PICK L : L = {s[k]}
      OBVIOUS
    <2>2. Writes(L)'
      BY <1>6, <2>1, FreshSuperstep
    <2> QED BY <1>1, <2>1, <2>2
  <1>7. \A a : ~ctx.halt /\ (Ran(a) \/ a = s[i]) => Ran(a)'
    BY <1>1, <1>5, RanAfter
  <1>8. ASSUME Ran("decision")' PROVE Ran("decision") \/ s[i] = "decision"
    BY <1>1, <1>4, <1>8, RanAfter
  <1>9. newCtx.halt => ctx.halt \/ \E x \in stepped : ~x.ok /\ x.agent # "validation"
    BY DEF AtBarrier
  <1>10. ~newCtx.halt => ~ctx.halt
    BY DEF InReview, Writes
  <1>11. ASSUME newCtx.gate = "retrying", ~ctx.halt, newCtx.halt
         PROVE  s[i] # "validation" /\ \E x \in stepped : stepped = {x} /\ ~x.ok /\ x.agent = s[i]
    BY <1>4, <1>5, <1>9, <1>11
  <1>12. CASE s[i] = "validation"
    <2>1. newCtx.gate = "retrying" /\ next = RetryNode /\ RetryNode # {}
      BY <1>1, <1>2, <1>12 DEF Successors, RouteAfterValidation
    <2>2. PICK n : n = Len(s) - 1
      OBVIOUS
    <2>3. n \in DOMAIN s /\ s[n] = "report" /\ next = {s[n]} /\ i = n + 1 /\ n \in Nat
          /\ i \in 1..3
      <3>1. Len(s) - 1 \in DOMAIN s /\ s[Len(s) - 1] = "report" /\ next = {"report"}
        BY <2>1, RetryNodeIs
      <3>2. i = Len(s) /\ Len(s) \in Nat /\ Len(s) <= 3 /\ i \in 1..Len(s)
        BY <1>12, ListFacts, ThreeReviewers
      <3>3. n \in 1..Len(s)
        BY <2>2, <3>1, ListFacts
      <3>4. \A m \in Nat : n \in 1..m /\ i = m /\ n = m - 1 /\ m <= 3
                            => n \in Nat /\ i = n + 1 /\ i \in 1..3
        OBVIOUS
      <3>5. n \in Nat /\ i = n + 1 /\ i \in 1..3
        BY <2>2, <3>2, <3>3, <3>4
      <3> QED BY <2>2, <3>1, <3>5
    <2>4. newCtx.attempt \in 1..RetryAttempts /\ newCtx.found
          /\ (~ctx.halt => newCtx.attempt = ctx.attempt + 1 /\ ~newCtx.halt)
      <3>1. CASE ctx.halt
        BY <2>1, <3>1 DEF InReview, Writes, Retrying
      <3>2. CASE ~ctx.halt
        <4>1. PICK ok \in BOOLEAN, verdict \in {"passed", "rejected", "missing"} :
                 newCtx = Gate(ctx, ok, verdict)
          BY <1>1, <1>12, <3>2 DEF InReview, Reviewed
        <4>2. /\ newCtx.attempt = ctx.attempt + 1 /\ newCtx.found = ctx.found
              /\ newCtx.halt = ctx.halt
              /\ newCtx.gate = IF GatePassed(ok, verdict) THEN "passed"
                               ELSE IF ctx.attempt + 1 <= RetryAttempts THEN "retrying"
                               ELSE "blocked"
          BY <4>1 DEF Gate, TypeOK, Contexts
        <4>3. ctx.found
          BY DEF InReview
        <4> QED BY <1>3, <2>1, <3>2, <4>2, <4>3
      <3> QED BY <3>1, <3>2
    <2>5. Reviewed(n)' /\ DraftIsSafe(n)'
      BY <1>1, <2>1 DEF Reviewed, DraftIsSafe
    <2>6. Retrying(n)'
      <3>1. n >= Len(s) - 1
        BY <2>2, <2>3
      <3> QED BY <1>1, <2>1, <2>4, <3>1, GraphStays DEF Retrying
    <2>7. LimitIsFar(n)'
      <3>1. CASE ctx.halt
        <4>1. newCtx = ctx /\ stepped = {}
          BY <3>1 DEF InReview, Writes
        <4>2. steps' = steps
          BY <1>1, <4>1, StepsAfter
        <4>3. steps # <<>> /\ steps[Len(steps)] = [agent |-> "report", ok |-> FALSE]
          BY <2>1, <3>1, <4>1 DEF InReview, LimitIsFar
        <4> QED BY <1>1, <2>1, <3>1, <4>1, <4>2, <4>3 DEF LimitIsFar
      <3>2. CASE ~ctx.halt
        <4>1. superstep <= 3 + i + 2 * ctx.attempt
          BY <3>2 DEF InReview, LimitIsFar
        <4>2. superstep + 1 <= 3 + n + 2 * newCtx.attempt
          BY <1>1, <1>3, <2>3, <2>4, <3>2, <4>1
        <4> QED BY <1>1, <2>4, <3>2, <4>2 DEF LimitIsFar
      <3> QED BY <3>1, <3>2
    <2>8. ~newCtx.halt => \A a \in lists.parallel : Ran(a)'
      BY <1>7, <1>10 DEF InReview
    <2>9. ASSUME ~newCtx.halt, NEW k \in 1..n - 1, NEW a, a = s[k] PROVE Ran(a)'
      <3>1. k \in 1..i - 1
        BY <2>3
      <3>2. Ran(a)
        BY <1>10, <2>9, <3>1 DEF InReview
      <3> QED BY <1>7, <1>10, <2>9, <3>2
    <2>10. ASSUME NEW k \in DOMAIN s, k >= n PROVE s[k] # "decision"
      <3>1. k = n \/ k = i
        BY <1>12, <2>3, <2>10, ListFacts
      <3> QED BY <1>12, <2>3, <3>1
    <2>11. InReview(n)'
      BY <1>1, <1>6, <2>1, <2>3, <2>4, <2>5, <2>6, <2>7, <2>8, <2>9, <2>10 DEF InReview
    <2> QED BY <1>1, <2>3, <2>11 DEF InSuperstep
  <1>13. CASE s[i] # "validation"
    <2>1. next = Edges(s[i])
      BY <1>2, <1>13 DEF Successors
    <2>2. PICK n : n = i + 1
      OBVIOUS
    <2>3. n \in DOMAIN s /\ next = {s[n]} /\ n \in Nat /\ i \in Nat /\ i < Len(s)
      <3>1. Edges(s[i]) = IF i < Len(s) THEN {s[i + 1]} ELSE {}
        BY EdgesOfReviewer
      <3>2. i < Len(s)
        BY <1>1, <2>1, <3>1
      <3>3. next = {s[n]}
        BY <2>1, <2>2, <3>1, <3>2
      <3>4. i \in 1..Len(s) /\ Len(s) \in Nat
        BY ListFacts
      <3>5. n \in 1..Len(s) /\ n \in Nat /\ i \in Nat
        BY <2>2, <3>2, <3>4
      <3> QED BY <3>2, <3>3, <3>5, ListFacts
    <2>4. /\ newCtx.gate = ctx.gate /\ newCtx.attempt = ctx.attempt /\ newCtx.found
          /\ newCtx.halt => newCtx.keys = ctx.keys
          /\ newCtx.keys \subseteq ctx.keys \cup OutputKeys(s[i])
      <3>1. CASE ctx.halt
        BY <3>1 DEF InReview, Writes
      <3>2. CASE ~ctx.halt
        BY <1>1, <1>13, <3>2 DEF InReview, Reviewed
      <3> QED BY <3>1, <3>2
    <2>5. Reviewed(n)'
      BY <1>1 DEF Reviewed
    <2>6. Retrying(n)'
      BY <1>1, <2>2, <2>3, <2>4, GraphStays, ListFacts DEF InReview, Retrying
    <2>7. DraftIsSafe(n)'
      <3> SUFFICES ASSUME ReportIsLast(lists), Validates, ctx.gate = "none",
                          newCtx.halt \/ n < Len(s)
                   PROVE  "report" \notin newCtx.keys
        BY <1>1, <2>4, GraphStays DEF DraftIsSafe, ReportIsLast
      <3>1. "report" \notin ctx.keys
        BY <2>3 DEF InReview, DraftIsSafe
      <3>2. CASE newCtx.halt
        BY <2>4, <3>1, <3>2
      <3>3. CASE n < Len(s)
        <4>1. s[i] # "report"
          BY <2>2, <2>3, <3>3, ValidatesIs DEF ReportIsLast
        <4> QED BY <2>4, <3>1, <4>1 DEF OutputKeys
      <3> QED BY <3>2, <3>3
    <2>8. LimitIsFar(n)'
      <3>1. CASE ctx.halt /\ ctx.gate = "retrying"
        <4>1. newCtx = ctx /\ stepped = {}
          BY <3>1 DEF InReview, Writes
        <4>2. steps' = steps
          BY <1>1, <4>1, StepsAfter
        <4>3. steps # <<>> /\ steps[Len(steps)] = [agent |-> "report", ok |-> FALSE]
          BY <3>1 DEF InReview, LimitIsFar
        <4> QED BY <1>1, <3>1, <4>1, <4>2, <4>3 DEF LimitIsFar
      <3>2. CASE ~ctx.halt /\ newCtx.halt /\ ctx.gate = "retrying"
        <4>1. PICK x \in stepped : stepped = {x} /\ ~x.ok /\ x.agent = s[i]
          BY <1>11, <2>4, <3>2
        <4>2. s[i] = "report"
          <5>1. RetryAttempts > 0 /\ i >= Len(s) - 1
            BY <1>3, <3>2 DEF InReview, Retrying
          <5>2. i = Len(s) - 1
            BY <2>3, <5>1, ListFacts
          <5> QED BY <1>3, <5>1, <5>2, RetryNodeIs
        <4>3. x = [agent |-> "report", ok |-> FALSE]
          BY <4>1, <4>2 DEF TypeOK, Step
        <4>4. steps' # <<>> /\ steps'[Len(steps')] = x
          BY <1>1, <4>1, StepsAfter
        <4> QED BY <1>1, <2>4, <3>2, <4>3, <4>4 DEF LimitIsFar
      <3>3. CASE ~(ctx.halt /\ ctx.gate = "retrying") /\ ~(newCtx.halt /\ ctx.gate = "retrying")
        <4>1. superstep <= 3 + i + 2 * ctx.attempt
          BY <3>3 DEF InReview, LimitIsFar
        <4>2. superstep + 1 <= 3 + n + 2 * newCtx.attempt
          BY <1>1, <1>3, <2>2, <2>3, <2>4, <4>1
        <4> QED BY <1>1, <2>4, <3>3, <4>2 DEF LimitIsFar
      <3> QED BY <3>1, <3>2, <3>3
    <2>9. ~newCtx.halt => \A a \in lists.parallel : Ran(a)'
      BY <1>7, <1>10 DEF InReview
    <2>10. ASSUME ~newCtx.halt, NEW k \in 1..n - 1, NEW a, a = s[k] PROVE Ran(a)'
      <3>1. k \in 1..i - 1 \/ k = i
        BY <2>2, <2>3
      <3>2. Ran(a) \/ a = s[i]
        BY <1>10, <2>10, <3>1 DEF InReview
      <3> QED BY <1>7, <1>10, <2>10, <3>2
    <2>11. ASSUME NEW k \in DOMAIN s, k >= n, s[k] = "decision" PROVE ~Ran("decision")'
      <3>1. k >= i /\ k # i
        BY <2>2, <2>3, <2>11, ListFacts
      <3>2. ~Ran("decision") /\ s[i] # "decision"
        BY <2>11, <3>1, ListFacts DEF InReview
      <3> QED BY <1>8, <3>2
    <2>12. InReview(n)'
      BY <1>1, <1>6, <2>3, <2>4, <2>5, <2>6, <2>7, <2>8, <2>9, <2>10, <2>11 DEF InReview
    <2> QED BY <1>1, <2>3, <2>12 DEF InSuperstep
  <1> QED BY <1>12, <1>13
-----------------------------------------------------------------------------
(* The barrier *)

LEMMA AdvanceStep ==
    ASSUME AllLayered, GraphInv, Advance
    PROVE  GraphInv'
  <1>1. /\ running = {} /\ result = NoResult /\ UNCHANGED given /\ ctx' = newCtx
        /\ newCtx' = newCtx /\ stepped' = {} /\ next' = {}
    BY DEF Advance
  <1>2. TypeOK /\ Settled /\ InSuperstep /\ ~Ended /\ Layered(lists)
    BY <1>1, GraphInvParts DEF Ended, AllLayered, TypeOK
  <1>3. AtBarrier /\ OneStepEach
    BY <1>1, <1>2, BarrierReached DEF Settled, AtBarrier
  <1>4. StepsSound' /\ ReviewAfterAnalysis'
    BY <1>2, <1>3, StepsSoundAfter, ReviewAfterAfter DEF Settled
  <1>5. newCtx \in Contexts
    BY <1>2 DEF TypeOK
  <1>6. superstep \in Nat /\ RecursionLimit \in Nat /\ superstep \in 1..RecursionLimit
    BY <1>2, LimitAssumption DEF TypeOK
  <1>7. ASSUME result' \in Results, running' \subseteq Agents,
               superstep' \in 1..RecursionLimit
        PROVE  TypeOK'
    <2>1. steps' \in Seq(Step)
      BY <1>2, <1>3, StepsAfter
    <2> QED BY <1>1, <1>2, <1>5, <1>7, <2>1 DEF TypeOK, given
  <1>8. CASE next = {}
    <2>1. result' = BuildResult(newCtx, steps') /\ UNCHANGED <<running, superstep>>
      BY <1>8 DEF Advance
    <2>2. /\ result' \in Results /\ result'.status \notin {"none", "recursion_limit"}
          /\ SuccessIsComplete' /\ (ReportIsLast(lists) => ReportNeedsGate)'
      BY <1>2, <1>3, <1>4, <1>5, <1>8, <2>1, ResultSound
    <2>3. TypeOK' /\ LimitOnlyAfterFailedRetry' /\ Ended' /\ running' = {}
      BY <1>1, <1>6, <1>7, <2>1, <2>2 DEF LimitOnlyAfterFailedRetry, Ended, NoResult
    <2> QED BY <1>4, <2>2, <2>3 DEF GraphInv
  <1>9. CASE next # {} /\ superstep = RecursionLimit
    <2>1. result' = RecursionError /\ UNCHANGED <<running, superstep>>
      BY <1>6, <1>9 DEF Advance
    <2>2. /\ result' \in Results /\ result'.status = "recursion_limit" /\ result'.keys = {}
      BY <2>1 DEF RecursionError, Results, Statuses
    <2>3. TypeOK' /\ Ended' /\ running' = {} /\ SuccessIsComplete' /\ ReportNeedsGate'
      BY <1>1, <1>6, <1>7, <2>1, <2>2 DEF SuccessIsComplete, ReportNeedsGate, Ended, NoResult
    <2>4. ASSUME RecursionLimit >= 12 PROVE LimitOnlyAfterFailedRetry'
      <3>1. /\ ~continueOnError /\ newCtx.halt /\ newCtx.gate = "retrying"
            /\ steps'[Len(steps')] = [agent |-> "report", ok |-> FALSE]
        BY <1>2, <1>3, <1>9, <2>4, LimitReached
      <3> QED BY <1>1, <3>1 DEF LimitOnlyAfterFailedRetry, given
    <2> QED BY <1>4, <2>3, <2>4 DEF GraphInv
  <1>10. CASE next # {} /\ superstep # RecursionLimit
    <2>1. GoesOn /\ result' = NoResult /\ superstep < RecursionLimit
      BY <1>1, <1>6, <1>10 DEF Advance, GoesOn
    <2>2. TypeOK'
      <3>1. result' \in Results
        BY <2>1 DEF NoResult, Results, Statuses
      <3>2. running' \subseteq Agents
        BY <1>2, <2>1 DEF GoesOn, TypeOK
      <3>3. superstep' \in 1..RecursionLimit
        BY <1>6, <2>1 DEF GoesOn
      <3> QED BY <1>7, <3>1, <3>2, <3>3
    <2>3. ~Ended' /\ SuccessIsComplete' /\ ReportNeedsGate' /\ LimitOnlyAfterFailedRetry'
      BY <2>1 DEF NoResult, Ended, SuccessIsComplete, ReportNeedsGate,
                  LimitOnlyAfterFailedRetry
    <2>4. InSuperstep'
      BY <1>2, <1>3, <1>5, <2>1, ResolverGoesOn, AnalysisGoesOn, ReviewGoesOn DEF InSuperstep
    <2> QED BY <1>4, <2>2, <2>3, <2>4 DEF GraphInv
  <1> QED BY <1>8, <1>9, <1>10
\* A superstep is what it is while nothing of it changes.
LEMMA SuperstepStays ==
    ASSUME InSuperstep,
           UNCHANGED <<given, running, ctx, newCtx, stepped, next, steps, superstep>>
    PROVE  InSuperstep'
  <1>1. /\ UNCHANGED <<lists, continueOnError, configured>>
        /\ UNCHANGED <<AnalysisStartNodes, Followers, Validates, RetryNode, RetryAttempts,
                       StartNodes>>
        /\ \A a : Edges(a)' = Edges(a)
    BY GraphStays
  <1>2. \A b : Ran(b)' = Ran(b)
    BY DEF Ran
  <1>3. ASSUME NEW L, Writes(L) PROVE Writes(L)'
    BY <1>1, <1>3 DEF Writes
  <1>4. ASSUME NEW L, InAnalysis(L) PROVE InAnalysis(L)'
    <2>1. Writes(L)'
      BY <1>3, <1>4 DEF InAnalysis
    <2>2. next' = UNION {Edges(a)' : a \in L \ running'}
      BY <1>1, <1>4 DEF InAnalysis
    <2> QED BY <1>1, <1>2, <1>4, <2>1, <2>2 DEF InAnalysis, Unreviewed
  <1>5. ASSUME InResolver PROVE InResolver'
    <2>1. PICK L : L = {"company_resolver"}
      OBVIOUS
    <2>2. Writes(L)'
      BY <1>3, <1>5, <2>1 DEF InResolver
    <2>3. RouteAfterResolver(newCtx)' = RouteAfterResolver(newCtx)
      BY <1>1 DEF RouteAfterResolver
    <2> QED BY <1>1, <1>5, <2>1, <2>2, <2>3 DEF InResolver, Unreviewed
  <1>6. ASSUME InFirstAnalysis PROVE InFirstAnalysis'
    <2>1. PICK L : L = AnalysisStartNodes
      OBVIOUS
    <2>2. InAnalysis(L)'
      BY <1>4, <1>6, <2>1 DEF InFirstAnalysis
    <2>3. InAnalysis(AnalysisStartNodes)'
      BY <1>1, <2>1, <2>2
    <2> QED BY <1>1, <1>2, <1>6, <2>3 DEF InFirstAnalysis
  <1>7. ASSUME InLastAnalysis PROVE InLastAnalysis'
    <2>1. PICK L : L = Followers
      OBVIOUS
    <2>2. InAnalysis(L)'
      BY <1>4, <1>7, <2>1 DEF InLastAnalysis
    <2>3. InAnalysis(Followers)'
      BY <1>1, <2>1, <2>2
    <2> QED BY <1>1, <1>2, <1>7, <2>3 DEF InLastAnalysis
  <1>8. ASSUME NEW i \in DOMAIN lists.sequential, InReview(i) PROVE InReview(i)'
    <2>1. PICK L : L = {lists.sequential[i]}
      OBVIOUS
    <2>2. Writes(L)'
      BY <1>3, <1>8, <2>1 DEF InReview
    <2>3. Successors(lists.sequential[i], newCtx)' = Successors(lists.sequential[i], newCtx)
      <3>1. RouteAfterResolver(newCtx)' = RouteAfterResolver(newCtx)
        BY <1>1 DEF RouteAfterResolver
      <3>2. RouteAfterValidation(newCtx)' = RouteAfterValidation(newCtx)
        BY <1>1 DEF RouteAfterValidation
      <3>3. PICK a : a = lists.sequential[i]
        OBVIOUS
      <3>4. Edges(a)' = Edges(a)
        BY <1>1
      <3> QED BY <1>1, <3>1, <3>2, <3>3, <3>4 DEF Successors
    <2>4. ASSUME NEW ok, NEW verdict PROVE Gate(ctx, ok, verdict)' = Gate(ctx, ok, verdict)
      BY <1>1 DEF Gate, GatePassed
    <2>5. Reviewed(i)'
      BY <1>1, <1>8, <2>4 DEF InReview, Reviewed
    <2>6. Retrying(i)' /\ LimitIsFar(i)' /\ DraftIsSafe(i)'
      BY <1>1, <1>8 DEF InReview, Retrying, LimitIsFar, DraftIsSafe, ReportIsLast
    <2> QED BY <1>1, <1>2, <1>8, <2>1, <2>2, <2>3, <2>5, <2>6 DEF InReview
  <1> QED BY <1>1, <1>5, <1>6, <1>7, <1>8 DEF InSuperstep

-----------------------------------------------------------------------------
(* What a caller of the workflow may rely on *)

\* A run of a layered list is always in one superstep of the chain, whatever its
\* agents answer, and its steps tell what ran.
THEOREM GraphInvariant == ASSUME AllLayered PROVE Spec => []GraphInv
  <1>1. Init => GraphInv
    BY GraphInitInv
  <1>2. GraphInv /\ [Next]_vars => GraphInv'
    <2>1. ASSUME GraphInv, UNCHANGED vars PROVE GraphInv'
      <3>1. TypeOK' /\ Settled' /\ (Ended' <=> Ended) /\ running' = running
        BY <2>1, SettledStays DEF vars, GraphInv, Settled, TypeOK, given, Ended, NoResult
      <3>2. InSuperstep => InSuperstep'
        BY <2>1, SuperstepStays DEF vars
      <3> QED BY <2>1, <3>1, <3>2 DEF GraphInv, Settled
    <2> QED BY <2>1, SkipStep, AgentStep, ValidationStep, AdvanceStep DEF Next
  <1> QED BY <1>1, <1>2, PTL DEF Spec

\* The report a caller is given has passed the gate, if the list validates the
\* report right after it is written: BuildResult keeps no other.
THEOREM ReportIsGated ==
    ASSUME AllLayered, \A l \in Configurations : ReportIsLast(l)
    PROVE  Spec => []ReportNeedsGate
  <1>1. GraphInv => ReportNeedsGate
    BY DEF GraphInv, TypeOK
  <1> QED BY <1>1, GraphInvariant, PTL

\* No reviewer starts before the analysts it reviews have ended.
THEOREM ReviewComesAfterAnalysis == ASSUME AllLayered PROVE Spec => []ReviewAfterAnalysis
  <1>1. GraphInv => ReviewAfterAnalysis
    BY DEF GraphInv
  <1> QED BY <1>1, GraphInvariant, PTL

\* A result called success has every node of the list behind it.
THEOREM SuccessIsAlwaysComplete == ASSUME AllLayered PROVE Spec => []SuccessIsComplete
  <1>1. GraphInv => SuccessIsComplete
    BY DEF GraphInv
  <1> QED BY <1>1, GraphInvariant, PTL

\* Validation runs no more often than the configured retries allow.
THEOREM ValidationsStayWithinBudget ==
    ASSUME AllLayered PROVE Spec => []ValidationsWithinBudget
  <1>1. GraphInv => ValidationsWithinBudget
    BY DEF GraphInv, StepsSound, ValidationsWithinBudget
  <1> QED BY <1>1, GraphInvariant, PTL

\* With the twelve supersteps a full run with three retries needs, the limit is
\* met only by a run a failed retry of the report halted.
THEOREM LimitMeansFailedRetry ==
    ASSUME AllLayered, RecursionLimit >= 12 PROVE Spec => []LimitOnlyAfterFailedRetry
  <1>1. GraphInv => LimitOnlyAfterFailedRetry
    BY DEF GraphInv
  <1> QED BY <1>1, GraphInvariant, PTL
=============================================================================
