-------------------------- MODULE MCWorkflowGraph --------------------------
(***************************************************************************)
(* The constants of the model-checking runs of WorkflowGraph.              *)
(***************************************************************************)
EXTENDS WorkflowGraph

Lists(resolver, parallel, sequential) ==
    [resolver |-> resolver, parallel |-> parallel, sequential |-> sequential]

\* create_credit_workflow without arguments.
DefaultLists == {Lists(TRUE, Analysts, <<"decision", "report", "validation">>)}

\* Lists the tests of the orchestrator use, or like them: no resolver, no
\* analysts, one branch only, no report to regenerate, no validation, nobody to
\* review.
ShortLists ==
    {Lists(FALSE, {}, <<"report", "validation">>),
     Lists(TRUE, {}, <<"decision", "report", "validation">>),
     Lists(FALSE, {"news_collector", "risk_event"}, <<"decision", "validation">>),
     Lists(FALSE, {"risk_event", "industry_analyst"}, <<"report", "validation">>),
     Lists(TRUE, Analysts, <<"decision", "report">>),
     Lists(FALSE, {"financial_analyst", "industry_analyst"}, <<>>),
     Lists(FALSE, {}, <<"validation">>)}

AllLists == DefaultLists \cup ShortLists

DefaultRetries == {{}}
AllRetries     == {{}, {-1}, {0}, {2}, {3}, {7}}

\* The theorems about WorkflowGraph are about lists like these.
ASSUME ListsAreOrdered == AllLayered /\ \A l \in Configurations : ReportIsLast(l)
=============================================================================
