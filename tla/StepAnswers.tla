----------------------------- MODULE StepAnswers -----------------------------
(***************************************************************************)
(* What run_agent_step promises the graph that calls it, whatever happens   *)
(* inside: each step of a superstep is answered once, with a StepResult and *)
(* never with an exception.  Only the input contract can fail a step before *)
(* its agent ran, and a failed step has an error code of its own.           *)
(***************************************************************************)
CONSTANT Agents  \* the agents of one superstep

VARIABLE answers  \* the StepResult of each agent, NoAnswer before it

NoAnswer == [status |-> "none", code |-> "none"]

FailureCodes == {"AGENT_TIMEOUT", "INVALID_INPUT", "INVALID_OUTPUT",
                 "RESOURCE_NOT_FOUND", "UPSTREAM_UNAVAILABLE", "AGENT_EXECUTION_FAILED"}

StepResults == {[status |-> "success", code |-> "OK"],
                [status |-> "partial", code |-> "DEGRADED"]}
               \cup [status : {"failed"}, code : FailureCodes]

Init == answers = [a \in Agents |-> NoAnswer]

Answer(a) ==
    /\ answers[a] = NoAnswer
    /\ \E r \in StepResults : answers' = [answers EXCEPT ![a] = r]

Next == \E a \in Agents : Answer(a)

Spec == Init /\ [][Next]_answers /\ \A a \in Agents : WF_answers(Answer(a))
=============================================================================
