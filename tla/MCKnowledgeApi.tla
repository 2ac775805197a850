---------------------------- MODULE MCKnowledgeApi ----------------------------
(***************************************************************************)
(* The chat endpoints in two settings, chosen in the first state: requests *)
(* and changes of the knowledge base, and the trace of one request whose   *)
(* code does what it may.                                                  *)
(***************************************************************************)
EXTENDS KnowledgeApi, AgentTrace

VARIABLE setting

ApiInit == setting \in {"requests", "trace"} /\ Init /\ TraceInit /\ (setting = "requests" => ~trace.streaming)

ApiNext ==
    /\ \/ setting = "requests" /\ Next /\ UNCHANGED traceVars
       \/ setting = "trace" /\ TraceNext /\ UNCHANGED vars
    /\ UNCHANGED setting

\* The fairness of KnowledgeApi's FairSpec.
ApiSpec ==
    /\ ApiInit /\ [][ApiNext]_<<vars, traceVars, setting>>
    /\ WF_vars(ClearWiki) /\ \A r \in Request : WF_vars(Answer(r))
=============================================================================
