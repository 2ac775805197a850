----------------------------- MODULE PlanExecutor -----------------------------
(***************************************************************************)
(* What a tool of a plan may be asked and what of its outcome may be kept  *)
(* (orchestration/executor.py, system_provider.py): the parameters of a    *)
(* system request, the query of the caller's own records, and the checks a *)
(* result passes before anything reads it.  A text is the set of the words *)
(* it holds, of which "sql" stands for a statement.                        *)
(***************************************************************************)
EXTENDS Integers, FiniteSets, Functions, TLC

CONSTANTS
    Operations, \* OPERATION_PARAMETERS: an operation's parameter names
    RecordId,   \* OPERATION_RECORD_ID
    None        \* nothing; as an outcome, an exception of the caller's making

Empty == ""
System == "system_query"

-----------------------------------------------------------------------------
(* _merged_system_parameters: a request [operation, parameters] and the      *)
(* subject the server trusts.                                                 *)

\* Seeded fault: the request may name the subject.
MergedOver(request, subject) ==
    LET required == Operations[request.operation]
        merged == request.parameters
                    @@ IF "subject_id" \in required THEN [n \in {"subject_id"} |-> subject] ELSE <<>>
    IN  IF \/ \E n \in DOMAIN request.parameters : request.parameters[n] = Empty
           \/ "subject_id" \in required /\ subject \in {None, Empty}
           \/ DOMAIN merged # required
        THEN None ELSE merged

Merged(request, subject) ==
    LET required == Operations[request.operation]
        merged == request.parameters
                    @@ IF "subject_id" \in required THEN [n \in {"subject_id"} |-> subject] ELSE <<>>
    IN  IF \/ "subject_id" \in DOMAIN request.parameters
           \/ \E n \in DOMAIN request.parameters : request.parameters[n] = Empty
           \/ "subject_id" \in required /\ subject \in {None, Empty}
           \/ DOMAIN merged # required
        THEN None ELSE merged

-----------------------------------------------------------------------------
(* system_query: the rows of an operation's table that agree with all        *)
(* parameters; the subject is a predicate and no part of what is read.       *)

Result(tool, status, evidence, code, message, trace) ==
    [tool |-> tool, status |-> status, evidence |-> evidence, code |-> code, message |-> message, trace |-> trace]

SystemTrace(operation, names, matched, returned) ==
    [fields |-> {"system_operation", "system_parameter_names", "system_rows_matched", "system_returned_evidence"},
     operation |-> operation, names |-> names, matched |-> matched, returned |-> returned, texts |-> {}]

Answered(operation, names, rows) ==
    Result(System, IF rows = {} THEN "empty" ELSE "ok",
           {[record |-> r[RecordId[operation]], status |-> r.status] : r \in rows}, None, None,
           SystemTrace(operation, names, Cardinality(rows), Cardinality(rows)))

\* Seeded fault: a record is looked up by its id.
SystemQueryById(table, operation, merged) ==
    Answered(operation, DOMAIN merged,
             {r \in table : r[RecordId[operation]] = merged[RecordId[operation]]})

SystemQuery(table, operation, merged) ==
    Answered(operation, DOMAIN merged, {r \in table : \A n \in DOMAIN merged : r[n] = merged[n]})

-----------------------------------------------------------------------------
(* What an adapter may come back with: [raised], "misuse" (ValueError,       *)
(* TypeError) or "failure", or [raised |-> "no", result].                     *)

\* _require_tool_result: the status, the evidence and the error fields agree.
IsToolResult(tool, r) ==
    /\ r.tool = tool
    /\ r.status = "ok" => r.evidence # {} /\ {r.code, r.message} = {None}
    /\ r.status = "empty" => r.evidence = {} /\ {r.code, r.message} = {None}
    /\ r.status = "error" => r.evidence = {} /\ None \notin {r.code, r.message}

\* Seeded fault: the trace may hold the identity of a subject that is no parameter.
SecretsOfParameters(merged, subject) == IF merged = None THEN {} ELSE Range(merged)

Secrets(merged, subject) ==
    (IF merged = None THEN {} ELSE Range(merged)) \cup ({subject} \ {None, Empty})

\* _assert_trace_is_publishable
IsPublishable(trace, secrets) == \A text \in trace.texts : text \cap (secrets \cup {"sql"}) = {}

\* _assert_system_trace_schema
IsSystemTrace(trace, operation, names, evidence) ==
    /\ trace.fields = SystemTrace(operation, names, 0, 0).fields
    /\ trace.operation = operation /\ trace.names = names
    /\ trace.returned = Cardinality(evidence) /\ trace.matched >= trace.returned

NoTrace == SystemTrace(None, {}, 0, 0)
Failed(tool, code) == Result(tool, "error", {}, code, {tool}, NoTrace)

\* Seeded fault: an error is kept as the tool reports it.
TakenAsReported(tool, outcome, operation, names, secrets) ==
    IF outcome.raised = "misuse" THEN None
    ELSE IF outcome.raised = "failure" THEN Failed(tool, "tool_execution_failed")
    ELSE IF ~IsToolResult(tool, outcome.result) THEN None
    ELSE IF outcome.result.status = "error" THEN outcome.result
    ELSE IF /\ IsPublishable(outcome.result.trace, secrets)
            /\ tool = System => IsSystemTrace(outcome.result.trace, operation, names, outcome.result.evidence)
         THEN outcome.result
    ELSE None

\* One step of execute_plan; None raises, and what was done before is dropped.
Taken(tool, outcome, operation, names, secrets) ==
    IF outcome.raised = "misuse" THEN None
    ELSE IF outcome.raised = "failure" THEN Failed(tool, "tool_execution_failed")
    ELSE IF ~IsToolResult(tool, outcome.result) THEN None
    ELSE IF outcome.result.status = "error" THEN Failed(tool, "tool_reported_error")
    ELSE IF /\ IsPublishable(outcome.result.trace, secrets)
            /\ tool = System => IsSystemTrace(outcome.result.trace, operation, names, outcome.result.evidence)
         THEN outcome.result
    ELSE None

-----------------------------------------------------------------------------

\* Whatever a tool comes back with, what is kept of it is whole, says of a failure no more
\* than its kind and holds nowhere but in evidence a value that the request was made with.
KeepsNoSecret(tool, outcome, request, subject) ==
    LET merged == Merged(request, subject)
        kept == IF merged = None THEN None
                ELSE Taken(tool, outcome, request.operation, DOMAIN merged, Secrets(merged, subject))
        secrets == {request.parameters[n] : n \in DOMAIN request.parameters} \cup {subject}
    IN  kept # None =>
          /\ (kept.status = "ok") <=> (kept.evidence # {})
          /\ kept.status = "error" => kept = Failed(tool, kept.code) /\ kept.code \in {"tool_execution_failed", "tool_reported_error"}
          /\ \A text \in kept.trace.texts \cup ({kept.message} \ {None}) : text \cap (secrets \cup {"sql"}) = {}

\* A request is answered with a record of the trusted subject and of no other, whomever it
\* names; "empty" says there is none; and no request that is well made is refused for its answer.
ReadsItsOwn(table, request, subject) ==
    LET merged == Merged(request, subject)
        scoped == "subject_id" \in Operations[request.operation]
        answer == SystemQuery(table, request.operation, merged)
        kept == Taken(System, [raised |-> "no", result |-> answer], request.operation, DOMAIN merged,
                      Secrets(merged, subject))
        own == {r \in table : /\ scoped => r.subject_id = subject
                              /\ r[RecordId[request.operation]] = request.parameters[RecordId[request.operation]]}
    IN  merged # None =>
          /\ kept = answer
          /\ {e.record : e \in kept.evidence} = {r[RecordId[request.operation]] : r \in own}
          /\ kept.status = "empty" <=> own = {}
=============================================================================
