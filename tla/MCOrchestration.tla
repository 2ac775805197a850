---------------------------- MODULE MCOrchestration ----------------------------
(***************************************************************************)
(* The two loops that let a model read before it answers or acts, in       *)
(* settings chosen in the first state.                                     *)
(*                                                                         *)
(* Two settings are control runs of the after-sales service, with two      *)
(* orders and an item each: "reads" is a model that reads, repeats itself  *)
(* and proposes over two messages, "requests" one that asks for the        *)
(* customer's requests after a first message submitted one.                *)
(*                                                                         *)
(* The third is the orchestrated mode: questions of one clause with up to  *)
(* four cues, so that every pair of the planner's rules meets within a     *)
(* clause, and of two clauses, one with up to two cues and one for each    *)
(* rule, so that every rule of one meets every rule of the other.          *)
(***************************************************************************)
EXTENDS ControlRun, Orchestration, TLC

CONSTANTS o1, o2, i1, i2

Linked == (i1 :> o1) @@ (i2 :> o2)

VARIABLE setting

(* Control runs: every kind of call, alone, repeated and mixed. *)

Act(o, i) == Says("act", [order |-> o, item |-> i], TRUE)
R1 == Says("read", Reading(o1), TRUE)
RP == Says("read", ReadPending, TRUE)
RK == Says("read", ReadKnowledge, TRUE)

Answers ==
    IF setting = "reads"
    THEN {<<r>> : r \in {R1, Act(o1, i1), Act(o1, i2), Says("ask", None, TRUE),
                         Says("read", Reading(o2), FALSE)}}
         \cup {<<R1, R1>>, <<RK, R1>>, <<Says("read", Reading(o2), TRUE), R1>>, <<R1, Act(o1, i1)>>}
    ELSE {<<RP>>, <<RK, RP>>, <<RP, RP>>, <<Act(o1, i1)>>, <<Says("ask", None, TRUE)>>,
          <<Says("finish", "answer", TRUE)>>}

Requested == [order |-> o1, item |-> i1]

Submitted ==
    [Fresh EXCEPT !.messages = 1, !.runs = 1, !.tools = 1, !.replies = <<1>>,
        !.obs = <<[run |-> 1, step |-> 1, turn |-> 1, id |-> <<1, 1>>, call |-> Reading(o1),
                   result |-> [items |-> {i1}, waits |-> {}]]>>,
        !.tracked = {Requested},
        !.first[Requested] = [run |-> 1, anchored |-> TRUE]]

RequestsInit ==
    /\ core = [[a \in Action |-> "none"] EXCEPT ![Requested] = "waiting"]
    /\ conv = Submitted /\ saved = Submitted
    /\ at = "idle" /\ queue = <<>> /\ native = <<>>
    /\ sent = {[action |-> Requested, run |-> 1, upto |-> 1, held |-> FALSE]}
    /\ answer = None /\ broke = FALSE

RunNext ==
    \/ IF setting = "reads" /\ conv.messages = 2 THEN at = "idle" /\ UNCHANGED vars
       ELSE BeginRun \/ Smalltalk \/ ConversationFull
    \/ TurnFails \/ Drain \/ StepLimit \/ ProtocolError
    \/ \E r \in Answers : Decide(r)
    \/ \E a \in Action : OperatorDecides(a)

(* Questions of the orchestrated mode *)

Cues == {"greets", "other", "asks", "overview", "soft", "change", "exact", "article", "quantity", "policy",
         "sku", "object", "record", "standing", "mine", "verb", "value", "asof", "today", "left"}

\* With a SKU, either spelling.
Spelled(c) == IF "sku" \in c THEN {c, c \cup {"plain"}} ELSE {c}
ClausesOf(n) == UNION {Spelled(c) : c \in UNION {kSubset(k, Cues) : k \in 1..n}}

NoFallback == {{}}
AnyFallback == SUBSET {"wiki", "document", "system"}

OneClause == {{c} : c \in ClausesOf(4)}

\* A clause for each rule of the planner that looks at two cues.
RuleClauses ==
    {{"greets", "asks"}, {"greets", "other"}, {"object", "mine"}, {"object", "asof"},
     {"record", "value"}, {"record", "policy"}, {"quantity", "sku"}, {"soft", "sku"},
     {"policy", "overview"}, {"policy", "soft"}, {"sku", "today"}, {"left", "today"}}

TwoClauses == {{c, d} : c \in ClausesOf(1) \cup RuleClauses, d \in ClausesOf(2)}
AllQuestions == OneClause \cup TwoClauses

\* A few, for the runs that end at a disagreement.
FewClauses == {{"greets"}, {"greets", "other"}, {"policy"}, {"record", "value"}, {"sku"}, {"sku", "exact", "plain"}}
FewQuestions == {{c, d} : c, d \in FewClauses}

NoQuestion ==
    /\ question = {} /\ skus = 0 /\ chunks = FALSE /\ pages = FALSE /\ progress = "planning"
    /\ plan = Unasked /\ seen = FALSE /\ executed = <<>> /\ results = [t \in {} |-> {}] /\ verdict = Pending

LoopInit ==
    \/ setting = "reads" /\ Init /\ NoQuestion
    \/ setting = "requests" /\ RequestsInit /\ NoQuestion
    \/ setting = "question" /\ Init /\ OrchestrationInit

LoopNext ==
    /\ \/ setting \in {"reads", "requests"} /\ RunNext /\ UNCHANGED orchestrationVars
       \/ setting = "question" /\ OrchestrationNext /\ UNCHANGED vars
    /\ UNCHANGED setting

LoopSpec == LoopInit /\ [][LoopNext]_<<vars, orchestrationVars, setting>>
=============================================================================
