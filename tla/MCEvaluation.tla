---------------------------- MODULE MCEvaluation ----------------------------
(***************************************************************************)
(* The runner of an evaluation case under either driver: a policy that     *)
(* returns any action, or the tool loop with a model that returns any      *)
(* response.  A1 and A2 are calls of one tool, B1 of another, so that one  *)
(* declaration may match two calls.                                        *)
(*                                                                         *)
(* Three settings are the study of the grounding gate: "gate" and     *)
(* "short" are a case-run of it, the second with fewer steps than reads,    *)
(* and "study" is the experiment.  "diagnosis" is the diagnosis of a case  *)
(* run of the knowledge base by its trace.                                 *)
(***************************************************************************)
EXTENDS CaseRunner

CONSTANTS A1, A2, B1, s1, s2, answer, refuse, o1, o2, i1

MCCall        == {A1, A2, B1}
MCSlot        == {s1, s2}
MCDisposition == {answer, refuse}
MCTurns       == <<{s1}, {s1, s2}>>

Declared(match, mode, n) == [match |-> match, mode |-> mode, on_call |-> n]

(* Two declarations that may come due together, one after the other, or on    *)
(* calls of the other's match. *)
MCPlans ==
    {<<>>,
     <<Declared({A1}, "malformed", 1), Declared({A1, A2}, "timeout", 2)>>,
     <<Declared({B1}, "malformed", 2), Declared({A1}, "error", 1)>>}

Calls(c) == [fn |-> "tool", says |-> c, fit |-> "valid"]

Singles ==
    {<<n>> : n \in [fn : {"tool"}, says : MCCall, fit : {"valid"}]}
      \cup {<<n>> : n \in [fn : {"tool"}, says : {A1}, fit : {"identity", "invalid"}]}
      \cup {<<n>> : n \in [fn : {"ask_user"}, says : {{s1}, {s2}}, fit : {"valid"}]}
      \cup {<<[fn |-> "ask_user", says |-> {s1}, fit |-> "invalid"]>>}
      \cup {<<n>> : n \in [fn : {"finish"}, says : MCDisposition, fit : {"valid", "invalid"}]}
      \cup {<<[fn |-> "unknown", says |-> None, fit |-> "invalid"]>>}

Batches == UNION {[1 .. n -> {Calls(A1), Calls(B1)}] : n \in 2 .. 3}

Mixed == {<<Calls(A1)>> \o r : r \in {s \in Singles : s[1].fn # "tool" \/ s[1].fit # "valid"}}

MCResponses == {<<>>} \cup Singles \cup Batches \cup Mixed

-----------------------------------------------------------------------------
VARIABLES driver, mode, gate, proposals, diagnostics, results, outcome, saw, out, running, report, sample

G == INSTANCE GroundingStudy WITH
    Order <- {o1, o2}, Item <- {i1}, MaxSteps <- 3, MaxReads <- 2, MaxRuns <- 2,
    Cases <- 2, Rounds <- 2, MaxFailures <- 1,
    policy <- gate, decisions <- proposals, ended <- outcome

H == INSTANCE GroundingStudy WITH
    Order <- {o1, o2}, Item <- {i1}, MaxSteps <- 1, MaxReads <- 2, MaxRuns <- 2,
    Cases <- 2, Rounds <- 2, MaxFailures <- 1,
    policy <- gate, decisions <- proposals, ended <- outcome

D == INSTANCE DiagnosticRules WITH Tool <- {"wiki", "system"}

case == <<mode, gate, proposals, diagnostics, results, outcome, saw>>
experiment == <<out, running, report>>

NoCase == /\ mode = None /\ gate = None /\ proposals = None /\ diagnostics = None
          /\ results = None /\ outcome = None /\ saw = None

\* The first state of a run that is not looked at.
Idle ==
    /\ Init /\ plan = <<>> /\ formal = FALSE /\ ids = FALSE
    /\ native = <<>> /\ pending = <<>> /\ decisions = <<>> /\ broke = "nothing"

-----------------------------------------------------------------------------
(* Cases and runs: of each behaviour, and every way in which the stages may do *)
(* their part or not, two of them at a time.                                    *)

Case(behavior, route, sources, facts, fresh, found) ==
    [behavior |-> behavior, route |-> route, sources |-> sources, facts |-> facts, fresh |-> fresh,
     found |-> [x \in {"wiki", "system"} |-> found]]

Cases ==
    {Case("answer", route, route, facts, FALSE, "good") : route \in {{"wiki"}, {"wiki", "system"}}, facts \in BOOLEAN}
      \cup {Case("generation_refuse", {"wiki"}, {}, FALSE, FALSE, "junk"),
            Case("policy_refuse", {"wiki"}, {}, FALSE, TRUE, "junk"),
            Case("policy_refuse", {"system"}, {}, FALSE, FALSE, "nothing"),
            Case("boundary", {"system"}, {}, FALSE, FALSE, "junk")}

Sound(c) ==
    [steps |-> c.route, plan |-> "sound", outage |-> FALSE, executes |-> TRUE, failing |-> {},
     found |-> c.found, policy |-> "sound", model |-> "sound"]

Values(c) ==
    [steps : {{{"wiki"}, {"system"}, {"wiki", "system"}}}, plan : {{"aborts", "signals", "arguments", "answers"}},
     outage : {{TRUE}}, executes : {{FALSE}}, failing : {{{"wiki"}, {"system"}}},
     found : {[{"wiki", "system"} -> {"junk", "nothing"} \cup {c.found["wiki"]}]},
     policy : {{"aborts", "refuses", "accepts", "drops"}},
     model : {{"aborts", "raises", "refuses", "restates", "miscites", "answers"}}]

Parts == DOMAIN Sound(CHOOSE c \in Cases : TRUE)

Runs(c) ==
    UNION {{[Sound(c) EXCEPT ![p[1]] = v, ![p[2]] = w] : v \in values[p[1]], w \in values[p[2]]} :
             p \in Parts \X Parts, values \in Values(c)}

\* The policy is blamed for a refusal that fails to come of a signal without a label.
Overlays(c) ==
    {[routes |-> {c.route}, forbidden |-> {"wiki", "system"} \ c.route,
      signals |-> IF signals THEN [requires_freshness |-> c.fresh] ELSE [s \in {} |-> TRUE],
      arguments |-> [x \in c.route |-> "right"],
      statuses |-> [x \in c.route |-> D!Found(x, c.found[x]).status],
      evidence |-> IF c.behavior = "answer" /\ evidence THEN c.route ELSE {}] :
        signals \in IF c.behavior = "policy_refuse" THEN {TRUE} ELSE BOOLEAN, evidence \in BOOLEAN}

DrawRun ==
    /\ sample = None
    /\ \E c \in Cases : \E f \in Runs(c) : sample' = [case |-> c, run |-> f]

-----------------------------------------------------------------------------
EvaluationInit ==
    /\ sample = None
    /\ \/ driver = "model" /\ LoopInit /\ NoCase /\ G!StudyInit
       \/ /\ driver = "any" /\ Init /\ NoCase /\ G!StudyInit
          /\ formal = FALSE /\ ids = FALSE
          /\ native = <<>> /\ pending = <<>> /\ decisions = <<>> /\ broke = "nothing"
       \/ driver \in {"gate", "short"} /\ Idle /\ G!CaseInit /\ G!StudyInit
       \/ driver \in {"study", "diagnosis"} /\ Idle /\ NoCase /\ G!StudyInit

RunnerNext ==
    /\ \/ driver = "model" /\ LoopStep
       \/ driver = "any" /\ (Decide \/ PolicyRaises) /\ UNCHANGED policy
       \/ driver \in {"any", "model"} /\ OutOfSteps /\ UNCHANGED policy
    /\ UNCHANGED <<case, experiment, driver, sample>>

StudyNext ==
    /\ \/ driver = "gate" /\ G!CaseNext /\ UNCHANGED experiment
       \/ driver = "short" /\ H!CaseNext /\ UNCHANGED experiment
       \/ driver = "study" /\ G!StudyNext /\ UNCHANGED case
    /\ UNCHANGED <<loopVars, driver, sample>>

DiagnosisNext == driver = "diagnosis" /\ DrawRun /\ UNCHANGED <<loopVars, case, experiment, driver>>

EvaluationVars == <<loopVars, case, experiment, driver, sample>>

\* The study is looked at for what it says and not for whether it ends.
EvaluationSpec ==
    /\ EvaluationInit /\ [][RunnerNext \/ StudyNext \/ DiagnosisNext]_EvaluationVars
    /\ WF_EvaluationVars(RunnerNext)

\* Whatever a model answers, its batches run whole, its history can be replayed, its
\* repeated calls are capped, and it cannot use up its steps without a disposition; the
\* study of the gate counts what the reads do not support, and compares like with like; and a
\* diagnosis by traces blames the first stage that went wrong, or none.
RecordsAreSound ==
    /\ driver = "model" => ProtocolHolds
    /\ driver \in {"gate", "short"} => G!GateIsJudged
    /\ driver = "study" => G!SummaryIsWhole
    /\ sample # None =>
        \A overlay \in Overlays(sample.case), applies \in BOOLEAN :
            LET derived == D!DeriveLabels(sample.case)
            IN  /\ D!IsOverlay(derived, overlay)
                /\ D!BlamesTheFirstWrong(sample.case, sample.run, D!Labelled(derived, overlay), applies)

\* Every run ends, and a formal run with native ids ends with a verdict, an outage or
\* a mistake in the case's own faults.
RunsReachAVerdict ==
    driver \in {"any", "model"} ~>
        /\ driver \in {"any", "model"} /\ ended.how # "running"
        /\ driver = "model" /\ formal /\ ids => HasVerdict
=============================================================================
