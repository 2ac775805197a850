--------------------------- MODULE DiagnosticRules ---------------------------
(***************************************************************************)
(* The diagnosis of a case run of the evaluation (diagnostic_eval/labels.py *)
(* and rules.py): the labels of a case, one check per stage of its trace,   *)
(* and the stage that a failed run is blamed on.  A tool is also the source *)
(* of its evidence, a route is the set of the tools it uses, and an item of *)
(* evidence [source, expected, holds] is the expected one or not and holds   *)
(* the facts of the answer or not.                                          *)
(***************************************************************************)
EXTENDS Integers, Sequences, FiniteSets, FiniteSetsExt

CONSTANTS None, Tool

Stages == <<"routing", "planning", "tool", "retrieval", "evidence", "generation">>

-----------------------------------------------------------------------------
(* Labels: derived of a case [behavior, route, sources, facts], and those of   *)
(* an overlay [routes, forbidden, signals, arguments, statuses, evidence].     *)

DeriveLabels(case) ==
    [outcome   |-> CASE case.behavior \in {"generation_refuse", "policy_refuse"} -> "refuse" [] OTHER -> case.behavior,
     mechanism |-> CASE case.behavior = "generation_refuse" -> "generation"
                     [] case.behavior = "policy_refuse" -> "policy" [] OTHER -> None,
     required  |-> CASE case.behavior = "boundary" -> {} [] case.sources # {} -> case.sources [] OTHER -> case.route,
     sources   |-> case.sources, facts |-> case.facts, routes |-> {case.route}, forbidden |-> {},
     signals   |-> <<>>, arguments |-> <<>>, statuses |-> <<>>, evidence |-> {}]

\* An overlay adds labels and contradicts none of the dataset's.
IsOverlay(base, overlay) ==
    /\ base.routes \subseteq overlay.routes /\ overlay.forbidden \cap base.required = {}
    /\ overlay.evidence # {} => base.outcome = "answer"

Labelled(base, overlay) ==
    [base EXCEPT !.routes = overlay.routes, !.forbidden = overlay.forbidden, !.signals = overlay.signals,
                 !.arguments = overlay.arguments, !.statuses = overlay.statuses, !.evidence = overlay.evidence]

-----------------------------------------------------------------------------
(* The stages.  A trace has the plan, [ok, route, steps, signals]; the answer   *)
(* that was fixed before execution; whether execution completed, None if it did *)
(* not begin; the tools that ran, [status, about, items]; the policy's decision, *)
(* [outcome, reasons, usable]; the reply [ok, refused, restated, cites, holds];  *)
(* and the stage that the run was aborted in.                                     *)

Verdict(holds) == IF holds THEN "pass" ELSE "fail"
Gaps == {"rule_inconclusive", "label_gap", "environment_failure"}

\* StageResult.of: what the checks of a stage say together.
Of(checks) ==
    IF "fail" \in checks THEN "fail"
    ELSE IF checks \cap Gaps # {} THEN CHOOSE g \in Gaps : g \in checks
    ELSE IF "pass" \in checks THEN "pass" ELSE "not_applicable"

HasPlan(t) == t.plan # None /\ t.plan.ok

CheckRouting(l, t) == Of(IF HasPlan(t) THEN {Verdict(t.plan.route \in l.routes)} ELSE {})

Availability(l, t) ==
    IF t.fixed = "unrecorded" THEN IF l.outcome = "boundary" /\ t.plan.steps # {} THEN {"fail"} ELSE {}
    ELSE IF l.outcome = "boundary" THEN {Verdict(t.fixed = "boundary")}
    ELSE IF t.fixed = "unavailable" THEN {"environment_failure"}
    ELSE {Verdict(t.fixed = "nothing")}

Arguments(l, t) == {Verdict(t.tools[x].about = l.arguments[x]) : x \in DOMAIN l.arguments \cap DOMAIN t.tools}

CheckPlanning(l, t) ==
    IF ~HasPlan(t) THEN Of(IF t.aborted = "planning" \/ t.plan # None THEN {"fail"} ELSE {})
    ELSE Of({Verdict(l.required \subseteq t.plan.steps), Verdict(l.forbidden \cap t.plan.steps = {})}
              \cup {Verdict(t.plan.signals[s] = l.signals[s]) : s \in DOMAIN l.signals}
              \cup Availability(l, t) \cup Arguments(l, t))

CheckTool(l, t) ==
    IF t.executed = None
    THEN IF t.aborted = "tool" THEN "fail"
         ELSE IF l.outcome # "boundary" /\ l.required # {} THEN "blocked" ELSE "not_applicable"
    ELSE Of({Verdict(t.tools[x].status # "error") : x \in DOMAIN t.tools}
              \cup (IF t.executed THEN {Verdict(x \in DOMAIN t.tools) : x \in t.plan.steps} ELSE {"fail"}))

Items(t) == UNION {t.tools[x].items : x \in DOMAIN t.tools}
Holds(items) == \E i \in items : i.holds

\* Seeded fault: what is expected of one tool may come from any.
RetrievalOfAny(l, t, applies) ==
    {Verdict(t.tools[x].status = l.statuses[x]) : x \in DOMAIN l.statuses \cap DOMAIN t.tools}
      \cup {Verdict(\E i \in Items(t) : i.expected) : x \in l.evidence \cap DOMAIN t.tools}

\* The labels of a Wiki that this run did not read are skipped.
Retrieval(l, t, applies) ==
    {Verdict(t.tools[x].status = l.statuses[x]) : x \in DOMAIN l.statuses \cap DOMAIN t.tools}
      \cup {IF x = "wiki" /\ ~applies THEN "skipped" ELSE Verdict(\E i \in t.tools[x].items : i.expected) :
              x \in l.evidence \cap DOMAIN t.tools}

CheckRetrieval(l, t, applies) ==
    IF l.outcome = "boundary" \/ (l.outcome = "refuse" /\ DOMAIN l.statuses = {} /\ l.evidence = {}) THEN "not_applicable"
    ELSE IF DOMAIN t.tools = {} THEN "blocked"
    ELSE Of(Retrieval(l, t, applies)
              \cup IF l.outcome = "answer" /\ l.facts THEN {Verdict(Holds(Items(t)))} ELSE {})

PolicyOutcome(l) ==
    CASE l.outcome = "answer" \/ l.mechanism = "generation" -> "ready"
      [] l.mechanism = "policy" -> "refuse" [] OTHER -> None

SignalReasons == [freshness_unsupported |-> "requires_freshness"]
ToolReasons == {"missing_tool_result", "empty_tool_result", "tool_error"}

\* Seeded fault: a decision that is not the expected one is the policy's own.
RefusedByItself(l, t) == "fail"

\* A refusal that follows from a signal without a label, or from what the tools returned.
Refused(l, t) ==
    LET linked == {SignalReasons[r] : r \in t.decision.reasons \cap DOMAIN SignalReasons}
        short  == \/ \E x \in DOMAIN t.tools : t.tools[x].status \in {"error", "empty"}
                  \/ Cardinality(DOMAIN t.tools) < Cardinality(t.plan.steps)
    IN  IF linked # {} THEN IF linked \subseteq DOMAIN l.signals THEN "fail" ELSE "label_gap"
        ELSE IF t.decision.reasons \cap ToolReasons # {} THEN IF short THEN "blocked" ELSE "rule_inconclusive"
        ELSE "fail"

Usable(l, t) ==
    {Verdict(l.sources \subseteq {i.source : i \in t.decision.usable})}
      \cup IF l.facts /\ Holds(Items(t)) THEN {Verdict(Holds(t.decision.usable))} ELSE {}

CheckEvidence(l, t) ==
    IF PolicyOutcome(l) = None THEN "not_applicable"
    ELSE IF t.decision = None THEN IF t.aborted = "evidence" THEN "fail" ELSE "blocked"
    ELSE IF t.decision.outcome # PolicyOutcome(l) THEN IF t.decision.outcome = "refuse" THEN Refused(l, t) ELSE "fail"
    ELSE Of({"pass"} \cup IF l.outcome = "answer" THEN Usable(l, t) ELSE {})

\* The judge of the first version settles nothing.
SemanticCheck == "rule_inconclusive"

\* Seeded fault: a model that has no fact to tell is to tell it.
AnswerAtAnyRate(l, t) ==
    IF t.reply.refused THEN "fail"
    ELSE Of({Verdict(t.reply.cites # {}), Verdict(t.reply.cites \subseteq 1..Cardinality(t.decision.usable))}
              \cup IF ~l.facts THEN {} ELSE {IF t.reply.holds THEN "pass" ELSE SemanticCheck})

CheckAnswer(l, t) ==
    IF t.reply.refused THEN IF l.facts /\ Holds(t.decision.usable) THEN "fail" ELSE "rule_inconclusive"
    ELSE Of({Verdict(t.reply.cites # {}), Verdict(t.reply.cites \subseteq 1..Cardinality(t.decision.usable))}
              \cup IF ~l.facts THEN {} ELSE {IF t.reply.holds THEN "pass" ELSE SemanticCheck})

CheckGeneration(l, t) ==
    IF PolicyOutcome(l) # "ready" THEN "not_applicable"
    ELSE IF t.reply = None THEN IF t.aborted = "generation" THEN "fail" ELSE "blocked"
    ELSE IF ~t.reply.ok \/ t.reply.restated THEN "fail"
    ELSE IF l.outcome = "refuse" THEN IF t.reply.refused THEN "pass" ELSE SemanticCheck
    ELSE CheckAnswer(l, t)

Checked(l, t, applies) ==
    <<CheckRouting(l, t), CheckPlanning(l, t), CheckTool(l, t), CheckRetrieval(l, t, applies),
      CheckEvidence(l, t), CheckGeneration(l, t)>>

-----------------------------------------------------------------------------
(* diagnose                                                                   *)

Diagnosis(stages, primary, gap, secondary, latent) ==
    [stages |-> stages, primary |-> primary, gap |-> gap, secondary |-> secondary, latent |-> latent]

Failing(stages, from) == {n \in from..Len(stages) : stages[n] = "fail"}

\* Seeded fault: what could not be decided is passed over.
FirstFailing(stages) == {n \in DOMAIN stages : stages[n] = "fail"}

Decisive(stages) == {n \in DOMAIN stages : stages[n] = "fail" \/ stages[n] \in Gaps}

Diagnose(stages, trace, passed) ==
    IF trace = None THEN Diagnosis(<<>>, None, IF passed THEN None ELSE "missing_trace", {}, {})
    ELSE IF passed THEN Diagnosis(stages, None, None, {}, Failing(stages, 1))
    ELSE IF trace.aborted = "other" THEN Diagnosis(stages, None, "environment_failure", {}, {})
    ELSE IF Decisive(stages) = {} THEN Diagnosis(stages, None, "rule_inconclusive", {}, {})
    ELSE LET n == Min(Decisive(stages))
         IN  Diagnosis(stages, IF stages[n] = "fail" THEN n ELSE None, IF stages[n] = "fail" THEN None ELSE stages[n],
                       Failing(stages, n + 1), {})
-----------------------------------------------------------------------------
(* Runs of the agent.  A case has what its tools find, `found`, and whether it   *)
(* asks for what is fresh; a run f has the steps it plans, whether its plan is    *)
(* sound or what it gets wrong, an outage of the corpora, the tools that fail,     *)
(* what the others find, and how the policy and the model go wrong.               *)

Found(tool, what) ==
    [status |-> IF what = "nothing" THEN "empty" ELSE "ok", about |-> "right",
     items |-> IF what = "nothing" THEN {} ELSE {[source |-> tool, expected |-> what = "good", holds |-> what = "good"]}]

RunTool(f, tool) ==
    [(IF tool \in f.failing THEN [status |-> "error", about |-> None, items |-> {}] ELSE Found(tool, f.found[tool]))
        EXCEPT !.about = IF f.plan = "arguments" THEN "wrong" ELSE "right"]

SoundDecision(fresh, tools) ==
    LET statuses == {tools[x].status : x \in DOMAIN tools}
        reasons  == (IF fresh THEN {"freshness_unsupported"} ELSE {})
                      \cup (IF "error" \in statuses THEN {"tool_error"} ELSE {})
                      \cup (IF "empty" \in statuses THEN {"empty_tool_result"} ELSE {})
    IN  [outcome |-> IF reasons = {} THEN "ready" ELSE "refuse", reasons |-> reasons,
         usable |-> IF reasons = {} THEN UNION {tools[x].items : x \in DOMAIN tools} ELSE {}]

Decided(f, sound, tools) ==
    CASE f.policy = "refuses" -> [outcome |-> "refuse", reasons |-> {"conflict"}, usable |-> {}]
      [] f.policy = "accepts" -> [outcome |-> "ready", reasons |-> {}, usable |-> UNION {tools[x].items : x \in DOMAIN tools}]
      [] f.policy = "drops"   -> [sound EXCEPT !.usable = {}]
      [] OTHER -> sound

SoundReply(usable) ==
    [ok |-> TRUE, refused |-> ~Holds(usable), restated |-> FALSE, holds |-> Holds(usable),
     cites |-> IF Holds(usable) THEN {1} ELSE {}]

Replied(f, sound) ==
    CASE f.model = "raises"   -> [sound EXCEPT !.ok = FALSE]
      [] f.model = "refuses"  -> [sound EXCEPT !.refused = TRUE]
      [] f.model = "restates" -> [sound EXCEPT !.restated = TRUE]
      [] f.model = "miscites" -> [sound EXCEPT !.cites = {9}]
      [] f.model = "answers"  -> [sound EXCEPT !.refused = FALSE, !.holds = FALSE, !.cites = {1}]
      [] OTHER -> sound

TraceOf(c, f) ==
    LET planned == f.plan # "aborts"
        fresh   == IF f.plan = "signals" THEN ~c.fresh ELSE c.fresh
        fixed   == CASE ~planned -> "unrecorded" [] f.plan = "answers" -> "other"
                     [] f.outage /\ "wiki" \in f.steps -> "unavailable" [] c.behavior = "boundary" -> "boundary" [] OTHER -> "nothing"
        runs    == fixed = "nothing"
        tools   == IF runs /\ f.executes THEN [x \in f.steps |-> RunTool(f, x)] ELSE [x \in {} |-> None]
        decides == runs /\ f.executes /\ f.policy # "aborts"
        sound   == SoundDecision(fresh, tools)
        made    == Decided(f, sound, tools)
        replies == decides /\ made.outcome = "ready" /\ f.model # "aborts"
    IN  [plan     |-> [ok |-> planned, route |-> f.steps, steps |-> f.steps, signals |-> [requires_freshness |-> fresh]],
         fixed    |-> fixed, executed |-> IF runs THEN f.executes ELSE None, tools |-> tools,
         decision |-> IF decides THEN made ELSE None,
         reply    |-> IF replies THEN Replied(f, SoundReply(made.usable)) ELSE None,
         aborted  |-> CASE ~planned -> "planning" [] runs /\ ~f.executes -> "tool"
                        [] runs /\ f.executes /\ f.policy = "aborts" -> "evidence"
                        [] decides /\ made.outcome = "ready" /\ f.model = "aborts" -> "generation" [] OTHER -> None,
         wrongs   |-> {n \in 1..6 :
            CASE n = 1 -> planned /\ f.steps # c.route
              [] n = 2 -> f.plan # "sound" /\ (f.plan = "arguments" => DOMAIN tools # {})
              [] n = 3 -> runs /\ (~f.executes \/ f.failing \cap f.steps # {})
              [] n = 4 -> \E x \in DOMAIN tools \ f.failing : f.found[x] # c.found[x]
              [] n = 5 -> runs /\ f.executes /\ (f.policy = "aborts" \/ made # sound)
              [] OTHER -> decides /\ made.outcome = "ready"
                            /\ (f.model = "aborts" \/ Replied(f, SoundReply(made.usable)) # SoundReply(made.usable))}]

\* What no label of a case tells of: a signal, whether each tool found what was expected
\* of it, and what evidence there is to keep for a refusal.
IsUntold(c, f, l, t, applies, n) ==
    \/ n = 2 /\ f.plan = "signals" /\ DOMAIN l.signals = {}
    \/ /\ n = 4 /\ (l.facts => Holds(Items(t)))
       /\ \A x \in DOMAIN t.tools \cap l.evidence : f.found[x] = c.found[x] \/ (x = "wiki" /\ ~applies)
    \/ n = 5 /\ f.policy = "drops" /\ l.outcome # "answer"

\* Whatever the stages of a run do, a diagnosis blames none but the first of them that
\* went wrong (but for what no label tells of, if more goes wrong), of a case whose
\* arguments and tool statuses have labels; it says why if it blames none, blames no
\* run that passed, and finds nothing wrong in a sound one.
BlamesTheFirstWrong(c, f, l, applies) ==
    LET t      == TraceOf(c, f)
        stages == Checked(l, t, applies)
        d      == Diagnose(stages, t, FALSE)
    IN  /\ d.primary # None =>
              /\ d.primary \in t.wrongs
              /\ \A n \in t.wrongs : d.primary <= n \/ IsUntold(c, f, l, t, applies, n)
              /\ \A n \in 1..(d.primary - 1) : stages[n] \in {"pass", "not_applicable"}
        /\ (d.primary = None) # (d.gap = None)
        /\ t.wrongs = {} => Failing(stages, 1) = {} /\ (d.gap = "environment_failure" <=> t.fixed = "unavailable")
        /\ LET latent == Diagnose(stages, t, TRUE) IN latent.primary = None /\ latent.latent = Failing(stages, 1)
=============================================================================
