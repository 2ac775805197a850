---------------------------- MODULE AnswerScores ----------------------------
(***************************************************************************)
(* The official scores (evaluate_answerability.py, and                     *)
(* evaluate_orchestrated_routes.py for the planner alone): the dataset that *)
(* may be run, the verdict of a case run, the metrics of runs, the gates,   *)
(* the reasons given for failures, and the comparison of two series         *)
(* (eval/model_comparison.py).  A fact is told by any of a set of           *)
(* candidates; the candidate "number" is a number without its unit.         *)
(***************************************************************************)
EXTENDS Integers, Sequences, FiniteSets, FiniteSetsExt

CONSTANTS
    None,
    Counts,      \* answer, refuse and boundary: the cases a dataset has of each
    Categories,  \* a category of answer cases: the cases it has
    Routes,      \* a route: the set of its steps
    PerRoute     \* the cases of each route

Refusals   == {"generation_refuse", "policy_refuse"}
Boundaries == {"limited", "no_sku"}

-----------------------------------------------------------------------------
(* Datasets.  A case is [id, question, behavior, route, sources, category,     *)
(* groups, patterns, message].                                                  *)

\* Seeded fault: a pattern may be a number without its unit.
FactsOfAnyKind(case) ==
    IF case.behavior # "answer" THEN case.groups = <<>> /\ case.patterns = <<>>
    ELSE /\ (case.groups = <<>>) # (case.patterns = <<>>)
         /\ \A n \in DOMAIN case.groups : case.groups[n] # {}
         /\ \A n \in DOMAIN case.patterns : case.patterns[n] # {}

FactsAreSpecified(case) ==
    IF case.behavior # "answer" THEN case.groups = <<>> /\ case.patterns = <<>>
    ELSE /\ (case.groups = <<>>) # (case.patterns = <<>>)
         /\ \A n \in DOMAIN case.groups : case.groups[n] # {}
         /\ \A n \in DOMAIN case.patterns : case.patterns[n] # {} /\ "number" \notin case.patterns[n]

Bucket(behavior) == IF behavior \in Refusals THEN "refuse" ELSE behavior

\* Seeded fault: two cases may have one id.
ValidIfCounted(cases) ==
    /\ \A n \in DOMAIN cases : FactsAreSpecified(cases[n])
    /\ \A b \in DOMAIN Counts : Cardinality({n \in DOMAIN cases : Bucket(cases[n].behavior) = b}) = Counts[b]

ValidateDataset(cases) ==
    /\ \A m, n \in DOMAIN cases : m = n \/ (cases[m].id # cases[n].id /\ cases[m].question # cases[n].question)
    /\ \A n \in DOMAIN cases :
          /\ FactsAreSpecified(cases[n])
          /\ cases[n].behavior = "boundary" => cases[n].message \in Boundaries
          /\ cases[n].behavior = "answer" => cases[n].category \in DOMAIN Categories
    /\ \A b \in DOMAIN Counts : Cardinality({n \in DOMAIN cases : Bucket(cases[n].behavior) = b}) = Counts[b]
    /\ \A c \in DOMAIN Categories :
          Cardinality({n \in DOMAIN cases : cases[n].behavior = "answer" /\ cases[n].category = c}) = Categories[c]

-----------------------------------------------------------------------------
(* A case run.  What was prepared is [outcome, fixed, route, sources], `fixed`   *)
(* the answer that needs no model; a reply [says, cites, numbers, refuses,        *)
(* echoes]: the candidates its body matches, the sources it cites, whether its     *)
(* SKUs and citations have numbers, the kind of marker of a refusal in it, and      *)
(* whether it is the question again.                                                 *)

ExtractCitationIndices(reply) == reply.cites

\* Seeded fault: the numbers of citations and SKUs are left in.
WholeReply(reply) == reply.says \cup IF reply.numbers THEN {"number"} ELSE {}

BodyForFactMatching(reply) == reply.says

EvaluateFacts(case, body) ==
    LET groups == IF case.patterns # <<>> THEN case.patterns ELSE case.groups
    IN  [n \in DOMAIN groups |-> groups[n] \cap body # {}]

NeedsGeneration(prepared) == prepared.fixed = None

\* A refusal has a marker of production or of the evaluator's own; an echo is none.
ClassifyBehavior(prepared, reply) ==
    CASE prepared.outcome = "direct" -> "direct"
      [] prepared.outcome # "direct" /\ prepared.fixed \in Boundaries -> "boundary"
      [] prepared.outcome # "direct" /\ prepared.fixed \notin Boundaries \cup {None} -> "policy_refuse"
      [] OTHER -> IF reply.refuses # "no" /\ ~reply.echoes THEN "generation_refuse" ELSE "answer"

\* Seeded fault: a citation of one source that there is will do.
IndicesOfAny(prepared, reply) == reply.cites \cap 1..Len(prepared.sources) # {}

Indices(prepared, reply) == reply.cites # {} /\ reply.cites \subseteq 1..Len(prepared.sources)

Passed(case, prepared, reply) ==
    LET behavior == ClassifyBehavior(prepared, reply)
        hits     == EvaluateFacts(case, BodyForFactMatching(reply))
    IN  /\ behavior = case.behavior
        /\ case.behavior = "answer" =>
              /\ \A n \in DOMAIN hits : hits[n]
              /\ case.sources \subseteq {prepared.sources[n] : n \in DOMAIN prepared.sources}
              /\ Indices(prepared, reply)
        /\ case.behavior = "policy_refuse" => ~NeedsGeneration(prepared)
        /\ case.behavior = "boundary" =>
              prepared.route = case.route /\ prepared.fixed = case.message /\ ~NeedsGeneration(prepared)

RunCase(case, prepared, reply) ==
    LET hits == EvaluateFacts(case, BodyForFactMatching(reply))
    IN  [id |-> case.id, expected |-> case.behavior, actual |-> ClassifyBehavior(prepared, reply),
         routed |-> prepared.route = case.route, called |-> NeedsGeneration(prepared),
         cited |-> ExtractCitationIndices(reply) # {}, indices |-> Indices(prepared, reply),
         covered |-> case.sources \subseteq {prepared.sources[n] : n \in DOMAIN prepared.sources},
         facts |-> hits, allFacts |-> \A n \in DOMAIN hits : hits[n], passed |-> Passed(case, prepared, reply)]

FailureReasons(r) ==
    LET answered == r.expected = "answer" /\ r.actual = "answer"
        kinds == [route      |-> ~r.routed,
                  boundary   |-> r.actual = "boundary" /\ r.expected # "boundary",
                  policy     |-> r.actual = "policy_refuse" /\ r.expected # "policy_refuse",
                  retrieval  |-> answered /\ ~r.covered,
                  citation   |-> answered /\ (~r.cited \/ ~r.indices),
                  generation |-> \/ r.expected = "answer" /\ r.actual = "generation_refuse"
                                 \/ answered /\ ~r.allFacts
                                 \/ r.expected \in Refusals /\ r.actual = "answer"]
    IN  {k \in DOMAIN kinds : kinds[k]}

-----------------------------------------------------------------------------
(* Metrics of a run, a rate in parts of Whole (exact for the totals of up to  *)
(* six that occur) or None of nothing; and of all runs, the mean of those       *)
(* there are.                                                                     *)

Whole == 60

Rate(hits, all) == IF all = {} THEN None ELSE (Whole * Cardinality(hits)) \div Cardinality(all)

\* Seeded fault: an answer that was refused by a boundary counts as neither.
FalselyRefused == Refusals

FalseRefusals == Refusals \cup {"boundary"}

SummarizeRun(records) ==
    LET answers   == {n \in DOMAIN records : records[n].expected = "answer"}
        refusals  == {n \in DOMAIN records : records[n].expected \in Refusals}
        bounds    == {n \in DOMAIN records : records[n].expected = "boundary"}
        generated == {n \in DOMAIN records : records[n].called /\ records[n].actual = "answer"}
        cited     == {n \in generated : records[n].cited}
        stated    == {n \in answers : records[n].facts # <<>>}
        passed(s) == {n \in s : records[n].passed}
    IN  [pass_rate                 |-> Rate(passed(DOMAIN records), DOMAIN records),
         answer_success_rate       |-> Rate(passed(answers), answers),
         false_refusal_rate        |-> Rate({n \in answers : records[n].actual \in FalseRefusals}, answers),
         unanswerable_refusal_rate |-> Rate({n \in refusals : records[n].actual \in Refusals}, refusals),
         boundary_accuracy         |-> Rate(passed(bounds), bounds),
         citation_index_validity   |-> Rate({n \in cited : records[n].indices}, cited),
         expected_fact_hit_rate    |-> Rate({n \in stated : records[n].allFacts}, stated)]

Mean(values) ==
    LET present == {n \in DOMAIN values : values[n] # None}
    IN  IF present = {} THEN None
        ELSE MapThenSumSet(LAMBDA n : values[n], present) \div Cardinality(present)

StablyPassed(runs, id) == \A k \in DOMAIN runs, n \in DOMAIN runs[1] : runs[k][n].id = id => runs[k][n].passed
StablyFailed(runs, id) == \A k \in DOMAIN runs, n \in DOMAIN runs[1] : runs[k][n].id = id => ~runs[k][n].passed

Aggregate(runs) ==
    LET summaries == [k \in DOMAIN runs |-> SummarizeRun(runs[k])]
        ids       == {runs[1][n].id : n \in DOMAIN runs[1]}
        passed    == {i \in ids : StablyPassed(runs, i)}
        failed    == {i \in ids : StablyFailed(runs, i)}
    IN  [metrics |-> [key \in DOMAIN summaries[1] |-> Mean([k \in DOMAIN runs |-> summaries[k][key]])],
         passed  |-> passed, failed |-> failed, unstable |-> ids \ (passed \cup failed),
         stability |-> Rate(passed \cup failed, ids)]

Gates == [answer_success_rate |-> 54, unanswerable_refusal_rate |-> 54, boundary_accuracy |-> 54,
          citation_index_validity |-> 57, expected_fact_hit_rate |-> 54]

CheckGates(aggregated) ==
    LET metrics == aggregated.metrics
    IN  {g \in DOMAIN Gates : metrics[g] # None /\ metrics[g] >= Gates[g]}
          \cup (IF metrics.false_refusal_rate # None /\ metrics.false_refusal_rate <= 6 THEN {"false_refusal_rate"} ELSE {})
          \cup (IF aggregated.stability # None /\ aggregated.stability >= 54 THEN {"stability_rate"} ELSE {})

-----------------------------------------------------------------------------
(* Routes: a case [id, question, route, steps, boundary], `boundary` if it is  *)
(* marked as a hard one, and the route the planner takes.                       *)

\* Seeded fault: a route may have any number of cases.
RoutesOfAnyCount(cases) ==
    /\ \A m, n \in DOMAIN cases : m = n \/ (cases[m].id # cases[n].id /\ cases[m].question # cases[n].question)
    /\ \A n \in DOMAIN cases : cases[n].route \in DOMAIN Routes /\ cases[n].steps = Routes[cases[n].route]

ValidateRoutes(cases) ==
    /\ \A m, n \in DOMAIN cases : m = n \/ (cases[m].id # cases[n].id /\ cases[m].question # cases[n].question)
    /\ \A n \in DOMAIN cases : cases[n].route \in DOMAIN Routes /\ cases[n].steps = Routes[cases[n].route]
    /\ \A r \in DOMAIN Routes : Cardinality({n \in DOMAIN cases : cases[n].route = r}) = PerRoute

EvaluateCase(case, planned) ==
    [expected |-> case.route, actual |-> planned, routed |-> planned = case.route,
     stepped |-> Routes[planned] = case.steps, boundary |-> case.boundary,
     passed |-> planned = case.route /\ Routes[planned] = case.steps]

SummarizeRoutes(records) ==
    LET of(r)     == {n \in DOMAIN records : records[n].expected = r}
        routed(s) == {n \in s : records[n].routed}
        rate(s)   == IF s = {} THEN 0 ELSE Rate(routed(s), s)
    IN  [overall   |-> rate(DOMAIN records),
         boundary  |-> rate({n \in DOMAIN records : records[n].boundary}),
         macro     |-> MapThenSumSet(LAMBDA r : rate(of(r)), DOMAIN Routes) \div Cardinality(DOMAIN Routes),
         perRoute  |-> [r \in DOMAIN Routes |-> rate(of(r))],
         confusion |-> [r \in DOMAIN Routes |->
                          [a \in DOMAIN Routes |-> Cardinality({n \in of(r) : records[n].actual = a})]]]

CheckRouteGates(summary) ==
    /\ summary.overall >= 54 /\ summary.macro >= 54 /\ summary.boundary >= 51
    /\ \A r \in DOMAIN Routes : summary.perRoute[r] >= 48

-----------------------------------------------------------------------------
(* Two series of runs of the same cases, case by case.                        *)

PassCount(runs, n) == Cardinality({k \in DOMAIN runs : runs[k][n].passed})

\* Seeded fault: a case that failed once has failed.
TransitionOfAny(before, after, n) ==
    LET a == PassCount(before, n)  b == PassCount(after, n)
    IN  CASE a = Len(before) /\ b = Len(after) -> "stable_pass"
          [] a < Len(before) /\ b = Len(after) -> "fixed"
          [] a = Len(before) /\ b < Len(after) -> "newly_failed"
          [] a = 0 /\ b = 0 -> "unchanged_failure"
          [] OTHER -> "unstable"

Transition(before, after, n) ==
    LET a == PassCount(before, n)  b == PassCount(after, n)
    IN  CASE a = Len(before) /\ b = Len(after) -> "stable_pass"
          [] a = 0 /\ b = Len(after) -> "fixed"
          [] a = Len(before) /\ b = 0 -> "newly_failed"
          [] a = 0 /\ b = 0 -> "unchanged_failure"
          [] OTHER -> "unstable"

-----------------------------------------------------------------------------
(* What the scores are held to.                                               *)

\* A case passes for what its reply says of its own and for sources that there are, and
\* a failed one has its reasons, but for a boundary that another answer was given for, a
\* refusal by the model that was the policy's to give, and small talk.
PassesAreEarned(case, prepared, reply) ==
    LET r == RunCase(case, prepared, reply)
    IN  /\ r.passed /\ case.behavior = "answer" =>
              /\ NeedsGeneration(prepared) /\ (reply.refuses = "no" \/ reply.echoes)
              /\ \A n \in DOMAIN case.groups : case.groups[n] \cap reply.says # {}
              /\ \A n \in DOMAIN case.patterns : case.patterns[n] \cap reply.says # {}
              /\ reply.cites # {} /\ \A i \in reply.cites : i >= 1 /\ i <= Len(prepared.sources)
        /\ r.passed /\ case.behavior \in {"policy_refuse", "boundary"} => prepared.fixed # None
        /\ r.passed => FailureReasons(r) \subseteq {"route"}
        /\ ~r.passed /\ FailureReasons(r) = {} =>
              \/ r.expected = "boundary" \/ r.actual = "direct"
              \/ r.expected = "policy_refuse" /\ r.actual = "generation_refuse"

\* Every case counts once, no number without its unit is an answer, and every metric of a
\* gate has a value.
DatasetIsFair(cases, records) ==
    ValidateDataset(cases) =>
        /\ LET a == Aggregate(<<records, records>>)
           IN  /\ Cardinality(a.passed) + Cardinality(a.failed) = Len(cases) /\ a.unstable = {}
               /\ \A g \in DOMAIN Gates \ {"citation_index_validity"} : a.metrics[g] # None
        /\ \A n \in DOMAIN cases :
              cases[n].patterns # <<>> => \E m \in DOMAIN cases[n].patterns : ~EvaluateFacts(cases[n], {"number"})[m]

\* The rate of passes lies between the cases that always pass and those that ever do, no
\* answer is both a success and falsely refused, what answers nothing falsely refuses
\* all, and a case run that passes where it had
\* failed closes no gate but that of stability, and that of the citations if the
\* wrong answer it replaces was cited well.
MetricsAreMonotone(runs, better) ==
    LET a == Aggregate(runs)
        n == Len(runs[1])
    IN  /\ (Whole * Cardinality(a.passed)) \div n <= a.metrics.pass_rate
        /\ a.metrics.pass_rate <= (Whole * (n - Cardinality(a.failed))) \div n
        /\ a.metrics.answer_success_rate + a.metrics.false_refusal_rate <= Whole
        /\ (\A k \in DOMAIN runs, c \in DOMAIN runs[1] :
              runs[k][c].expected = "answer" => runs[k][c].actual \notin {"answer", "direct"}) =>
             a.metrics.false_refusal_rate = Whole
        /\ \A k \in DOMAIN runs, c \in DOMAIN runs[1] :
              LET was    == runs[k][c]
                  closed == CheckGates(a) \ CheckGates(Aggregate([runs EXCEPT ![k][c] = better[c]]))
              IN  ~was.passed =>
                    closed \subseteq {"stability_rate"}
                      \cup IF was.actual = "answer" /\ was.expected # "answer" /\ was.indices
                           THEN {"citation_index_validity"} ELSE {}

\* What changed from one series to another is what changed back, and is unstable of just
\* the cases that are unstable in either.
TransitionsAgree(before, after) ==
    \A n \in DOMAIN before[1] :
        LET there == Transition(before, after, n)
            back  == Transition(after, before, n)
            id    == before[1][n].id
        IN  /\ (there = "fixed") = (back = "newly_failed")
            /\ (there = "unstable") = (id \in Aggregate(before).unstable \cup Aggregate(after).unstable)
            /\ (there = "stable_pass") = (id \in Aggregate(before).passed \cap Aggregate(after).passed)

\* In a valid dataset of routes a case passes if its route is right, the two accuracies are
\* one, and the confusion of routes adds up.
RoutesAddUp(cases, planned) ==
    ValidateRoutes(cases) =>
        LET records == [n \in DOMAIN cases |-> EvaluateCase(cases[n], planned[n])]
            s       == SummarizeRoutes(records)
        IN  /\ \A n \in DOMAIN records : records[n].passed = records[n].routed
            /\ s.macro = s.overall
            /\ \A r \in DOMAIN Routes : MapThenSumSet(LAMBDA x : s.confusion[r][x], DOMAIN Routes) = PerRoute
            /\ Whole * MapThenSumSet(LAMBDA r : s.confusion[r][r], DOMAIN Routes) = s.overall * Len(cases)
            /\ CheckRouteGates(s) => \A r \in DOMAIN Routes : s.confusion[r][r] * Whole >= 48 * PerRoute
=============================================================================
