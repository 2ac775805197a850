--------------------------- MODULE GroundingStudy ---------------------------
(***************************************************************************)
(* The study of the grounding gate (eval_m1): grounding_policy.py puts the  *)
(* gate of the service around a policy of the Stage 6 runner, records every *)
(* decision with a second reading of the rules, and, when it enforces,      *)
(* refuses what is not grounded; run_m1_a2.py runs each case under either   *)
(* mode, once, into a directory; summarize.py says what was admitted, what  *)
(* the gate cost and whether the results may be used.                        *)
(*                                                                         *)
(* Reads are those of get_order, the only ones that ground an argument.  A   *)
(* read finds None (failed, empty, malformed) or a function from the items    *)
(* that it lists to the order each is linked to.                             *)
(***************************************************************************)
EXTENDS Naturals, Sequences, FiniteSets, FiniteSetsExt, SequencesExt, Functions

CONSTANTS
    None,
    Order, Item,
    MaxSteps,     \* of a policy run
    MaxReads,     \* of all its policy runs
    MaxRuns,      \* the main run and the reruns of the operator's script
    Cases,        \* the number of cases
    Rounds,
    MaxFailures   \* case-runs of one experiment that fail or break an invariant

Modes  == <<"shadow", "enforce">>
Action == [order : Order, item : Item]

-----------------------------------------------------------------------------
(* The gate and the second reading of its rules, over the reads of a run in   *)
(* their order.                                                               *)

Latest(reads, order) == Max({0} \cup {k \in DOMAIN reads : reads[k].order = order})

Links(read, item) == IF read.found = None THEN {} ELSE {read.found[i] : i \in DOMAIN read.found \cap {item}}

\* Seeded fault: the latest read that found the order counts.
GroundOnAny(a, reads) ==
    LET n == Max({0} \cup {k \in DOMAIN reads : reads[k].order = a.order /\ reads[k].found # None})
    IN  IF n = 0 THEN "missing" ELSE IF Links(reads[n], a.item) = {a.order} THEN None ELSE "not_observed"

\* None, or why the action is rejected.
GroundAction(a, reads) ==
    LET n         == Latest(reads, a.order)
        elsewhere == UNION {Links(reads[k], a.item) : k \in (DOMAIN reads) \ {n}}
    IN  IF n = 0 THEN "missing"
        ELSE IF reads[n].found = None THEN "stale"
        ELSE IF Links(reads[n], a.item) # {} THEN IF Links(reads[n], a.item) = {a.order} THEN None ELSE "relation"
        ELSE IF elsewhere = {} THEN "not_observed"
        ELSE IF elsewhere = {a.order} THEN "stale" ELSE "relation"

\* None if the rules are met, or the first that is not.
Audit(a, reads) ==
    LET n == Latest(reads, a.order)
    IN  IF n = 0 THEN "no_read"
        ELSE IF reads[n].found = None THEN "read_not_ok"
        ELSE IF Links(reads[n], a.item) = {} THEN "item_not_read"
        ELSE IF Links(reads[n], a.item) = {a.order} THEN None ELSE "item_of_another"

ReasonCodes == [no_read |-> {"missing"}, read_not_ok |-> {"stale"},
                item_not_read |-> {"not_observed", "stale", "relation"}, item_of_another |-> {"relation"}]

-----------------------------------------------------------------------------
(* One case-run: the runner makes a policy for the main run and for each      *)
(* rerun.  `forwarded` is what the policy asked to read, `obs` what the state *)
(* shows of it: ids into `forwarded`, or 0 for an id that nothing was asked    *)
(* by; `before` counts the reads of the policies before it.                     *)

VARIABLES
    mode, policy,
    decisions,      \* the grounding records of the case-run
    diagnostics,    \* what the wrapper found wrong, by code
    results,        \* of each policy run: the action that reached the gateway, or None
    ended,          \* "no", or how the case-run ended
    saw             \* history: what had been read when an action reached the gateway

caseVars == <<mode, policy, decisions, diagnostics, results, ended, saw>>

Fresh == [forwarded |-> <<>>, obs |-> <<>>, before |-> 0]

CaseInit ==
    /\ mode \in Range(Modes) /\ policy = Fresh
    /\ decisions = <<>> /\ diagnostics = {} /\ results = <<>> /\ saw = <<>>
    /\ ended = "no"

Forwarded(p, x) == x.id \in DOMAIN p.forwarded

Paired(p, x) == Forwarded(p, x) /\ x.order = p.forwarded[x.id] /\ x.kind = "result"

\* Seeded fault: what does not pair is left out.
FixPaired(p) ==
    LET own == SelectSeq(p.obs, LAMBDA x : Paired(p, x)) IN [visible |-> own, views |-> own, complete |-> TRUE]

\* What a decision may rest on: every read if all are of calls that were forwarded,
\* each once; otherwise none.
FixVisible(p) ==
    LET complete == (\A n \in DOMAIN p.obs : Paired(p, p.obs[n])) /\ IsInjective([n \in DOMAIN p.obs |-> p.obs[n].id])
        views    == IF complete THEN p.obs
                    ELSE SelectSeq(p.obs, LAMBDA x : Forwarded(p, x) /\ x.order = p.forwarded[x.id])
    IN  [visible |-> IF complete THEN views ELSE <<>>, views |-> views, complete |-> complete]

Diagnoses(p) ==
    (UNION {IF ~Forwarded(p, x) THEN {"no_forwarded_call"}
            ELSE IF x.order # p.forwarded[x.id] THEN {"call_mismatch"}
            ELSE IF x.kind # "result" THEN {"no_tool_result"} ELSE {} : x \in Range(p.obs)})
      \cup (IF IsInjective([n \in DOMAIN p.obs |-> p.obs[n].id]) THEN {} ELSE {"duplicate_id"})

Deciding == ended = "no" /\ Len(results) < MaxRuns /\ Len(policy.forwarded) < MaxSteps

Observed(id, order, kind, found) == [id |-> id, order |-> order, kind |-> kind, found |-> found]

NextPolicy == policy' = [Fresh EXCEPT !.before = policy.before + Len(policy.forwarded)]

\* A call is remembered and returned; the runner reads, and the next state shows the
\* result, or, once in a policy run, a malformed one as a failure or something that the
\* wrapper cannot pair.
Shown(id, order, found) ==
    LET result == Observed(id, order, "result", found)
    IN  {<<result>>} \cup
        IF ~FixVisible(policy).complete THEN {}
        ELSE {<<Observed(id, order, "failure", None)>>, <<[result EXCEPT !.id = 0]>>, <<result, result>>}
               \cup {<<[result EXCEPT !.order = o]>> : o \in Order \ {order}}

ToolCall(order, found) ==
    /\ Deciding /\ policy.before + Len(policy.forwarded) < MaxReads
    /\ diagnostics' = diagnostics \cup Diagnoses(policy)
    /\ \E shown \in Shown(Len(policy.forwarded) + 1, order, found) :
          policy' = [policy EXCEPT !.forwarded = Append(@, order), !.obs = @ \o shown]
    /\ UNCHANGED <<mode, decisions, results, ended, saw>>

Attribution(code, seen, reason) ==
    IF code = None THEN None ELSE IF ~seen.complete THEN "fail_closed" ELSE IF reason = None THEN "false" ELSE "true"

\* Seeded fault: what the gate rejects is recorded and returned, whatever the mode.
AdmitsWhatItRecords(code) == TRUE

Admits(code) == mode = "enforce" => code = None

\* A valid action: grounded or not, a record of it, and in either case the policy run ends.
ActionIntent(a) ==
    LET seen   == FixVisible(policy)
        code   == GroundAction(a, seen.visible)
        reason == Audit(a, seen.views)
    IN  /\ Deciding /\ diagnostics' = diagnostics \cup Diagnoses(policy)
        /\ decisions' = Append(decisions,
              [run |-> Len(results) + 1, action |-> a, grounded |-> code = None, code |-> code, reason |-> reason,
               agrees |-> seen.complete => (code = None) = (reason = None), attribution |-> Attribution(code, seen, reason)])
        /\ results' = Append(results, IF Admits(code) THEN a ELSE None)
        /\ saw' = Append(saw, IF Admits(code) THEN policy.obs ELSE <<>>)
        /\ NextPolicy /\ UNCHANGED <<mode, ended>>

\* Any other disposition, or an action that does not keep to its contract.
OtherDecision(invalid) ==
    /\ Deciding
    /\ diagnostics' = diagnostics \cup Diagnoses(policy) \cup (IF invalid THEN {"action_contract"} ELSE {})
    /\ results' = Append(results, None) /\ saw' = Append(saw, <<>>)
    /\ NextPolicy /\ UNCHANGED <<mode, decisions, ended>>

\* The last step was a read: nothing looks at it.
OutOfSteps ==
    /\ ended = "no" /\ Len(policy.forwarded) = MaxSteps
    /\ results' = Append(results, None) /\ saw' = Append(saw, <<>>)
    /\ NextPolicy /\ UNCHANGED <<mode, decisions, diagnostics, ended>>

\* It is scored, or a provider or something else fails in the scoring or in the run; a
\* run that failed is lost.
CaseEnds ==
    /\ ended = "no"
    /\ \/ results # <<>> /\ policy.forwarded = <<>> /\ ended' \in {"scored", "unscored"}
       \/ ended' = "lost"
    /\ UNCHANGED <<mode, policy, decisions, diagnostics, results, saw>>

CaseNext ==
    \/ \E o \in Order, found \in {None} \cup UNION {[items -> Order] : items \in SUBSET Item} : ToolCall(o, found)
    \/ \E a \in Action : ActionIntent(a)
    \/ \E invalid \in BOOLEAN : OtherDecision(invalid)
    \/ OutOfSteps
    \/ CaseEnds
    \/ ended # "no" /\ UNCHANGED caseVars

CaseSpec == CaseInit /\ [][CaseNext]_caseVars

-----------------------------------------------------------------------------
(* What the summary says of a row.                                            *)

Row == [mode |-> mode, decisions |-> decisions, diagnostics |-> diagnostics,
        run |-> IF ended = "lost" THEN None ELSE results]

\* Seeded fault: a record is looked for by its action alone.
DecisionOnAction(row, n) ==
    LET found == {d \in Range(row.decisions) : d.action = row.run[n]} IN IF Cardinality(found) = 1 THEN CHOOSE d \in found : TRUE ELSE None

Decision(row, n) ==
    LET found == {k \in DOMAIN row.decisions : row.decisions[k].run = n /\ row.decisions[k].action = row.run[n]}
    IN  IF Cardinality(found) = 1 THEN row.decisions[CHOOSE k \in found : TRUE] ELSE None

Admissions(row) == IF row.run = None THEN {} ELSE {n \in DOMAIN row.run : row.run[n] # None}

UngroundedAdmitted(row) == {n \in Admissions(row) : Decision(row, n) # None /\ ~Decision(row, n).grounded}

Problems(row) ==
    {code \in {"no_record", "enforce_admitted", "fail_closed", "code_inconsistent", "admission_rejected", "diagnostics"} :
       CASE code = "no_record"          -> \E n \in Admissions(row) : Decision(row, n) = None
         [] code = "enforce_admitted"   -> row.mode = "enforce" /\ UngroundedAdmitted(row) # {}
         [] code = "fail_closed"        -> \E d \in Range(row.decisions) : d.attribution = "fail_closed"
         [] code = "code_inconsistent"  -> \E d \in Range(row.decisions) : d.attribution = "true" /\ d.code \notin ReasonCodes[d.reason]
         [] code = "admission_rejected" -> \E d \in Range(row.decisions) : d.grounded /\ ~d.agrees
         [] code = "diagnostics"        -> row.diagnostics # {}}

-----------------------------------------------------------------------------
(* The experiment: round by round, the cases under shadow, then under         *)
(* enforcement.  A row is [round, mode, case, how, ok]; its score, if it has  *)
(* one, is `ok` for the metric that is compared, and "broken" if a hard        *)
(* invariant failed.                                                           *)

VARIABLES
    out,        \* the directory: None while it is new or empty, else its rows
    running,    \* a process writes to it
    report      \* the summary it left, or None

studyVars == <<out, running, report>>

StudyInit == out = None /\ running = FALSE /\ report = None

\* A clean checkout that contains the measured gate and has not changed it, the rules
\* that the second reading implements, the frozen cases and a directory elsewhere.
Preflight(checkout) ==
    /\ checkout.clean /\ checkout.contains /\ checkout.frozen
    /\ checkout.version = "m1-grounding/2" /\ checkout.dataset /\ checkout.outside

Begin(checkout) ==
    /\ ~running /\ out = None /\ Preflight(checkout)
    /\ out' = <<>> /\ running' = TRUE /\ UNCHANGED report

Remaining == Rounds * Len(Modes) * Cases - Len(out)

RunOne(how, ok) ==
    LET n == Len(out)
    IN  /\ running /\ Remaining > 0
        /\ how # "scored" => ~ok /\ Len(SelectSeq(out, LAMBDA r : r.how # "scored")) < MaxFailures
        /\ out' = Append(out, [round |-> (n \div (Len(Modes) * Cases)) + 1, mode |-> Modes[((n \div Cases) % Len(Modes)) + 1],
                               case |-> (n % Cases) + 1, how |-> how, ok |-> ok])
        /\ UNCHANGED <<running, report>>

Scored(row) == row.how \in {"scored", "broken"}

RowsOf(rows, m, r) == {row \in Range(rows) : row.mode = m /\ row.round = r}

\* Seeded fault: what has no score counts as failed.
ComparedAll(rows, r) ==
    LET ok(m) == {row.case : row \in {x \in RowsOf(rows, m, r) : Scored(x) /\ x.ok}}
    IN  [complete |-> TRUE, cost |-> ok("shadow") \ ok("enforce"), gain |-> ok("enforce") \ ok("shadow")]

\* Only the cases that have a score on both sides.
Comparison(rows, r) ==
    LET scored(m) == {row \in RowsOf(rows, m, r) : Scored(row)}
        paired    == {x.case : x \in scored("shadow")} \cap {x.case : x \in scored("enforce")}
        ok(m)     == {row.case : row \in {x \in scored(m) : x.ok}} \cap paired
    IN  [complete |-> Cardinality(paired) = Cases,
         cost |-> ok("shadow") \ ok("enforce"), gain |-> ok("enforce") \ ok("shadow")]

GroupRound(rows, m, r) ==
    LET scored == {row \in RowsOf(rows, m, r) : Scored(row)}
    IN  [scored   |-> Cardinality(scored), complete |-> Cardinality(scored) = Cases,
         missing  |-> (1 .. Cases) \ {row.case : row \in RowsOf(rows, m, r)},
         unscored |-> {row.case : row \in RowsOf(rows, m, r) \ scored},
         ok       |-> Cardinality({row \in scored : row.ok})]

\* Seeded fault: the rows that are there are complete.
SummarizePresent(rows) ==
    [complete |-> \A row \in Range(rows) : Scored(row), stop |-> \E row \in Range(rows) : row.how \in {"broken", "error"},
     groups |-> [k \in DOMAIN Modes |-> [r \in 1 .. Rounds |-> GroupRound(rows, Modes[k], r)]],
     compared |-> [r \in 1 .. Rounds |-> Comparison(rows, r)]]

SummarizeRows(rows) ==
    LET groups == [k \in DOMAIN Modes |-> [r \in 1 .. Rounds |-> GroupRound(rows, Modes[k], r)]]
    IN  [complete |-> \A k \in DOMAIN Modes, r \in 1 .. Rounds : groups[k][r].complete,
         stop |-> \E row \in Range(rows) : row.how \in {"broken", "error"}, groups |-> groups,
         compared |-> [r \in 1 .. Rounds |-> Comparison(rows, r)]]

\* It ends, or is interrupted between two rows; either way it leaves a summary.
End(interrupted) ==
    /\ running /\ (interrupted \/ Remaining = 0)
    /\ report' = [interrupted |-> interrupted, of |-> SummarizeRows(out)]
    /\ running' = FALSE /\ UNCHANGED out

\* The process is killed.
Die == running /\ running' = FALSE /\ UNCHANGED <<out, report>>

StudyNext ==
    \/ \E checkout \in [clean : BOOLEAN, contains : BOOLEAN, frozen : BOOLEAN, dataset : BOOLEAN, outside : BOOLEAN,
                        version : {"m1-grounding/1", "m1-grounding/2"}] : Begin(checkout)
    \/ \E how \in {"scored", "broken", "provider", "error"}, ok \in BOOLEAN : RunOne(how, ok)
    \/ \E interrupted \in BOOLEAN : End(interrupted)
    \/ Die
    \/ ~running /\ out # None /\ UNCHANGED studyVars

StudySpec == StudyInit /\ [][StudyNext]_studyVars

-----------------------------------------------------------------------------
(* What the study is held to.                                                 *)

\* In the reads of its own policy run, the latest of the order lists the item.
Supported(a, obs) ==
    \E k \in DOMAIN obs : /\ obs[k].id # 0 /\ obs[k].kind = "result" /\ obs[k].order = a.order /\ obs[k].found # None
                          /\ a.item \in DOMAIN obs[k].found /\ obs[k].found[a.item] = a.order
                          /\ \A j \in k + 1 .. Len(obs) : obs[j].order # a.order

\* Enforced, nothing reaches the gateway that the run's own reads do not support; in shadow
\* the rows count just what does.  Gate and second reading never disagree; a rejection is
\* closed only where the wrapper diagnosed something, and no record is missing.
GateIsJudged ==
    /\ \A n \in Admissions([run |-> results]) :
          /\ mode = "enforce" => Supported(results[n], saw[n])
          /\ diagnostics = {} /\ ~Supported(results[n], saw[n]) => n \in UngroundedAdmitted([Row EXCEPT !.run = results])
    /\ ended # "no" =>
          /\ Problems(Row) \subseteq {"fail_closed", "diagnostics"}
          /\ "fail_closed" \in Problems(Row) => "diagnostics" \in Problems(Row)
          /\ \A d \in Range(decisions) : d.attribution # "false"
          /\ diagnostics = {} => \A n \in UngroundedAdmitted(Row) : ~Supported(results[n], saw[n])

\* A complete summary is of every case, once in every round and mode, each with a score;
\* then what the enforcement costs and gains is the difference of its metric, and in any
\* case no case without two scores is a cost or a gain.  One that is neither complete nor
\* to be stopped was interrupted or lacks what a provider failed to give.
SummaryIsWhole ==
    /\ out # None => \A j, k \in DOMAIN out : j < k =>
          /\ <<out[j].round, out[j].mode, out[j].case>> # <<out[k].round, out[k].mode, out[k].case>>
          /\ out[j].round <= out[k].round
          /\ out[j].round = out[k].round /\ out[j].mode = "enforce" => out[k].mode = "enforce"
    /\ report # None =>
          /\ report.of.complete => Len(out) = Rounds * Len(Modes) * Cases /\ \A k \in DOMAIN out : Scored(out[k])
          /\ ~report.of.complete /\ ~report.of.stop => report.interrupted \/ \E k \in DOMAIN out : out[k].how = "provider"
          /\ \A r \in 1 .. Rounds :
                LET c == report.of.compared[r]
                IN  /\ report.of.complete =>
                          /\ c.complete
                          /\ report.of.groups[2][r].ok + Cardinality(c.cost) = report.of.groups[1][r].ok + Cardinality(c.gain)
                    /\ \A x \in c.cost \cup c.gain : \A m \in Range(Modes) : \E row \in RowsOf(out, m, r) : row.case = x /\ Scored(row)
=============================================================================
