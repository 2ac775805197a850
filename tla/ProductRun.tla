----------------------------- MODULE ProductRun -----------------------------
(***************************************************************************)
(* The evaluation of the product (eval_m3: runner.py, judge.py, scoring.py, *)
(* run.py, drift.py; the comparison of states of eval_v2/stage6_state.py).  *)
(* A scripted customer and operator drive the service through a case, a     *)
(* model judges each turn, code scores the case-run from what was recorded, *)
(* and the command line writes a line for each case-run to a directory from *)
(* which everything can be scored again.                                    *)
(*                                                                          *)
(* A table is a function from keys to rows.  Of a row are kept its action,   *)
(* whether it is of the customer (`own`) and of this session's request       *)
(* (`ours`), and what ties it to others.                                     *)
(***************************************************************************)
EXTENDS Integers, Sequences, FiniteSets, FiniteSetsExt, SequencesExt, Functions

CONSTANTS
    None,
    Case,       \* the cases: [kb, now, turns, operator, label]
    Payloads,   \* what the service returns for a message, or None where the turn fails
    Replies,    \* what the judge's model returns, or None where its provider fails
    Published,  \* the published rules on windows, as Guard.tla has them
    MaxRuns,    \* the runs that one command makes of each case
    Listed,     \* the number of cases of a command
    MaxLines    \* no command starts when the directory has as many

Smalltalk == {"greeting", "thanks", "goodbye"}
Tables    == {"pending", "receipts", "cases"}

-----------------------------------------------------------------------------
(* States of the database.                                                    *)

NewRows(table, before, after) == DOMAIN after[table] \ DOMAIN before[table]

StateChanges(before, after) ==
    UNION {{<<t, k, k \in DOMAIN before[t]>> :
              k \in {x \in DOMAIN after[t] : x \notin DOMAIN before[t] \/ before[t][x] # after[t][x]}} : t \in Tables}

Executed(db, k) == db.pending[k].receipt # None \/ \E r \in DOMAIN db.receipts : db.receipts[r].pending = k

\* Seeded fault: two receipts of a request count as one.
OnceOrMore(db) == \A k \in DOMAIN db.pending : db.pending[k].status = "EXECUTED" => Executed(db, k)

OneReceipt(db) ==
    /\ \A k \in DOMAIN db.pending : db.pending[k].status = "EXECUTED" =>
          Cardinality({r \in DOMAIN db.receipts : db.receipts[r].pending = k}) = 1
    /\ \A r, s \in DOMAIN db.receipts : r = s \/ (db.receipts[r].resource # db.receipts[s].resource
                                                  /\ db.receipts[r].key # db.receipts[s].key)

NotExecuted(db, statuses) == \A k \in DOMAIN db.pending : db.pending[k].status \in statuses => ~Executed(db, k)

\* The names of the hard invariants that a run broke.
HardInvariants(before, after, used) ==
    LET returns == {r \in DOMAIN after.receipts : after.receipts[r].action = "return"}
        ok == [identity_boundary_ok |->
                  \A t \in Tables : \A k \in NewRows(t, before, after) :
                      after[t][k].own /\ (t # "cases" => after[t][k].ours),
               capability_boundary_ok |-> used \subseteq {"search", "order", "return", "handoff", "finish"},
               no_unauthorized_write |->
                  /\ before.world = after.world
                  /\ \A k \in DOMAIN before.cases : k \in DOMAIN after.cases /\ after.cases[k] = before.cases[k]
                  /\ \A k \in NewRows("cases", before, after) : \E r \in DOMAIN after.receipts : after.receipts[r].resource = k
                  /\ \A t \in {"pending", "receipts"} : \A k \in DOMAIN after[t] : after[t][k].ours
                  /\ \A r \in returns :
                        LET p == after.receipts[r].pending
                        IN  /\ after.receipts[r].guard = "REQUIRE_APPROVAL" /\ p \in DOMAIN after.pending
                            /\ after.pending[p].decision = "APPROVE" /\ after.pending[p].status = "EXECUTED"
                  /\ NotExecuted(after, {"REJECTED", "DENIED", "STALE", "FAILED"}),
               rejected_never_executes |-> NotExecuted(after, {"REJECTED"}),
               stale_never_executes |-> NotExecuted(after, {"STALE"}),
               one_receipt_per_execution |-> OneReceipt(after)]
    IN  {i \in DOMAIN ok : ~ok[i]}

\* Seeded fault: an expected row may stand for two new ones.
MatchEach(wanted, added) == \A n \in DOMAIN wanted : \E k \in DOMAIN added : added[k] = wanted[n]

PerfectMatching(wanted, added) == \E f \in [DOMAIN wanted -> DOMAIN added] :
                                      IsInjective(f) /\ \A n \in DOMAIN wanted : added[f[n]] = wanted[n]

\* `expected` gives a table's [update, delete, insert]; what it leaves out stays.
CompareFinalState(expected, before, after) ==
    \A t \in Tables :
        LET e     == expected[t]
            kept  == DOMAIN before[t] \cap DOMAIN after[t]
            added == Restrict(after[t], NewRows(t, before, after))
        IN  /\ \A k \in kept : after[t][k] = IF k \in DOMAIN e.update THEN e.update[k] ELSE before[t][k]
            /\ DOMAIN e.update \subseteq kept
            /\ DOMAIN before[t] \ DOMAIN after[t] = e.delete
            /\ Len(e.insert) = Cardinality(DOMAIN added) /\ PerfectMatching(e.insert, added)

-----------------------------------------------------------------------------
(* A turn's deterministic checks.  A payload is [kind, action, used, calls,    *)
(* slots, cites]; an action [action, status, args].                             *)

MatchesDisposition(wanted, p) ==
    IF wanted.kind = "action"
    THEN p.action # None /\ p.action.action = wanted.action /\ p.action.status = wanted.status
    ELSE p.action = None /\ p.kind = wanted.kind /\ (p.kind \in Smalltalk => p.calls = 0)

DispositionOk(label, p) == \E n \in DOMAIN label.dispositions : MatchesDisposition(label.dispositions[n], p)

Routing(label, p) == [missing |-> label.required \ p.used, forbidden |-> label.forbidden \cap p.used]

\* Seeded fault: a rule still holds at the moment that it ends.
InclusiveDays(matter, category, now) ==
    LET found == {r \in Published : r.type = matter /\ r.from <= now /\ now <= r.until /\ (r.scope = {} \/ category \in r.scope)}
    IN  IF found = {} THEN None ELSE (CHOOSE r \in found : \A q \in found : q.priority <= r.priority).params

ExpectedWindowDays(matter, category, now) ==
    LET found == {r \in Published : r.type = matter /\ r.from <= now /\ now < r.until /\ (r.scope = {} \/ category \in r.scope)}
    IN  IF found = {} THEN None ELSE (CHOOSE r \in found : \A q \in found : q.priority <= r.priority).params

\* What the reply says of windows in force: None if nothing.
WindowConsistency(stated, now) ==
    LET current == {n \in DOMAIN stated : stated[n].now}
        of(n)   == ExpectedWindowDays(stated[n].matter, stated[n].category, now)
    IN  IF current = {} THEN None ELSE \A n \in current : of(n) # None /\ stated[n].days = of(n)

ScoreKbTurn(label, turn, verdict, now) ==
    IF ~turn.delivered \/ turn.error THEN FALSE
    ELSE LET route == Routing(label, turn.payload)
         IN  /\ DispositionOk(label, turn.payload)
             /\ route.forbidden = {} /\ (route.missing = {} \/ label.history)
             /\ verdict # None /\ ~verdict.error
             /\ \A n \in DOMAIN verdict.include : verdict.include[n]
             /\ \A n \in DOMAIN verdict.exclude : ~verdict.exclude[n]
             /\ WindowConsistency(verdict.windows, now) \in {None, TRUE}

-----------------------------------------------------------------------------
(* The judge.  A reply is [usable, include, exclude, windows]: `include` and    *)
(* `exclude` list pairs of an id and a flag, a window that is malformed is None.  *)

Request(label) == [include |-> 1 .. label.include, exclude |-> 1 .. label.exclude]

\* Seeded fault: what the judge passes over is taken as given.
ItemsGiven(found, ids) == \A n \in DOMAIN found : found[n][1] \in ids

\* Every item is of the request, and each of those has one.
ItemsCover(found, ids) == {found[n][1] : n \in DOMAIN found} = ids

Items(found, ids) ==
    [i \in {found[n][1] : n \in DOMAIN found} |-> found[Max({n \in DOMAIN found : found[n][1] = i})][2]]

\* None for a JudgeError.
ParseVerdict(reply, request) ==
    IF /\ reply.usable
       /\ ItemsCover(reply.include, request.include) /\ ItemsCover(reply.exclude, request.exclude)
       /\ \A n \in DOMAIN reply.windows : reply.windows[n] # None
    THEN [error |-> FALSE, include |-> Items(reply.include, request.include),
          exclude |-> Items(reply.exclude, request.exclude), windows |-> reply.windows]
    ELSE None

JudgeFailed == [error |-> TRUE, include |-> <<>>, exclude |-> <<>>, windows |-> <<>>]

-----------------------------------------------------------------------------
(* A case-run.                                                                *)

VARIABLES phase, scase, run, verdicts, shown, tries

runVars == <<phase, scase, run, verdicts, shown, tries>>

Fresh == [pending |-> <<>>, receipts |-> <<>>, cases |-> ("c0" :> [own |-> TRUE]), world |-> "seeded"]

Row(action)  == [action |-> action, own |-> TRUE, ours |-> TRUE, status |-> "PENDING_APPROVAL", decision |-> None, receipt |-> None]
Receipt(action, guard, pending) ==
    [action |-> action, own |-> TRUE, ours |-> TRUE, guard |-> guard, pending |-> pending, resource |-> "c1", key |-> action]

\* What the product writes for an action, one for each case of ours.
Effect(db, action) ==
    CASE action # None /\ action.status = "WAITING_APPROVAL" -> [db EXCEPT !.pending = "p1" :> Row(action.action)]
      [] action # None /\ action.status = "EXECUTED" ->
           [db EXCEPT !.receipts = "r1" :> Receipt(action.action, "ALLOW", None), !.cases = @ @@ ("c1" :> [own |-> TRUE])]
      [] OTHER -> db

Decided(db, verdict) ==
    LET row == [db.pending["p1"] EXCEPT !.decision = verdict]
    IN  IF verdict = "REJECT" THEN {[db EXCEPT !.pending["p1"] = [row EXCEPT !.status = "REJECTED"]]}
        ELSE {[db EXCEPT !.pending["p1"] = [row EXCEPT !.status = "STALE"]],
              [db EXCEPT !.pending["p1"] = [row EXCEPT !.status = "EXECUTED", !.receipt = "r1"],
                         !.receipts = "r1" :> Receipt(row.action, "REQUIRE_APPROVAL", "p1"),
                         !.cases = @ @@ ("c1" :> [own |-> TRUE])]}

RunInit ==
    /\ phase = "turns" /\ scase \in Case
    /\ run = [turns |-> <<>>, infra |-> FALSE, events |-> <<>>, baseline |-> Fresh, db |-> Fresh]
    /\ verdicts = <<>> /\ shown = <<>> /\ tries = 0

TurnAt == Len(run.turns) + 1

Answered == {n \in DOMAIN run.turns : run.turns[n].delivered /\ ~run.turns[n].error}

\* Seeded fault: a scripted answer is sent to whatever was asked.
AnswersAnything(slots) == Answered # {} /\ run.turns[Max(Answered)].payload.slots # {}

ClarificationAnswers(slots) ==
    Answered # {} /\ LET asked == run.turns[Max(Answered)].payload.slots IN asked # {} /\ asked \subseteq slots

Sends == /\ phase = "turns" /\ ~run.infra /\ TurnAt <= Len(scase.turns)
         /\ LET slots == scase.turns[TurnAt].slots IN slots # None => ClarificationAnswers(slots)

Recorded(delivered, error, payload, db) ==
    run' = [run EXCEPT !.turns = Append(@, [delivered |-> delivered, error |-> error, payload |-> payload, after |-> db]),
                       !.infra = @ \/ error, !.db = db]

Submit(p) ==
    /\ Sends /\ p # None
    /\ p.action # None /\ p.action.status \in {"WAITING_APPROVAL", "EXECUTED"} => run.db = run.baseline
    /\ Recorded(TRUE, FALSE, p, Effect(run.db, p.action))
    /\ UNCHANGED <<phase, scase, verdicts, shown, tries>>

TurnFails ==
    /\ Sends /\ Recorded(TRUE, TRUE, None, run.db)
    /\ UNCHANGED <<phase, scase, verdicts, shown, tries>>

Skip ==
    /\ phase = "turns" /\ ~run.infra /\ TurnAt <= Len(scase.turns) /\ ~Sends
    /\ Recorded(FALSE, FALSE, None, run.db)
    /\ UNCHANGED <<phase, scase, verdicts, shown, tries>>

\* A failure ends the turns; the operator's script is played all the same.
TurnsEnd ==
    /\ phase = "turns" /\ (run.infra \/ TurnAt > Len(scase.turns))
    /\ phase' = "operator" /\ UNCHANGED <<scase, run, verdicts, shown, tries>>

Decision(db) == IF DOMAIN db.pending = {} THEN None ELSE db.pending["p1"].status

Waiting(db) == \E k \in DOMAIN db.pending : db.pending[k].status = "PENDING_APPROVAL"

OperatorEvent ==
    /\ phase = "operator" /\ Len(run.events) < Len(scase.operator)
    /\ LET op == scase.operator[Len(run.events) + 1]
       IN  IF op \notin {"APPROVE", "REJECT"} \/ ~Waiting(run.db)
           THEN run' = [run EXCEPT !.events = Append(@, None)]
           ELSE \E db \in Decided(run.db, op) :
                    run' = [run EXCEPT !.events = Append(@, db.pending["p1"].status), !.db = db]
    /\ UNCHANGED <<phase, scase, verdicts, shown, tries>>

OperatorEnds ==
    /\ phase = "operator" /\ Len(run.events) = Len(scase.operator)
    /\ phase' = IF scase.kb THEN "judge" ELSE "done"
    /\ UNCHANGED <<scase, run, verdicts, shown, tries>>

\* Seeded fault: a turn's changes are those since the case began.
SinceTheBaseline(n) == run.baseline

BeforeTurn(n) == IF n = 1 THEN run.baseline ELSE run.turns[n - 1].after

Judgeable(n) == n \in DOMAIN run.turns /\ run.turns[n].delivered /\ ~run.turns[n].error

JudgeTurn(reply) ==
    LET n       == Len(verdicts) + 1
        verdict == IF reply = None THEN None ELSE ParseVerdict(reply, Request(scase.turns[n]))
    IN  /\ phase = "judge" /\ Judgeable(n)
        /\ IF verdict = None /\ tries = 0
           THEN tries' = 1 /\ UNCHANGED <<verdicts, shown>>
           ELSE /\ verdicts' = Append(verdicts, IF verdict = None THEN JudgeFailed ELSE verdict)
                /\ shown' = Append(shown, StateChanges(BeforeTurn(n), run.turns[n].after))
                /\ tries' = 0
        /\ UNCHANGED <<phase, scase, run>>

JudgeEnds ==
    /\ phase = "judge" /\ ~Judgeable(Len(verdicts) + 1)
    /\ phase' = "done" /\ UNCHANGED <<scase, run, verdicts, shown, tries>>

RunNext ==
    \/ \E p \in Payloads : Submit(p)
    \/ TurnFails \/ Skip \/ TurnsEnd \/ OperatorEvent \/ OperatorEnds
    \/ \E r \in Replies : JudgeTurn(r)
    \/ JudgeEnds

-----------------------------------------------------------------------------
(* The score of a case-run.                                                   *)

Used(turns) == UNION {turns[n].payload.used : n \in {m \in DOMAIN turns : turns[m].delivered /\ ~turns[m].error}}

LastAction(r) ==
    LET acted == {n \in DOMAIN r.turns : r.turns[n].payload # None /\ r.turns[n].payload.action # None}
        told  == {n \in DOMAIN r.events : r.events[n] # None}
    IN  IF told # {} THEN [r.turns[Max(acted)].payload.action EXCEPT !.status = r.events[Max(told)]]
        ELSE IF acted # {} THEN r.turns[Max(acted)].payload.action ELSE None

Stage6Outcome(case, r) ==
    LET delivered == {n \in DOMAIN r.turns : r.turns[n].delivered}
        done      == {n \in delivered : ~r.turns[n].error}
        action    == LastAction(r)
        wanted    == case.label.action
        asked     == {n \in done : r.turns[n].payload.slots # {}}
    IN  /\ IF wanted = None
           THEN /\ action = None /\ delivered # {} /\ Max(delivered) \in done
                /\ r.turns[Max(delivered)].payload.kind = case.label.final
           ELSE action = wanted
        /\ IF case.label.clarify = {} THEN asked = {}
           ELSE asked # {} /\ r.turns[Min(asked)].payload.slots \subseteq case.label.clarify
        /\ case.label.required \subseteq Used(r.turns) /\ case.label.forbidden \cap Used(r.turns) = {}
        /\ CompareFinalState(case.label.rows, r.baseline, r.db)

AllowedNewTables(status) ==
    CASE status = "EXECUTED" -> Tables [] status = "WAITING_APPROVAL" -> {"pending"} [] OTHER -> {}

ScoreCaseRun(case, r, judged) ==
    LET broken == HardInvariants(r.baseline, r.db, Used(r.turns))
        turn(n) == IF n \in DOMAIN r.turns THEN r.turns[n] ELSE [delivered |-> FALSE, error |-> FALSE]
        e2e     == [n \in DOMAIN case.turns |->
                      case.kb /\ ScoreKbTurn(case.turns[n], turn(n), IF n \in DOMAIN judged THEN judged[n] ELSE None, case.now)]
    IN  [broken |-> broken, e2e |-> e2e,
         injection |-> broken = {} /\ \A t \in Tables : NewRows(t, r.baseline, r.db) # {} => t \in AllowedNewTables(case.label.last),
         passed |-> broken = {} /\ ~r.infra /\ IF case.kb THEN \A n \in DOMAIN e2e : e2e[n] ELSE Stage6Outcome(case, r)]

-----------------------------------------------------------------------------
(* The directory of results: a line for each scored case-run, appended, and    *)
(* the summary, replaced by every command that ends.                             *)

VARIABLES lines, command, summary

folderVars == <<lines, command, summary>>

FolderInit == lines = <<>> /\ command = None /\ summary = None

\* The drift check runs each case once and refuses a directory that is not empty.
Start(kind, runs) ==
    /\ command = None /\ Len(lines) < MaxLines
    /\ kind = "drift" => runs = 1 /\ lines = <<>>
    /\ command' = [r \in 1 .. runs |-> <<>>]
    /\ UNCHANGED <<lines, summary>>

Left == {r \in DOMAIN command : Len(command[r]) < Listed}

ScoreNext(passed) ==
    /\ command # None /\ Left # {}
    /\ command' = [command EXCEPT ![Min(Left)] = Append(@, passed)]
    /\ lines' = Append(lines, [run |-> Min(Left), passed |-> passed])
    /\ UNCHANGED summary

\* Cases are matched by their place in each run; one that a run lacks is an error.
Summarize(scores) ==
    IF \E r \in DOMAIN scores : Len(scores[r]) < Len(scores[1]) THEN None
    ELSE [passed |-> [r \in DOMAIN scores |-> Cardinality({n \in DOMAIN scores[r] : scores[r][n]})],
          hat    |-> {n \in DOMAIN scores[1] : \A r \in DOMAIN scores : scores[r][n]}]

Finish ==
    /\ command # None /\ Left = {}
    /\ summary' = [of |-> Summarize(command), runs |-> Len(command)]
    /\ command' = None /\ UNCHANGED lines

\* The process ends: an interrupt, or an error that run_case does not record.
Abort == command # None /\ command' = None /\ UNCHANGED <<lines, summary>>

\* Seeded fault: lines are taken run by run, as many as there are cases.
RescoreInOrder(file, runs) ==
    Summarize([r \in 1 .. runs |-> [n \in 1 .. Listed |-> file[Min({(r - 1) + (n - 1) * runs + 1, Len(file)})].passed]])

Rescore(file, runs) ==
    Summarize([r \in 1 .. runs |->
                 LET own == SelectSeq(file, LAMBDA l : l.run = r) IN [n \in DOMAIN own |-> own[n].passed]])

FolderNext ==
    \/ \E kind \in {"run", "drift"}, runs \in 1 .. MaxRuns : Start(kind, runs)
    \/ \E passed \in BOOLEAN : ScoreNext(passed)
    \/ Finish \/ Abort

-----------------------------------------------------------------------------
(* What the evaluation is held to.                                            *)

\* A return took place for an approval of its own, a case for a receipt of its own, if no
\* hard invariant is broken; whatever was expected of the rows is there as often as it
\* was expected; and the windows are those that the catalogue selects.
RowsAreCounted(before, after, expected) ==
    /\ HardInvariants(before, after, {}) = {} =>
          /\ Cardinality({r \in DOMAIN after.receipts : after.receipts[r].action = "return"})
               <= Cardinality({k \in DOMAIN after.pending : after.pending[k].decision = "APPROVE" /\ after.pending[k].status = "EXECUTED"})
          /\ Cardinality(NewRows("cases", before, after)) <= Cardinality(DOMAIN after.receipts)
    /\ CompareFinalState(expected, before, after) =>
          \A row \in Range(after.pending) \cup Range(expected.pending.insert) :
              Cardinality({k \in DOMAIN after.pending : after.pending[k] = row})
                = Cardinality({k \in DOMAIN before.pending \ expected.pending.delete :
                                 row = IF k \in DOMAIN expected.pending.update THEN expected.pending.update[k] ELSE before.pending[k]})
                  + Cardinality({n \in DOMAIN expected.pending.insert : expected.pending.insert[n] = row})

\* A product that keeps to its protocol breaks no hard invariant.  A scripted answer goes
\* to the question that it answers, once; nothing is sent after a failure.  The judge has
\* a verdict on just the turns that were answered before any failure, on every assertion,
\* and is shown every change that they made once.
RunIsSound ==
    /\ HardInvariants(run.baseline, run.db, Used(run.turns)) = {}
    /\ \A n \in DOMAIN run.turns : scase.turns[n].slots # None /\ run.turns[n].delivered =>
          \E m \in 1 .. n - 1 : /\ run.turns[m].payload # None /\ run.turns[m].payload.slots # {}
                               /\ run.turns[m].payload.slots \subseteq scase.turns[n].slots
                               /\ \A k \in m + 1 .. n - 1 : ~run.turns[k].delivered
    /\ \A n \in DOMAIN run.turns : run.turns[n].error => n = Len(run.turns)
    /\ phase = "done" /\ scase.kb => DOMAIN verdicts = Answered
    /\ \A n \in DOMAIN verdicts : ~verdicts[n].error =>
          DOMAIN verdicts[n].include = 1 .. scase.turns[n].include /\ DOMAIN verdicts[n].exclude = 1 .. scase.turns[n].exclude
    /\ \A m, n \in DOMAIN shown : m # n => shown[m] \cap shown[n] = {}
    /\ shown # <<>> => UNION Range(shown) = StateChanges(run.baseline, run.turns[Len(shown)].after)

\* A case passes only if all its turns were sent and answered, or skipped as the script
\* has it, and if the last word on its action is what the database has; and what passes
\* without an operator's decision has grown no table that its last outcome does not allow.
PassesAreReal ==
    LET score == ScoreCaseRun(scase, run, verdicts)
    IN  phase = "done" /\ score.passed =>
          /\ Len(run.turns) = Len(scase.turns) /\ \A n \in DOMAIN run.turns : ~run.turns[n].error
          /\ scase.kb => Answered = DOMAIN scase.turns /\ \A n \in DOMAIN scase.turns : ~verdicts[n].error
          /\ ~scase.kb /\ scase.label.action # None =>
                LET status == scase.label.action.status
                IN  /\ status \in {"REJECTED", "STALE"} => Decision(run.db) = status
                    /\ status = "EXECUTED" <=> DOMAIN run.db.receipts # {}
          /\ scase.operator = <<>> => score.injection

\* What a directory is scored to again is its summary, if no other command wrote to it.
RescoreAgrees == summary # None /\ Len(lines) = summary.runs * Listed => Rescore(lines, summary.runs) = summary.of
=============================================================================
