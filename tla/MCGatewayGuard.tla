--------------------------- MODULE MCGatewayGuard ---------------------------
(***************************************************************************)
(* The gateway in three settings, and evaluations of the product in four   *)
(* more, chosen in the first state.  In "world"                            *)
(* one policy is in force and the business systems and the staff change    *)
(* what the Guard reads of two requests; in "policy" the world stands      *)
(* still and days, policy builds, risk releases and two handoffs pass; in  *)
(* "case" the harness of the Stage 6 evaluation drives the gateway and     *)
(* scores it; in "scores" a case run, a dataset or two series of runs are  *)
(* drawn; in "product" the service is driven through a case, judged and     *)
(* scored, in "folder" commands write their results to one directory, and   *)
(* in "tables" two states of a database are drawn.                          *)
(***************************************************************************)
EXTENDS MCActionGateway

VARIABLES setting, case, situation, tables, calls, fired, object, main, script, at, score,
          phase, scase, run, verdicts, shown, tries, lines, command, summary

(* The two settings of the gateway: the steps of Next that concern some of the *)
(* keys and a part of what surrounds the gateway.                              *)

GatewayOf(keys) ==
    \/ \E k \in keys : Start(k)
    \/ \E w \in Worker, k \in keys : Resume(w, k)
    \/ \E w \in Worker : Compensate(w) \/ CompensateFails(w)
    \/ Restart

WorldKeys == {r1, x1}
WorldInit == Init /\ build = "b1"
WorldNext ==
    \/ GatewayOf(WorldKeys)
    \/ \E i \in Item : OrderChanges(i) \/ ParcelsChange(i) \/ StockChanges(i)
    \/ \E c \in StaffCase, i \in Item, type \in {"return", "exchange"} : StaffOpensCase(c, i, type)
    \/ \E c \in WorldKeys \cup StaffCase, status \in {"completed", "rejected"} : StaffClosesCase(c, status)
    \/ PolicyChanges /\ build' # "b2"

PolicyKeys == {q1, x1, h1, h2}
PolicyInit ==
    /\ Init
    /\ \A i \in Item : order[i].status = "delivered" /\ parcels[i].rows = Delivered /\ stock[i].state = "enough"
PolicyNext ==
    \/ GatewayOf(PolicyKeys)
    \/ \E c \in PolicyKeys, status \in {"completed", "rejected"} : StaffClosesCase(c, status)
    \/ \E k \in PolicyKeys : StaffClosesTicket(k)
    \/ PolicyChanges \/ Deploy \/ DayPasses

\* The gateway of the other settings, which stands still.
NoRequest == PolicyInit /\ build = "b1"

(* A read of the Guard, the catalogue, a write and every commit of a run's    *)
(* first transactions.                                                        *)
Fault(point, mode, n) == [at |-> point, mode |-> mode, on_call |-> n]

Plans ==
    {<<>>,
     <<Fault("guard_read", "malformed", 3), Fault("order", "error", 2)>>,
     <<Fault("policy_catalog", "error", 1), Fault("receipt_write", "error", 1)>>,
     <<Fault("business_write", "error", 1)>>,
     <<Fault("policy_catalog", "error", 2)>>}
      \cup {<<Fault("commit", "error", n)>> : n \in 1 .. 3}

S == INSTANCE Stage6Case WITH
    MaxEvents <- 3, MaxVersion <- 2, MaxTime <- 3, Window <- 2,
    world <- situation, rows <- tables, gateway <- object

-----------------------------------------------------------------------------
(* Cases, replies and series of the official scores.                          *)

ScoreRoutes == [direct |-> {}, wiki |-> {"wiki"}, both |-> {"wiki", "document"}]

A == INSTANCE AnswerScores WITH
    Counts <- [answer |-> 2, refuse |-> 1, boundary |-> 1], Categories <- [document |-> 1, wiki |-> 1],
    Routes <- ScoreRoutes, PerRoute <- 1

ScoreCase(id, behavior, category, groups, patterns, message) ==
    [id |-> id, question |-> id, behavior |-> behavior, route |-> "wiki",
     sources |-> IF behavior = "answer" THEN {"document"} ELSE {}, category |-> category,
     groups |-> groups, patterns |-> patterns, message |-> message]

ScoredCases ==
    <<ScoreCase(1, "answer", "document", <<{"days", "number"}>>, <<>>, None),
      ScoreCase(2, "answer", "wiki", <<>>, <<{"days", "words"}, {"terms"}>>, None),
      ScoreCase(3, "generation_refuse", "wiki", <<>>, <<>>, None),
      ScoreCase(4, "boundary", "wiki", <<>>, <<>>, "limited")>>

\* One field of one case is another.
Datasets ==
    LET list == ScoredCases
        of(field, values) == {[list EXCEPT ![n] = [list[n] EXCEPT ![field] = v]] : n \in DOMAIN list, v \in values}
    IN  {list, SubSeq(list, 1, 3), list \o <<[list[3] EXCEPT !.id = 5, !.question = 5]>>}
          \cup of("id", {1, 3}) \cup of("question", {2})
          \cup of("behavior", {"answer", "generation_refuse", "policy_refuse", "boundary"})
          \cup of("category", {"document", "wiki", "other"})
          \cup of("groups", {<<>>, <<{"days"}>>, <<{}>>, <<{"number"}>>})
          \cup of("patterns", {<<>>, <<{"days"}>>, <<{}>>, <<{"number"}>>, <<{"days"}, {"number", "words"}>>})
          \cup of("message", {"limited", "no_sku", "no_wiki"})

Prepared(fixed, outcome, route, sources) ==
    [fixed |-> fixed, outcome |-> outcome, route |-> route, sources |-> sources]
Reply(says, cites, numbers, refuses, echoes) ==
    [says |-> says, cites |-> cites, numbers |-> numbers, refuses |-> refuses, echoes |-> echoes]
Fixed == Reply({}, {}, FALSE, "no", FALSE)

Policies == {ScoreCase(5, "policy_refuse", "wiki", <<>>, <<>>, None)}

CaseRuns ==
    {[kind |-> "run", case |-> c, prepared |-> p, reply |-> r] :
        c \in {ScoredCases[n] : n \in DOMAIN ScoredCases} \cup Policies,
        p \in {Prepared(None, "ready", route, sources) :
                 route \in {"wiki", "both"}, sources \in {<<"document">>, <<"wiki">>, <<"wiki", "document">>}},
        r \in {Reply(says, cites, numbers, refuses, echoes) :
                 says \in {{}, {"days"}, {"number"}, {"words", "terms"}, {"terms"}},
                 cites \in {{}, {1}, {2}, {0, 1}, {1, 2}}, numbers \in BOOLEAN,
                 refuses \in {"no", "evaluator"}, echoes \in BOOLEAN}}
      \cup {[kind |-> "run", case |-> c, prepared |-> p, reply |-> Fixed] :
        c \in {ScoredCases[n] : n \in DOMAIN ScoredCases} \cup Policies,
        p \in {Prepared(fixed, outcome, route, <<>>) :
                 fixed \in {"limited", "no_sku", "no_wiki", "refused"}, outcome \in {"direct", "ready"},
                 route \in {"wiki", "both"}}}

Good(n) ==
    CASE n <= 2 -> A!RunCase(ScoredCases[n], Prepared(None, "ready", "wiki", <<"document">>),
                             Reply({"days", "terms"}, {1}, TRUE, "no", FALSE))
      [] n = 3 -> A!RunCase(ScoredCases[n], Prepared(None, "ready", "wiki", <<"document">>),
                            Reply({}, {}, FALSE, "evaluator", FALSE))
      [] OTHER -> A!RunCase(ScoredCases[n], Prepared("limited", "ready", "wiki", <<>>), Fixed)

ScoresOf(n) ==
    LET document == Prepared(None, "ready", "wiki", <<"document">>)
        of(prepared, reply) == A!RunCase(ScoredCases[n], prepared, reply)
        cited(i) == of(document, Reply({"days"}, {i}, FALSE, "no", FALSE))
    IN  CASE n = 1 -> {Good(n), cited(3), of(document, Reply({"days"}, {}, FALSE, "no", FALSE)),
                       of(Prepared("limited", "ready", "wiki", <<>>), Fixed)}
          [] n = 2 -> {Good(n), cited(1), of(document, Reply({}, {}, FALSE, "evaluator", FALSE))}
          [] n = 3 -> {Good(n), cited(1), of(Prepared("refused", "ready", "wiki", <<>>), Fixed)}
          [] OTHER -> {Good(n), cited(1)}

SampleRuns == {<<a, b, c, d>> : a \in ScoresOf(1), b \in ScoresOf(2), c \in ScoresOf(3), d \in ScoresOf(4)}

RouteDatasets ==
    LET routed(id, route) == [id |-> id, question |-> id, route |-> route, steps |-> ScoreRoutes[route],
                            boundary |-> id = 3]
        list == <<routed(1, "direct"), routed(2, "wiki"), routed(3, "both")>>
    IN  {list, <<list[1], list[1], list[2], list[3]>>, <<list[1], list[2]>>,
         <<list[1], [list[2] EXCEPT !.steps = {"document"}], list[3]>>,
         <<list[1], routed(4, "direct"), list[2], list[3]>>}

Samples ==
    CaseRuns
      \cup {[kind |-> "dataset", cases |-> list] : list \in Datasets}
      \cup {[kind |-> "series", before |-> <<a, b>>] : a, b \in SampleRuns}

DrawScore ==
    /\ setting = "scores" /\ score = None
    /\ \/ score' \in Samples
       \/ \E list \in RouteDatasets : \E planned \in [DOMAIN list -> DOMAIN ScoreRoutes] :
            score' = [kind |-> "routes", cases |-> list, planned |-> planned]

-----------------------------------------------------------------------------
(* The product under evaluation: what the service returns, the cases and the  *)
(* replies of the judge's model.                                              *)

WindowRule(type, from, until, scope, priority, params) ==
    [type |-> type, from |-> from, until |-> until, scope |-> scope, priority |-> priority, params |-> params]

WindowRules ==
    {WindowRule("return_window", 0, 9, {}, 0, 7), WindowRule("return_window", 1, 2, {}, 2, 15),
     WindowRule("return_window", 0, 9, {"custom"}, 1, 3), WindowRule("exchange_window", 0, 3, {"clothes"}, 1, 30)}

Asked(action, status) == [action |-> action, status |-> status, args |-> "args"]

Payload(kind, action, used, n, slots) ==
    [kind |-> kind, action |-> action, used |-> used, calls |-> n, slots |-> slots]

ProductPayloads ==
    {Payload("answer", None, {"search"}, 2, {}), Payload("answer", None, {}, 1, {}),
     Payload("thanks", None, {}, 0, {}), Payload("thanks", None, {}, 1, {}),
     Payload("clarification", None, {"order"}, 1, {"item"}),
     Payload("clarification", None, {"order"}, 1, {"item", "reason"}),
     Payload(None, Asked("return", "WAITING_APPROVAL"), {"order", "return"}, 2, {}),
     Payload(None, Asked("return", "DENIED"), {"order", "return"}, 2, {}),
     Payload(None, Asked("handoff", "EXECUTED"), {"order", "handoff"}, 2, {})}

KbTurn(dispositions, required, forbidden, include, exclude, history) ==
    [slots |-> None, dispositions |-> dispositions, required |-> required, forbidden |-> forbidden,
     include |-> include, exclude |-> exclude, history |-> history]
Says(slots) == [slots |-> slots]
Disposition(kind, action, status) == [kind |-> kind, action |-> action, status |-> status]

R == INSTANCE ProductRun WITH
    Case <- {}, Payloads <- ProductPayloads, Replies <- {}, Published <- WindowRules, MaxRuns <- 2, Listed <- 2, MaxLines <- 5

LabelOf(action, final, clarify, required, forbidden, wanted, last) ==
    [action |-> action, final |-> final, clarify |-> clarify, required |-> required, forbidden |-> forbidden,
     rows |-> wanted, last |-> last]

Stays   == [update |-> <<>>, delete |-> {}, insert |-> <<>>]
Nothing == [t \in R!Tables |-> Stays]

Inserts(requests, got, number) ==
    [Nothing EXCEPT !["pending"].insert = requests, !["receipts"].insert = got,
                    !["cases"].insert = [n \in 1 .. number |-> [own |-> TRUE]]]

DecidedRow(status) ==
    [R!Row("return") EXCEPT !.status = status, !.decision = IF status = "REJECTED" THEN "REJECT" ELSE "APPROVE",
                            !.receipt = IF status = "EXECUTED" THEN "r1" ELSE None]

ReturnCase(status, operator, wanted) ==
    [kb |-> FALSE, now |-> 1, turns |-> <<Says(None), Says({"item"}), Says({"item", "reason"})>>, operator |-> operator,
     label |-> LabelOf(Asked("return", status), None, {"item"}, {"order"}, {"handoff"}, wanted, status)]

ProductCases ==
    {[kb |-> TRUE, now |-> 1,
      turns |-> <<KbTurn(<<Disposition("answer", None, None), Disposition("thanks", None, None)>>,
                         {"search"}, {"return"}, 2, 1, FALSE),
                  KbTurn(<<Disposition("action", "return", "WAITING_APPROVAL")>>, {"order", "search"}, {}, 1, 0, TRUE)>>,
      operator |-> <<>>, label |-> LabelOf(None, None, {}, {}, {}, Nothing, "WAITING_APPROVAL")],
     ReturnCase("EXECUTED", <<"APPROVE">>,
                Inserts(<<DecidedRow("EXECUTED")>>, <<R!Receipt("return", "REQUIRE_APPROVAL", "p1")>>, 1)),
     ReturnCase("STALE", <<"APPROVE", "APPROVE">>, Inserts(<<DecidedRow("STALE")>>, <<>>, 0)),
     ReturnCase("REJECTED", <<"note", "REJECT", "APPROVE">>, Inserts(<<DecidedRow("REJECTED")>>, <<>>, 0)),
     [kb |-> FALSE, now |-> 1, turns |-> <<Says(None), Says({"item"})>>, operator |-> <<>>,
      label |-> LabelOf(Asked("handoff", "EXECUTED"), None, {"item"}, {"handoff"}, {"return"},
                        Inserts(<<>>, <<R!Receipt("handoff", "ALLOW", None)>>, 1), "EXECUTED")],
     [kb |-> FALSE, now |-> 1, turns |-> <<Says(None), Says({"reason"})>>, operator |-> <<>>,
      label |-> LabelOf(None, "answer", {}, {"search"}, {"return"}, Nothing, None)]}

Judged(usable, include, exclude, windows) ==
    [usable |-> usable, include |-> include, exclude |-> exclude, windows |-> windows]
Window(days, now) == [matter |-> "return_window", days |-> days, category |-> None, now |-> now]

\* One that covers the first turn's assertions, one that answers an assertion twice, and
\* others that leave some out, or cannot be used.
ProductReplies ==
    {None, Judged(FALSE, <<>>, <<>>, <<>>), Judged(TRUE, <<<<1, TRUE>>>>, <<>>, <<>>), Judged(TRUE, <<<<1, TRUE>>>>, <<>>, <<None>>),
     Judged(TRUE, <<<<1, TRUE>>, <<2, TRUE>>>>, <<<<1, FALSE>>>>, <<Window(15, TRUE), Window(7, FALSE)>>),
     Judged(TRUE, <<<<2, TRUE>>, <<1, FALSE>>, <<1, TRUE>>>>, <<<<1, FALSE>>>>, <<>>),
     Judged(TRUE, <<<<2, TRUE>>, <<1, TRUE>>>>, <<<<1, TRUE>>>>, <<>>)}

E == INSTANCE ProductRun WITH
    Case <- ProductCases, Payloads <- ProductPayloads, Replies <- ProductReplies, Published <- WindowRules,
    MaxRuns <- 2, Listed <- 2, MaxLines <- 5

(* Two states of a database, and what was expected of the second.             *)
SomeRows  == {R!Row("return"), DecidedRow("EXECUTED"), [DecidedRow("REJECTED") EXCEPT !.receipt = "r1"]}
TablesOf(keys, values) == UNION {[ks -> values] : ks \in SUBSET keys}

SomeReceipts ==
    {[R!Receipt("return", guard, of) EXCEPT !.resource = resource, !.key = resource] :
        guard \in {"ALLOW", "REQUIRE_APPROVAL"}, of \in {None, "p1", "p2"}, resource \in {"c1", "c2"}}

Database(requests, got, added) ==
    [pending |-> requests, receipts |-> got, cases |-> [k \in added \cup {"c0"} |-> [own |-> TRUE]], world |-> "seeded"]

TablePairs ==
    {[before |-> R!Fresh, after |-> Database(requests, got, added), expected |-> Nothing] :
        requests \in TablesOf({"p1", "p2"}, SomeRows), got \in TablesOf({"r1", "r2"}, SomeReceipts),
        added \in SUBSET {"c1", "c2"}}
      \cup {[before |-> Database(old, <<>>, {}), after |-> Database(requests, <<>>, {}),
             expected |-> [Nothing EXCEPT !["pending"] = [update |-> update, delete |-> gone, insert |-> insert]]] :
        old \in TablesOf({"p0"}, {R!Row("return")}), requests \in TablesOf({"p0", "p1", "p2"}, SomeRows),
        update \in {<<>>, "p0" :> DecidedRow("EXECUTED")}, gone \in SUBSET {"p0"},
        insert \in UNION {[1 .. n -> SomeRows] : n \in 0 .. 2}}

DrawTables == setting = "tables" /\ summary = None /\ summary' \in TablePairs

ProductRunOf == <<phase, scase, run, verdicts, shown, tries>>
NoProductRun == phase = None /\ scase = None /\ run = None /\ verdicts = None /\ shown = None /\ tries = None
Folder       == <<lines, command, summary>>
NoFolder     == lines = None /\ command = None /\ summary = None
Product      == <<phase, scase, run, verdicts, shown, tries, lines, command, summary>>

-----------------------------------------------------------------------------
CaseRun == <<case, situation, tables, calls, fired, object, main, script, at>>
NoCase  == /\ case = None /\ situation = None /\ tables = None /\ calls = None /\ fired = None
           /\ object = None /\ main = None /\ script = None /\ at = None

GuardInit ==
    /\ score = None
    /\ \/ setting = "world" /\ WorldInit /\ NoCase /\ NoProductRun /\ NoFolder
       \/ setting = "policy" /\ PolicyInit /\ NoCase /\ NoProductRun /\ NoFolder
       \/ setting = "case" /\ NoRequest /\ S!Init /\ NoProductRun /\ NoFolder
       \/ setting \in {"scores", "tables"} /\ NoRequest /\ NoCase /\ NoProductRun /\ NoFolder
       \/ setting = "product" /\ NoRequest /\ NoCase /\ E!RunInit /\ NoFolder
       \/ setting = "folder" /\ NoRequest /\ NoCase /\ NoProductRun /\ E!FolderInit

GuardNext ==
    /\ \/ setting = "world" /\ WorldNext /\ UNCHANGED <<CaseRun, score, Product>>
       \/ setting = "policy" /\ PolicyNext /\ UNCHANGED <<CaseRun, score, Product>>
       \/ setting = "case" /\ S!Next /\ UNCHANGED <<vars, score, Product>>
       \/ DrawScore /\ UNCHANGED <<vars, CaseRun, Product>>
       \/ setting = "product" /\ E!RunNext /\ UNCHANGED <<vars, CaseRun, score, Folder>>
       \/ setting = "folder" /\ E!FolderNext /\ UNCHANGED <<vars, CaseRun, score, ProductRunOf>>
       \/ DrawTables /\ UNCHANGED <<vars, CaseRun, score, ProductRunOf, lines, command>>
    /\ UNCHANGED setting

GuardSpec == GuardInit /\ [][GuardNext]_<<vars, CaseRun, setting, score, Product>>

Scored == [n \in 1 .. 4 |-> Good(n)]

\* A case run passes the official score for what its own reply says, with reasons if it
\* fails; datasets count every case once; the metrics do not fall when a case run
\* improves; and the changes from one series to another are those that are undone back.
ScoresAreFair ==
    score # None =>
      CASE score.kind = "run" -> A!PassesAreEarned(score.case, score.prepared, score.reply)
        [] score.kind = "dataset" ->
             A!DatasetIsFair(score.cases, [n \in DOMAIN score.cases |->
                               [Good(IF n > 4 THEN 3 ELSE n) EXCEPT !.id = score.cases[n].id]])
        [] score.kind = "series" ->
             /\ A!MetricsAreMonotone(score.before, Scored)
             /\ A!TransitionsAgree(score.before, <<Scored, score.before[1]>>)
        [] OTHER -> A!RoutesAddUp(score.cases, score.planned)

\* "window_days of the rule catalog.select would pick".
WindowsAgree ==
    \A matter \in {"return_window", "exchange_window"}, kind \in {None, "custom", "clothes"}, now \in 0 .. 4 :
        LET selected == SelectPolicies(WindowRules, now, matter, kind)
        IN  E!ExpectedWindowDays(matter, kind, now) = IF selected = {} THEN None ELSE (CHOOSE r \in selected : TRUE).params

\* A run of the product is driven as scripted, judged on what it did and scored for what
\* the database holds; its windows are the catalogue's; and saved results give the same
\* score again.
ProductIsJudged ==
    CASE setting = "product" -> E!RunIsSound /\ E!PassesAreReal
      [] setting = "folder" -> E!RescoreAgrees /\ WindowsAgree
      [] setting = "tables" /\ summary # None -> E!RowsAreCounted(summary.before, summary.after, summary.expected)
      [] OTHER -> TRUE

\* CaseIsJudged: whatever a policy, a script and the faults of a case do, no case-run
\* breaks a link between the tables or an invariant that blocks a freeze, no declared
\* fault strikes twice, and a case labelled with what the gateway did passes every
\* metric, but for the four kinds that the scorer misjudges; the official scores of the
\* question answering are fair; and the product's evaluation judges what happened.
CaseIsJudged == (setting = "case" => S!CaseIsJudged) /\ ScoresAreFair /\ ProductIsJudged
=============================================================================
