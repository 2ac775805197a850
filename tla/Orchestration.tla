----------------------------- MODULE Orchestration -----------------------------
(***************************************************************************)
(* A question of the orchestrated mode, from its plan to its verdict       *)
(* (orchestration/planner.py, executor.py, the adapters and                *)
(* chat_orchestration.prepare): planned from what its clauses say, checked *)
(* against what is there, run through each planned tool once in a fixed    *)
(* order, and judged (EvidencePolicy).                                     *)
(*                                                                         *)
(* A clause is the set of the cues that the planner's marker tables and    *)
(* patterns find in it, a marker that the caller declines not counted:     *)
(*   greets    a social marker            other    words of no table       *)
(*   asks      a question or request cue  overview, soft  a summary        *)
(*   change    a change of versions       exact    the words of a source   *)
(*   article   "that clause"              quantity a threshold             *)
(*   policy    a policy noun              sku      a SKU                   *)
(*   plain     a SKU as "sku-a100"        object   a thing with a state    *)
(*   record    a record's id              standing a phrase about a state  *)
(*   mine      the caller's own           verb, value  a lookup, its value *)
(*   asof      "now", an explicit moment  today    a looser moment         *)
(*   left      what is left of mine                                        *)
(***************************************************************************)
EXTENDS EvidencePolicy, Sequences, SequencesExt

CONSTANTS
    Questions, \* the questions: sets of clauses
    Fallbacks, \* the tools the injected fallback may choose: none when it is absent, raises or answers badly
    Replies    \* how a tool may end

ASSUME OrchestrationAssumption ==
    /\ Fallbacks \subseteq SUBSET Tool
    /\ Replies \subseteq {"ok", "empty", "error", "misuse"}

VARIABLES
    question, \* the clauses of the question
    skus,     \* how many SKUs it names
    chunks,   \* whether the index that the request copied holds anything
    pages,    \* whether the wiki holds a page, now
    progress, \* how far the request is
    plan,     \* its plan
    seen,     \* whether the wiki that the request read holds a page
    executed, \* the tools that ran, in their order
    results,  \* the result of each
    verdict   \* what came of it

request == <<question, skus, chunks>>
orchestrationVars == <<request, pages, progress, plan, seen, executed, results, verdict>>

-----------------------------------------------------------------------------
(* planner.py: the signals of a clause *)

\* The cues that _has_request_intent looks for.
Intent == {"asks", "overview", "soft", "change", "exact", "quantity", "policy",
           "sku", "object", "standing", "verb"}

\* Once its social wording is removed, nothing is left of it.
IsPleasantry(c) == "greets" \in c /\ c \subseteq {"greets", "asks", "today"}

\* A SKU names a row, a personal state outweighs the policy; an object or a record
\* needs a word about its state, and gives way to a policy noun.
NeedsSystem(c) ==
    \/ "sku" \in c \/ "standing" \in c \/ {"object", "mine"} \subseteq c
    \/ c \cap {"object", "record"} # {} /\ c \cap {"verb", "value", "asof"} # {} /\ "policy" \notin c

\* A number asked of a live value, or a hedge about one, is not a document's or the wiki's.
IsLiveOnly(c) == NeedsSystem(c) /\ "policy" \notin c

WantsExact(c) == c \cap {"exact", "article"} # {} \/ ("quantity" \in c /\ ~IsLiveOnly(c))
WantsOverview(c) == "overview" \in c \/ ("soft" \in c /\ ~IsLiveOnly(c))
PolicyForcesDocument(c) == "policy" \in c /\ (WantsOverview(c) => WantsExact(c))
RequiresFreshness(c) == c \cap {"asof", "today"} # {} /\ (NeedsSystem(c) \/ "left" \in c)

NeedsWiki(c) == WantsOverview(c) \/ "change" \in c
NeedsDocument(c) == WantsExact(c) \/ "change" \in c \/ PolicyForcesDocument(c)

\* _steps_from_signals of a clause alone.
StepsOf(c) ==
    {t \in Tool : \/ t = "wiki" /\ NeedsWiki(c)
                  \/ t = "document" /\ NeedsDocument(c)
                  \/ t = "system" /\ NeedsSystem(c)}

\* A greeting and nothing that asks.
IsDirect(q) ==
    /\ \E c \in q : "greets" \in c
    /\ \A c \in q : IsPleasantry(c) \/ c \cap Intent = {}

\* Seeded fault: the message is matched as a whole, and one clause vetoes another.
SignalledByTheWhole(q) == StepsOf(UNION q)

\* The channels that the clauses ask for, each on its own.
Signalled(q) == UNION {StepsOf(c) : c \in q}

\* plan_request: the signals of the clauses together, then the fallback, then the documents.
PlanRequest(q, fallback) ==
    LET steps == IF IsDirect(q) THEN {}
                 ELSE IF Signalled(q) # {} THEN Signalled(q)
                 ELSE IF fallback # {} THEN fallback
                 ELSE {"document"}
    IN  [steps |-> steps,
         freshness |-> ~IsDirect(q) /\ \E c \in q : RequiresFreshness(c),
         citation |-> ~IsDirect(q) /\ \E c \in q : WantsExact(c)]

IsSystemOnly(c) == StepsOf(c) = {"system"}

\* document_focus: the clauses that the document search reads.
Kept(q) == {c \in q : ~IsPleasantry(c) /\ ~IsSystemOnly(c)}
Focus(q) == IF Kept(q) = {} THEN q ELSE Kept(q)

-----------------------------------------------------------------------------
Unasked == [steps |-> {}, freshness |-> FALSE, citation |-> FALSE]
Pending == [outcome |-> "pending"]

OrchestrationInit ==
    /\ question \in Questions
    /\ skus \in IF \E c \in question : "sku" \in c THEN {1, 2} ELSE {0}
    /\ chunks \in BOOLEAN /\ pages \in BOOLEAN
    /\ progress = "planning" /\ plan = Unasked /\ seen = FALSE
    /\ executed = <<>> /\ results = [t \in {} |-> {}] /\ verdict = Pending

\* A build is published, or retracted, meanwhile.
WikiChanges ==
    /\ progress \notin {"answered", "failed"}
    /\ pages' = ~pages
    /\ UNCHANGED <<request, progress, plan, seen, executed, results, verdict>>

Fixed(outcome, message) == [outcome |-> outcome, message |-> message, sources |-> {}, citable |-> {}]

\* prepare: a greeting is answered at once.
Plan ==
    /\ progress = "planning"
    /\ \E fallback \in Fallbacks : plan' = PlanRequest(question, fallback)
    /\ IF plan'.steps = {}
       THEN progress' = "answered" /\ verdict' = Fixed("direct", "greeting")
       ELSE progress' = "checking" /\ UNCHANGED verdict
    /\ UNCHANGED <<request, pages, seen, executed, results>>

\* _unavailable: why a planned channel cannot be asked.  Whether a question without a
\* SKU is about stock is a matter of its words.
Unavailable(p, wiki) ==
    When("document" \in p.steps /\ ~chunks, "no_documents")
      \cup When("wiki" \in p.steps /\ ~wiki, "no_wiki")
      \cup When("system" \in p.steps /\ skus # 1, IF skus > 1 THEN "multiple_sku" ELSE "no_sku")

\* The wiki is read once for the request, then the availability of what was planned;
\* the first reason, in this order, is the answer.
Check ==
    /\ progress = "checking"
    /\ seen' = pages
    /\ LET reasons == Unavailable(plan, pages)
       IN  IF reasons = {} THEN progress' = "preflight" /\ UNCHANGED verdict
           ELSE /\ progress' = "answered"
                /\ verdict' = Fixed("refuse",
                     IF "no_documents" \in reasons THEN "no_documents"
                     ELSE IF "no_wiki" \in reasons THEN "no_wiki" ELSE CHOOSE r \in reasons : TRUE)
    /\ UNCHANGED <<request, pages, plan, executed, results>>

\* The pages that the executor is given.
WikiOfRequest == seen

Fail(why) == progress' = "failed" /\ verdict' = [outcome |-> "raised", why |-> why]

\* _preflight: every planned dependency, before anything runs.
Preflight ==
    /\ progress = "preflight"
    /\ IF /\ "document" \in plan.steps => chunks
          /\ "wiki" \in plan.steps => WikiOfRequest
          /\ "system" \in plan.steps => skus = 1
       THEN progress' = "running" /\ UNCHANGED verdict
       ELSE Fail("preflight")
    /\ UNCHANGED <<request, pages, plan, seen, executed, results>>

CanonicalOrder == <<"wiki", "document", "system">>
RanAll == ToSet(executed) = plan.steps

\* The tool whose turn it is.
NextTool == SelectSeq(CanonicalOrder, LAMBDA t : t \in plan.steps)[Len(executed) + 1]

\* What each adapter says of what it found: a document's chunk has a place and no date,
\* a claim of the wiki both, a row of the demo database a date and the scope of live state.
FoundBy(tool) == {[source |-> tool, authority |-> Authority(tool), located |-> TRUE,
                 dated |-> tool # "document", scoped |-> tool = "system"]}

\* The document search notes the clauses it read in its trace when it left some out;
\* the SKU, as it is passed to the system, must be in no trace.
LeaksSku(tool) ==
    /\ tool = "document" /\ "system" \in plan.steps
    /\ Focus(question) # question
    /\ \E c \in Focus(question) : "plain" \in c

\* A tool runs.  Its failure, reported or raised, is an error, made harmless, and the pass goes on; a call
\* that the executor got wrong, or a trace that cannot be published, ends the request.
Run ==
    /\ progress = "running" /\ ~RanAll
    /\ \E reply \in Replies :
         IF reply = "misuse" THEN Fail("misuse") /\ UNCHANGED <<executed, results>>
         ELSE IF reply \in {"ok", "empty"} /\ LeaksSku(NextTool)
         THEN Fail("trace") /\ UNCHANGED <<executed, results>>
         ELSE /\ executed' = Append(executed, NextTool)
              /\ results' = [t \in DOMAIN results \cup {NextTool} |->
                               IF t # NextTool THEN results[t]
                               ELSE [status   |-> IF reply \in {"ok", "empty"} THEN reply ELSE "error",
                                     evidence |-> IF reply = "ok" THEN FoundBy(t) ELSE {}]]
              /\ UNCHANGED <<progress, verdict>>
    /\ UNCHANGED <<request, pages, plan, seen>>

\* _refusal_message
RefusalMessage(reasons) ==
    IF reasons \cap {"missing_tool_result", "tool_error"} # {} THEN "tool_unavailable"
    ELSE IF "empty_tool_result" \in reasons THEN "no_answer"
    ELSE IF reasons \cap {"citation_missing_document", "citation_missing_locator"} # {} THEN "no_citation"
    ELSE "no_answer"

\* evaluate_evidence, with the default provider that asserts nothing; a refusal still
\* shows the sources that were found.
Evaluate ==
    /\ progress = "running" /\ RanAll
    /\ LET d == Judge(plan.steps, plan.freshness, plan.citation, results, {})
       IN  verdict' = [outcome |-> d.outcome, sources |-> d.usable, citable |-> d.citable,
                       message |-> IF d.outcome = "refuse" THEN RefusalMessage(d.reasons) ELSE "generate"]
    /\ progress' = "answered"
    /\ UNCHANGED <<request, pages, plan, seen, executed, results>>

OrchestrationNext == WikiChanges \/ Plan \/ Check \/ Preflight \/ Run \/ Evaluate

OrchestrationSpec == OrchestrationInit /\ [][OrchestrationNext]_orchestrationVars

-----------------------------------------------------------------------------
(* Properties *)

\* What the request can be.
RequestTypeOK ==
    /\ progress \in {"planning", "checking", "preflight", "running", "answered", "failed"}
    /\ plan.steps \subseteq Tool
    /\ executed \in BoundedSeq(Tool, 3) /\ DOMAIN results = ToSet(executed)
    /\ \A t \in DOMAIN results : IsWired(t, results[t])
    /\ verdict.outcome \in {"pending", "direct", "refuse", "ready", "raised"}

\* What prepare finds available passes the executor's preflight, whatever is published
\* meanwhile: a missing channel is a fixed answer of a request that ran nothing.
MissingIsNoError ==
    /\ progress = "failed" => verdict.why # "preflight"
    /\ progress = "answered" /\ verdict.message \in {"no_documents", "no_wiki", "no_sku", "multiple_sku"} => executed = <<>>

\* An answer is generated only when, for each clause of the message, every channel
\* that the clause would need if it were asked alone brought evidence: no clause vetoes
\* another, and what was to be quoted can be.
ReadyCoversEveryClause ==
    verdict.outcome = "ready" => \A c \in question :
        /\ \A t \in StepsOf(c) : Of(t, verdict.sources) # {}
        /\ WantsExact(c) => verdict.citable # {}

\* A message that names a SKU is answered with its row or not at all: whatever else the
\* message asks, the lookup is not lost, and two SKUs are not answered with one.
SkusAreLookedUp ==
    verdict.outcome = "ready" /\ skus > 0 => skus = 1 /\ Of("system", verdict.sources) # {}

\* When every planned tool finds something, the request is answered, unless it asks for
\* a current value that no live record is read for.
FindingsSuffice ==
    progress = "answered" /\ verdict.outcome = "refuse" /\ executed # <<>>
        /\ (\A t \in DOMAIN results : results[t].status = "ok")
    => plan.freshness /\ "system" \notin plan.steps

\* The document search reads every clause that a document is needed for, and a clause
\* for the system alone only when there is nothing else to read.
DocumentReadsItsPart ==
    "document" \in plan.steps =>
        /\ \A c \in question : NeedsDocument(c) /\ ~IsPleasantry(c) => c \in Focus(question)
        /\ (\E c \in Focus(question) : StepsOf(c) = {"system"}) => \A c \in question : ~NeedsDocument(c) \/ IsPleasantry(c)

\* A message is answered with a greeting only when none of its clauses, asked alone,
\* would have selected a channel.
GreetingsAskNothing == verdict.outcome = "direct" => \A c \in question : StepsOf(c) = {}

\* Once a tool ran, its failures are results and the pass goes on: a request whose tools
\* are called as they should be does not end in an error.
ToolFailuresDoNotRaise == progress = "failed" => verdict.why = "misuse"

\* A request is answered, refused or raised for the right reason, whatever its clauses
\* ask for and whatever its tools and the wiki do.
AnswersAreDue ==
    /\ MissingIsNoError /\ ReadyCoversEveryClause /\ SkusAreLookedUp
    /\ FindingsSuffice /\ DocumentReadsItsPart
=============================================================================
