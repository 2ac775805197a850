----------------------------- MODULE MCAlgorithms -----------------------------
(***************************************************************************)
(* The pure algorithms over every input of a bounded set: a first step     *)
(* draws an input for one of them, a second one what a model replies to    *)
(* it, and the invariant of that algorithm looks at what it makes of both. *)
(* Beside them, a sealed holdout and its opening, which the module extends. *)
(***************************************************************************)
EXTENDS SealedHoldout, Integers, FiniteSetsExt, TLC

CONSTANT None

VARIABLE sample

F == INSTANCE EvidencePolicy
W == INSTANCE EvidenceEnrichment WITH Day <- 2
X == INSTANCE PlanExecutor WITH
    Operations <- [order |-> {"subject_id", "order_id"}, stock |-> {"sku"}],
    RecordId <- [order |-> "order_id", stock |-> "sku"]
R == INSTANCE Retrieval WITH
    Chunks <- 1..3, MaxSubQuestions <- 2, ConfidentScore <- 4,
    Words <- [a |-> {"w1", "w2"}, b |-> {"w2"}, c |-> {"w1", "w3"}, d |-> {}],
    Length <- [a |-> 2, b |-> 1, c |-> 3, d |-> 1]
D == INSTANCE AnswerDelivery WITH Window <- 2

M == INSTANCE ModelProvider WITH Secret <- 3, MaxText <- 4

C == INSTANCE WikiCompiler WITH Ideograph <- {"z", "y"}, Digit <- {"1", "5"}, PageBatchSize <- 2

\* A thousand times the logarithm of 1 + t / (1 + c).
K == INSTANCE WikiQuery WITH Ascii <- {"a"}, Ideograph <- {"z", "y"},
    Specificity <- <<[c \in 0..1 |-> <<693, 405>>[c + 1]], [c \in 0..2 |-> <<1099, 693, 511>>[c + 1]]>>

B == INSTANCE KnowledgeBase WITH
    PassageChars <- 4, MaxPassages <- 2, RrfK <- 60, CosineFloor <- 2, QueryFloor <- 2, MinBody <- 4, MaxBody <- 12

Drawn(algorithm) == sample.of = algorithm

-----------------------------------------------------------------------------
(* Evidence: two readings of a fact before, at or after the instant 2, a page *)
(* or not, a fact derived of any of it and of a reading that is not there, and *)
(* one derived of that.                                                        *)

Reading(fact, says, at, contract) ==
    [kind |-> "business", key |-> <<"s", fact>>, value |-> says, at |-> at,
     contract |-> contract, inputs |-> {}]

Readings ==
    {Reading("f", v, at, c) : v \in BOOLEAN, at \in 1..3, c \in {"online", "snapshot"}}
      \cup {Reading("f", TRUE, None, "none")}
Page == [kind |-> "document", key |-> <<"s", "f">>, value |-> TRUE, at |-> None, contract |-> "none", inputs |-> {}]
Elsewhere == Reading("g", TRUE, 2, "online")

Deduced(fact, value, at, inputs) ==
    [kind |-> "derived", key |-> <<"s", fact>>, value |-> value, at |-> at, contract |-> "none", inputs |-> inputs]

Ask(fact, scope, types) ==
    [key |-> <<"s", fact>>, scope |-> scope, types |-> types, providers |-> {"reads"}]

Asks == {{}, {Ask("f", "state", {"business"})}, {Ask("d", "state", {"derived"})},
         {Ask("f", "state", {"business", "derived"}), Ask("f", "policy", {"document"})}}

Brought(tool, evidence) == [tool |-> tool, status |-> IF evidence = {} THEN "empty" ELSE "ok", evidence |-> evidence]

DrawEvidence ==
    \E direct \in {{}, {Page}} \cup {{a, b} : a, b \in Readings} :
      \E from \in SUBSET (direct \cup {Elsewhere}) \ {{}}, fact \in {"d", "f", W!ConflictFact},
         value \in BOOLEAN, at \in {2, 3}, kept \in BOOLEAN, fails \in BOOLEAN :
        LET first  == Deduced(fact, value, at, from)
            second == Deduced("d", FALSE, 2, {first})
            brought == {Brought("reads", direct)}
                         \cup (IF fails THEN {[tool |-> "other", status |-> "error", evidence |-> {}]} ELSE {})
        IN  /\ W!IsItem(first) /\ \A r \in brought : W!IsResult(r)
            /\ sample' = [of |-> "evidence", results |-> brought,
                          derived |-> {second} \cup IF kept THEN {first} ELSE {}]

-----------------------------------------------------------------------------
(* Fact resolution: four pieces of evidence of any of the tools, each with or *)
(* without an assertion of one topic.                                         *)

Piece(name, source) ==
    [name |-> name, source |-> source, authority |-> F!Authority(source),
     located |-> TRUE, dated |-> source = "system", scoped |-> source = "system"]

Says(name, source, scope, value) ==
    [evidence |-> Piece(name, source), scope |-> scope, topic |-> "t", value |-> value]

DrawFacts ==
    \E scope \in F!Scope, source \in [1..4 -> F!Tool], value \in [1..4 -> 0..3] :
        sample' = [of |-> "facts",
                   group |-> {Says(i, source[i], scope, value[i]) : i \in {n \in 1..4 : value[n] # 0}}]

-----------------------------------------------------------------------------
(* Enrichment: an order in the state of two moments, read at the instant 5 of *)
(* two-instant days, and policy searches over a rule book.                     *)

Rule(id, type, scope, priority, from, until, days, offset) ==
    [id |-> id, type |-> type, scope |-> scope, priority |-> priority, from |-> from, until |-> until,
     params |-> [days |-> days, offset |-> offset]]

General  == Rule("general", "return_window", {}, 1, 0, 9, 1, 0)
Scoped   == Rule("scoped", "return_window", {"c1"}, 2, 0, 9, 2, 1)
Rival    == Rule("rival", "return_window", {"c1"}, 2, 0, 9, 0, 1)
Expired  == Rule("expired", "return_window", {}, 3, 0, 5, 3, 0)
Other    == Rule("other", "return_window", {"c2"}, 1, 0, 9, 0, 0)
Exchange == Rule("exchange", "exchange_window", {}, 1, 5, 9, 1, 1)

Rulebooks == {{General, Expired}, {General, Scoped, Exchange}, {General, Scoped, Rival}, {Scoped, Other, Exchange}}

Parcel(id, order, status, at) == [id |-> id, order |-> order, status |-> status, delivered |-> at, sound |-> TRUE]
Parcels1 == {{Parcel("p1", "o1", s, None)} : s \in {"in_transit", "returned"}}
              \cup {{Parcel("p1", "o1", "delivered", t)} : t \in 1..6}
Parcels2 == {{Parcel("p1", "o1", "delivered", 3), Parcel("p2", "o1", "delivered", 4)},
             {Parcel("p1", "o1", "delivered", 3), Parcel("p2", "o1", "in_transit", None)}}
Moments == {{}, {[Parcel("p1", "o1", "delivered", 3) EXCEPT !.sound = FALSE]}} \cup Parcels1 \cup Parcels2

Foreign == Parcel("p9", "o2", "delivered", 5)

Database(status, category, parcels) ==
    [orders  |-> {[id |-> "o1", owner |-> "me", status |-> status, sound |-> TRUE],
                  [id |-> "o2", owner |-> "them", status |-> "shipped", sound |-> TRUE]},
     items   |-> {[id |-> "i1", order |-> "o1", category |-> category, sound |-> TRUE]},
     parcels |-> parcels \cup {Foreign},
     stock   |-> {[id |-> "k1", qty |-> 0, sound |-> TRUE]},
     cases   |-> {[id |-> "a1", order |-> "o2", owner |-> "me", status |-> "open", sound |-> FALSE]}]

Queries == {<<{"return_window"}, {}>>, <<{"return_window"}, {"c1"}>>, <<{"return_window"}, {"c2"}>>,
            <<W!WindowTypes, {}>>}
Asked == {{}} \cup {{q} : q \in Queries} \cup {{<<{"return_window"}, {}>>, <<{"return_window"}, {"c1"}>>}}

DrawEnrichment ==
    \E status \in {"paid", "shipped", "delivered", "completed"}, category \in {"c1", "c3"},
       first \in Moments, later \in {{}} \cup {{m} : m \in Parcels1},
       rules \in Rulebooks, queries \in Asked, retracted \in BOOLEAN :
        /\ retracted => later = {} /\ status = "delivered"
        /\ sample' = [of |-> "enrichment", status |-> status, category |-> category, first |-> first,
                      later |-> later, rules |-> rules, queries |-> queries, retracted |-> retracted]

Observed(tool, about, db, build) ==
    [tool |-> tool, about |-> about, result |-> W!Execute(tool, "none", db, "me", about, 5),
     picks |-> {}, build |-> build]

Searched(rules, query) ==
    LET found == W!Search(rules, 5, query[1], query[2])
    IN  [tool |-> "search", about |-> "policy", picks |-> found.picks, build |-> "b1",
         result |-> [tool |-> "search", status |-> found.status, code |-> None,
                     evidence |-> {[kind |-> "document", key |-> <<p[1].id, "rule">>, value |-> TRUE, at |-> None,
                                    contract |-> "none", inputs |-> {}] : p \in found.picks}]]

Observations(s) ==
    LET db == Database(s.status, s.category, s.first)
    IN  {Observed("get_order", "o1", db, "b1"), Observed("get_logistics", "o1", db, "b1"),
         Observed("get_logistics", "o2", db, "b1"), Observed("get_inventory", "k1", db, "b1")}
          \cup {Observed("get_logistics", "o1", Database(s.status, s.category, m), "b1") : m \in s.later}
          \cup {Searched(s.rules, q) : q \in s.queries}

(* Requests to the business system: any parameters of two names, a subject or *)
(* none, and whatever a tool may come back with.                               *)

Parameters == UNION {[names -> {"", "me", "them", "o1", "k1"}] : names \in SUBSET {"subject_id", "order_id", "sku"}}

Orders == {[subject_id |-> "me", order_id |-> "o1", status |-> "paid"],
           [subject_id |-> "them", order_id |-> "k1", status |-> "paid"]}
Stocks == {[sku |-> "k1", status |-> "low"]}

DrawRequest ==
    \E operation \in {"order", "stock"}, subject \in {None, "", "me", "them"}, parameters \in Parameters :
        sample' = [of |-> "request", subject |-> subject,
                   request |-> [operation |-> operation, parameters |-> parameters]]

Texts == {{}, {{"me"}}, {{"rows", "o1"}}, {{"sql"}}, {{"rows"}}}
Traces == {[X!SystemTrace("order", names, matched, 1) EXCEPT !.texts = texts, !.fields = @ \cup more] :
             names \in {{"order_id", "subject_id"}, {"sku"}}, matched \in 0..1, texts \in Texts, more \in {{}, {"debug_sql"}}}

DrawOutcome ==
    \E operation \in {"order", "stock"}, tool \in {X!System, "document_search"} :
      \/ \E raised \in {"misuse", "failure"} :
            sample' = [of |-> "outcome", operation |-> operation, tool |-> tool,
                       outcome |-> [raised |-> raised, result |-> None]]
      \/ \E from \in {X!System, "document_search"}, status \in {"ok", "empty", "error"}, evidence \in {{}, {"e"}},
            code \in {None, {"code"}}, message \in {None, {"me"}, {"failed"}}, trace \in Traces :
            sample' = [of |-> "outcome", operation |-> operation, tool |-> tool,
                       outcome |-> [raised |-> "no",
                                    result |-> X!Result(from, status, evidence, code, message, trace)]]

\* The resolution of the facts that a caller asserts loses none, is decided by the
\* sources of the highest authority alone, and by no system record what a policy says;
\* what a run may use of what it collected decides alone whether it may conclude; and
\* what it derives of its readings agrees with what the Guard of an action would find at
\* the same instant, concludes nothing of readings that contradict, and shows a customer
\* nothing of what others own; nor does any tool of a plan, which keeps no value that it
\* was asked with outside its evidence, whatever it comes back with.
EvidenceIsJudged ==
    /\ Drawn("facts") /\ sample.group # {} =>
        /\ F!IsPartitioned(sample.group)
        /\ F!IsDecidedByAuthority(sample.group)
        /\ F!WeakerChangesNothing(sample.group)
    /\ Drawn("evidence") =>
        \A requirements \in Asks, maxAge \in {None, 0, 1} :
            W!IsJudgedByUsable(sample.results, requirements, sample.derived, 2, maxAge)
    /\ Drawn("request") =>
        X!ReadsItsOwn(IF sample.request.operation = "order" THEN Orders ELSE Stocks, sample.request, sample.subject)
    /\ Drawn("outcome") =>
        \A subject \in {None, "me"} :
            X!KeepsNoSecret(sample.tool, sample.outcome,
                            [operation |-> sample.operation,
                             parameters |-> IF sample.operation = "order" THEN [order_id |-> "o1"] ELSE [sku |-> "o1"]],
                            subject)
    /\ Drawn("enrichment") =>
        LET db == Database(sample.status, sample.category, sample.first)
        IN  /\ W!EnrichmentHolds(Observations(sample), sample.rules, 5, IF sample.retracted THEN "b2" ELSE "b1", "i1")
            /\ \A tool \in W!ReadTools, fault \in {"none", "timeout"}, about \in {"o1", "o2", "o3", "k1"} :
                  W!AnswersFromOwn(tool, fault, db, "me", about, 5)

-----------------------------------------------------------------------------
(* Retrieval: questions of up to five clauses that lean on the first or not;  *)
(* two or three clauses over three chunks, each with a strong hit, a weak one *)
(* or none; and a selection of four chunks with all they may cover.           *)

Segments == {"a", "b", "c", "d"}

DrawClauses ==
    \E n \in 1..5 : \E parts \in [1..n -> Segments], leaning \in SUBSET {"b", "d"} :
        sample' = [of |-> "clauses", clauses |-> R!Contextualized(parts, leaning)]

Hit(chunk, score) == [c \in 1..3 |-> IF c = chunk THEN score ELSE 0]

DrawQuestion ==
    \E hits \in [{"a", "b", "c"} -> {Hit(1, 0), Hit(1, 4), Hit(2, 2), Hit(3, 9)}],
       nearest \in {<<1, 2, 3>>, <<3, 1, 2>>}, n \in 1..3 :
        sample' = [of |-> "question", hits |-> hits, nearest |-> nearest,
                   clauses |-> SubSeq(<< <<"a">>, <<"b">>, <<"c">> >>, 1, n)]

Selections == {None, <<>>, << <<1, 1>>, <<2, 1>> >>, << <<None, 2>>, <<None, 3>> >>, << <<2, 3>>, <<9, 1>>, <<1, 9>> >>}

ModelSelects ==
    /\ Drawn("question")
    /\ \E k, candidateK \in {1, 3}, says \in Selections, ranking \in {None, <<3, 9, 1>>} :
        sample' = [of |-> "selected", question |-> sample, k |-> k, candidateK |-> candidateK,
                   says |-> says, ranking |-> ranking]

DrawSelection ==
    \E covers \in [1..4 -> SUBSET {1, 2}], worth \in [1..4 -> 0..1] :
        sample' = [of |-> "selection", worth |-> worth,
                   covers |-> [c \in {i \in 1..4 : covers[i] # {}} |-> covers[c]]]

(* Delivery: every text with every second one.                               *)
DrawAnswer ==
    \E reply, retry \in {t \in D!Text : D!IsText(t)} \cup {None}, sources \in 0..1 :
        sample' = [of |-> "answer", reply |-> reply, retry |-> retry, sources |-> sources]

(* Quantities: two clauses on leave, which affirm a value, deny or suppose it, in *)
(* answer to a question that has one to be verified, tells one, or none.        *)
Leave  == D!Word("leave")
Others == D!Word("others")
T(kind) == D!Token(kind)

Affirmations(value) ==
    LET n == D!Quantity(value)
    IN  {<<Leave, n>>, <<Leave, T("is"), n>>, <<Leave, T("light"), n>>, <<T("if"), Others, n, Leave>>,
         <<Leave, T("deny"), T("deny"), T("light"), n>>, <<Leave, n, T("deny"), Others>>,
         <<Leave, n, T("right")>>, <<Leave, n, T("wrong"), Others>>, <<Leave, T("rule"), n>>,
         <<n, T("is"), Leave>>, <<Leave, n, T("wrong"), T("aside"), Others>>, <<T("deny"), n, T("right")>>}

Denials(value) ==
    LET n == D!Quantity(value)
    IN  {<<Leave, T("deny"), n>>, <<T("deny"), T("light"), n>>, <<T("light"), n, T("wrong")>>,
         <<n, T("light"), T("wrong"), T("aside")>>, <<T("if"), T("light"), n>>, <<Leave, n, T("wrong"), T("cite")>>}

Statements == UNION {{[says |-> c, affirms |-> {v}] : c \in Affirmations(v)}
                       \cup {[says |-> c, affirms |-> {}] : c \in Denials(v)} : v \in {"99", "5", "7"}}

Told == D!Quantity("99")
Questions == {<<Leave, Told, T("ask")>>, <<Leave, T("is"), Told, T("stop"), T("ask")>>,
              <<D!Word("work"), Told, T("stop"), T("light"), Leave, T("ask")>>,
              <<D!Word("work"), Told, T("stop"), Leave, T("ask")>>,
              <<D!Word("work"), T("is"), Told, T("join"), T("light"), Leave, T("ask"), Others>>,
              <<Leave, T("is"), Told, T("stop"), Others, T("ask")>>, <<Leave, T("ask")>>}

DrawStatements ==
    \E one, other \in Statements, between \in {"stop", "join"}, end \in {<<>>, <<T("cite")>>} :
        sample' = [of |-> "quantities", says |-> one.says \o <<T(between)>> \o other.says \o end,
                   affirms |-> one.affirms \cup other.affirms]

(* Questions to a Wiki: a page of two claims and one of one, in two terms; texts. *)
Fields(n) == SUBSET (1..n)

DrawWiki ==
    \E title, summary \in Fields(2), alias \in Fields(1), one, two \in Fields(2), other \in Fields(2), text \in {{}, {2}} :
        sample' = [of |-> "wiki",
                   pages |-> {[id |-> 1, title |-> other, aliases |-> {}, summary |-> {}, claims |-> {[id |-> 1, text |-> text]}],
                              [id |-> 2, title |-> title, aliases |-> alias, summary |-> summary,
                               claims |-> {[id |-> 2, text |-> one], [id |-> 3, text |-> two]}]}]

DrawTerms == \E n \in 0..5 : \E s \in [1..n -> {"a", "z", "y", ","}] : sample' = [of |-> "terms", text |-> s]

(* A knowledge base: short documents of every kind of line; two statements on   *)
(* returns, broken at any word; two lines to be cut; a search over three         *)
(* passages; and a call for the embeddings of three texts.                       *)

DrawCorpusLines ==
    \E n \in 0..5 : \E kinds \in [1..n -> {"blank", "fence", "heading", "text"}] :
        sample' = [of |-> "markdown", lines |-> [i \in 1..n |-> B!Line(kinds[i], <<"a">>)]]

Statement(words, claims, permits) == [words |-> words, claims |-> claims, permits |-> permits]
Stated ==
    {Statement(<<<<"turn", "goods">>, <<"1", "5">>, <<"day">>>>, {<<15, "day", "turn">>}, FALSE),
     Statement(<<<<"swap", "goods">>, <<"5">>, <<"day">>>>, {<<5, "day", "swap">>}, FALSE),
     Statement(<<<<"5">>, <<"day">>, <<"to">>, <<"1", "5">>, <<"day">>>>, {<<5, "day", "none">>, <<15, "day", "none">>}, FALSE),
     Statement(<<<<"5">>, <<"to">>, <<"1">>, <<"hour">>>>, {<<5, "hour", "none">>, <<1, "hour", "none">>}, FALSE),
     Statement(<<<<"1", "5">>, <<"workday">>>>, {<<15, "workday", "none">>}, FALSE),
     Statement(<<<<"last">>, <<"1">>, <<"day">>>>, {}, FALSE),
     Statement(<<<<"nth">>, <<"5">>, <<"day">>>>, {}, FALSE),
     Statement(<<<<"fee">>, <<"may", "turn", "back">>>>, {}, FALSE),
     Statement(<<<<"may", "turn">>>>, {}, TRUE),
     Statement(<<<<"support">>, <<"swap", "goods">>>>, {}, TRUE),
     Statement(<<<<"turn", "goods">>, <<"terms">>>>, {}, TRUE),
     Statement(<<<<"a">>, <<"1", "5">>, <<"day">>>>, {<<15, "day", "none">>}, FALSE)}

Windows == [w |-> [days |-> 15, action |-> "turn", from |-> 1, to |-> 3],
            f |-> [days |-> None, action |-> "turn", from |-> 1, to |-> None]]

DrawCorpus ==
    \E one, other \in Stated, stop \in {<<>>, <<".">>}, restates \in {None, "w", "f", "unknown"},
       period \in {<<1, 3>>, <<1, None>>, <<0, 2>>}, at \in 0..9 :
        LET words == one.words \o (IF stop = <<>> THEN <<>> ELSE <<stop>>) \o other.words
            broken == at \in 1..(Len(words) - 1)
            text(from, to) == B!FlattenSeq(SubSeq(words, from, to))
        IN  /\ at <= Len(words)
            /\ sample' = [of |-> "corpus", claims |-> one.claims \cup other.claims,
                          permits |-> ~broken /\ (one.permits \/ other.permits),
                          doc |-> [id |-> "d", title |-> <<"a">>, restates |-> restates, from |-> period[1], to |-> period[2],
                                   sections |-> <<[heading |-> IF at = 0 THEN text(1, Len(words)) ELSE <<"a">>, at |-> 1,
                                                   body |-> IF broken THEN <<<<2, text(1, at)>>, <<3, text(at + 1, Len(words))>>>>
                                                            ELSE <<<<2, IF at = 0 THEN <<"a">> ELSE text(1, Len(words))>>>>]>>]]

DrawPassages ==
    \E n \in 1..2 : \E lengths \in [1..n -> 1..5] :
      \E lines \in [1..n -> UNION {[1..l -> {"a", "."}] : l \in 1..5}] :
        /\ \A i \in 1..n : Len(lines[i]) = lengths[i]
        /\ sample' = [of |-> "passages", body |-> [i \in 1..n |-> <<i + 1, lines[i]>>]]

DrawSearch ==
    \E force \in [1..3 -> BOOLEAN], words, meaning \in [1..3 -> 0..3] :
        /\ \A i \in 1..3 : ~force[i] => words[i] = 2 /\ meaning[i] = 3
        /\ sample' = [of |-> "search", force |-> force, words |-> words, meaning |-> meaning]

\* Of a cached text, the size of its vector, 0 if it cannot be read.
DrawEmbedding ==
    \E cached \in [{"a", "b"} -> {None, 0, 2, 3}], texts \in {<<>>, <<"a">>, <<"c", "a", "c", "b">>, <<"b", "a", "c">>},
       offline, fewer \in BOOLEAN, size \in {None, 2, 3}, failing \in 1..4 :
        LET cache   == [t \in {u \in {"a", "b"} : cached[u] # None} |-> IF cached[t] = 0 THEN None ELSE B!Vector(t, cached[t])]
            missing == B!Missing(cache, texts)
            n       == Len(missing) - (IF fewer /\ missing # <<>> THEN 1 ELSE 0)
        IN  sample' = [of |-> "embedding", cache |-> cache, texts |-> texts, offline |-> offline, failing |-> failing,
                       produced |-> IF size = None THEN None ELSE [i \in 1..n |-> B!Vector(missing[i], size)]]

\* No clause of a question is lost on the way to its evidence, a clause's only evidence
\* is not pushed out by more of another's, and no interface delivers an answer that
\* does not stand up to the check, or gives a good one away.  What a knowledge base
\* answers is in force, and says nothing of returns but what the rules do.
AnswersAreFounded ==
    /\ Drawn("clauses") => R!NoClauseIsLost(sample.clauses)
    /\ Drawn("selected") =>
        LET q == sample.question
        IN  R!EvidenceIsFound(q.hits, q.nearest, q.clauses, sample.k, sample.candidateK, sample.says, sample.ranking)
    /\ Drawn("selection") =>
        \A k \in 1..3 : R!SpendsTheBudget(<<1, 2, 3, 4>>, sample.worth, k, sample.covers)
    /\ Drawn("quantities") =>
        \A question \in Questions : D!QuantitiesAreJudged(sample.says, sample.affirms, "leave", question, {"5"})
    /\ Drawn("wiki") => K!AnswersAreRanked(sample.pages, {1, 2})
    /\ Drawn("markdown") => B!TextIsKept(sample.lines)
    /\ Drawn("corpus") =>
        B!CorpusSaysTheRules({sample.doc}, Windows, {}, [d |-> sample.claims], IF sample.permits THEN {"d"} ELSE {})
    /\ Drawn("passages") => B!PassagesAreTheText(sample.body)
    /\ Drawn("search") => B!SearchIsWithinForce(sample.force, sample.words, sample.meaning)
    /\ Drawn("embedding") =>
        B!VectorsAreOfTheirTexts(sample.cache, sample.texts, sample.offline, sample.produced, sample.failing)
    /\ Drawn("terms") => K!TermsAreKept(<<"a", "z">>, sample.text, <<"z">>)
    /\ Drawn("answer") =>
        \A plain \in IF sample.reply = None THEN {t \in D!Text : D!IsText(t)} ELSE {D!Message} :
            D!DeliversTheSame(sample.reply, plain, sample.retry, sample.sources)

-----------------------------------------------------------------------------
(* Model services: every short reply, stream and prompt, and all settings.    *)

DrawReply  == \E n \in 0..5 : \E s \in [1..n -> {"open", "close", "a"}] : sample' = [of |-> "reply", text |-> s]
DrawStream == \E n \in 0..4 : \E s \in [1..n -> {"text", "thought", "last", "blank", "end", "error"}] :
                 sample' = [of |-> "stream", lines |-> s]

Messages == [role : {"system", "user"}, json : BOOLEAN, instructed : {FALSE}]
DrawPrompt == \E n \in 1..3 : \E s \in [1..n -> Messages], format \in {None, "json", "schema"} :
                 sample' = [of |-> "prompt", messages |-> s, format |-> format]

DrawSettings ==
    \E url, model, key \in {None, "", "env"}, provider \in {None, "", "ollama", "deepseek", "other"},
       inFile \in [M!Names \ {"LLM_PROVIDER"} -> {None, "", "file"}], chosen \in {None, "deepseek"} :
        sample' = [of |-> "settings",
                   environ |-> [n \in M!Names |-> CASE n = "BASE_URL" -> url [] n = "MODEL" -> model
                                                    [] n = "API_KEY" -> key [] OTHER -> provider],
                   dotenv |-> [n \in M!Names |-> IF n = "LLM_PROVIDER" THEN chosen ELSE inFile[n]]]

DrawText == \E n \in 0..8 : \E s \in [1..n -> {"k", "x"}], tail \in BOOLEAN :
               sample' = [of |-> "text", text |-> s, tail |-> tail]

-----------------------------------------------------------------------------
(* Wikis: every short document and one more paragraph; plans over three spans, *)
(* two of which say the same, beside two existing pages; and drafts of them.  *)

Lines == {C!Blank, C!Heading(1, <<"t">>), C!Heading(2, <<"h">>), C!Prose(<<"z">>), C!Prose(<<"y", " ", "a">>)}

DrawDocument ==
    \E n \in 0..4 : \E lines \in [1..n -> Lines] : sample' = [of |-> "document", lines |-> lines]

\* The document as the text of a policy, beside another policy.
PolicyOf(policy, document, title, rule, lines) ==
    [header |-> [policy |-> policy, document |-> document, title |-> title, locator |-> <<"h">>, rule |-> rule],
     body |-> lines]
Section == <<C!Heading(2, <<"h">>), C!Prose(<<"z">>)>>

\* Alone, or beside a policy that shares a name, a document, a title or nothing with it.
Corpora(lines) ==
    LET own == PolicyOf("p", "d", <<"t">>, "r", lines)
    IN  {<<own>>} \cup {<<own, PolicyOf(p[1], p[2], p[3], "r", Section)>> :
           p \in {<<"q", "e", <<"u">>>>, <<"q", "e", <<"t">>>>, <<"p", "e", <<"u">>>>, <<"q", "d", <<"u">>>>}}

\* What is drafted after a corpus: a rule, a body or a policy is another.
After(lines) ==
    {<<PolicyOf("p", "d", <<"t">>, "s", lines)>>, <<PolicyOf("p", "d", <<"t">>, "r", Section)>>,
     <<PolicyOf("p", "d", <<"t">>, "r", lines), PolicyOf("q", "e", <<"u">>, "r", Section)>>}

Handbook == C!Uploaded(<<C!Prose(<<"z", "5">>), C!Blank, C!Heading(2, <<"h">>), C!Prose(<<"z", "1", "5">>),
                         C!Blank, C!Prose(<<"z", "1", "5">>)>>)
Source(n) == IF n \in DOMAIN Handbook THEN Handbook[n].id ELSE <<"d", <<<<"q">>, <<>>>>, n>>
Sources == {Handbook[n] : n \in DOMAIN Handbook}

Claim(text, spans, reuse) == [text |-> text, spans |-> [n \in DOMAIN spans |-> Source(spans[n])], reuse |-> reuse]
Draft(title, summary, aliases, claims) == [title |-> title, summary |-> summary, aliases |-> aliases, claims |-> claims]
Plan(topic, spans, reuse) == [topic |-> topic, spans |-> [n \in DOMAIN spans |-> Source(spans[n])], reuse |-> reuse]

Before == C!CompileWiki(<<Plan(<<"t">>, <<1, 2>>, None), Plan(<<"u">>, <<3>>, None)>>, Sources, {},
                        <<Draft(<<"t">>, <<"s">>, <<>>, <<Claim(<<"z", "5">>, <<1>>, None), Claim(<<"y">>, <<2>>, None)>>),
                          Draft(<<"u">>, <<"s">>, <<>>, <<Claim(<<"y">>, <<3>>, None)>>)>>)
Old == {Before[1], [Before[2] EXCEPT !.version = -1]}
OldClaim == Before[1].claims[1].id
PageIds == {None, Before[1].id, Before[2].id, <<"wiki", <<"none">>>>}

DrawPlan ==
    \E n \in 1..2 :
      \E topics \in [1..n -> {<<"t">>, <<"u">>}], reuse \in [1..n -> PageIds],
         spans \in [1..n -> {<<>>, <<1>>, <<2>>, <<1, 2>>, <<3, 2>>, <<3>>, <<1, 3>>, <<3, 1, 2>>, <<1, 1, 2, 3>>, <<9>>}] :
        sample' = [of |-> "plan", plans |-> [i \in 1..n |-> Plan(topics[i], spans[i], reuse[i])]]

Reply(index, topic, page) == [index |-> index, topic |-> topic, page |-> page]

\* One page, with two claims of any text and span and one of the ids there are.
DrawPage ==
    \E texts \in [1..2 -> {<<"z">>, <<"5">>, <<"1", "5">>}], spans \in [1..2 -> {<<>>, <<1>>, <<2, 2>>, <<3>>}],
       ids \in [1..2 -> {None, OldClaim, Before[2].claims[1].id}], summary \in {<<"s">>, <<"5">>, <<"1">>},
       first \in {<<1, 2>>, <<1, 2, 3>>} :
        sample' = [of |-> "drafts",
                   plans |-> IF Len(first) = 3 THEN <<Plan(<<"t">>, first, Before[1].id)>>
                             ELSE <<Plan(<<"t">>, first, Before[1].id), Plan(<<"v">>, <<3>>, None)>>,
                   replies |-> <<<<None, <<Reply(1, <<"t">>, Draft(<<"t">>, summary, <<>>,
                                              [i \in 1..2 |-> Claim(texts[i], spans[i], ids[i])]))>>
                                          \o IF Len(first) = 3 THEN <<>>
                                             ELSE <<Reply(2, <<"v">>, Draft(<<"v">>, <<"s">>, <<>>, <<Claim(<<"z">>, <<3>>, None)>>))>>
                                >>>>]

\* Three pages in two batches, the replies to the first with their pages in any order.
DrawBatches ==
    \E index \in [1..2 -> 0..2], topics \in [1..2 -> {<<"t">>, <<"u">>}], titles \in {<<"w">>, <<"u">>},
       second \in {None, <<>>}, third \in {<<"v">>, <<"t">>} :
        LET page(title, n) == Draft(title, <<"s">>, <<>>, <<Claim(<<"z">>, <<n>>, None)>>)
        IN  sample' = [of |-> "drafts",
                       plans |-> <<Plan(<<"t">>, <<2>>, None), Plan(<<"u">>, <<1>>, Before[2].id), Plan(<<"v">>, <<3>>, None)>>,
                       replies |-> <<<< <<Reply(index[1], topics[1], page(titles, 2)),
                                          Reply(index[2], topics[2], page(<<"t">>, 1))>>,
                                        <<Reply(2, <<"u">>, page(<<"t">>, 1)), Reply(1, <<"t">>, page(<<"w">>, 2))>> >>,
                                     <<second, <<Reply(1, third, page(<<"v">>, 3))>>>>>>]

\* What a model thinks is kept apart from what it answers, an answer that was cut off is
\* not taken for a whole one, who asks for JSON says so and records it, a service gets
\* no key of the process environment, and a trace keeps no part of a secret.  Of what a
\* model plans and writes of the spans of its documents, a Wiki takes what these bear out,
\* and a corpus of policies that was drafted is read back as what it was.
ModelsAreHeard ==
    /\ Drawn("reply") => M!ThinkingIsKeptApart(sample.text)
    /\ Drawn("stream") => M!StreamsAreWhole(sample.lines)
    /\ Drawn("prompt") => M!PromptsAreAdapted(sample.messages, sample.format)
    /\ Drawn("settings") => M!ConfigsAreWhole(sample.environ, sample.dotenv)
    /\ Drawn("text") => M!SecretsAreKept(sample.text, sample.tail)
    /\ Drawn("document") =>
        /\ C!SpansAreStable(sample.lines, C!Prose(<<"z">>))
        /\ Len(sample.lines) <= 3 =>
              \A corpus \in Corpora(sample.lines), existing \in {{}, {[Before[1] EXCEPT !.version = -1]}} :
              \A plans \in {None, C!WholePlan(corpus)} :
                 C!PoliciesAreKept(corpus, plans, existing, After(sample.lines))
    /\ Drawn("plan") =>
        C!FastWikiIsSourced(sample.plans, Sources, Old, C!CompileWikiFast(sample.plans, Sources, Old))
    /\ Drawn("drafts") =>
        LET drafts == C!Drafted(sample.plans, sample.replies)
        IN  C!WrittenWikiIsSourced(sample.plans, Sources, Old, sample.replies,
                                   C!CompileWiki(sample.plans, Sources, Old, drafts), drafts)

\* From the question to what is delivered, and from what a model says to what a Wiki holds:
\* an answer rests on what was found, and a model is taken at its word and no further.
RepliesAreFounded == AnswersAreFounded /\ ModelsAreHeard

-----------------------------------------------------------------------------
(* One algorithm at a time, or the holdout: people who write, seal, edit and   *)
(* delete, and two openings.                                                   *)
Parts == {"facts", "evidence", "enrichment", "requests", "answers", "models", "pages", "wikis", "knowledge", "holdout"}

AlgorithmsInit == sample \in {[of |-> "nothing", part |-> p] : p \in Parts} /\ HoldoutInit

Begins(part) == sample = [of |-> "nothing", part |-> part]

AlgorithmsNext ==
    \/ /\ \/ Begins("facts") /\ DrawFacts
          \/ Begins("evidence") /\ DrawEvidence
          \/ Begins("enrichment") /\ DrawEnrichment
          \/ Begins("requests") /\ (DrawRequest \/ DrawOutcome)
          \/ Begins("answers") /\ (DrawClauses \/ DrawQuestion \/ DrawSelection \/ DrawAnswer \/ DrawStatements)
          \/ Begins("wikis") /\ (DrawWiki \/ DrawTerms)
          \/ Begins("knowledge") /\ (DrawCorpusLines \/ DrawCorpus \/ DrawPassages \/ DrawSearch \/ DrawEmbedding)
          \/ ModelSelects
          \/ Begins("models") /\ (DrawReply \/ DrawStream \/ DrawPrompt \/ DrawSettings \/ DrawText)
          \/ Begins("pages") /\ (DrawDocument \/ DrawPlan \/ DrawPage \/ DrawBatches)
       /\ UNCHANGED holdoutVars
    \/ Begins("holdout") /\ HoldoutNext /\ UNCHANGED sample

AlgorithmsSpec == AlgorithmsInit /\ [][AlgorithmsNext]_<<sample, holdoutVars>>
=============================================================================
