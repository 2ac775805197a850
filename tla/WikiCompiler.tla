----------------------------- MODULE WikiCompiler -----------------------------
(***************************************************************************)
(* From an uploaded text to the pages of a Wiki: the spans a document is   *)
(* cut into and their identity (wiki_maintenance/source_spans.py), what of *)
(* a model's plan and drafts becomes a page (compiler.py), and the corpus  *)
(* of policies kept as a Wiki build (aftersales/policy_lifecycle.py).  A   *)
(* text is a sequence of characters, a digest is the value it is taken of. *)
(***************************************************************************)
EXTENDS Integers, Sequences, FiniteSets, FiniteSetsExt, SequencesExt

CONSTANTS
    Ideograph, Digit, \* characters; the space is " "
    PageBatchSize,
    None              \* nothing, and the result of a compilation that fails

-----------------------------------------------------------------------------
(* Segmentation: lines [kind, level, says], kind "text", "heading" or "blank". *)

Blank == [kind |-> "blank", level |-> 0, says |-> <<>>]
Prose(says) == [kind |-> "text", level |-> 0, says |-> says]
Heading(level, says) == [kind |-> "heading", level |-> level, says |-> says]

Flushed(s) ==
    IF s.buffer = <<>> THEN s
    ELSE [s EXCEPT !.buffer = <<>>, !.blocks = Append(@, [heading |-> s.heading, text |-> s.buffer])]

\* A first heading of level 1 is the document's title and heads no block.
Titled(s, line) == [s EXCEPT !.seen = TRUE, !.heading = IF s.seen \/ line.level > 1 THEN line.says ELSE @]
Buffered(s, line) == [s EXCEPT !.buffer = IF @ = <<>> THEN line.says ELSE @ \o <<" ">> \o line.says]

\* Seeded fault: a heading does not end the block before it.
TakenOpen(s, line) ==
    CASE line.kind = "heading" -> Titled(s, line)
      [] line.kind = "blank"   -> Flushed(s)
      [] line.kind = "text"    -> Buffered(s, line)

Taken(s, line) ==
    CASE line.kind = "heading" -> Titled(Flushed(s), line)
      [] line.kind = "blank"   -> Flushed(s)
      [] line.kind = "text"    -> Buffered(s, line)

SourceBlocks(lines) ==
    Flushed(FoldLeft(Taken, [blocks |-> <<>>, heading |-> <<>>, seen |-> FALSE, buffer |-> <<>>], lines)).blocks

IsInner(t, i) == i > 1 /\ t[i - 1] # " " /\ \E j \in (i + 1)..Len(t) : t[j] # " "
Following(t, i) == t[Min({j \in i..Len(t) : t[j] # " "})]

\* One space of each run inside a text: _normalize of the compiler.
KeptSpaced(t, i) == t[i] # " " \/ IsInner(t, i)

\* normalize_span_text: and none between ideographs.
Kept(t, i) == t[i] # " " \/ (IsInner(t, i) /\ ~({t[i - 1], Following(t, i)} \subseteq Ideograph))

Picked(t, kept) ==
    [n \in 1..Cardinality(kept) |-> t[CHOOSE i \in kept : Cardinality({j \in kept : j <= i}) = n]]

Normal(t)    == Picked(t, {i \in DOMAIN t : Kept(t, i)})
Collapsed(t) == Picked(t, {i \in DOMAIN t : KeptSpaced(t, i)})

SpanKey(block) == <<block.heading, Normal(block.text)>>
Occurrence(keys, i) == Cardinality({j \in 1..(i - 1) : keys[j] = keys[i]})

\* Seeded fault: the place in the document is part of the identity.
IdentifiedByPlace(document, blocks, keys) ==
    [i \in DOMAIN blocks |->
        [id |-> <<document, keys[i], i>>, ordinal |-> i, source |-> document,
         heading |-> blocks[i].heading, text |-> blocks[i].text]]

\* _span_contents: a span is what it says under its heading, the repeats past the first counted.
Identified(document, blocks, keys) ==
    [i \in DOMAIN blocks |->
        [id |-> <<document, keys[i], Occurrence(keys, i)>>, ordinal |-> i, source |-> document,
         heading |-> blocks[i].heading, text |-> blocks[i].text]]

Spans(document, blocks) == Identified(document, blocks, [i \in DOMAIN blocks |-> SpanKey(blocks[i])])

\* The version of a document: a digest of its spans' ids and texts, in reading order.
DocumentVersion(spans) == [i \in DOMAIN spans |-> <<spans[i].id, Normal(spans[i].text)>>]

Ids(spans) == {s.id : s \in Range(spans)}
Uploaded(lines) == Spans("d", SourceBlocks(lines))

InsertedAt(lines, i, more) == SubSeq(lines, 1, i) \o more \o SubSeq(lines, i + 1, Len(lines))
IsBoundary(lines, i) == i = 0 \/ i = Len(lines) \/ lines[i].kind # "text" \/ lines[i + 1].kind # "text"

Starts(lines) == {i \in DOMAIN lines : lines[i].kind = "text" /\ (i = 1 \/ lines[i - 1].kind # "text")}
NthStart(lines, n) == CHOOSE i \in Starts(lines) : Cardinality({j \in Starts(lines) : j <= i}) = n
HeadingAbove(lines, i) ==
    LET above == {j \in 1..i : lines[j].kind = "heading"}
        named == {j \in above : lines[j].level > 1 \/ \E l \in above : l < j}
    IN  IF named = {} THEN <<>> ELSE lines[Max(named)].says

\* Every line of a text is in one span, under the heading it stands under; a paragraph that
\* is put anywhere between two others re-identifies none; and a text that is indented,
\* spread out or, between two ideographs, wrapped is the version it was.
SpansAreStable(lines, more) ==
    LET before == Uploaded(lines)
    IN  /\ FlattenSeq([i \in DOMAIN before |-> SelectSeq(before[i].text, LAMBDA c : c # " ")])
             = FlattenSeq([i \in DOMAIN lines |-> IF lines[i].kind = "text"
                             THEN SelectSeq(lines[i].says, LAMBDA c : c # " ") ELSE <<>>])
        /\ [i \in DOMAIN before |-> before[i].heading]
             = [n \in 1..Cardinality(Starts(lines)) |-> HeadingAbove(lines, NthStart(lines, n))]
        /\ IsInjective([i \in DOMAIN before |-> before[i].id])
        /\ \A i \in {j \in 0..Len(lines) : IsBoundary(lines, j)} :
             LET after == Uploaded(InsertedAt(lines, i, <<Blank, more, Blank>>))
             IN  /\ Ids(before) \subseteq Ids(after) /\ Len(after) = Len(before) + 1
                 /\ DocumentVersion(Uploaded(InsertedAt(lines, i, <<Blank>>))) = DocumentVersion(before)
        /\ \A i \in {j \in 1..(Len(lines) - 1) : \A l \in {j, j + 1} : lines[l].kind = "text"} :
             Last(lines[i].says) \in Ideograph /\ Head(lines[i + 1].says) \in Ideograph =>
               DocumentVersion(Uploaded(SubSeq(lines, 1, i - 1) \o <<Prose(lines[i].says \o lines[i + 1].says)>>
                                          \o SubSeq(lines, i + 2, Len(lines)))) = DocumentVersion(before)

-----------------------------------------------------------------------------
(* Asking: a reply is a value or cannot be read (None), and a reply that has *)
(* not the shape asked for is repaired once.                                  *)

RequestJson(first, repaired) == IF first # None THEN first ELSE repaired

-----------------------------------------------------------------------------
(* Plans: pages [topic, spans, reuse], spans a sequence of span ids, reuse   *)
(* the id of an existing page or None.                                       *)

\* _require_plan_partitions_spans: every span is assigned, to one page and once.
Partitions(plans, ids) ==
    /\ UNION {Range(plans[i].spans) : i \in DOMAIN plans} = ids
    /\ IsInjective(FlattenSeq([i \in DOMAIN plans |-> plans[i].spans]))

\* _existing_page_for and claimed_page_ids: the pages to reuse are there and reused once.
Reuses(plans, existing) ==
    /\ \A i \in DOMAIN plans : plans[i].reuse \in {None} \cup {p.id : p \in existing}
    /\ \A i, j \in DOMAIN plans : i # j /\ plans[i].reuse # None => plans[i].reuse # plans[j].reuse

ExistingPage(plan, existing) ==
    IF plan.reuse = None THEN None ELSE CHOOSE p \in existing : p.id = plan.reuse

-----------------------------------------------------------------------------
(* Identities and versions.  A page version "1.n" is n, one of another form -1. *)

NewPageId(title) == <<"wiki", Collapsed(title)>>
NewClaimId(page, text, occurrence) == <<page, Collapsed(text), occurrence>>

NextPageVersion(previous) == IF previous < 0 THEN 0 ELSE previous + 1

\* Seeded fault: every compilation is a new version.
VersionedAnew(page, existing) ==
    page @@ [version |-> IF existing = None THEN 0 ELSE NextPageVersion(existing.version)]

\* _page_fingerprint: everything but the version.
Content(page) == <<page.title, page.summary, page.aliases, page.claims>>

Versioned(page, existing) ==
    page @@ [version |-> CASE existing = None -> NextPageVersion(-1)
                           [] existing # None /\ Content(existing) = Content(page) -> existing.version
                           [] OTHER -> NextPageVersion(existing.version)]

PageId(title, existing) == IF existing = None THEN NewPageId(title) ELSE existing.id

LocatorFor(span) == IF span.heading = <<>> THEN <<"span", span.id>> ELSE <<"section", span.heading>>

SpanOf(spans, id) == CHOOSE s \in spans : s.id = id

Distinct(s) == FoldLeft(LAMBDA seen, x : IF x \in Range(seen) THEN seen ELSE Append(seen, x), <<>>, s)

\* validate_collection: page ids are unique, and claim ids across all pages.
Collected(pages) ==
    IF /\ IsInjective([i \in DOMAIN pages |-> pages[i].id])
       /\ IsInjective(FlattenSeq([i \in DOMAIN pages |-> [c \in DOMAIN pages[i].claims |-> pages[i].claims[c].id]]))
    THEN pages ELSE None

IsPlanned(plans, spans, existing) ==
    /\ plans # None /\ Partitions(plans, {s.id : s \in spans}) /\ Reuses(plans, existing)
    /\ \A i \in DOMAIN plans : plans[i].spans # <<>>

-----------------------------------------------------------------------------
(* compile_wiki_fast: the model plans, every claim is a span word by word.   *)

VerbatimClaims(page, own, keys) ==
    [i \in DOMAIN own |->
        [id |-> NewClaimId(page, own[i].text, Occurrence(keys, i)), text |-> own[i].text,
         source |-> own[i].source, locator |-> LocatorFor(own[i]), spans |-> <<own[i].id>>]]

Navigated(title, headings, id, claims) ==
    [id |-> id, title |-> title, claims |-> claims,
     summary |-> <<"covers">> \o IF headings = <<>> THEN title ELSE FlattenSeq(headings),
     aliases |-> SelectSeq(headings, LAMBDA h : h # title)]

AssembleFromSpans(plan, own, existing) ==
    Versioned(Navigated(plan.topic,
                        Distinct(SelectSeq([i \in DOMAIN own |-> own[i].heading], LAMBDA h : h # <<>>)),
                        PageId(plan.topic, existing),
                        VerbatimClaims(PageId(plan.topic, existing), own,
                                       [i \in DOMAIN own |-> Collapsed(own[i].text)])),
              existing)

CompileWikiFast(plans, spans, existing) ==
    IF ~IsPlanned(plans, spans, existing) THEN None
    ELSE Collected([i \in DOMAIN plans |->
            AssembleFromSpans(plans[i], [n \in DOMAIN plans[i].spans |-> SpanOf(spans, plans[i].spans[n])],
                              ExistingPage(plans[i], existing))])

-----------------------------------------------------------------------------
(* compile_wiki: the model writes the pages as well, in batches of drafts    *)
(* [index, topic, page].                                                      *)

Numbers(t) ==
    {SubSeq(t, i, j) : <<i, j>> \in
        {r \in (DOMAIN t) \X (DOMAIN t) :
            /\ r[1] <= r[2] /\ \A n \in r[1]..r[2] : t[n] \in Digit
            /\ \A n \in {r[1] - 1, r[2] + 1} \cap DOMAIN t : t[n] \notin Digit}}

\* Seeded fault: a number may be a part of one in the source.
NumbersWithin(text, cited) ==
    \A n \in Numbers(text) : \E s \in cited : \E i, j \in DOMAIN s.text : SubSeq(s.text, i, j) = n

\* _require_numbers_are_sourced
NumbersAreSourced(text, cited) == Numbers(text) \subseteq UNION {Numbers(s.text) : s \in cited}

\* What _assemble_page and WikiPage refuse: claims cite spans of their page's plan alone.
IsSupported(plan, page, spans) ==
    /\ NumbersAreSourced(page.summary, {s \in spans : s.id \in Range(plan.spans)})
    /\ \A c \in Range(page.claims) :
         /\ c.spans # <<>> /\ Range(c.spans) \subseteq Range(plan.spans)
         /\ NumbersAreSourced(c.text, {s \in spans : s.id \in Range(c.spans)})
    /\ IsInjective(page.aliases)

\* _claim_id_for
ClaimIdFor(page, claim, reusable, used) ==
    IF claim.reuse \in reusable \ Range(used) THEN claim.reuse
    ELSE NewClaimId(page, claim.text,
                    Min({n \in 0..Len(used) : NewClaimId(page, claim.text, n) \notin Range(used)}))

ClaimIds(page, claims, reusable) ==
    FoldLeft(LAMBDA used, c : Append(used, ClaimIdFor(page, c, reusable, used)), <<>>, claims)

Reusable(existing) == IF existing = None THEN {} ELSE {c.id : c \in Range(existing.claims)}

Claimed(claims, ids, spans) ==
    [i \in DOMAIN claims |->
        [id |-> ids[i], text |-> claims[i].text, spans |-> Distinct(claims[i].spans),
         source |-> SpanOf(spans, claims[i].spans[1]).source,
         locator |-> LocatorFor(SpanOf(spans, claims[i].spans[1]))]]

AssemblePage(page, id, spans, existing) ==
    Versioned([id |-> id, title |-> page.title, summary |-> page.summary, aliases |-> page.aliases,
               claims |-> Claimed(page.claims, ClaimIds(id, page.claims, Reusable(existing)), spans)],
              existing)

\* Seeded fault: the drafts are taken in the order they come in.
InterpretBatchInOrder(plans, reply) ==
    IF reply = None \/ Len(reply) # Len(plans) THEN None
    ELSE IF \E r \in Range(reply) : r.page.claims = <<>> THEN None
    ELSE [n \in DOMAIN plans |-> reply[n].page]

\* compile_page_batch: exactly the pages asked for, each with its index and topic.
InterpretBatch(plans, reply) ==
    IF reply = None \/ Len(reply) # Len(plans) THEN None
    ELSE IF /\ {r.index : r \in Range(reply)} = DOMAIN plans
            /\ \A r \in Range(reply) : r.topic = plans[r.index].topic /\ r.page.claims # <<>>
         THEN [n \in DOMAIN plans |-> (CHOOSE r \in Range(reply) : r.index = n).page]
    ELSE None

Batch(plans, b) == SubSeq(plans, (b - 1) * PageBatchSize + 1, Min({b * PageBatchSize, Len(plans)}))

BatchReply(plans, replies) == RequestJson(InterpretBatch(plans, replies[1]), InterpretBatch(plans, replies[2]))

\* The drafts of all batches, in the order of the plan, or None.
Drafted(plans, replies) ==
    LET drafts == [b \in 1..((Len(plans) + PageBatchSize - 1) \div PageBatchSize) |->
                      BatchReply(Batch(plans, b), replies[b])]
    IN  IF None \in Range(drafts) THEN None ELSE FlattenSeq(drafts)

CompileWiki(plans, spans, existing, drafts) ==
    IF \/ ~IsPlanned(plans, spans, existing) \/ drafts = None THEN None
    ELSE IF \E i \in DOMAIN plans : ~IsSupported(plans[i], drafts[i], spans) THEN None
    ELSE Collected([i \in DOMAIN plans |->
            AssemblePage(drafts[i], PageId(drafts[i].title, ExistingPage(plans[i], existing)),
                         spans, ExistingPage(plans[i], existing))])

-----------------------------------------------------------------------------

ClaimsOf(page) == Range(page.claims)

\* Every claim cites spans of its page's plan and no other, stands under the source and
\* locator of one it cites, and holds no number that none of those has.
ClaimsAreSourced(plans, spans, pages) ==
    \A i \in DOMAIN pages : \A c \in ClaimsOf(pages[i]) :
        LET cited == {s \in spans : s.id \in Range(c.spans)}
        IN  /\ cited # {} /\ {s.id : s \in cited} = Range(c.spans) /\ Range(c.spans) \subseteq Range(plans[i].spans)
            /\ \E s \in cited : c.source = s.source /\ c.locator = LocatorFor(s)
            /\ \A n \in Numbers(c.text) : \E s \in cited : n \in Numbers(s.text)

\* A claim id names one claim, and never one of another page of the Wiki before; an existing
\* page is continued by one page at most, under a version that differs where the page does.
IdentityIsKept(plans, existing, pages) ==
    /\ \A i, j \in DOMAIN pages : \A m \in DOMAIN pages[i].claims, n \in DOMAIN pages[j].claims :
         pages[i].claims[m].id = pages[j].claims[n].id => i = j /\ m = n
    /\ \A i, j \in DOMAIN pages : pages[i].id = pages[j].id => i = j
    /\ \A i \in DOMAIN pages, p \in existing :
         /\ Reusable(p) \cap Reusable(pages[i]) # {} => p.id = pages[i].id
         /\ plans[i].reuse = p.id =>
              p.id = pages[i].id /\ (p.version = pages[i].version <=> Content(p) = Content(pages[i]))

\* What a Wiki of plans over all of some spans may be: nothing of the spans is left out,
\* stated twice or made up, and what is compiled again of the same spans, each topic on the
\* page it has, is the same Wiki.
WikiIsSourced(plans, spans, existing, pages, again) ==
    pages # None =>
        /\ Len(pages) = Len(plans)
        /\ \A s \in spans : Cardinality({i \in DOMAIN plans : s.id \in Range(plans[i].spans)}) = 1
        /\ Len(FlattenSeq([i \in DOMAIN plans |-> plans[i].spans])) = Cardinality(spans)
        /\ ClaimsAreSourced(plans, spans, pages)
        /\ IdentityIsKept(plans, existing, pages)
        /\ again = pages

Replanned(plans, pages) == [i \in DOMAIN plans |-> [plans[i] EXCEPT !.reuse = pages[i].id]]

FastWikiIsSourced(plans, spans, existing, pages) ==
    /\ WikiIsSourced(plans, spans, existing, pages,
                     IF pages = None THEN None ELSE CompileWikiFast(Replanned(plans, pages), spans, Range(pages)))
    /\ pages # None =>
         /\ \A s \in spans : \E i \in DOMAIN pages : \E c \in ClaimsOf(pages[i]) : c.text = s.text /\ c.spans = <<s.id>>
         /\ Len(FlattenSeq([i \in DOMAIN pages |-> pages[i].claims])) = Cardinality(spans)

\* The same drafts, each claim under the id it got.
Redrafted(drafts, pages) ==
    [i \in DOMAIN drafts |-> [drafts[i] EXCEPT !.claims =
        [n \in DOMAIN @ |-> [@[n] EXCEPT !.reuse = pages[i].claims[n].id]]]]

\* Every page is written of a draft that names its topic, under the page's index.
WrittenWikiIsSourced(plans, spans, existing, replies, pages, drafts) ==
    /\ WikiIsSourced(plans, spans, existing, pages,
                     IF pages = None THEN None
                     ELSE CompileWiki(Replanned(plans, pages), spans, Range(pages), Redrafted(drafts, pages)))
    /\ pages # None =>
         \A i \in DOMAIN pages : \E b \in DOMAIN replies : \E reply \in Range(replies[b]) \ {None} :
            \E r \in Range(reply) :
                /\ r.topic = plans[i].topic /\ (b - 1) * PageBatchSize + r.index = i
                /\ r.page.title = pages[i].title
                /\ [n \in DOMAIN r.page.claims |-> r.page.claims[n].text]
                     = [n \in DOMAIN pages[i].claims |-> pages[i].claims[n].text]

-----------------------------------------------------------------------------
(* Policies (aftersales/policy_source.py, policy_lifecycle.py): a source is    *)
(* its front matter [policy, document, title, locator, rule] and its body, lines *)
(* as above.  A snapshot has the front matter as its first span, here a field.  *)

\* parse_policy_source: the locator is a heading of level 2.
IsPolicySource(s) == Heading(2, s.header.locator) \in Range(s.body)

SpanDigests(spans) == [i \in DOMAIN spans |-> <<spans[i].id, spans[i].hash>>]

PolicySnapshot(s) ==
    LET spans  == Spans(s.header.document, SourceBlocks(s.body))
        hashed == [i \in DOMAIN spans |-> spans[i] @@ [hash |-> Normal(spans[i].text)]]
    IN  [header |-> s.header, spans |-> hashed, digest |-> <<s.header, SpanDigests(hashed)>>]

\* The verbatim compiler, one topic for a source; or a model's plans.
PolicyPages(sources, plans, existing) ==
    LET spansOf(i) == Spans(sources[i].header.document, SourceBlocks(sources[i].body))
        pageOf(title) == {p \in existing : p.id = NewPageId(title)}
        assembled(title, own) ==
            AssembleFromSpans([topic |-> title], own,
                              IF pageOf(title) = {} THEN None ELSE CHOOSE p \in pageOf(title) : TRUE)
    IN  IF plans # None THEN CompileWikiFast(plans, UNION {Range(spansOf(i)) : i \in DOMAIN sources}, existing)
        ELSE Collected([i \in DOMAIN sources |-> assembled(sources[i].header.title, spansOf(i))])

\* A model that puts all of a corpus on one page.
WholePlan(sources) ==
    <<[topic |-> <<"t">>, reuse |-> None,
       spans |-> FlattenSeq([i \in DOMAIN sources |->
                    [n \in DOMAIN PolicySnapshot(sources[i]).spans |-> PolicySnapshot(sources[i]).spans[n].id]])]>>

\* Seeded fault: one document may hold two policies.
DraftOfPolicies(sources, plans, existing) ==
    IF \/ sources = <<>> \/ \E s \in Range(sources) : ~IsPolicySource(s) \/ PolicySnapshot(s).spans = <<>>
       \/ ~IsInjective([i \in DOMAIN sources |-> sources[i].header.policy])
       \/ PolicyPages(sources, plans, existing) = None
    THEN None
    ELSE [pages |-> PolicyPages(sources, plans, existing),
          snapshots |-> [i \in DOMAIN sources |-> PolicySnapshot(sources[i])]]

\* The sources in the order of their documents, with prose each.
CompilePolicyDraft(sources, plans, existing) ==
    IF \/ sources = <<>> \/ \E s \in Range(sources) : ~IsPolicySource(s) \/ PolicySnapshot(s).spans = <<>>
       \/ ~IsInjective([i \in DOMAIN sources |-> sources[i].header.policy])
       \/ ~IsInjective([i \in DOMAIN sources |-> sources[i].header.document])
       \/ PolicyPages(sources, plans, existing) = None
    THEN None
    ELSE [pages |-> PolicyPages(sources, plans, existing),
          snapshots |-> [i \in DOMAIN sources |-> PolicySnapshot(sources[i])]]

\* Seeded fault: the spans' own digests are enough.
IsIntactBySpan(document, snapshot) ==
    \A s \in Range(snapshot.spans) : s.hash = Normal(s.text) /\ s.source = document

\* A snapshot's spans, identities and digest are those of what it says.
IsIntact(document, snapshot) ==
    /\ \A s \in Range(snapshot.spans) : s.hash = Normal(s.text)
    /\ [i \in DOMAIN snapshot.spans |-> [snapshot.spans[i] EXCEPT !.hash = None]]
         = [i \in DOMAIN snapshot.spans |-> Spans(document, snapshot.spans)[i] @@ [hash |-> None]]
    /\ snapshot.digest = <<snapshot.header, SpanDigests(snapshot.spans)>>

\* The text that is parsed again: every span under its heading, which is of level 2 now.
Rendered(spans) ==
    FlattenSeq([i \in DOMAIN spans |->
        (IF spans[i].heading = <<>> THEN <<>> ELSE <<Heading(2, spans[i].heading)>>)
          \o <<Prose(spans[i].text), Blank>>])

LoadPolicySource(document, snapshot) ==
    LET source == [header |-> snapshot.header, body |-> Rendered(snapshot.spans)]
    IN  IF IsIntact(document, snapshot) /\ IsPolicySource(source) /\ source.header.document = document
        THEN source ELSE None

\* load_policy_sources, which a publication, a roll back and every read begin with.
LoadPolicySources(build, documents) ==
    LET loaded == [i \in DOMAIN documents |-> LoadPolicySource(documents[i], build.snapshots[i])]
    IN  IF None \in Range(loaded) THEN None
        ELSE IF IsInjective([i \in DOMAIN loaded |-> loaded[i].header.policy]) THEN loaded ELSE None

\* Of a build that is live and can be read.
FrozenManifest(build) ==
    [pages |-> ToSet(build.pages),
     documents |-> [i \in DOMAIN build.snapshots |-> <<build.snapshots[i].header.document, build.snapshots[i].digest>>]]

\* Seeded fault: a page that is new or gone is no change, nor is a policy.
DiffOfCommonPages(old, new) ==
    LET headers(b) == {s.header : s \in Range(b.snapshots)}
        changed(x, y) == (x \ y) \cup (y \ x)
    IN  [policies |-> {h.policy : h \in {g \in changed(headers(old), headers(new)) : \A b \in {old, new} :
                                        \E s \in Range(b.snapshots) : s.header.policy = g.policy}},
         pages    |-> {p.id : p \in {q \in changed(Range(old.pages), Range(new.pages)) : \A b \in {old, new} :
                                        \E s \in Range(b.pages) : s.id = q.id}}]

\* What a review is shown of two builds that can be read.
DiffPolicyBuilds(old, new) ==
    LET headers(b) == {s.header : s \in Range(b.snapshots)}
        changed(x, y) == (x \ y) \cup (y \ x)
    IN  [policies |-> {h.policy : h \in changed(headers(old), headers(new))},
         pages    |-> {p.id : p \in changed(Range(old.pages), Range(new.pages))}]

\* Somebody edits a snapshot's file: a text with or without its digest, a heading, the
\* front matter, a span gone, or two exchanged.
Edited(snapshot) ==
    LET spans == snapshot.spans
        of(changed) == [snapshot EXCEPT !.spans = changed]
    IN  UNION {{of([spans EXCEPT ![n].text = <<"5">>]), of([spans EXCEPT ![n].text = @ \o <<" ">>]),
                of([spans EXCEPT ![n].text = <<"5">>, ![n].hash = <<"5">>]),
                of([spans EXCEPT ![n].heading = <<"5">>]), of(RemoveAt(spans, n)),
                of([i \in DOMAIN spans |-> spans[IF i = n THEN 1 ELSE IF i = 1 THEN n ELSE i]])} : n \in DOMAIN spans}
          \cup {[snapshot EXCEPT !.header.rule = "edited"]}

SameTexts(document, lines, others) ==
    DocumentVersion(Spans(document, SourceBlocks(lines))) = DocumentVersion(Spans(document, SourceBlocks(others)))

\* A policy build that was drafted can be read back if every locator has prose under it,
\* as the same policies over the same texts, which compile to the same pages again; a
\* snapshot that was edited is refused, or says the same; and a review of two builds shows
\* a difference exactly if a frozen manifest of the one refuses the other.
PoliciesAreKept(sources, plans, existing, laterCorpora) ==
    LET build     == CompilePolicyDraft(sources, plans, existing)
        documents == [i \in DOMAIN sources |-> sources[i].header.document]
        loaded    == LoadPolicySources(build, documents)
    IN  build # None =>
        /\ IsInjective(documents)
        /\ loaded # None <=> \A i \in DOMAIN sources :
             \E s \in Range(build.snapshots[i].spans) : s.heading = sources[i].header.locator
        /\ loaded # None =>
             /\ \A i \in DOMAIN sources :
                  loaded[i].header = sources[i].header /\ SameTexts(documents[i], loaded[i].body, sources[i].body)
             /\ FrozenManifest(CompilePolicyDraft(loaded, plans, existing)) = FrozenManifest(build)
             /\ plans = None =>
                  FrozenManifest(CompilePolicyDraft(sources, None, Range(build.pages))) = FrozenManifest(build)
        /\ \A i \in DOMAIN sources : \A file \in Edited(build.snapshots[i]) :
             LET read == LoadPolicySource(documents[i], file)
             IN  read # None => read.header = sources[i].header /\ SameTexts(documents[i], read.body, sources[i].body)
        /\ loaded # None => \A others \in laterCorpora :
             LET other == CompilePolicyDraft(others, plans, existing)
             IN  (/\ other # None
                  /\ LoadPolicySources(other, [i \in DOMAIN others |-> others[i].header.document]) # None)
                 => (DiffPolicyBuilds(build, other) = [policies |-> {}, pages |-> {}]
                       <=> FrozenManifest(build) = FrozenManifest(other))
=============================================================================
