------------------------------ MODULE WikiQuery ------------------------------
(***************************************************************************)
(* Questions to a Wiki (orchestration/wiki_adapter.py): the terms of a     *)
(* text, and the order in which the claims of its pages answer.  A page    *)
(* [id, title, aliases, summary, claims] has a set of terms in each field, *)
(* a claim [id, text] in its text.                                          *)
(***************************************************************************)
EXTENDS Integers, Sequences, FiniteSets, FiniteSetsExt, SequencesExt

CONSTANTS
    Ascii, Ideograph,  \* the characters of words, all others separate
    Specificity        \* Specificity[t][c]: of t pages, c hold the term

-----------------------------------------------------------------------------
(* tokenize: of a sequence of characters.                                     *)

\* The maximal runs of some characters in a text, as intervals.
Runs(text, chars) ==
    {r \in (DOMAIN text) \X (DOMAIN text) :
        /\ r[1] <= r[2] /\ \A i \in r[1]..r[2] : text[i] \in chars
        /\ \A i \in {r[1] - 1, r[2] + 1} \cap DOMAIN text : text[i] \notin chars}

\* Seeded fault: a run of one ideograph has no pair.
PairsOnly(text, run) == {SubSeq(text, i, i + 1) : i \in run[1]..(run[2] - 1)}

Grams(text, run) ==
    IF run[1] = run[2] THEN {SubSeq(text, run[1], run[1])}
    ELSE {SubSeq(text, i, i + 1) : i \in run[1]..(run[2] - 1)}

Tokenize(text) ==
    {SubSeq(text, r[1], r[2]) : r \in Runs(text, Ascii)} \cup UNION {Grams(text, r) : r \in Runs(text, Ideograph)}

\* No character of a word is lost, no term spans a separator, and what is said of a text
\* holds of it inside another, between separators: a question finds what a page says.
TermsAreKept(before, text, after) ==
    /\ UNION {Range(t) : t \in Tokenize(text)} = Range(text) \cap (Ascii \cup Ideograph)
    /\ \A t \in Tokenize(text) : \E i \in DOMAIN text : SubSeq(text, i, i + Len(t) - 1) = t
    /\ Tokenize(before \o <<",">> \o text \o <<",">> \o after)
         = Tokenize(before) \cup Tokenize(text) \cup Tokenize(after)

-----------------------------------------------------------------------------

Fields(page, claim) == <<page.title, page.aliases, page.summary, claim.text>>
Weight == <<4, 3, 2, 1>>

PageTerms(page) == page.title \cup page.aliases \cup page.summary \cup UNION {c.text : c \in page.claims}

Worth(term, pages) == Specificity[Cardinality(pages)][Cardinality({p \in pages : term \in PageTerms(p)})]

\* Seeded fault: a term counts in every field that has it.
MergedSums(fields, terms, pages) ==
    MapThenSumSet(LAMBDA t : Worth(t, pages) * MapThenSumSet(LAMBDA f : IF t \in fields[f] THEN Weight[f] ELSE 0, 1..4),
                  terms)

\* Seeded fault: a term counts in the last field that has it.
MergedLast(fields, terms, pages) ==
    MapThenSumSet(LAMBDA t : Worth(t, pages) * Weight[Max({f \in 1..4 : t \in fields[f]})],
                  {t \in terms : \E f \in 1..4 : t \in fields[f]})

\* _merged_rank: a term counts once, in the field of the highest weight that has it.
MergedRank(fields, terms, pages) ==
    MapThenSumSet(LAMBDA t : Worth(t, pages) * Weight[Min({f \in 1..4 : t \in fields[f]})],
                  {t \in terms : \E f \in 1..4 : t \in fields[f]})

ClaimRank(claim, terms, pages) == MapThenSumSet(LAMBDA t : Worth(t, pages), terms \cap claim.text)

\* The score that is reported and that decides what is an answer at all.
Total(fields, terms) == MapThenSumSet(LAMBDA f : Weight[f] * Cardinality(terms \cap fields[f]), 1..4)

Scored(page, claim, terms, pages) ==
    [page |-> page.id, claim |-> claim.id, total |-> Total(Fields(page, claim), terms),
     merged |-> MergedRank(Fields(page, claim), terms, pages), own |-> ClaimRank(claim, terms, pages)]

Eligible(pages, terms) ==
    {s \in UNION {{Scored(p, c, terms, pages) : c \in p.claims} : p \in pages} : s.total > 0}

\* Seeded fault: what is left is as it comes.
PrecedesByScore(a, b) ==
    \/ a.merged > b.merged
    \/ a.merged = b.merged /\ a.own > b.own
    \/ a.merged = b.merged /\ a.own = b.own /\ a.total > b.total

\* Higher ranks first, then the claim's own, then the score, then the ids.
Precedes(a, b) ==
    \/ a.merged > b.merged
    \/ a.merged = b.merged /\ a.own > b.own
    \/ a.merged = b.merged /\ a.own = b.own /\ a.total > b.total
    \/ /\ <<a.merged, a.own, a.total>> = <<b.merged, b.own, b.total>>
       /\ a.page < b.page \/ (a.page = b.page /\ a.claim < b.claim)

WikiQuery(pages, terms, topK) ==
    LET ranked == SetToSortSeq(Eligible(pages, terms), Precedes)
    IN  SubSeq(ranked, 1, Min({topK, Len(ranked)}))

-----------------------------------------------------------------------------

Holds(page, claim, more) ==
    [page EXCEPT !.claims = {IF c = claim THEN [c EXCEPT !.text = @ \cup more] ELSE c : c \in @}]
Repeats(page, more) == [page EXCEPT !.summary = @ \cup more]

With(pages, page, changed) == (pages \ {page}) \cup {changed}
RankOf(scored, page, claim) == CHOOSE s \in scored : s.page = page.id /\ s.claim = claim.id

\* What answers is what any field of its page or its own text matches, and one of two always
\* precedes; a summary that repeats the title moves no page; and a claim that
\* says more of what its page is about falls behind none it was before.
AnswersAreRanked(pages, terms) ==
    LET before == Eligible(pages, terms)
    IN  /\ \A a, b \in before : a # b => (Precedes(a, b) # Precedes(b, a))
        /\ \A p \in pages : \A c \in p.claims :
             (\E s \in before : s.page = p.id /\ s.claim = c.id)
               <=> terms \cap (p.title \cup p.aliases \cup p.summary \cup c.text) # {}
        /\ \A k \in 1..3 : WikiQuery(pages, terms, k) = SubSeq(WikiQuery(pages, terms, 4), 1, Min({k, Cardinality(before)}))
        /\ \A p \in {q \in pages : q.title \cap terms # {}} :
             {[s EXCEPT !.total = 0] : s \in Eligible(With(pages, p, Repeats(p, p.title)), terms)}
               = {[s EXCEPT !.total = 0] : s \in before}
        /\ \A p \in pages : \A c \in p.claims, t \in (terms \cap PageTerms(p)) :
             t \notin c.text /\ (\E s \in before : s.page = p.id /\ s.claim = c.id) =>
               LET after == Eligible(With(pages, p, Holds(p, c, {t})), terms)
               IN  \A q \in pages : \A d \in q.claims :
                     /\ <<q.id, d.id>> # <<p.id, c.id>>
                     /\ \E s \in before : s.page = q.id /\ s.claim = d.id
                     /\ Precedes(RankOf(before, p, c), RankOf(before, q, d))
                     => Precedes(RankOf(after, p, c), RankOf(after, q, d))
=============================================================================
