---------------------------- MODULE KnowledgeBase ----------------------------
(***************************************************************************)
(* The knowledge base of the after-sales service                            *)
(* (aftersales_service/knowledge_base.py, embedding_cache.py): documents,   *)
(* the checks of what they say of eligibility and of the rule they restate, *)
(* the passages they are cut into, the search for these, and the cache of   *)
(* their embeddings.  A text is a sequence of symbols, of which "turn" and  *)
(* "swap" make an action before "goods" and "." ends a sentence.            *)
(***************************************************************************)
EXTENDS Integers, Sequences, FiniteSets, FiniteSetsExt, SequencesExt, TLC

CONSTANTS
    None,
    PassageChars, MaxPassages, RrfK, CosineFloor, QueryFloor,
    MinBody, MaxBody

-----------------------------------------------------------------------------
(* parse_document: lines [is, says], blank, of a fence, a heading or of text.  *)

Line(is, says) == [is |-> is, says |-> says]

Unread == [sections |-> <<>>, fenced |-> FALSE, sound |-> TRUE]

\* finish_section: the last heading has text below it.
Finished(s) == s.sections = <<>> \/ Last(s.sections).body # <<>>

Begun(s, number, line) ==
    [s EXCEPT !.sound = @ /\ Finished(s),
              !.sections = Append(@, [heading |-> line.says, at |-> number, body |-> <<>>])]

\* Seeded fault: a line of a fence may open a section.
ReadInFences(s, number, line) ==
    LET fenced == IF line.is = "fence" THEN ~s.fenced ELSE s.fenced
    IN  CASE line.is = "blank" -> s
          [] line.is = "heading" -> Begun(s, number, line)
          [] s.sections = <<>> -> [s EXCEPT !.sound = FALSE]
          [] OTHER -> [s EXCEPT !.fenced = fenced,
                                !.sections[Len(s.sections)].body = Append(@, <<number, line.says>>)]

Read(s, number, line) ==
    LET fenced == IF line.is = "fence" THEN ~s.fenced ELSE s.fenced
    IN  CASE line.is = "blank" -> s
          [] line.is = "heading" /\ ~s.fenced -> Begun(s, number, line)
          [] s.sections = <<>> -> [s EXCEPT !.sound = FALSE]
          [] OTHER -> [s EXCEPT !.fenced = fenced,
                                !.sections[Len(s.sections)].body = Append(@, <<number, line.says>>)]

Parse(lines) ==
    LET s == FoldLeftDomain(LAMBDA acc, n : Read(acc, n, lines[n]), Unread, lines)
    IN  IF s.sound /\ s.sections # <<>> /\ Finished(s) THEN s.sections ELSE None

\* The text of a section, and what its n-th line starts at in it.
Joined(body) == FoldLeft(LAMBDA text, l : IF text = <<>> THEN l[2] ELSE text \o <<" ">> \o l[2], <<>>, body)
Offset(body, n) == 1 + MapThenSumSet(LAMBDA i : Len(body[i][2]) + 1, 1..(n - 1))

\* A document is refused, or its sections have all its text, each line in the section of the
\* last heading before it that is in no fence, and none of them is empty.
TextIsKept(lines) ==
    LET sections == Parse(lines)
        fenced(n) == Cardinality({i \in 1..n : lines[i].is = "fence"}) % 2 = 1
        headings == {n \in DOMAIN lines : lines[n].is = "heading" /\ ~fenced(n)}
        written  == {n \in DOMAIN lines : lines[n].is # "blank"} \ headings
    IN  IF sections = None
        THEN \/ headings = {}
             \/ \E n \in written : \A h \in headings : n < h
             \/ \E h \in headings : \A n \in written : n < h \/ \E g \in headings : h < g /\ g < n
        ELSE /\ {sections[i].at : i \in DOMAIN sections} = headings
             /\ \A i \in DOMAIN sections :
                  {l[1] : l \in Range(sections[i].body)}
                    = {n \in written : Max({h \in headings : h < n}) = sections[i].at}
             /\ \A i \in DOMAIN sections : sections[i].body # <<>>

-----------------------------------------------------------------------------
(* check_eligibility, check_restatement: of a title and the joined sections.   *)

Digit == [d \in {"1", "5"} |-> IF d = "1" THEN 1 ELSE 5]
Unit == {"day", "workday", "hour"}

At(text, i) == IF i \in DOMAIN text THEN text[i] ELSE "."
After(text, i) == Min({j \in i..(Len(text) + 1) : At(text, j) # " "})
NumberEnd(text, i) == Min({j \in i..Len(text) : At(text, j + 1) \notin DOMAIN Digit})

Integer(text, i) == FoldLeft(LAMBDA n, d : 10 * n + Digit[d], 0, SubSeq(text, i, NumberEnd(text, i)))

Segments(doc) == <<doc.title>> \o [i \in DOMAIN doc.sections |-> doc.sections[i].heading \o <<" ">> \o Joined(doc.sections[i].body)]

IsAction(text, i) == At(text, i) \in {"turn", "swap"} /\ At(text, i + 1) = "goods"

\* Seeded fault: an action is one that has its goods.
StatesOfGoods(text) ==
    \E i \in DOMAIN text :
      \/ At(text, i) \in {"may", "support"} /\ IsAction(text, After(text, i + 1))
      \/ IsAction(text, i) /\ At(text, After(text, i + 2)) = "terms"

\* The two kinds of pattern: a permission and an action; a short one, not of a fee.
StatesEligibility(text) ==
    \E i \in DOMAIN text :
      \/ At(text, i) \in {"may", "support"} /\ IsAction(text, After(text, i + 1))
      \/ IsAction(text, i) /\ At(text, After(text, i + 2)) = "terms"
      \/ /\ At(text, i) = "may" /\ At(text, i + 1) \in {"turn", "swap"} /\ At(text, i + 2) # "back"
         /\ ~\E j \in 1..(i - 1) : At(text, j) = "fee" /\ After(text, j + 1) = i

CheckEligibility(doc) ==
    doc.restates # None \/ ~\E n \in DOMAIN Segments(doc) : StatesEligibility(Segments(doc)[n])

\* DAY_COUNT: what the count that starts at i says, if one does.
CountsAt(text, i) ==
    IF At(text, i) \notin DOMAIN Digit \/ At(text, i - 1) \in DOMAIN Digit \cup {"nth"} THEN {}
    ELSE LET k == After(text, NumberEnd(text, i) + 1)
             r == IF At(text, k) \in Unit THEN After(text, k + 1) ELSE k
             j == After(text, r + 1)
             e == After(text, NumberEnd(text, j) + 1)
             first == Integer(text, i)
         IN  IF At(text, r) = "to" /\ At(text, j) \in DOMAIN Digit /\ At(text, e) \in Unit
             THEN {[at |-> i, to |-> e, values |-> {first, Integer(text, j)},
                    units |-> {At(text, e)} \cup ({At(text, k)} \cap Unit), spans |-> TRUE]}
             ELSE IF At(text, k) \in Unit
             THEN {[at |-> i, to |-> k, values |-> {first}, units |-> {At(text, k)}, spans |-> FALSE]}
             ELSE {}

\* "On the last day" counts none.
IsLastDay(text, c) == At(text, c.at - 1) = "last" /\ c.values = {1} /\ ~c.spans /\ c.units = {"day"}

Counts(text) == {c \in UNION {CountsAt(text, i) : i \in DOMAIN text} : ~IsLastDay(text, c)}

Clause(text, c) ==
    SubSeq(text, 1 + Max({0} \cup {i \in 1..(c.at - 1) : text[i] = "."}),
                 Min({Len(text)} \cup {i \in c.to..Len(text) : text[i] = "."}))

\* Seeded fault: of a range, the first number counts.
AgreesAtFirst(text, c, rule) ==
    /\ rule.days # None /\ \E v \in c.values : v = rule.days
    /\ c.units = {"day"}
    /\ ~\E i \in DOMAIN Clause(text, c) : IsAction(Clause(text, c), i) /\ Clause(text, c)[i] # rule.action

Agrees(text, c, rule) ==
    /\ rule.days # None /\ c.values = {rule.days} /\ c.units = {"day"}
    /\ ~\E i \in DOMAIN Clause(text, c) : IsAction(Clause(text, c), i) /\ Clause(text, c)[i] # rule.action

\* A rule [days, action, from, to]; days that one may have at all are of a window.
IsWithin(doc, rule) ==
    doc.from >= rule.from /\ (rule.to # None => doc.to # None /\ doc.to <= rule.to)

CheckRestatement(doc, rules) ==
    \/ doc.restates = None
    \/ /\ doc.restates \in DOMAIN rules
       /\ LET rule == rules[doc.restates]
              texts == Range(Segments(doc))
          IN  /\ IsWithin(doc, rule)
              /\ \A t \in texts : \A c \in Counts(t) : Agrees(t, c, rule)
              /\ rule.days # None => \E t \in texts : Counts(t) # {}

Body(doc) == Cardinality(UNION {{<<i, n>> : n \in {m \in DOMAIN Joined(doc.sections[i].body) : Joined(doc.sections[i].body)[m] # " "}} :
                                  i \in DOMAIN doc.sections})

\* _reviewed_short_bodies: an approval [doc, content] is of what the document now holds.
AreReviewed(approvals, docs) ==
    /\ \A a \in approvals : \E d \in docs : d.id = a.doc /\ d.sections = a.content
    /\ \A a, b \in approvals : a.doc = b.doc => a = b

LoadCorpus(docs, rules, approvals, lengths) ==
    /\ docs # {} /\ (lengths => AreReviewed(approvals, docs))
    /\ \A d \in docs :
        /\ CheckEligibility(d) /\ CheckRestatement(d, rules)
        /\ lengths => Body(d) <= MaxBody /\ (Body(d) >= MinBody \/ \E a \in approvals : a.doc = d.id)
\* A corpus that was built states no count of days but that of the rule it restates, in
\* days, and of no other action, whatever lines its text is broken at between its words,
\* and of what no document restates, no one states who may return what.  The claims
\* <<days, unit, action>> are what the documents say, the permissions who says it may be.
CorpusSaysTheRules(docs, rules, approvals, claims, permissions) ==
    \A lengths \in BOOLEAN :
        LoadCorpus(docs, rules, approvals, lengths) =>
            \A d \in docs :
                IF d.restates = None THEN d.id \notin permissions
                ELSE \A c \in claims[d.id] :
                        /\ c[1] = rules[d.restates].days /\ c[2] = "day"
                        /\ c[3] \in {"none", rules[d.restates].action}

-----------------------------------------------------------------------------
(* split_passages.                                                           *)

Sentences(text) ==
    FoldLeft(LAMBDA some, c : IF some = <<>> \/ Last(Last(some)) = "." THEN Append(some, <<c>>)
                              ELSE [some EXCEPT ![Len(some)] = Append(@, c)],
             <<>>, text)

\* A sentence that is longer than a passage is cut; the rest of it is at most one long.
CutsOf(sentence) == (Len(sentence) - 1) \div PassageChars
Cut(sentence) == [n \in 1..CutsOf(sentence) |-> SubSeq(sentence, (n - 1) * PassageChars + 1, n * PassageChars)]
Rest(sentence) == SubSeq(sentence, CutsOf(sentence) * PassageChars + 1, Len(sentence))

\* Seeded fault: what was gathered before a long sentence comes after its cuts.
GatheredLate(s, sentence) ==
    LET rest == Rest(sentence)
        pieces == s.pieces \o Cut(sentence)
    IN  IF Len(s.current) + Len(rest) > PassageChars
        THEN [pieces |-> Append(pieces, s.current), current |-> rest]
        ELSE [pieces |-> pieces, current |-> s.current \o rest]

Gathered(s, sentence) ==
    LET long    == CutsOf(sentence) > 0 /\ s.current # <<>>
        pieces  == (IF long THEN Append(s.pieces, s.current) ELSE s.pieces) \o Cut(sentence)
        current == IF long THEN <<>> ELSE s.current
        rest    == Rest(sentence)
    IN  IF Len(current) + Len(rest) > PassageChars
        THEN [pieces |-> Append(pieces, current), current |-> rest]
        ELSE [pieces |-> pieces, current |-> current \o rest]

Pieces(text) ==
    IF Len(text) <= PassageChars THEN <<text>>
    ELSE LET s == FoldLeft(Gathered, [pieces |-> <<>>, current |-> <<>>], Sentences(text))
         IN  IF s.current = <<>> THEN s.pieces ELSE Append(s.pieces, s.current)

LineAt(body, offset) == Max({body[n][1] : n \in {m \in DOMAIN body : Offset(body, m) <= offset}})

SplitPassages(body) ==
    LET pieces == Pieces(Joined(body))
        before(n) == MapThenSumSet(LAMBDA i : Len(pieces[i]), 1..(n - 1))
    IN  [n \in DOMAIN pieces |->
            [text |-> pieces[n], first |-> LineAt(body, before(n) + 1), last |-> LineAt(body, before(n) + Len(pieces[n]))]]

\* The passages of a section are its text, in its order and all of it, none is longer than
\* a passage may be or cuts a sentence that fits one, and the lines that it names have it.
PassagesAreTheText(body) ==
    LET passages == SplitPassages(body)
        text     == Joined(body)
        sentences == Sentences(text)
    IN  /\ FlattenSeq([n \in DOMAIN passages |-> passages[n].text]) = text
        /\ \A n \in DOMAIN passages : Len(passages[n].text) \in 1..PassageChars
        /\ \A n \in DOMAIN passages :
              LET lines == {body[m][1] : m \in DOMAIN body} \cap passages[n].first..passages[n].last
              IN  Range(passages[n].text) \ {" "} \subseteq UNION {Range(body[m][2]) : m \in {k \in DOMAIN body : body[k][1] \in lines}}
        /\ \A n \in DOMAIN passages \ {1} : passages[n - 1].last <= passages[n].first
        /\ \A m \in DOMAIN sentences :
              Len(sentences[m]) <= PassageChars =>
                  \E n \in DOMAIN passages : \E i \in 1..(Len(passages[n].text) - Len(sentences[m]) + 1) :
                      SubSeq(passages[n].text, i, i + Len(sentences[m]) - 1) = sentences[m]

-----------------------------------------------------------------------------
(* CachedEmbedder.embed: a cache of the vectors of texts, of which None is one *)
(* that cannot be read; the provider's vectors for the texts that it lacks, of *)
(* which a vector is its dimensions and what it is of; and the write that fails. *)

Unavailable(cache) == [vectors |-> None, cache |-> cache]

\* The texts that are missing, once each and in order.
Missing(cache, texts) ==
    FoldLeft(LAMBDA some, t : IF t \in DOMAIN cache \cup Range(some) THEN some ELSE Append(some, t), <<>>, texts)

\* Seeded fault: a batch's vectors are those of all its texts, in order.
PairedWithAll(missing, produced, texts) == [t \in Range(missing) |-> produced[CHOOSE n \in DOMAIN produced : texts[n] = t \/ n = Len(produced)]]

Paired(missing, produced, texts) == [t \in Range(missing) |-> produced[CHOOSE n \in DOMAIN missing : missing[n] = t]]

Embed(cache, texts, offline, produced, failing) ==
    LET missing == Missing(cache, texts)
        held    == [t \in Range(texts) \cap DOMAIN cache |-> cache[t]]
        news    == Paired(missing, produced, texts)
        vectors == held @@ news
        kept    == {missing[n] : n \in 1..Min({Len(missing), failing - 1})}
    IN  IF texts = <<>> THEN [vectors |-> <<>>, cache |-> cache]
        ELSE IF None \in Range(held) \/ (missing # <<>> /\ (offline \/ produced = None)) THEN Unavailable(cache)
        ELSE IF missing # <<>> /\ Len(produced) # Len(missing) THEN Unavailable(cache)
        ELSE IF Cardinality({v.size : v \in Range(vectors)}) # 1 THEN Unavailable(cache)
        ELSE [vectors |-> IF failing <= Len(missing) THEN None ELSE [n \in DOMAIN texts |-> vectors[texts[n]]],
              cache   |-> [t \in kept |-> news[t]] @@ cache]
Vector(text, size) == [of |-> text, size |-> size]

\* Whatever the provider returns and whichever write fails, a vector that is returned or
\* kept is of its own text, all of a call have one size, the cache loses none and offline
\* gains none, and the same call succeeds later if the provider keeps to the size.
VectorsAreOfTheirTexts(cache, texts, offline, produced, failing) ==
    LET done  == Embed(cache, texts, offline, produced, failing)
        left  == Missing(done.cache, texts)
        again == Embed(done.cache, texts, FALSE, [n \in DOMAIN left |-> Vector(left[n], 2)], Len(left) + 1)
    IN  /\ done.vectors # None =>
              /\ [n \in DOMAIN done.vectors |-> done.vectors[n].of] = texts
              /\ \A n, m \in DOMAIN done.vectors : done.vectors[n].size = done.vectors[m].size
        /\ \A t \in DOMAIN cache : done.cache[t] = cache[t]
        /\ \A t \in DOMAIN done.cache \ DOMAIN cache : ~offline /\ done.cache[t].of = t
        /\ (\A t \in Range(texts) \cap DOMAIN done.cache : done.cache[t] # None /\ done.cache[t].size = 2)
              => again.vectors # None

-----------------------------------------------------------------------------
(* KnowledgeBase.search: of passages, which of them are in force, their scores  *)
(* of words and of meaning, and an embedder that is absent, fails or answers.    *)

\* Best first, and of equals the earlier one.
Ranking(indexes, score) == SetToSortSeq(indexes, LAMBDA i, j : score[i] > score[j] \/ (score[i] = score[j] /\ i < j))

RankIn(ranking, i) == RrfK + CHOOSE n \in DOMAIN ranking : ranking[n] = i

\* reciprocal_rank_fusion of two: a passage's score as a fraction <<of, by>>.
FusedScore(lexical, dense, i) ==
    IF i \notin Range(lexical) THEN <<1, RankIn(dense, i)>>
    ELSE <<RankIn(lexical, i) + RankIn(dense, i), RankIn(lexical, i) * RankIn(dense, i)>>

Fuse(lexical, dense) ==
    LET score == [i \in Range(dense) |-> FusedScore(lexical, dense, i)]
    IN  SetToSortSeq(Range(dense), LAMBDA i, j :
            LET a == score[i][1] * score[j][2]
                b == score[j][1] * score[i][2]
            IN  a > b \/ (a = b /\ i < j))

Found(ranked, mode, fallback, eligible, filtered) ==
    [passages |-> SubSeq(ranked, 1, Min({MaxPassages, Len(ranked)})), mode |-> mode, fallback |-> fallback,
     eligible |-> eligible, filtered |-> filtered]

\* Seeded fault: the passages of the words count, whatever they mean.
HybridOfEither(candidates, words, meaning) ==
    LET near    == {i \in candidates : meaning[i] >= CosineFloor}
        lexical == {i \in candidates : words[i] > 0}
    IN  Found(Fuse(Ranking(lexical, words), Ranking(near \cup lexical, meaning)), "hybrid", None,
              Cardinality(candidates), Cardinality(candidates \ near))

Hybrid(candidates, words, meaning) ==
    LET near == {i \in candidates : meaning[i] >= CosineFloor}
    IN  Found(Fuse(Ranking({i \in near : words[i] > 0}, words), Ranking(near, meaning)), "hybrid", None,
              Cardinality(candidates), Cardinality(candidates \ near))

\* Seeded fault: the floor is one of each passage.
LexicalOfEach(candidates, words, fallback) ==
    LET passing == {i \in candidates : words[i] >= QueryFloor}
    IN  Found(Ranking(passing, words), "bm25", fallback, Cardinality(candidates), Cardinality(candidates \ passing))

Lexical(candidates, words, fallback) ==
    LET passes == \E i \in candidates : words[i] >= QueryFloor
    IN  Found(IF passes THEN Ranking({i \in candidates : words[i] > 0}, words) ELSE <<>>, "bm25", fallback,
              Cardinality(candidates), IF passes THEN 0 ELSE Cardinality(candidates))

\* Seeded fault: what was in force once is searched.
CandidatesEver(force) == DOMAIN force

Candidates(force) == {i \in DOMAIN force : force[i]}

Search(force, words, meaning, embedder) ==
    IF embedder = "ok" \/ (embedder # "none" /\ Candidates(force) = {})
    THEN Hybrid(Candidates(force), words, meaning)
    ELSE Lexical(Candidates(force), words, IF embedder = "none" THEN "no_embedder" ELSE "unavailable")

\* knowledge_tool_result.
ToolResult(sound, found) ==
    IF ~sound THEN [status |-> "error", evidence |-> <<>>]
    ELSE [status |-> IF found.passages = <<>> THEN "empty" ELSE "ok", evidence |-> found.passages]

\* A search answers with passages in force alone, as many as are relevant and may be
\* shown; a passage that is nearer in both ways comes first; what is not in force changes
\* nothing; and without an embedder that answers, the answer is the one of the words and
\* says so, even if no passage is in force.
SearchIsWithinForce(force, words, meaning) ==
    LET found(e) == Search(force, words, meaning, e)
        inForce  == {i \in DOMAIN force : force[i]}
        relevant(e) == {i \in inForce : IF e = "ok" THEN meaning[i] >= CosineFloor ELSE words[i] > 0}
        other(scores) == [i \in DOMAIN force |-> IF force[i] THEN scores[i] ELSE 9]
    IN  \A e \in {"none", "fails", "ok"} :
          LET got  == found(e)
              shown == got.passages
          IN  /\ Range(shown) \subseteq relevant(e) /\ IsInjective(shown)
              /\ Len(shown) = IF e # "ok" /\ ~\E i \in inForce : words[i] >= QueryFloor THEN 0
                              ELSE Min({MaxPassages, Cardinality(relevant(e))})
              /\ e = "fails" /\ inForce # {} => shown = found("none").passages /\ got.fallback = "unavailable"
              /\ got.mode = "hybrid" <=> got.fallback = None
              /\ got.filtered <= got.eligible /\ (got.filtered = got.eligible => shown = <<>>)
              /\ \A n, m \in DOMAIN shown : n < m => 
                     ~(words[shown[m]] > words[shown[n]] /\ meaning[shown[m]] > meaning[shown[n]])
              /\ got = Search(force, other(words), other(meaning), e)
              /\ ToolResult(TRUE, got).status = "ok" <=> shown # <<>>
=============================================================================
