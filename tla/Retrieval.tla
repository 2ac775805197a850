------------------------------ MODULE Retrieval ------------------------------
(***************************************************************************)
(* How the knowledge base picks the evidence for a compound question       *)
(* (src/rag.py): clauses are merged into a few searches, keyword and       *)
(* vector rankings are fused, a model selects, and what it selected is     *)
(* fitted to a budget of sources.  A query is a sequence of segments; a    *)
(* segment scores for itself in the keyword ranking, as a token does in    *)
(* BM25, and the score of a query is the sum of its segments'.             *)
(***************************************************************************)
EXTENDS Integers, Sequences, FiniteSets, FiniteSetsExt, SequencesExt

CONSTANTS
    Chunks,             \* 1 .. n, in the order of the index
    MaxSubQuestions,    \* searches of one question
    ConfidentScore,     \* the least score of a confident keyword hit
    Words, Length,      \* of a segment
    None                \* no clause, no answer of the model

Distinct(s) == FoldLeft(LAMBDA kept, e : IF e \in ToSet(kept) THEN kept ELSE Append(kept, e), <<>>, s)

\* Stable, the highest score first.
ByScore(s, score) ==
    LET Before(i, j) == score[s[i]] > score[s[j]] \/ (score[s[i]] = score[s[j]] /\ i < j)
        order        == SetToSortSeq(DOMAIN s, Before)
    IN  [n \in DOMAIN s |-> s[order[n]]]

FirstOf(s, n) == SubSeq(s, 1, Min({n, Len(s)}))

-----------------------------------------------------------------------------
(* The searches.  A clause that leans on the first one takes it along; the   *)
(* neighbours that share most words are merged, then the shortest, then the  *)
(* first.                                                                    *)
Contextualized(parts, leaning) ==
    [i \in DOMAIN parts |-> IF i > 1 /\ parts[i] \in leaning THEN <<parts[1], parts[i]>> ELSE <<parts[i]>>]

Join(left, right) == Distinct(left \o right)

WordsOf(q)  == UNION {Words[s] : s \in ToSet(q)}
LengthOf(q) == FoldLeft(LAMBDA n, s : n + Length[s], 0, q)

\* Seeded fault: the last neighbours are merged and the rest is cut.
MergedAtEnd(parts) == Append(SubSeq(parts, 1, Len(parts) - 2), parts[Len(parts) - 1])

MergedAt(parts, i) ==
    SubSeq(parts, 1, i - 1) \o <<Join(parts[i], parts[i + 1])>> \o SubSeq(parts, i + 2, Len(parts))

Merged(parts) ==
    LET shared(i)    == Cardinality(WordsOf(parts[i]) \cap WordsOf(parts[i + 1]))
        worth        == [i \in 1 .. (Len(parts) - 1) |-> <<shared(i), LengthOf(Join(parts[i], parts[i + 1]))>>]
        Better(i, j) == \/ worth[i][1] > worth[j][1]
                        \/ worth[i][1] = worth[j][1] /\ worth[i][2] < worth[j][2]
                        \/ worth[i] = worth[j] /\ i < j
        pairs == 1 .. (Len(parts) - 1)
    IN  MergedAt(parts, CHOOSE i \in pairs : \A j \in pairs \ {i} : Better(i, j))

SubQuestions(clauses) ==
    FoldLeft(LAMBDA parts, n : Merged(parts), clauses, [n \in 1 .. (Len(clauses) - MaxSubQuestions) |-> n])

-----------------------------------------------------------------------------
(* The rankings.                                                             *)
Index == SetToSortSeq(Chunks, LAMBDA a, b : a < b)

Scores(hits, q) == [c \in Chunks |-> FoldLeft(LAMBDA n, s : n + hits[s][c], 0, q)]
Keyword(hits, q) == ByScore(Index, Scores(hits, q))

Top(hits, q)      == Keyword(hits, q)[1]
TopScore(hits, q) == Scores(hits, q)[Top(hits, q)]

\* The first is good, and half as good again as the second.
Confident(hits, q) ==
    LET order  == Keyword(hits, q)
        second == IF Len(order) > 1 THEN Scores(hits, q)[order[2]] ELSE 0
    IN  TopScore(hits, q) >= ConfidentScore /\ (second = 0 \/ 2 * TopScore(hits, q) >= 3 * second)

\* Reciprocal ranks, weighted 1.0 and 1.2, brought to whole numbers.
Unit == 61 * 62 * 63 * 64
Fused(hits, nearest, q) ==
    LET keyword == Keyword(hits, q)
        at(order, c) == CHOOSE n \in DOMAIN order : order[n] = c
    IN  [c \in Chunks |-> (10 * Unit) \div (60 + at(nearest, c)) + (12 * Unit) \div (60 + at(keyword, c))]

Hybrid(hits, nearest, q, k) == FirstOf(ByScore(Index, Fused(hits, nearest, q)), k)

\* Each chunk that a search recalled, with its best score.
Recalled(hits, nearest, queries, k) ==
    LET found(n) == Hybrid(hits, nearest, queries[n], k)
        seen     == Distinct(FlattenSeq([n \in DOMAIN queries |-> found(n)]))
        best     == [c \in ToSet(seen) |-> Max({Fused(hits, nearest, queries[n])[c] :
                                                  n \in {m \in DOMAIN queries : c \in ToSet(found(m))}})]
    IN  [order |-> ByScore(seen, best), score |-> best]

-----------------------------------------------------------------------------
(* The model.  A ranking is a sequence of ids, a selection a sequence of     *)
(* pairs of a clause, or none in the old form, and an id; either may name    *)
(* what does not exist, or be unreadable.                                    *)
Rerank(candidates, ranking, k) ==
    IF ranking = None THEN FirstOf(candidates, k)
    ELSE FirstOf(Distinct(SelectSeq(ranking, LAMBDA c : c \in ToSet(candidates)) \o candidates), k)

\* What it selected, and the clauses that each of them is to answer; without a valid
\* selection the model is asked for a ranking, of one chunk for each search.
Selection(queries, candidates, says, ranking) ==
    LET clauses == Distinct(FlattenSeq(queries))
        valid   == SelectSeq(says, LAMBDA p : p[2] \in ToSet(candidates) /\ p[1] \in {None} \cup DOMAIN clauses)
        owned(c) == {p[1] : p \in {v \in ToSet(valid) : v[2] = c}} \ {None}
    IN  IF says = None \/ valid = <<>>
        THEN [kept |-> Rerank(candidates, ranking, Len(queries)), covers |-> [c \in {} |-> {}]]
        ELSE [kept |-> Distinct([n \in DOMAIN valid |-> valid[n][2]]),
              covers |-> [c \in {d \in ToSet(candidates) : owned(d) # {}} |-> owned(c)]]

Covers(covers, c)  == IF c \in DOMAIN covers THEN covers[c] ELSE {}
Covered(covers, s) == UNION {Covers(covers, c) : c \in ToSet(s)}

\* Seeded fault: the budget cuts the list where it ends.
FitByPosition(selected, relevance, k, covers) == FirstOf(selected, k)

\* At most k of the selected, in their order: what adds most clauses first, then the
\* most relevant; without known clauses the most relevant.
FitToBudget(selected, relevance, k, covers) ==
    LET gain(chosen, i)  == Cardinality(Covers(covers, selected[i]) \ UNION {Covers(covers, selected[j]) : j \in chosen})
        worth(i)         == IF selected[i] \in DOMAIN relevance THEN relevance[selected[i]] ELSE 0
        Better(ch, i, j) == \/ gain(ch, i) > gain(ch, j)
                            \/ gain(ch, i) = gain(ch, j) /\ worth(i) > worth(j)
                            \/ gain(ch, i) = gain(ch, j) /\ worth(i) = worth(j) /\ i < j
        pick(chosen) == LET left == DOMAIN selected \ chosen
                        IN  CHOOSE i \in left : \A j \in left \ {i} : Better(chosen, i, j)
        picked == FoldLeft(LAMBDA chosen, n : chosen \cup {pick(chosen)}, {}, [n \in 1 .. k |-> n])
        order  == SetToSortSeq(picked, LAMBDA i, j : i < j)
    IN  IF Len(selected) <= k THEN selected ELSE [n \in DOMAIN order |-> selected[order[n]]]

\* The clauses that were merged away: a confident and recalled best chunk of one joins,
\* also when the budget is used up, then as a signal next to the model's.
CoverMerged(hits, kept, clauses, pool, k, covers) ==
    LET strong == {n \in DOMAIN clauses : Confident(hits, clauses[n]) /\ Top(hits, clauses[n]) \in DOMAIN pool}
        signal(c)  == {-n : n \in {m \in strong : Top(hits, clauses[m]) = c}}
        signals    == [c \in DOMAIN covers \cup {Top(hits, clauses[n]) : n \in strong} |-> Covers(covers, c) \cup signal(c)]
        missing    == SetToSortSeq({n \in strong : Top(hits, clauses[n]) \notin ToSet(kept)}, LAMBDA i, j : i < j)
        strength   == [n \in strong |-> TopScore(hits, clauses[n])]
        wanted     == ByScore(missing, strength)
        filled     == Distinct(kept \o [n \in DOMAIN wanted |-> Top(hits, clauses[wanted[n]])])
    IN  IF Len(kept) < k THEN FirstOf(filled, k) ELSE FitToBudget(filled, pool, k, signals)

-----------------------------------------------------------------------------
(* The two paths.                                                            *)
CandidatesOf(k, candidateK) == Max({k, Min({candidateK, Len(Index)})})

Fitted(hits, clauses, merged, k, pool, selected) ==
    LET fitted == FitToBudget(selected.kept, pool.score, k, selected.covers)
    IN  IF merged THEN CoverMerged(hits, fitted, clauses, pool.score, k, selected.covers) ELSE fitted

RetrieveWithRerank(hits, clauses, queries, k, pool, says, ranking) ==
    IF Len(queries) > 1
    THEN Fitted(hits, clauses, Len(clauses) > Len(queries), k, pool, Selection(queries, pool.order, says, ranking))
    ELSE Rerank(pool.order, ranking, k)

\* Keywords alone, when every search and every clause that was merged is confident of a
\* chunk that was picked.
FastCovers(hits, queries) ==
    [c \in {Top(hits, queries[n]) : n \in DOMAIN queries} |-> {n \in DOMAIN queries : Top(hits, queries[n]) = c}]

\* Seeded fault: only the merged searches have to be confident.
IsFastForSearches(hits, clauses, queries) == \A n \in DOMAIN queries : Confident(hits, queries[n])

IsFast(hits, clauses, queries) ==
    /\ \A n \in DOMAIN queries : Confident(hits, queries[n])
    /\ Len(clauses) > Len(queries) =>
        \A n \in DOMAIN clauses :
            Confident(hits, clauses[n]) /\ \E q \in DOMAIN queries : Top(hits, queries[q]) = Top(hits, clauses[n])

\* A result that only fills the budget scores less than a fifth of the best.
WithoutPadding(hits, q, s) ==
    SelectSeq(s, LAMBDA c : c = s[1] \/ (Scores(hits, q)[c] > 0 /\ 5 * Scores(hits, q)[c] >= Scores(hits, q)[s[1]]))

Fast(hits, clauses, queries, k) ==
    LET tops    == Distinct([n \in DOMAIN queries |-> Top(hits, queries[n])])
        covers  == FastCovers(hits, IF Len(clauses) > Len(queries) THEN clauses ELSE queries)
        worth   == [c \in ToSet(tops) |-> Max({TopScore(hits, queries[n]) : n \in {m \in DOMAIN queries : Top(hits, queries[m]) = c}})]
    IN  IF Len(queries) > 1 THEN FitToBudget(tops, worth, k, covers)
        ELSE WithoutPadding(hits, queries[1], FirstOf(Keyword(hits, queries[1]), k))

\* The model is asked for nothing that keywords answer.
Retrieve(hits, clauses, queries, recalled, k, says, ranking) ==
    IF IsFast(hits, clauses, queries) THEN Fast(hits, clauses, queries, k)
    ELSE RetrieveWithRerank(hits, clauses, queries, k, recalled, says, ranking)

-----------------------------------------------------------------------------
(* What the comments of these functions promise.                             *)

\* No clause is lost, none is torn apart, and the searches stay few.
NoClauseIsLost(clauses) ==
    LET queries == SubQuestions(clauses)
    IN  /\ Len(queries) <= MaxSubQuestions \/ Len(queries) = Len(clauses)
        /\ \A n \in DOMAIN clauses : \E q \in DOMAIN queries : ToSet(clauses[n]) \subseteq ToSet(queries[q])
        /\ Distinct(FlattenSeq(queries)) = Distinct(FlattenSeq(clauses))

\* No repeated evidence of one clause pushes out the only evidence of another.
SpendsTheBudget(selected, relevance, k, covers) ==
    LET kept    == FitToBudget(selected, relevance, k, covers)
        dropped == ToSet(selected) \ ToSet(kept)
    IN  /\ Len(kept) = Min({k, Len(selected)})
        /\ \A i, j \in DOMAIN kept : i < j =>
              \E m, n \in DOMAIN selected : m < n /\ selected[m] = kept[i] /\ selected[n] = kept[j]
        /\ (\E c \in dropped : ~ Covers(covers, c) \subseteq Covered(covers, kept)) =>
              Cardinality(Covered(covers, kept)) >= Len(kept)
        /\ covers = [c \in {} |-> {}] => \A c \in ToSet(kept), d \in dropped : relevance[c] >= relevance[d]

\* At most k different chunks, at least one; the fast path finds what each clause is
\* confident of, the full one leaves out such a chunk only when there is no room.
IsFound(result, fast, merged, best, recalled, k) ==
    /\ Len(result) \in 1 .. k /\ Cardinality(ToSet(result)) = Len(result)
    /\ fast /\ Len(result) < k => best \subseteq ToSet(result)
    /\ ~fast /\ merged /\ Len(result) < k => best \cap recalled \subseteq ToSet(result)

FoundIn(hits, clauses, queries, recalled, k, says, ranking) ==
    IsFound(Retrieve(hits, clauses, queries, recalled, k, says, ranking),
            IsFast(hits, clauses, queries),
            Len(clauses) > Len(queries) /\ Len(queries) > 1,
            {Top(hits, clauses[n]) : n \in {m \in DOMAIN clauses : Confident(hits, clauses[m])}},
            ToSet(recalled.order), k)

FoundBy(hits, nearest, clauses, queries, k, candidates, says, ranking) ==
    FoundIn(hits, clauses, queries, Recalled(hits, nearest, queries, candidates), k, says, ranking)

EvidenceIsFound(hits, nearest, clauses, k, candidateK, says, ranking) ==
    FoundBy(hits, nearest, clauses, SubQuestions(clauses), k, CandidatesOf(k, candidateK), says, ranking)
=============================================================================
