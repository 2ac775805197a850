---------------------------- MODULE AnswerDelivery ----------------------------
(***************************************************************************)
(* What is delivered of a model's answer to a question with evidence       *)
(* (src/rag.py): one chain of a check, one recheck of the evidence and a    *)
(* second check for the plain and the streaming interface.  A text is what *)
(* the checks of it see.                                                   *)
(*                                                                         *)
(* Which quantities of an answer its evidence does not support             *)
(* (src/rag.py): each occurrence is judged where it stands, and one that    *)
(* the question names is excused where the answer denies it, supposes it   *)
(* or only repeats what the asker told of himself.  A text is a sequence   *)
(* of tokens, as the cues, modifiers and separators of the code cut it.    *)
(***************************************************************************)
EXTENDS Naturals, Sequences, FiniteSets, FiniteSetsExt, SequencesExt

CONSTANTS
    None,   \* a reply that cannot be read
    Window  \* tokens beside a quantity that tell what it belongs to

\* cites: "nothing", "sources", or "others" that do not exist; refuses: "no", "partly" when
\* it says more than its refusal, "purely"; sound: quantities and identifiers are those of
\* the evidence; about: the answer, its own making ("draft"), a search to come ("plan"),
\* the question again or nothing.
Text == [cites : {"nothing", "sources", "others"}, refuses : {"no", "partly", "purely"},
         sound : BOOLEAN, about : {"answer", "draft", "plan", "question", "nothing"}]

\* Words of refusal alone cite no quantity and plan no search.
IsText(t) ==
    /\ t.refuses = "purely" => t.sound /\ t.about = "answer" /\ t.cites = "nothing"
    /\ t.refuses # "no" => t.about \notin {"plan", "question", "nothing"}
    /\ t.about \in {"nothing", "question"} => t.cites = "nothing" /\ t.sound

Message == [cites |-> "nothing", refuses |-> "purely", sound |-> TRUE, about |-> "answer"]

Reason(t, sources) ==
    CASE t.about = "nothing" -> "empty_answer"
      [] t.about = "question" -> "restates_question"
      [] t.cites = "others" \/ (t.cites = "sources" /\ sources = 0) -> "citation_out_of_range"
      [] OTHER ->
         IF sources > 0 /\ t.refuses # "purely" /\ t.cites = "nothing" THEN "no_citation"
         ELSE IF sources > 0 /\ ~t.sound THEN "ungrounded"
         ELSE IF t.about = "draft" THEN "delivered_deliberation"
         ELSE IF sources > 0 /\ t.about = "plan" THEN "incomplete_process"
         ELSE "ok"

Validates(t, sources) == Reason(t, sources) = "ok"

NeedsRecheck(t, sources) == sources > 0 /\ (t.refuses # "no" \/ ~Validates(t, sources))

\* A refusal, or an answer with a citation that is not the question again.
IsValidRetry(t) == t.refuses # "no" \/ (t.about \notin {"question", "nothing"} /\ t.cites # "nothing")

\* Seeded fault: a recheck is delivered as it came.
DecideOnce(first, retry, sources, allowed) ==
    IF allowed /\ NeedsRecheck(first, sources) /\ retry # None /\ IsValidRetry(retry)
    THEN [text |-> retry, calls |-> 1]
    ELSE [text |-> IF Validates(first, sources) THEN first ELSE Message, calls |-> 0]

DecideDelivery(first, retry, sources, allowed) ==
    LET rechecked == allowed /\ NeedsRecheck(first, sources)
        fallback  == IF Validates(first, sources) THEN first ELSE Message
        result    == IF ~rechecked THEN first
                     ELSE IF retry # None /\ IsValidRetry(retry) /\ Validates(retry, sources) THEN retry ELSE fallback
    IN  [text |-> IF Validates(result, sources) THEN result ELSE Message, calls |-> IF rechecked THEN 1 ELSE 0]

\* The structured reply, or once more a plain one that is not rechecked.
AnswerStructured(reply, plain, retry, sources) ==
    LET decided == DecideDelivery(IF reply = None THEN plain ELSE reply, retry, sources, reply # None)
    IN  [text |-> decided.text, calls |-> decided.calls + IF reply = None THEN 2 ELSE 1]

\* The stream is read to its end before a word is sent, and raises what it cannot read.
AnswerStream(reply, retry, sources) ==
    IF reply = None THEN [text |-> None, calls |-> 1]
    ELSE LET decided == DecideDelivery(reply, retry, sources, TRUE)
         IN  [text |-> decided.text, calls |-> decided.calls + 1]

-----------------------------------------------------------------------------
\* Either interface delivers a text that stands up to the check, or the fixed refusal,
\* with two calls at most; the same of the same replies; an answer that stands up is
\* never given away, nor one that does not replaced by one that does not.
DeliversTheSame(reply, plain, retry, sources) ==
    LET structured == AnswerStructured(reply, plain, retry, sources)
        streamed   == AnswerStream(reply, retry, sources)
    IN  /\ structured.calls <= 2 /\ streamed.calls <= 2
        /\ structured.text \in {reply, plain, retry, Message}
        /\ \A text \in {structured.text, streamed.text} \ {None} :
            /\ Reason(text, sources) = "ok"
            /\ sources > 0 => text.sound /\ (text.cites = "sources" \/ text.refuses = "purely")
        /\ reply # None =>
            /\ streamed.text = structured.text
            /\ Validates(reply, sources) /\ reply.refuses = "no" => structured.text = reply
            /\ retry = None /\ Validates(reply, sources) => structured.text = reply

-----------------------------------------------------------------------------
(* Quantities: the tokens of a text.                                        *)

\* deny: a cue of denial that is no copula; wrong, right: a predicate that refutes or
\* endorses; is: a copula that is also a light modifier; rule: a word of regulation;
\* ask: a cue of verification; join: a connective; aside: a remark in brackets.
Kinds == {"quantity", "word", "deny", "if", "wrong", "right", "is", "light", "rule", "ask",
          "stop", "join", "aside", "cite"}

Token(kind)     == [kind |-> kind, of |-> kind]
Word(name)      == [kind |-> "word", of |-> name]
Quantity(value) == [kind |-> "quantity", of |-> value]

Is(t, i, kinds) == i \in DOMAIN t /\ t[i].kind \in kinds

Quantities(t) == {i \in DOMAIN t : Is(t, i, {"quantity"})}
ValuesOf(t)   == {t[i].of : i \in Quantities(t)}

AssertionStart(t, i) == Max({1} \cup {j + 1 : j \in {s \in 1 .. (i - 1) : Is(t, s, {"stop", "join"})}})
AssertionEnd(t, i)   == Min({Len(t)} \cup {j - 1 : j \in {s \in i .. Len(t) : Is(t, s, {"stop", "join"})}})
NextQuantity(t, i)           == Min({Len(t) + 1} \cup {j \in Quantities(t) : j > i})

\* Nothing stands between that a cue could be about instead.
Governs(t, from, to) == \A j \in from .. to : Is(t, j, {"light", "is"})

-----------------------------------------------------------------------------
(* Denied or supposed.                                                       *)

\* After a refutation only remarks, then a stop, a source or nothing.
EndsCleanly(t, i) ==
    LET after == {j \in i .. Len(t) : ~Is(t, j, {"aside"})}
    IN  after = {} \/ Is(t, Min(after), {"stop", "cite"})

IsQuotedOrDenied(t, i) ==
    LET start     == AssertionStart(t, i)
        denials   == {p \in start .. (i - 1) : Is(t, p, {"deny"})}
        denied(p) == \E q \in denials : q < p /\ Governs(t, q + 1, p - 1)
        following == (i + 1) .. (NextQuantity(t, i) - 1)
    IN  /\ \A j \in following : ~Is(t, j, {"right"})
        /\ \/ \E p \in start .. (i - 1) : Is(t, p, {"if"}) /\ Governs(t, p + 1, i - 1)
           \/ \E p \in denials : Governs(t, p + 1, i - 1) /\ ~denied(p)
           \/ \E w \in following : Is(t, w, {"wrong"}) /\ Governs(t, i + 1, w - 1) /\ EndsCleanly(t, w + 1)

-----------------------------------------------------------------------------
(* Repeated from the question.                                               *)

Words(t, from, to) == {t[j].of : j \in {k \in from .. to : Is(t, k, {"word"})}}

Floor(i, least)     == Max({least} \cup (IF i > Window THEN {i - Window} ELSE {1}))
Around(t, i, least) == (Floor(i, least) .. (i - 1)) \cup {j \in (i + 1) .. (i + Window) : j <= Len(t)}

Role(t, i, least) == IF i > least /\ Is(t, i - 1, {"is"}) THEN "value"
                     ELSE IF Is(t, i + 1, {"is"}) THEN "defined"
                     ELSE "none"

\* The attribute that is given a value.
Core(t, i, least) == Words(t, least, i - 2)

\* The one word the quantity belongs to: the nearest before it, else the first behind.
HeadWord(t, i, least) ==
    LET before == {j \in least .. (i - 1) : Is(t, j, {"word"})}
        behind == {j \in Around(t, i, i) : Is(t, j, {"word"})}
    IN  IF before # {} THEN {t[Max(before)].of}
        ELSE IF behind # {} THEN {t[Min(behind)].of} ELSE {}

\* A premise of the asker, unless its own clause is to be verified, or the next that
\* says anything asks for nothing else.
IsGiven(question, i) ==
    LET end   == AssertionEnd(question, i)
        asks(from, to) == \E j \in from .. to : Is(question, j, {"ask"})
        later == {j \in (end + 1) .. Len(question) : ~Is(question, j, {"stop", "join"})}
        next  == Min(later)
        last  == AssertionEnd(question, next)
    IN  /\ ~asks(AssertionStart(question, i), end)
        /\ later # {} => ~(asks(next, last) /\ Words(question, next, last) = {})

\* Seeded fault: a premise is excused wherever it is repeated.
GivenAnywhere(t, i, question) == \E o \in Quantities(question) : question[o].of = t[i].of /\ IsGiven(question, o)

IsPremiseRestatement(t, i, question) ==
    LET start == AssertionStart(t, i)
        role  == Role(t, i, start)
    IN  /\ ~\E j \in Around(t, i, start) : Is(t, j, {"rule"})
        /\ role # "defined"
        /\ \E o \in Quantities(question) :
            /\ question[o].of = t[i].of
            /\ IsGiven(question, o)
            /\ IF role = "value"
               THEN LET there == Core(question, o, Floor(o, 1))
                        here  == Core(t, i, start)
                    IN  /\ Role(question, o, Floor(o, 1)) = "value"
                        /\ here # {} /\ there # {} /\ (here \subseteq there \/ there \subseteq here)
               ELSE HeadWord(t, i, start) # {} /\ HeadWord(t, i, start) \subseteq Words(question, Floor(o, 1), o + Window)

-----------------------------------------------------------------------------
\* Seeded fault: a denial anywhere in the assertion excuses.
DeniedSomewhere(t, question, grounded) ==
    {t[i].of : i \in {q \in Quantities(t) :
        /\ t[q].of \notin grounded
        /\ t[q].of \in ValuesOf(question) =>
            /\ ~IsPremiseRestatement(t, q, question)
            /\ \A p \in AssertionStart(t, q) .. AssertionEnd(t, q) : ~Is(t, p, {"deny", "if", "wrong"})}}

Ungrounded(t, question, grounded) ==
    {t[i].of : i \in {q \in Quantities(t) :
        /\ t[q].of \notin grounded
        /\ t[q].of \in ValuesOf(question) =>
            ~IsPremiseRestatement(t, q, question) /\ ~IsQuotedOrDenied(t, q)}}

-----------------------------------------------------------------------------
\* The asker's own values of a subject; the window reaches over the end of their clause,
\* so that a subject of the next one takes them as its own.
ToldOf(question, subject) ==
    {question[o].of : o \in {q \in Quantities(question) :
        /\ IsGiven(question, q)
        /\ subject \in Words(question, AssertionStart(question, q), AssertionEnd(question, q))
                         \cup Words(question, Floor(q, 1), q + Window)}}

\* An answer that affirms some values of a subject is told of each that is in no evidence,
\* whatever else it says of them; of a value of the question that it only denies or
\* supposes it is not.
QuantitiesAreJudged(t, affirmed, subject, question, grounded) ==
    LET flagged == Ungrounded(t, question, grounded)
    IN  /\ affirmed \ (grounded \cup ToldOf(question, subject)) \subseteq flagged
        /\ flagged \cap grounded = {}
        /\ (\A i \in DOMAIN t : ~Is(t, i, {"join"})) => flagged \cap ValuesOf(question) \subseteq affirmed
=============================================================================
