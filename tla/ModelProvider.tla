---------------------------- MODULE ModelProvider ----------------------------
(***************************************************************************)
(* One chat interface over two model services (llm_provider.py): what of a *)
(* reply is the answer and what the reasoning, how a stream ends, how a    *)
(* request for JSON changes the prompt, where the settings come from; and  *)
(* what of a text a trace may keep (agent_trace.py).  Texts are sequences  *)
(* of what these functions tell apart.                                     *)
(***************************************************************************)
EXTENDS Naturals, Sequences, FiniteSets, FiniteSetsExt, SequencesExt

CONSTANTS
    Secret,  \* the least length of what looks like a secret
    MaxText, \* API_MAX_TEXT
    None     \* nothing

At(s, marks) == {i \in DOMAIN s : s[i] \in marks}

-----------------------------------------------------------------------------
(* split_think: a reply of words and of "open" and "close" tags.             *)

Untagged(s) == SelectSeq(s, LAMBDA t : t \notin {"open", "close"})

\* Seeded fault: the answer follows the first end of a reasoning.
SplitThinkFirst(s) ==
    IF At(s, {"close"}) # {}
    THEN LET end == Min(At(s, {"close"}))
         IN  [content |-> SubSeq(s, end + 1, Len(s)), reasoning |-> Untagged(SubSeq(s, 1, end))]
    ELSE [content |-> s, reasoning |-> <<>>]

\* What follows the last end of a reasoning; without an end, what precedes the first start.
SplitThink(s) ==
    IF At(s, {"close"}) # {}
    THEN LET end == Max(At(s, {"close"}))
         IN  [content |-> SubSeq(s, end + 1, Len(s)), reasoning |-> Untagged(SubSeq(s, 1, end))]
    ELSE IF At(s, {"open"}) # {}
    THEN LET start == Min(At(s, {"open"}))
         IN  [content |-> SubSeq(s, 1, start - 1), reasoning |-> Untagged(SubSeq(s, start, Len(s)))]
    ELSE [content |-> s, reasoning |-> <<>>]

\* Nothing is lost or told twice, an answer holds no end of a reasoning, and nothing of one
\* unless another begins after the last end and has none.
ThinkingIsKeptApart(s) ==
    LET split == SplitThink(s)
    IN  /\ {split.reasoning \o Untagged(split.content), Untagged(split.content) \o split.reasoning}
             \cap {Untagged(s)} # {}
        /\ At(split.content, {"close"}) = {}
        /\ At(split.content, {"open"}) # {} =>
             \E i, j \in DOMAIN s : i < j /\ s[i] = "close" /\ s[j] = "open"

-----------------------------------------------------------------------------
(* chat_stream: lines of one service or the other.  "text" and "thought" are *)
(* deltas, "last" a done chunk that has text as well, "usage" and "blank"    *)
(* bring none, "end" is a done chunk or the mark [DONE], "error" an error or *)
(* a line that cannot be read.                                               *)

\* Ollama reads its lines to their end, the other service stops at the mark.
Read(service, lines) ==
    IF service = "deepseek" /\ At(lines, {"end"}) # {}
    THEN SubSeq(lines, 1, Min(At(lines, {"end"}))) ELSE lines

Ends(service) == IF service = "deepseek" THEN {"end"} ELSE {"end", "last"}

\* Seeded fault: a stream that stops is taken for one that ended.
StreamToTheLast(service, lines) ==
    LET read   == Read(service, lines)
        errors == At(read, {"error"})
        heard  == IF errors = {} THEN read ELSE SubSeq(read, 1, Min(errors) - 1)
    IN  [deltas   |-> Cardinality(At(heard, {"text", "last"})),
         response |-> IF errors = {} THEN [thoughts |-> Cardinality(At(heard, {"thought"}))] ELSE None]

\* The deltas that were yielded, and the response, which is there only after the end.
Stream(service, lines) ==
    LET read   == Read(service, lines)
        errors == At(read, {"error"})
        heard  == IF errors = {} THEN read ELSE SubSeq(read, 1, Min(errors) - 1)
    IN  [deltas   |-> Cardinality(At(heard, {"text", "last"})),
         response |-> IF errors = {} /\ At(heard, Ends(service)) # {}
                      THEN [thoughts |-> Cardinality(At(heard, {"thought"}))] ELSE None]

\* A stream is complete only if it was told to be, nothing went wrong, and cutting it short
\* anywhere before that makes no complete stream of it; both services deliver the same.
StreamsAreWhole(lines) ==
    /\ \A service \in {"ollama", "deepseek"} :
         Stream(service, lines).response # None =>
            /\ At(Read(service, lines), {"error"}) = {}
            /\ \A n \in 0 .. Len(lines) :
                 At(SubSeq(lines, 1, n), Ends(service)) = {} =>
                    Stream(service, SubSeq(lines, 1, n)).response = None
    /\ At(lines, {"last"}) = {} /\ At(lines, {"end"}) = {Len(lines)} =>
         Stream("ollama", lines) = Stream("deepseek", lines)

-----------------------------------------------------------------------------
(* adapt_json_prompt: messages with a role, that say "json" or do not.       *)

Instructed(message) == [message EXCEPT !.json = TRUE, !.instructed = TRUE]

\* The instruction joins the first system message, or becomes one.
Adapted(messages, format) ==
    LET systems == {i \in DOMAIN messages : messages[i].role = "system"}
    IN  IF format = None \/ (format = "json" /\ \E i \in DOMAIN messages : messages[i].json)
        THEN [messages |-> messages, adaptations |-> {}]
        ELSE [adaptations |-> {IF format = "schema" THEN "schema_not_supported" ELSE "requires_word_json"},
              messages |-> IF systems = {}
                           THEN <<[role |-> "system", json |-> TRUE, instructed |-> TRUE]>> \o messages
                           ELSE [messages EXCEPT ![Min(systems)] = Instructed(@)]]

\* Who asks for JSON says so, once; a change is recorded, and no other is made.
PromptsAreAdapted(messages, format) ==
    LET a == Adapted(messages, format)
        told == {i \in DOMAIN a.messages : a.messages[i].instructed}
    IN  /\ format # None => \E i \in DOMAIN a.messages : a.messages[i].json
        /\ (a.adaptations = {}) <=> (a.messages = messages)
        /\ Cardinality(told) = Cardinality(a.adaptations)
        /\ SelectSeq(a.messages, LAMBDA x : x.role # "system") = SelectSeq(messages, LAMBDA x : x.role # "system")
        /\ \A i \in told : a.messages[i].role = "system"

-----------------------------------------------------------------------------
(* load_config: a setting is in the environment, in the .env file, empty or  *)
(* in neither; the key is read from the file alone.                          *)

Names == {"LLM_PROVIDER", "BASE_URL", "MODEL", "API_KEY"}

Setting(environ, dotenv, name) ==
    IF environ[name] \notin {None, ""} THEN environ[name]
    ELSE IF dotenv[name] # "" THEN dotenv[name] ELSE None

\* Seeded fault: the key is a setting as any other.
KeyAnywhere(environ, dotenv) == Setting(environ, dotenv, "API_KEY")

Key(environ, dotenv) == IF dotenv["API_KEY"] # "" THEN dotenv["API_KEY"] ELSE None

LoadConfig(environ, dotenv) ==
    LET chosen == IF Setting(environ, dotenv, "LLM_PROVIDER") = None THEN "ollama"
                  ELSE Setting(environ, dotenv, "LLM_PROVIDER")
        url    == Setting(environ, dotenv, "BASE_URL")
        model  == Setting(environ, dotenv, "MODEL")
    IN  IF chosen \notin {"ollama", "deepseek"} THEN None
        ELSE IF chosen = "ollama"
        THEN [provider |-> "ollama", key |-> None,
              url |-> IF url = None THEN "default" ELSE url, model |-> IF model = None THEN "default" ELSE model]
        ELSE IF None \in {url, model, Key(environ, dotenv)} THEN None
        ELSE [provider |-> "deepseek", key |-> Key(environ, dotenv), url |-> url, model |-> model]

\* A provider has all it needs, what the process environment says wins, and no key of
\* the environment is sent to a service.
ConfigsAreWhole(environ, dotenv) ==
    LET config == LoadConfig(environ, dotenv)
    IN  config # None =>
            /\ config.provider = "deepseek" => config.key # None
            /\ config.key # None => config.key = dotenv["API_KEY"]
            /\ \A field \in {<<"BASE_URL", config.url>>, <<"MODEL", config.model>>} :
                 /\ field[2] # None
                 /\ environ[field[1]] \notin {None, ""} => field[2] = environ[field[1]]

-----------------------------------------------------------------------------
(* What a trace keeps of a text: "k" is a character a secret may have, "x"   *)
(* another; a run of enough of the first is a secret.                        *)

Runs(s) ==
    {r \in (DOMAIN s) \X (DOMAIN s) :
        /\ r[1] <= r[2] /\ \A i \in r[1] .. r[2] : s[i] = "k"
        /\ r[1] > 1 => s[r[1] - 1] # "k"
        /\ r[2] < Len(s) => s[r[2] + 1] # "k"}

Secrets(s) == UNION {r[1] .. r[2] : r \in {q \in Runs(s) : q[2] - q[1] + 1 >= Secret}}

Redacted(s) ==
    LET secret == Secrets(s)
        kept   == SelectSeq([i \in DOMAIN s |-> i], LAMBDA i : i \notin secret \/ i - 1 \notin secret)
    IN  [n \in DOMAIN kept |-> IF kept[n] \in secret THEN "R" ELSE s[kept[n]]]

Truncated(s, tail) ==
    IF Len(s) <= MaxText THEN s
    ELSE IF tail THEN <<"cut">> \o SubSeq(s, Len(s) - MaxText + 1, Len(s))
    ELSE Append(SubSeq(s, 1, MaxText), "cut")

\* Seeded fault: a text is cut before it is searched.
SanitizedCutFirst(s, tail) == Redacted(Truncated(s, tail))

Sanitized(s, tail) == Truncated(Redacted(s), tail)

\* No part of a secret is kept, however the text is cut, and nothing else is hidden.
SecretsAreKept(s, tail) ==
    LET kept == Sanitized(s, tail)
    IN  /\ Len(kept) <= MaxText + 1
        /\ Cardinality(At(kept, {"k"})) <= Cardinality(At(s, {"k"}) \ Secrets(s))
        /\ Secrets(s) = {} /\ Len(s) <= MaxText => kept = s
=============================================================================
