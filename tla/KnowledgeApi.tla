----------------------------- MODULE KnowledgeApi -----------------------------
(***************************************************************************)
(* The knowledge base's chat endpoints (api.py, storage.py and the glue of *)
(* chat_orchestration.py): requests that answer in a conversation, while   *)
(* uploads, clears and retirements change the index under them.            *)
(*                                                                         *)
(* A request takes the conversation's lock or is refused, reads the index, *)
(* the history and the version under state_lock, answers outside of it and *)
(* commits under it again if the version is still the same.  The streaming *)
(* endpoint does the same in a generator, which the server starts, steps   *)
(* and may close at any of its yields.  The wiki is one variable here:     *)
(* WikiRuntime has its worker.  Sources are named by the version of the    *)
(* upload that brought them.                                               *)
(***************************************************************************)
EXTENDS Naturals, Sequences

CONSTANTS
    Request,      \* the requests
    Conversation, \* conversation ids
    Client,       \* client ids
    Drops,        \* whether the server may drop a stream that it never started
    MaxVersion,   \* bound: knowledge_version at which changes stop
    MaxExchanges, \* bound: exchanges in a conversation at which asking stops
    None          \* nothing

ASSUME ApiAssumption ==
    /\ MaxVersion \in Nat /\ MaxExchanges \in Nat /\ Drops \in BOOLEAN
    /\ None \notin Client /\ None \notin Request

VARIABLES
    index,    \* chunks: the uploads that the index holds
    wiki,     \* the uploads that the live wiki rests on
    version,  \* knowledge_version
    change,   \* what the holder of knowledge_mutation_lock is doing
    owner,    \* conversations: the client of each
    messages, \* the exchanges stored in each
    locked,   \* conversation_locks: the request that holds each
    request,  \* what each request is in the middle of
    run,      \* the status of each request's trace run
    known,    \* history: the uploads since the last clear
    wiped     \* history: the version at which conversations were last deleted

base == <<index, wiki, version, change, known, wiped>>
store == <<owner, messages>>
vars == <<base, store, locked, request, run>>

Mode == {"legacy", "orchestrated"}
Step == {"document_search", "wiki_query", "system_query"}
Place == {"idle", "asked", "response", "prepare", "generate", "commit", "done", "dropped"}

Exchange == [by : Client, sources : SUBSET Nat, version : Nat]

\* What a request holds: who asks how and where, what state_snapshot read, and what the
\* answer rests on.
Requests ==
    [at : Place, conv : Conversation \cup {None}, client : Client \cup {None},
     mode : Mode \cup {None}, streaming : BOOLEAN,
     chunks : SUBSET Nat, version : Nat, history : Seq(Exchange),
     steps : SUBSET Step, sources : SUBSET Nat]

Idle ==
    [at |-> "idle", conv |-> None, client |-> None, mode |-> None, streaming |-> FALSE,
     chunks |-> {}, version |-> 0, history |-> <<>>, steps |-> {}, sources |-> {}]

Init ==
    /\ index = {} /\ wiki = {} /\ version = 0 /\ change = "none"
    /\ owner = [c \in Conversation |-> None]
    /\ messages = [c \in Conversation |-> <<>>]
    /\ locked = [c \in Conversation |-> None]
    /\ request = [r \in Request |-> Idle]
    /\ run = [r \in Request |-> "none"]
    /\ known = {} /\ wiped = 0

-----------------------------------------------------------------------------
(* Changes of the knowledge base *)

\* replace_knowledge and clear_knowledge: the foreign key takes the messages with them.
DeleteConversations ==
    /\ owner' = [c \in Conversation |-> None]
    /\ messages' = [c \in Conversation |-> <<>>]
    /\ wiped' = version'

\* An upload replaces the chunks of its own documents and keeps the others.
CommitUpload ==
    /\ change = "none" /\ version < MaxVersion
    /\ version' = version + 1
    /\ \E kept \in SUBSET index : index' = kept \cup {version'}
    /\ known' = known \cup {version'}
    /\ DeleteConversations
    /\ UNCHANGED <<wiki, change, locked, request, run>>

\* The first half of clear_knowledge; RUNTIME.clear is the second.
ClearIndex ==
    /\ change = "none" /\ version < MaxVersion
    /\ version' = version + 1
    /\ index' = {} /\ known' = {}
    /\ DeleteConversations
    /\ change' = "clear"
    /\ UNCHANGED <<wiki, locked, request, run>>

ClearWiki ==
    /\ change = "clear"
    /\ wiki' = {} /\ change' = "none"
    /\ UNCHANGED <<index, version, known, wiped, store, locked, request, run>>

\* The worker publishes a build of documents that are still known: a clear voids its job.
PublishWiki ==
    /\ change = "none"
    /\ \E sources \in SUBSET known : sources # wiki /\ wiki' = sources
    /\ UNCHANGED <<index, version, change, known, wiped, store, locked, request, run>>

\* retire_superseded_documents: chunks only, the conversations stay.
Retire ==
    /\ change = "none" /\ version < MaxVersion
    /\ \E kept \in SUBSET index : kept # index /\ index' = kept
    /\ version' = version + 1
    /\ UNCHANGED <<wiki, change, known, wiped, store, locked, request, run>>

-----------------------------------------------------------------------------
(* Conversations and their locks *)

\* acquire_conversation, which gives up when somebody answers there.
Acquire(r, c) == locked[c] = None /\ locked' = [locked EXCEPT ![c] = r]

Release(r) == locked' = [c \in Conversation |-> IF locked[c] = r THEN None ELSE locked[c]]

Becomes(r, q) == request' = [request EXCEPT ![r] = q]

Ends(r, status) ==
    /\ Becomes(r, Idle)
    /\ run' = [run EXCEPT ![r] = status]
    /\ Release(r)

\* A client asks in a conversation, over one of the endpoints.
Ask(r) ==
    /\ request[r] = Idle
    /\ \E c \in Conversation, client \in Client, mode \in Mode, streaming \in BOOLEAN :
         /\ Acquire(r, c) /\ Len(messages[c]) < MaxExchanges
         /\ Becomes(r, [Idle EXCEPT !.at = "asked", !.conv = c, !.client = client,
                                    !.mode = mode, !.streaming = streaming])
    /\ run' = [run EXCEPT ![r] = "running"]
    /\ UNCHANGED <<base, store>>

\* The conversation is being answered in: 409, and the run has failed.
AskRefused(r) ==
    /\ request[r] = Idle
    /\ \E c \in Conversation : locked[c] # None
    /\ run' = [run EXCEPT ![r] = "failed"]
    /\ UNCHANGED <<base, store, locked, request>>

\* Seeded fault: a conversation is deleted while it is answered in.
DeleteUnlocked(r) ==
    /\ request[r] = Idle
    /\ \E c \in Conversation :
         /\ owner[c] # None
         /\ owner' = [owner EXCEPT ![c] = None]
         /\ messages' = [messages EXCEPT ![c] = <<>>]
    /\ UNCHANGED <<base, locked, request, run>>

\* delete_conversation: the lock is held for the one statement.
DeleteConversation(r) ==
    /\ request[r] = Idle
    /\ \E c \in Conversation :
         /\ locked[c] = None /\ owner[c] # None
         /\ owner' = [owner EXCEPT ![c] = None]
         /\ messages' = [messages EXCEPT ![c] = <<>>]
    /\ UNCHANGED <<base, locked, request, run>>

\* state_snapshot: the legacy mode asks for chunks before it asks who owns the
\* conversation.  A conversation that is missing is created.
Refuses(q) ==
    \/ q.mode = "legacy" /\ index = {}
    \/ owner[q.conv] \notin {None, q.client}

SnapshotRefused(r) ==
    /\ request[r].at = "asked" /\ Refuses(request[r])
    /\ Ends(r, "failed")
    /\ UNCHANGED <<base, store>>

Snapshot(r) ==
    LET q == request[r]
    IN  /\ q.at = "asked" /\ ~Refuses(q)
        /\ owner' = [owner EXCEPT ![q.conv] = q.client]
        /\ Becomes(r, [q EXCEPT !.at = IF q.streaming THEN "response" ELSE "prepare",
                                !.chunks = index, !.version = version,
                                !.history = messages[q.conv]])
        /\ UNCHANGED <<base, messages, locked, run>>

\* The server begins to step the generator, and the first status has been sent.
StartStream(r) ==
    /\ request[r].at = "response"
    /\ Becomes(r, [request[r] EXCEPT !.at = "prepare"])
    /\ UNCHANGED <<base, store, locked, run>>

-----------------------------------------------------------------------------
(* Answering *)

\* decide_action and the tool it chose: none at all, or a search of the chunks.
PrepareLegacy(r) ==
    /\ request[r].at = "prepare" /\ request[r].mode = "legacy"
    /\ \E sources \in {{}, request[r].chunks} :
         Becomes(r, [request[r] EXCEPT !.at = "generate", !.sources = sources])
    /\ UNCHANGED <<base, store, locked, run>>

\* prepare: the wiki is read once, and a planned channel that has nothing to offer, an
\* unusable SKU or missing evidence makes a fixed answer.  The committed sample stands
\* in for a wiki that was never published.
Available(q, steps, skus) ==
    /\ "document_search" \in steps => q.chunks # {}
    /\ "system_query" \in steps => skus = 1

Collected(q, steps) ==
    (IF "document_search" \in steps THEN q.chunks ELSE {})
      \cup (IF "wiki_query" \in steps THEN wiki ELSE {})

PrepareOrchestrated(r) ==
    LET q == request[r]
    IN  /\ q.at = "prepare" /\ q.mode = "orchestrated"
        /\ \E steps \in SUBSET Step, skus \in 0..1 :
             IF steps # {} /\ Available(q, steps, skus)
             THEN \E evidence \in BOOLEAN :
                    Becomes(r, [q EXCEPT !.at = IF evidence THEN "generate" ELSE "commit",
                                         !.steps = steps, !.sources = Collected(q, steps)])
             ELSE Becomes(r, [q EXCEPT !.at = "commit", !.steps = steps])
        /\ UNCHANGED <<base, store, locked, run>>

Generate(r) ==
    /\ request[r].at = "generate"
    /\ Becomes(r, [request[r] EXCEPT !.at = "commit"])
    /\ UNCHANGED <<base, store, locked, run>>

\* Routing, a tool, the model or an answer that is empty: the request ends with an error.
AnswerFails(r) ==
    /\ request[r].at \in {"prepare", "generate"}
    /\ Ends(r, "failed")
    /\ UNCHANGED <<base, store>>

\* Seeded fault: the answer is stored whatever has changed.
CurrentAnyway(q) == TRUE

Current(q) == q.version = version

\* commit_exchange, under state_lock; the conversation is created if it is missing.
Commit(r) ==
    LET q == request[r]
    IN  /\ q.at = "commit" /\ Current(q)
        /\ owner[q.conv] \in {None, q.client}
        /\ owner' = [owner EXCEPT ![q.conv] = q.client]
        /\ messages' = [messages EXCEPT ![q.conv] =
             Append(@, [by |-> q.client, sources |-> q.sources, version |-> q.version])]
        /\ Becomes(r, [q EXCEPT !.at = "done"])
        /\ UNCHANGED <<base, locked, run>>

CommitRefused(r) ==
    /\ request[r].at = "commit"
    /\ ~Current(request[r]) \/ owner[request[r].conv] \notin {None, request[r].client}
    /\ Ends(r, "failed")
    /\ UNCHANGED <<base, store>>

Done(r) ==
    /\ request[r].at = "done"
    /\ Ends(r, "completed")
    /\ UNCHANGED <<base, store>>

\* Seeded fault: only an exhausted generator is finished.
CloseLeavesLock(r) ==
    /\ request[r].at \in {"prepare", "generate", "commit", "done"} /\ request[r].streaming
    /\ Becomes(r, Idle)
    /\ run' = [run EXCEPT ![r] = "failed"]
    /\ UNCHANGED <<base, store, locked>>

\* A stream that is closed at a yield runs its finally: the run has failed, also when
\* the exchange was stored already.
Close(r) ==
    /\ request[r].at \in {"prepare", "generate", "commit", "done"} /\ request[r].streaming
    /\ Ends(r, "failed")
    /\ UNCHANGED <<base, store>>

\* A generator that was never started has no finally to run.
Drop(r) ==
    /\ Drops
    /\ request[r].at = "response"
    /\ Becomes(r, [request[r] EXCEPT !.at = "dropped"])
    /\ UNCHANGED <<base, store, locked, run>>

-----------------------------------------------------------------------------
Change == CommitUpload \/ ClearIndex \/ PublishWiki \/ Retire
Answer(r) ==
    \/ SnapshotRefused(r) \/ Snapshot(r) \/ StartStream(r)
    \/ PrepareLegacy(r) \/ PrepareOrchestrated(r) \/ Generate(r) \/ AnswerFails(r)
    \/ Commit(r) \/ CommitRefused(r) \/ Done(r)

Next ==
    \/ Change \/ ClearWiki
    \/ \E r \in Request :
         Ask(r) \/ AskRefused(r) \/ DeleteConversation(r) \/ Answer(r) \/ Close(r) \/ Drop(r)

Spec == Init /\ [][Next]_vars

\* Threads run, models answer or fail, and the server steps the streams it started; who
\* asks, uploads or disconnects is not assumed to.
FairSpec == Spec /\ WF_vars(ClearWiki) /\ \A r \in Request : WF_vars(Answer(r))

-----------------------------------------------------------------------------
(* Properties *)

\* TYPE: what the store, the locks and the requests hold.
TypeOK ==
    /\ index \subseteq 1..MaxVersion /\ wiki \subseteq 1..MaxVersion /\ known \subseteq 1..MaxVersion
    /\ version \in 0..MaxVersion /\ wiped \in 0..MaxVersion /\ change \in {"none", "clear"}
    /\ owner \in [Conversation -> Client \cup {None}]
    /\ messages \in [Conversation -> Seq(Exchange)]
    /\ \A c \in Conversation : owner[c] = None => messages[c] = <<>>
    /\ locked \in [Conversation -> Request \cup {None}]
    /\ run \in [Request -> {"none", "running", "completed", "failed"}]
    /\ request \in [Request -> Requests]

\* StoredIsCurrent: no exchange survives, or comes after, an upload or a clear that it
\* was not answered from: what is stored was answered since conversations were deleted.
StoredIsCurrent ==
    \A c \in Conversation : \A i \in DOMAIN messages[c] : messages[c][i].version >= wiped

\* CommitsExtendWhatWasRead: an answer is stored after exactly the history it was given,
\* in a conversation that was never gone in between, and under the client who asked; and
\* one that cites documents alone, only while all of them are still in the index,
\* whatever an upload or a retirement did meanwhile.
CommitsExtendWhatWasRead ==
    [][\A r \in Request :
         request[r].at = "commit" /\ request'[r].at = "done" =>
            /\ messages[request[r].conv] = request[r].history
            /\ owner[request[r].conv] = request[r].client
            /\ "wiki_query" \notin request[r].steps => request[r].sources \subseteq index]_vars

Holds(r) == run[r] = "running" \/ \E c \in Conversation : locked[c] = r

\* LocksAreReleased: whoever answers in a conversation, and however it ends, the
\* conversation can be asked in again and the run is recorded as ended; the one way out
\* is a stream that the server dropped before its first step.
LocksAreReleased ==
    \A r \in Request : Holds(r) ~> ~Holds(r) \/ request[r].at = "dropped"

\* LocksAreAlwaysReleased: what the generator's finally is there for (it does not hold:
\* a generator that was never started has no finally to run).
LocksAreAlwaysReleased == \A c \in Conversation : locked[c] # None ~> locked[c] = None

\* AnswersAreKnown: what commit_exchange says: an exchange is stored only if it was
\* answered from the knowledge base there is (it does not hold: between the two halves
\* of a clear the wiki still answers, under the version that the clear has counted).
AnswersAreKnown ==
    [][\A r \in Request :
         request[r].at = "commit" /\ request'[r].at = "done" => request[r].sources \subseteq known]_vars
=============================================================================
