-------------------------- MODULE KnowledgeApiProofs --------------------------
(***************************************************************************)
(* Theorems about KnowledgeApi, for any requests, conversations and        *)
(* clients: what the store, the locks and the requests hold (TypeCorrect); *)
(* that no exchange outlives the knowledge base it was answered from       *)
(* (StoredCorrect); and that one is stored after exactly the history it    *)
(* was given (CommitsExtend).                                              *)
(*                                                                         *)
(* The invariant says whose each lock is, and what a request that holds    *)
(* one may rely on: as long as the version is the one that it read, its    *)
(* conversation, its client and the index are those that it read.          *)
(***************************************************************************)
EXTENDS KnowledgeApi, TLAPS

-----------------------------------------------------------------------------
(* The invariant *)

\* A request holds the lock of its conversation and no other, and is traced as running.
Locked(r) ==
    /\ request[r].at # "idle" => request[r].conv \in Conversation /\ locked[request[r].conv] = r
    /\ \A c \in Conversation : locked[c] = r => request[r].at # "idle" /\ request[r].conv = c
    /\ request[r].at = "idle" <=> run[r] # "running"

Asking == {"asked", "response", "prepare", "generate", "commit", "done", "dropped"}
Snapped == {"response", "prepare", "generate", "commit"}

\* What a request has read is still so, if nothing has changed the knowledge base.
Reads(r) ==
    /\ request[r].at \in Asking => request[r].client \in Client
    /\ request[r].at \in {"asked", "response", "prepare"} => request[r].sources = {}
    /\ request[r].at \in Snapped =>
        /\ request[r].version <= version
        /\ request[r].version = version =>
            /\ owner[request[r].conv] = request[r].client
            /\ messages[request[r].conv] = request[r].history
            /\ request[r].chunks = index
        /\ "wiki_query" \notin request[r].steps => request[r].sources \subseteq request[r].chunks

LockInv == \A r \in Request : Locked(r)
ReadInv == \A r \in Request : Reads(r)
StoreInv == wiped <= version /\ StoredIsCurrent

ApiInv == TypeOK /\ LockInv /\ ReadInv /\ StoreInv

-----------------------------------------------------------------------------
(* Types *)

LEMMA NoneIsNobody == None \notin Client /\ None \notin Request
BY ApiAssumption

LEMMA IdleIsTyped == Idle \in Requests
BY DEF Idle, Requests, Place, Mode, Step, Exchange

LEMMA TypeInit == Init => TypeOK
BY ApiAssumption, IdleIsTyped DEF Init, TypeOK

\* The bound of the versions keeps what is named by them a set of natural numbers.
LEMMA IndexIsNatural == TypeOK => index \subseteq Nat /\ wiki \subseteq Nat /\ version \in Nat /\ wiped \in Nat
BY ApiAssumption DEF TypeOK

\* The messages are deleted together with their conversations.
LEMMA DeletedTyped ==
    ASSUME TypeOK, DeleteConversations, version' \in 0..MaxVersion
    PROVE  /\ owner' \in [Conversation -> Client \cup {None}]
           /\ messages' \in [Conversation -> Seq(Exchange)]
           /\ \A c \in Conversation : owner'[c] = None => messages'[c] = <<>>
           /\ wiped' \in 0..MaxVersion
BY DEF DeleteConversations, TypeOK

LEMMA ChangeTyped == TypeOK /\ (Change \/ ClearWiki) => TypeOK'
<1> SUFFICES ASSUME TypeOK, Change \/ ClearWiki PROVE TypeOK'
  OBVIOUS
<1>1. CASE CommitUpload
  <2>1. version' \in 0..MaxVersion /\ version' \in 1..MaxVersion
    BY <1>1, ApiAssumption DEF CommitUpload, TypeOK
  <2>2. index' \subseteq 1..MaxVersion /\ known' \subseteq 1..MaxVersion
    BY <1>1, <2>1 DEF CommitUpload, TypeOK
  <2>3. QED
    BY <1>1, <2>1, <2>2, DeletedTyped DEF CommitUpload, TypeOK
<1>2. CASE ClearIndex
  <2>1. version' \in 0..MaxVersion
    BY <1>2, ApiAssumption DEF ClearIndex, TypeOK
  <2>2. QED
    BY <1>2, <2>1, DeletedTyped DEF ClearIndex, TypeOK
<1>3. CASE PublishWiki
  BY <1>3 DEF PublishWiki, store, TypeOK
<1>4. CASE Retire
  <2>1. version' \in 0..MaxVersion
    BY <1>4, ApiAssumption DEF Retire, TypeOK
  <2>2. QED
    BY <1>4, <2>1 DEF Retire, store, TypeOK
<1>5. CASE ClearWiki
  BY <1>5 DEF ClearWiki, store, TypeOK
<1>6. QED
  BY <1>1, <1>2, <1>3, <1>4, <1>5 DEF Change

\* A request that becomes another typed one leaves the rest as it was.
LEMMA BecomesTyped ==
    ASSUME TypeOK, NEW r \in Request, NEW q \in Requests, Becomes(r, q)
    PROVE  /\ request' \in [Request -> Requests]
           /\ request'[r] = q
           /\ \A o \in Request \ {r} : request'[o] = request[o]
BY DEF Becomes, TypeOK

LEMMA EndsTyped ==
    ASSUME TypeOK, NEW r \in Request, NEW status \in {"completed", "failed"}, Ends(r, status)
    PROVE  /\ request' \in [Request -> Requests] /\ request'[r] = Idle
           /\ \A o \in Request \ {r} : request'[o] = request[o]
           /\ run' \in [Request -> {"none", "running", "completed", "failed"}]
           /\ run'[r] = status /\ \A o \in Request \ {r} : run'[o] = run[o]
           /\ locked' \in [Conversation -> Request \cup {None}]
           /\ \A c \in Conversation : locked'[c] = IF locked[c] = r THEN None ELSE locked[c]
BY BecomesTyped, IdleIsTyped DEF Ends, Release, TypeOK

-----------------------------------------------------------------------------
(* One request's steps, as the others see them *)

\* What a step of r leaves alone: the other requests, the locks that they hold and the
\* conversations behind these.
StepOf(r) ==
    /\ UNCHANGED base
    /\ \A o \in Request \ {r} : request'[o] = request[o] /\ run'[o] = run[o]
    /\ \A c \in Conversation :
         IF locked[c] \in {None, r} THEN locked'[c] \in {None, r}
         ELSE locked'[c] = locked[c] /\ owner'[c] = owner[c] /\ messages'[c] = messages[c]

LEMMA OthersKept ==
    ASSUME ApiInv, NEW r \in Request, StepOf(r)
    PROVE  \A o \in Request \ {r} : Locked(o)' /\ Reads(o)'
<1> SUFFICES ASSUME NEW o \in Request, o # r PROVE Locked(o)' /\ Reads(o)'
  OBVIOUS
<1>1. Locked(o) /\ Reads(o)
  BY DEF ApiInv, LockInv, ReadInv
<1>2. request'[o] = request[o] /\ run'[o] = run[o]
  BY DEF StepOf
<1>3. o # None
  BY NoneIsNobody
<1>4. Locked(o)'
  BY <1>1, <1>2, <1>3 DEF Locked, StepOf
<1>5. version' = version /\ index' = index
  BY DEF StepOf, base
<1>6. ASSUME request[o].at # "idle"
      PROVE  /\ owner'[request[o].conv] = owner[request[o].conv]
             /\ messages'[request[o].conv] = messages[request[o].conv]
  BY <1>1, <1>3, <1>6 DEF Locked, StepOf
<1>7. Reads(o)'
  BY <1>1, <1>2, <1>5, <1>6 DEF Reads, Snapped
<1>8. QED
  BY <1>4, <1>7

\* It remains to look at r itself.
LEMMA StepKeeps ==
    ASSUME ApiInv, NEW r \in Request, StepOf(r), Locked(r)', Reads(r)', TypeOK', StoreInv'
    PROVE  ApiInv'
BY OthersKept DEF ApiInv, LockInv, ReadInv

\* The store is as it was.
LEMMA StoreKept == StoreInv /\ UNCHANGED <<base, store>> => StoreInv'
BY DEF StoreInv, StoredIsCurrent, base, store

-----------------------------------------------------------------------------
(* Changes of the knowledge base: no request can rely on what it read *)

LEMMA ChangeKeeps ==
    ASSUME ApiInv, Change \/ ClearWiki
    PROVE  ApiInv'
<1>1. TypeOK'
  BY ChangeTyped DEF ApiInv
<1>2. UNCHANGED <<locked, request, run>>
  BY DEF Change, ClearWiki, CommitUpload, ClearIndex, PublishWiki, Retire
<1>3. LockInv'
  BY <1>2 DEF ApiInv, LockInv, Locked
<1>4. \/ version' = version + 1
      \/ UNCHANGED <<version, index, owner, messages>>
  BY DEF Change, ClearWiki, CommitUpload, ClearIndex, PublishWiki, Retire, store
<1>5. version \in Nat /\ \A r \in Request : request[r].version \in Nat
  BY IndexIsNatural DEF ApiInv, TypeOK, Requests
<1>6. ReadInv'
  <2> SUFFICES ASSUME NEW r \in Request PROVE Reads(r)'
    BY DEF ReadInv
  <2>1. Reads(r)
    BY DEF ApiInv, ReadInv
  <2>2. request'[r] = request[r]
    BY <1>2
  <2>3. CASE version' = version + 1
    BY <1>5, <2>1, <2>2, <2>3 DEF Reads
  <2>4. CASE UNCHANGED <<version, index, owner, messages>>
    BY <2>1, <2>2, <2>4 DEF Reads
  <2>5. QED
    BY <1>4, <2>3, <2>4
<1>7. StoreInv'
  <2>1. wiped \in Nat /\ version \in Nat /\ wiped <= version
    BY IndexIsNatural DEF ApiInv, StoreInv
  <2>2. \/ wiped' = version' /\ messages' = [c \in Conversation |-> <<>>]
        \/ wiped' = wiped /\ messages' = messages /\ (version' = version \/ version' = version + 1)
    BY DEF Change, ClearWiki, CommitUpload, ClearIndex, PublishWiki, Retire, DeleteConversations, store
  <2>3. CASE wiped' = version' /\ messages' = [c \in Conversation |-> <<>>]
    <3>1. version' \in Nat
      BY <1>4, <2>1
    <3>2. QED
      BY <2>3, <3>1 DEF StoreInv, StoredIsCurrent
  <2>4. CASE wiped' = wiped /\ messages' = messages /\ (version' = version \/ version' = version + 1)
    BY <2>1, <2>4 DEF ApiInv, StoreInv, StoredIsCurrent
  <2>5. QED
    BY <2>2, <2>3, <2>4
<1>8. QED
  BY <1>1, <1>3, <1>6, <1>7 DEF ApiInv

-----------------------------------------------------------------------------
(* The steps of a request *)

\* However a request ends, it gives its lock back.
LEMMA EndsKeeps ==
    ASSUME ApiInv, NEW r \in Request, NEW status \in {"completed", "failed"},
           Ends(r, status), UNCHANGED <<base, store>>
    PROVE  ApiInv'
<1>1. TypeOK /\ StoreInv
  BY DEF ApiInv
<1>2. TypeOK'
  BY <1>1, EndsTyped DEF TypeOK, base, store
<1>3. StepOf(r)
  BY <1>1, EndsTyped DEF StepOf, store
<1>4. Locked(r)'
  BY <1>1, EndsTyped, NoneIsNobody DEF Locked, Idle
<1>5. Reads(r)'
  BY <1>1, EndsTyped DEF Reads, Idle, Asking, Snapped
<1>6. QED
  BY <1>1, <1>2, <1>3, <1>4, <1>5, StoreKept, StepKeeps

\* An answer that goes on keeps what it has read.
LEMMA MovesKeep ==
    ASSUME ApiInv, NEW r \in Request, NEW q \in Requests, Becomes(r, q),
           UNCHANGED <<base, store, locked, run>>,
           request[r].at \in Snapped, q.at \in Snapped \cup {"dropped"},
           q.conv = request[r].conv, q.client = request[r].client,
           q.version = request[r].version, q.history = request[r].history,
           q.chunks = request[r].chunks,
           q.at \in {"response", "prepare"} => q.sources = {},
           q.at \in Snapped /\ "wiki_query" \notin q.steps => q.sources \subseteq q.chunks
    PROVE  ApiInv'
<1>1. TypeOK /\ StoreInv /\ Locked(r) /\ Reads(r)
  BY DEF ApiInv, LockInv, ReadInv
<1>2. /\ request' \in [Request -> Requests] /\ request'[r] = q
      /\ \A o \in Request \ {r} : request'[o] = request[o]
  BY <1>1, BecomesTyped
<1>3. TypeOK'
  BY <1>1, <1>2 DEF TypeOK, base, store
<1>4. StepOf(r)
  BY <1>2 DEF StepOf, store
<1>5. Locked(r)'
  BY <1>1, <1>2 DEF Locked, Snapped
<1>6. Reads(r)'
  BY <1>1, <1>2 DEF Reads, Asking, Snapped, base, store
<1>7. QED
  BY <1>1, <1>3, <1>4, <1>5, <1>6, StoreKept, StepKeeps

LEMMA AskKeeps ==
    ASSUME ApiInv, NEW r \in Request, Ask(r)
    PROVE  ApiInv'
<1>1. PICK c \in Conversation, client \in Client, mode \in Mode, streaming \in BOOLEAN :
        /\ Acquire(r, c)
        /\ Becomes(r, [Idle EXCEPT !.at = "asked", !.conv = c, !.client = client,
                                   !.mode = mode, !.streaming = streaming])
  BY DEF Ask
<1>2. PICK q : q = [Idle EXCEPT !.at = "asked", !.conv = c, !.client = client,
                                !.mode = mode, !.streaming = streaming]
  OBVIOUS
<1>3. q \in Requests /\ q.at = "asked" /\ q.conv = c /\ q.client = client /\ q.sources = {}
  BY <1>2, IdleIsTyped DEF Idle, Requests, Place
<1>4. TypeOK /\ StoreInv /\ request[r].at = "idle" /\ Locked(r)
  BY DEF ApiInv, Ask, Idle, LockInv
<1>5. /\ request' \in [Request -> Requests] /\ request'[r] = q
      /\ \A o \in Request \ {r} : request'[o] = request[o]
  BY <1>1, <1>2, <1>3, <1>4, BecomesTyped
<1>6. locked[c] = None /\ locked' = [locked EXCEPT ![c] = r] /\ UNCHANGED <<base, store>>
      /\ run' = [run EXCEPT ![r] = "running"]
  BY <1>1 DEF Acquire, Ask
<1>7. TypeOK'
  BY <1>4, <1>5, <1>6 DEF TypeOK, base, store
<1>8. StepOf(r)
  BY <1>4, <1>5, <1>6 DEF StepOf, store, TypeOK
<1>9. Locked(r)'
  BY <1>3, <1>4, <1>5, <1>6 DEF Locked, TypeOK
<1>10. Reads(r)'
  BY <1>3, <1>5 DEF Reads, Snapped
<1>11. QED
  BY <1>4, <1>6, <1>7, <1>8, <1>9, <1>10, StoreKept, StepKeeps

LEMMA RefusedKeeps ==
    ASSUME ApiInv, NEW r \in Request, AskRefused(r)
    PROVE  ApiInv'
<1>1. TypeOK /\ StoreInv /\ Locked(r) /\ Reads(r) /\ request[r].at = "idle"
  BY DEF ApiInv, LockInv, ReadInv, AskRefused, Idle
<1>2. UNCHANGED <<base, store, locked, request>> /\ run' = [run EXCEPT ![r] = "failed"]
  BY DEF AskRefused
<1>3. TypeOK'
  BY <1>1, <1>2 DEF TypeOK, base, store
<1>4. StepOf(r)
  BY <1>1, <1>2 DEF StepOf, store, TypeOK
<1>5. Locked(r)'
  BY <1>1, <1>2 DEF Locked, TypeOK
<1>6. Reads(r)'
  BY <1>1, <1>2 DEF Reads, base, store
<1>7. QED
  BY <1>1, <1>2, <1>3, <1>4, <1>5, <1>6, StoreKept, StepKeeps

\* A conversation whose lock is free is nobody's history.
LEMMA DeleteKeeps ==
    ASSUME ApiInv, NEW r \in Request, DeleteConversation(r)
    PROVE  ApiInv'
<1>1. TypeOK /\ StoreInv /\ Locked(r) /\ Reads(r) /\ request[r].at = "idle"
  BY DEF ApiInv, LockInv, ReadInv, DeleteConversation, Idle
<1>2. PICK c \in Conversation :
        /\ locked[c] = None
        /\ owner' = [owner EXCEPT ![c] = None]
        /\ messages' = [messages EXCEPT ![c] = <<>>]
  BY DEF DeleteConversation
<1>3. UNCHANGED <<base, locked, request, run>>
  BY DEF DeleteConversation
<1>4. TypeOK'
  BY <1>1, <1>2, <1>3 DEF TypeOK, base
<1>5. StepOf(r)
  BY <1>1, <1>2, <1>3 DEF StepOf, TypeOK
<1>6. Locked(r)'
  BY <1>1, <1>3 DEF Locked
<1>7. Reads(r)'
  BY <1>1, <1>3 DEF Reads, Asking, Snapped
<1>8. StoreInv'
  BY <1>1, <1>2, <1>3 DEF StoreInv, StoredIsCurrent, base, TypeOK
<1>9. QED
  BY <1>4, <1>5, <1>6, <1>7, <1>8, StepKeeps

\* What a request reads under state_lock is what there is.
LEMMA SnapshotKeeps ==
    ASSUME ApiInv, NEW r \in Request, Snapshot(r)
    PROVE  ApiInv'
<1>1. TypeOK /\ StoreInv /\ Locked(r) /\ Reads(r) /\ request[r].at = "asked" /\ request[r] \in Requests
  BY DEF ApiInv, LockInv, ReadInv, Snapshot, TypeOK
<1>2. PICK q : q = [request[r] EXCEPT !.at = IF request[r].streaming THEN "response" ELSE "prepare",
                                      !.chunks = index, !.version = version,
                                      !.history = messages[request[r].conv]]
  OBVIOUS
<1>3. request[r].conv \in Conversation /\ request[r].client \in Client
      /\ locked[request[r].conv] = r
  BY <1>1 DEF Locked, Reads, Asking
<1>4. index \in SUBSET Nat /\ version \in Nat /\ messages[request[r].conv] \in Seq(Exchange)
  BY <1>1, <1>3, IndexIsNatural DEF TypeOK
<1>5. q \in Requests
  BY <1>1, <1>2, <1>4 DEF Requests, Place
<1>6. /\ q.at \in {"response", "prepare"} /\ q.conv = request[r].conv /\ q.client = request[r].client
      /\ q.chunks = index /\ q.version = version /\ q.history = messages[request[r].conv]
      /\ q.steps = request[r].steps /\ q.sources = request[r].sources
  BY <1>1, <1>2 DEF Requests
<1>7. Becomes(r, q) /\ UNCHANGED <<base, messages, locked, run>>
      /\ owner' = [owner EXCEPT ![request[r].conv] = request[r].client]
  BY <1>2 DEF Snapshot
<1>8. /\ request' \in [Request -> Requests] /\ request'[r] = q
      /\ \A o \in Request \ {r} : request'[o] = request[o]
  BY <1>1, <1>5, <1>7, BecomesTyped
<1>9. TypeOK'
  BY <1>1, <1>3, <1>7, <1>8, NoneIsNobody DEF TypeOK, base
<1>10. StepOf(r)
  BY <1>1, <1>3, <1>7, <1>8 DEF StepOf, TypeOK
<1>11. Locked(r)'
  BY <1>1, <1>6, <1>7, <1>8 DEF Locked
<1>12. Reads(r)'
  BY <1>1, <1>3, <1>4, <1>6, <1>7, <1>8 DEF Reads, base, Snapped, TypeOK
<1>13. StoreInv'
  BY <1>1, <1>7 DEF StoreInv, StoredIsCurrent, base
<1>14. QED
  BY <1>1, <1>9, <1>10, <1>11, <1>12, <1>13, StepKeeps

\* What the client who holds the lock adds was answered from what there is.
LEMMA CommitKeeps ==
    ASSUME ApiInv, NEW r \in Request, Commit(r)
    PROVE  ApiInv'
<1>1. TypeOK /\ StoreInv /\ Locked(r) /\ Reads(r) /\ request[r].at = "commit" /\ request[r] \in Requests
  BY DEF ApiInv, LockInv, ReadInv, Commit, TypeOK
<1>2. PICK q : q = [request[r] EXCEPT !.at = "done"]
  OBVIOUS
<1>3. PICK e : e = [by |-> request[r].client, sources |-> request[r].sources, version |-> request[r].version]
  OBVIOUS
<1>4. request[r].conv \in Conversation /\ request[r].client \in Client /\ request[r].version = version
      /\ locked[request[r].conv] = r
  BY <1>1 DEF Locked, Reads, Asking, Commit, Current
<1>5. e \in Exchange /\ e.version = version
  BY <1>1, <1>3, <1>4 DEF Exchange, Requests
<1>6. q \in Requests /\ q.at = "done" /\ q.conv = request[r].conv /\ q.client = request[r].client
  BY <1>1, <1>2 DEF Requests, Place
<1>7. /\ Becomes(r, q) /\ UNCHANGED <<base, locked, run>>
      /\ owner' = [owner EXCEPT ![request[r].conv] = request[r].client]
      /\ messages' = [messages EXCEPT ![request[r].conv] = Append(@, e)]
  BY <1>2, <1>3 DEF Commit
<1>8. /\ request' \in [Request -> Requests] /\ request'[r] = q
      /\ \A o \in Request \ {r} : request'[o] = request[o]
  BY <1>1, <1>6, <1>7, BecomesTyped
<1>9. /\ messages' \in [Conversation -> Seq(Exchange)]
      /\ messages'[request[r].conv] = Append(messages[request[r].conv], e)
      /\ \A c \in Conversation \ {request[r].conv} : messages'[c] = messages[c]
  BY <1>1, <1>4, <1>5, <1>7 DEF TypeOK
<1>10. TypeOK'
  BY <1>1, <1>4, <1>7, <1>8, <1>9, NoneIsNobody DEF TypeOK, base
<1>11. StepOf(r)
  BY <1>1, <1>4, <1>7, <1>8, <1>9 DEF StepOf, TypeOK
<1>12. Locked(r)'
  BY <1>1, <1>6, <1>7, <1>8 DEF Locked
<1>13. Reads(r)'
  BY <1>4, <1>6, <1>8 DEF Reads, Snapped
<1>14. StoreInv'
  <2>1. wiped' = wiped /\ version' = version /\ wiped <= version
    BY <1>1, <1>7 DEF StoreInv, base
  <2> SUFFICES ASSUME NEW c \in Conversation, NEW i \in DOMAIN messages'[c]
               PROVE  messages'[c][i].version >= wiped
    BY <2>1 DEF StoreInv, StoredIsCurrent
  <2>2. \A m \in DOMAIN messages[c] : messages[c][m].version >= wiped
    BY <1>1 DEF StoreInv, StoredIsCurrent
  <2>3. messages[c] \in Seq(Exchange) /\ version \in Nat /\ wiped \in Nat
    BY <1>1, IndexIsNatural DEF TypeOK
  <2>4. CASE c = request[r].conv
    <3> PICK s \in Seq(Exchange) : s = messages[c]
      BY <2>3
    <3>a. messages'[c] = Append(s, e)
      BY <1>9, <2>4
    <3>1. messages'[c][i] = IF i = Len(messages[c]) + 1 THEN e ELSE messages[c][i]
      BY <3>a, <1>5
    <3>2. i = Len(messages[c]) + 1 \/ i \in DOMAIN messages[c]
      BY <3>a, <1>5
    <3>3. QED
      BY <1>5, <2>1, <2>2, <2>3, <3>1, <3>2
  <2>5. CASE c # request[r].conv
    BY <1>9, <2>2, <2>5
  <2>6. QED
    BY <2>4, <2>5
<1>15. QED
  BY <1>1, <1>10, <1>11, <1>12, <1>13, <1>14, StepKeeps

\* The steps between reading and committing.
LEMMA AnswerMoves ==
    ASSUME ApiInv, NEW r \in Request,
           StartStream(r) \/ PrepareLegacy(r) \/ PrepareOrchestrated(r) \/ Generate(r) \/ Drop(r)
    PROVE  ApiInv'
<1>1. Reads(r) /\ request[r] \in Requests /\ wiki \in SUBSET Nat
  BY IndexIsNatural DEF ApiInv, ReadInv, TypeOK
<1>2. UNCHANGED <<base, store, locked, run>>
  BY DEF StartStream, PrepareLegacy, PrepareOrchestrated, Generate, Drop
<1>3. CASE StartStream(r)
  <2>1. PICK q : q = [request[r] EXCEPT !.at = "prepare"]
    OBVIOUS
  <2>2. q \in Requests /\ request[r].at = "response"
    BY <1>1, <1>3, <2>1 DEF Requests, Place, StartStream
  <2>3. QED
    BY <1>1, <1>2, <1>3, <2>1, <2>2, MovesKeep DEF StartStream, Snapped, Requests, Reads
<1>4. CASE PrepareLegacy(r)
  <2>1. PICK sources \in {{}, request[r].chunks} :
          Becomes(r, [request[r] EXCEPT !.at = "generate", !.sources = sources])
    BY <1>4 DEF PrepareLegacy
  <2>2. PICK q : q = [request[r] EXCEPT !.at = "generate", !.sources = sources]
    OBVIOUS
  <2>3. q \in Requests /\ request[r].at = "prepare"
    BY <1>1, <1>4, <2>1, <2>2 DEF Requests, Place, PrepareLegacy
  <2>4. QED
    BY <1>1, <1>2, <2>1, <2>2, <2>3, MovesKeep DEF Snapped, Requests
<1>5. CASE PrepareOrchestrated(r)
  <2>1. request[r].at = "prepare" /\ request[r].sources = {}
    BY <1>1, <1>5 DEF PrepareOrchestrated, Reads
  <2>2. PICK steps \in SUBSET Step :
          \/ \E at \in {"generate", "commit"} :
               Becomes(r, [request[r] EXCEPT !.at = at, !.steps = steps,
                                             !.sources = Collected(request[r], steps)])
          \/ Becomes(r, [request[r] EXCEPT !.at = "commit", !.steps = steps])
    BY <1>5 DEF PrepareOrchestrated
  <2>3. Collected(request[r], steps) \in SUBSET Nat
        /\ ("wiki_query" \notin steps => Collected(request[r], steps) \subseteq request[r].chunks)
    BY <1>1 DEF Collected, Requests
  <2>4. ASSUME NEW at \in {"generate", "commit"},
               Becomes(r, [request[r] EXCEPT !.at = at, !.steps = steps,
                                             !.sources = Collected(request[r], steps)])
        PROVE  ApiInv'
    <3>1. PICK q : q = [request[r] EXCEPT !.at = at, !.steps = steps,
                                          !.sources = Collected(request[r], steps)]
      OBVIOUS
    <3>2. q \in Requests /\ q.at = at /\ q.steps = steps /\ q.sources = Collected(request[r], steps)
          /\ q.conv = request[r].conv /\ q.client = request[r].client /\ q.version = request[r].version
          /\ q.history = request[r].history /\ q.chunks = request[r].chunks
      BY <1>1, <2>3, <3>1 DEF Requests, Place
    <3>3. QED
      BY <1>2, <2>1, <2>3, <2>4, <3>1, <3>2, MovesKeep DEF Snapped
  <2>5. ASSUME Becomes(r, [request[r] EXCEPT !.at = "commit", !.steps = steps])
        PROVE  ApiInv'
    <3>1. PICK q : q = [request[r] EXCEPT !.at = "commit", !.steps = steps]
      OBVIOUS
    <3>2. q \in Requests /\ q.at = "commit" /\ q.sources = {}
          /\ q.conv = request[r].conv /\ q.client = request[r].client /\ q.version = request[r].version
          /\ q.history = request[r].history /\ q.chunks = request[r].chunks
      BY <1>1, <2>1, <3>1 DEF Requests, Place
    <3>3. QED
      BY <1>2, <2>1, <2>5, <3>1, <3>2, MovesKeep DEF Snapped
  <2>6. QED
    BY <2>2, <2>4, <2>5
<1>6. CASE Generate(r)
  <2>1. PICK q : q = [request[r] EXCEPT !.at = "commit"]
    OBVIOUS
  <2>2. q \in Requests /\ request[r].at = "generate"
    BY <1>1, <1>6, <2>1 DEF Requests, Place, Generate
  <2>3. QED
    BY <1>1, <1>2, <1>6, <2>1, <2>2, MovesKeep DEF Generate, Snapped, Requests, Reads
<1>7. CASE Drop(r)
  <2>1. PICK q : q = [request[r] EXCEPT !.at = "dropped"]
    OBVIOUS
  <2>2. q \in Requests /\ request[r].at = "response"
    BY <1>1, <1>7, <2>1 DEF Requests, Place, Drop
  <2>3. QED
    BY <1>1, <1>2, <1>7, <2>1, <2>2, MovesKeep DEF Drop, Snapped, Requests, Reads
<1>8. QED
  BY <1>3, <1>4, <1>5, <1>6, <1>7

\* What a step does to a request, it does to the one that takes it.
LEMMA OnlyCommits ==
    ASSUME TypeOK, [Next]_vars, NEW r \in Request,
           request[r].at = "commit", request'[r].at = "done"
    PROVE  Commit(r)
<1>1. request' # request
  OBVIOUS
<1>2. PICK o \in Request :
        Ask(o) \/ AskRefused(o) \/ DeleteConversation(o) \/ Answer(o) \/ Close(o) \/ Drop(o)
  BY <1>1 DEF Next, Change, ClearWiki, CommitUpload, ClearIndex, PublishWiki, Retire, vars
<1>3. \E q : request' = [request EXCEPT ![o] = q]
  BY <1>1, <1>2 DEF Ask, AskRefused, DeleteConversation, Answer, Close, Drop, SnapshotRefused, Snapshot,
     StartStream, PrepareLegacy, PrepareOrchestrated, Generate, AnswerFails, Commit, CommitRefused,
     Done, Ends, Becomes
<1>4. o = r
  BY <1>3 DEF TypeOK
<1>5. ~Ends(r, "failed") /\ ~Ends(r, "completed")
  BY DEF Ends, Becomes, Idle, TypeOK
<1>6. ~Ask(r) /\ ~AskRefused(r) /\ ~DeleteConversation(r)
  <2>1. request[r] # Idle
    BY DEF Idle
  <2>2. QED
    BY <2>1 DEF Ask, AskRefused, DeleteConversation
<1>7. ~Snapshot(r) /\ ~StartStream(r) /\ ~PrepareLegacy(r) /\ ~PrepareOrchestrated(r) /\ ~Generate(r)
  BY DEF Snapshot, StartStream, PrepareLegacy, PrepareOrchestrated, Generate
<1>8. ~SnapshotRefused(r) /\ ~AnswerFails(r) /\ ~CommitRefused(r) /\ ~Close(r) /\ ~Done(r)
  BY <1>5 DEF SnapshotRefused, AnswerFails, CommitRefused, Close, Done
<1>9. ~Drop(r)
  BY DEF Drop
<1>10. QED
  BY <1>2, <1>4, <1>6, <1>7, <1>8, <1>9 DEF Answer

LEMMA ApiInitially == Init => ApiInv
<1> SUFFICES ASSUME Init PROVE ApiInv
  OBVIOUS
<1>1. LockInv
  BY NoneIsNobody DEF Init, LockInv, Locked, Idle
<1>2. ReadInv
  BY DEF Init, ReadInv, Reads, Idle, Asking, Snapped
<1>3. StoreInv
  BY DEF Init, StoreInv, StoredIsCurrent
<1>4. QED
  BY <1>1, <1>2, <1>3, TypeInit DEF ApiInv

LEMMA ApiStep == ApiInv /\ [Next]_vars => ApiInv'
<1> SUFFICES ASSUME ApiInv, [Next]_vars PROVE ApiInv'
  OBVIOUS
<1>1. CASE Change \/ ClearWiki
  BY <1>1, ChangeKeeps
<1>2. ASSUME NEW r \in Request,
             Ask(r) \/ AskRefused(r) \/ DeleteConversation(r) \/ Answer(r) \/ Close(r) \/ Drop(r)
      PROVE  ApiInv'
  <2>1. CASE SnapshotRefused(r) \/ AnswerFails(r) \/ CommitRefused(r) \/ Close(r) \/ Done(r)
    BY <2>1, EndsKeeps DEF SnapshotRefused, AnswerFails, CommitRefused, Close, Done
  <2>2. CASE StartStream(r) \/ PrepareLegacy(r) \/ PrepareOrchestrated(r) \/ Generate(r) \/ Drop(r)
    BY <2>2, AnswerMoves
  <2>3. QED
    BY <1>2, <2>1, <2>2, AskKeeps, RefusedKeeps, DeleteKeeps, SnapshotKeeps, CommitKeeps DEF Answer
<1>3. CASE UNCHANGED vars
  <2>1. TypeOK' /\ StoreInv'
    BY <1>3, StoreKept DEF ApiInv, TypeOK, vars, base, store
  <2>2. \A r \in Request : Locked(r)' /\ Reads(r)'
    BY <1>3 DEF ApiInv, LockInv, ReadInv, Locked, Reads, vars, base, store
  <2>3. QED
    BY <2>1, <2>2 DEF ApiInv, LockInv, ReadInv
<1>4. QED
  BY <1>1, <1>2, <1>3 DEF Next

LEMMA ApiCorrect == Spec => []ApiInv
BY ApiInitially, ApiStep, PTL DEF Spec

-----------------------------------------------------------------------------
(* The theorems *)

\* What the store, the locks and the requests hold, whoever asks and changes what when.
THEOREM TypeCorrect == Spec => []TypeOK
<1>1. ApiInv => TypeOK
  BY DEF ApiInv
<1>2. QED
  BY <1>1, ApiCorrect, PTL

\* An exchange in the store was answered since the conversations were last deleted: an
\* answer that an upload or a clear overtook is not stored after it (storage.py and
\* commit_exchange in api.py).
THEOREM StoredCorrect == Spec => []StoredIsCurrent
<1>1. ApiInv => StoredIsCurrent
  BY DEF ApiInv, StoreInv
<1>2. QED
  BY <1>1, ApiCorrect, PTL

\* An exchange is stored behind exactly the history that the model was given, for the
\* client who asked, and cites no document that has left the index, however many others
\* asked, deleted, uploaded and retired meanwhile.
THEOREM CommitsExtend == Spec => CommitsExtendWhatWasRead
<1>1. ASSUME ApiInv, Next, NEW r \in Request,
             request[r].at = "commit", request'[r].at = "done"
      PROVE  /\ messages[request[r].conv] = request[r].history
             /\ owner[request[r].conv] = request[r].client
             /\ "wiki_query" \notin request[r].steps => request[r].sources \subseteq index
  <2>1. request[r].version = version
    BY <1>1, OnlyCommits DEF ApiInv, Commit, Current
  <2>2. Reads(r)
    BY <1>1 DEF ApiInv, ReadInv
  <2>3. QED
    BY <1>1, <2>1, <2>2 DEF Reads, Snapped
<1>2. ApiInv /\ [Next]_vars
        => [\A r \in Request :
              request[r].at = "commit" /\ request'[r].at = "done" =>
                /\ messages[request[r].conv] = request[r].history
                /\ owner[request[r].conv] = request[r].client
                /\ "wiki_query" \notin request[r].steps => request[r].sources \subseteq index]_vars
  BY <1>1
<1>3. QED
  BY <1>2, ApiCorrect, PTL DEF Spec, CommitsExtendWhatWasRead
=============================================================================
