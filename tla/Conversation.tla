----------------------------- MODULE Conversation -----------------------------
(***************************************************************************)
(* One after-sales conversation over crashes and failures                  *)
(* (aftersales_service/conversation.py, with the start-up scan of          *)
(* service.py): the control run of a turn, the commit protocol around the  *)
(* gateway, the operator's decision, loading, recovery and reconciliation. *)
(*                                                                         *)
(* A request holds the conversation's lock from beginning to end, so there *)
(* is one thread of control; "at" says where it is.  Every durable write   *)
(* is a step of its own and a crash or a failure may come between any two. *)
(* Durable are the rows of the gateway's database and the session file,    *)
(* which is replaced atomically.  A checkpoint is immutable and stored     *)
(* before its id is written anywhere, so an id stands for the content.     *)
(*                                                                         *)
(* The gateway is the one of ActionGateway seen by one conversation: the   *)
(* keys are scoped to the conversation, so nobody else moves their rows,   *)
(* and what the Guard decides on a fresh key is left open.                 *)
(***************************************************************************)
EXTENDS Naturals, FiniteSets

CONSTANTS
    Key,         \* idempotency keys: the actions this conversation may propose
    MaxMessages, \* MAX_CUSTOMER_MESSAGES
    MaxSteps,    \* STAGE6_MAX_STEPS, the decisions of one control run
    Faults,      \* the kinds of failure that happen
    MaxFaults,   \* bound: how many of them
    None         \* no marker, no key, no entry

FaultKinds == {"turn",    \* the policy, the provider or a tool raises
               "file",    \* a checkpoint or the session file cannot be read or written
               "raised",  \* the gateway raises: its transaction was rolled back
               "failed",  \* the gateway rolls a submission back and answers FAILED
               "decision", \* it rolls a step of the operator back and answers FAILED
               "crash"}   \* the process dies

ASSUME ConversationAssumption ==
    /\ MaxMessages \in Nat /\ MaxSteps \in Nat \ {0} /\ MaxFaults \in Nat
    /\ Faults \subseteq FaultKinds
    /\ None \notin Key

VARIABLES
    row,      \* the gateway's row of each key
    file,     \* the session file: the head and the in-flight marker
    fields,   \* the object's fields
    loaded,   \* whether they are the materialized view of the head
    at,       \* where the request is
    job,      \* what the request wants
    work,     \* the state of the graph run in progress
    key,      \* the key it acts on
    entry,    \* the outcome it will report
    before,   \* history: the rows when the request's own work began
    answer,   \* history: how the last request ended
    told,     \* history: the outcomes that callers were told
    faults    \* history: the failures so far

durable  == <<row, file>>
memory   == <<fields, loaded>>
request  == <<job, work, key, entry>>
vars     == <<durable, memory, at, request, before, answer, told, faults>>

Open     == {"PENDING_APPROVAL", "APPROVED"}
Ended    == {"REJECTED", "EXECUTED", "STALE", "DENIED", "FAILED"}
\* "receipt": executed at once, without a pending row.
RowStates == {"none", "receipt"} \cup Open \cup Ended

\* The status an ActionOutcome reports for a row.
Status(r) == CASE r \in Open      -> "WAITING_APPROVAL"
               [] r = "receipt"   -> "EXECUTED"
               [] OTHER           -> r

\* Transcript entries that report an outcome: the reply to a submission, and the
\* operator's decision, whose event id is the key and the status.
Entries == [kind: {"reply", "event"}, key: Key, status: Ended \cup {"WAITING_APPROVAL"}]
Event(k, status) == [kind |-> "event", key |-> k, status |-> status]

\* _snapshot: the customer messages, the open run (0, or one more than the
\* decisions it has used), the first outcome of each submission, the tracked
\* pending actions, those believed open, and the outcome entries.
Views == [msgs: 0..MaxMessages, run: 0..(MaxSteps + 1),
          first: [Key -> {"none", "WAITING_APPROVAL", "EXECUTED", "DENIED", "FAILED"}],
          actions: SUBSET Key, open: SUBSET Key, log: SUBSET Entries]

Markers == [key: Key, view: Views]

\* A missing entry or marker is none.
ASSUME MarkerAssumption == None \notin Entries \cup Markers

EmptyView == [msgs |-> 0, run |-> 0, first |-> [k \in Key |-> "none"],
              actions |-> {}, open |-> {}, log |-> {}]

\* SubmissionIndex.anchored: the core will replay this key.
Anchored(view, k) == view.first[k] \in {"WAITING_APPROVAL", "EXECUTED"}

\* _track: the open-pending list follows the row.
Track(view, k, r) ==
    [view EXCEPT !.open = IF r \in Open THEN @ \cup {k} ELSE @ \ {k}]

Fails(kind) == kind \in Faults /\ faults < MaxFaults /\ faults' = faults + 1

Ends(result) == at' = "idle" /\ answer' = result

-----------------------------------------------------------------------------
\* Conversation.create has written the first head and its session file.
Init ==
    /\ row = [k \in Key |-> "none"]
    /\ file = [head |-> EmptyView, inflight |-> None]
    /\ fields = EmptyView /\ loaded = TRUE
    /\ at = "idle" /\ job = "view"
    /\ work = EmptyView /\ key = None /\ entry = None
    /\ before = row /\ answer = "none" /\ told = {} /\ faults = 0

\* A request takes the lock; one on an unloaded conversation loads it first.
Ask(wanted) ==
    /\ at = "idle"
    /\ job' = wanted
    /\ at' = IF loaded THEN "ready" ELSE "load"
    /\ work' = EmptyView /\ key' = None /\ entry' = None
    /\ before' = row /\ answer' = "none"
    /\ UNCHANGED <<durable, memory, told, faults>>

\* The start-up scan asks only for the conversations whose file has a marker.
Restart ==
    /\ at = "down"
    /\ job' = "scan"
    /\ at' = IF file.inflight = None THEN "idle" ELSE "load"
    /\ before' = row
    /\ UNCHANGED <<durable, memory, work, key, entry, answer, told, faults>>

Crash ==
    /\ at # "down"
    /\ Fails("crash")
    /\ at' = "down" /\ answer' = "none"
    /\ fields' = EmptyView /\ loaded' = FALSE
    /\ work' = EmptyView /\ key' = None /\ entry' = None
    /\ UNCHANGED <<durable, job, before, told>>

View ==
    /\ at = "ready" /\ job \in {"view", "scan"}
    /\ Ends("view")
    /\ UNCHANGED <<durable, memory, request, before, told, faults>>

-----------------------------------------------------------------------------
(* The graph of one customer message *)

Full ==
    /\ at = "ready" /\ job = "message"
    /\ fields.msgs >= MaxMessages
    /\ Ends("conversation_full")
    /\ UNCHANGED <<durable, memory, request, before, told, faults>>

\* submit_smalltalk: a greeting outside a run becomes the next head.
Smalltalk ==
    /\ at = "ready" /\ job = "message"
    /\ fields.msgs < MaxMessages /\ fields.run = 0
    /\ fields' = [fields EXCEPT !.msgs = @ + 1]
    /\ file' = [head |-> fields', inflight |-> None]
    /\ Ends("reply")
    /\ UNCHANGED <<row, loaded, request, before, told, faults>>

\* A new run, or the one that waits for an answer.
BeginRun ==
    /\ at = "ready" /\ job = "message"
    /\ fields.msgs < MaxMessages
    /\ work' = [fields EXCEPT !.msgs = @ + 1, !.run = IF @ = 0 THEN 1 ELSE @]
    /\ at' = "decide"
    /\ UNCHANGED <<durable, memory, job, key, entry, before, answer, told, faults>>

StepLimit ==
    /\ at = "decide"
    /\ work.run > MaxSteps
    /\ work' = [work EXCEPT !.run = 0]
    /\ at' = "ended"
    /\ UNCHANGED <<durable, memory, job, key, entry, before, answer, told, faults>>

\* One decision of the run: a read and then the next decision, a question that
\* leaves the run open, or the end of the run without an action.
Decide(route) ==
    /\ at = "decide"
    /\ work.run <= MaxSteps
    /\ work' = [work EXCEPT !.run = IF route \in {"read", "clarify"} THEN @ + 1 ELSE 0]
    /\ at' = IF route = "read" THEN "decide" ELSE "ended"
    /\ UNCHANGED <<durable, memory, job, key, entry, before, answer, told, faults>>

\* A grounded action, or one that the core will replay, stops before the gateway.
Ground(k) ==
    /\ at = "decide"
    /\ work.run <= MaxSteps
    /\ work' = [work EXCEPT !.run = 0]
    /\ key' = k
    /\ at' = "stopped"
    /\ UNCHANGED <<durable, memory, job, entry, before, answer, told, faults>>

\* Whatever fails before the gateway runs: the fields are restored, the branch
\* of the graph is never read.
TurnFails ==
    /\ \/ /\ at = "ready" /\ job = "message"
          /\ fields.msgs < MaxMessages
       \/ at \in {"decide", "ended", "stopped"}
    /\ Fails("turn") \/ Fails("file")
    /\ Ends("turn_failed")
    /\ UNCHANGED <<durable, memory, request, before, told>>

\* Seeded fault: the gateway runs without a marker.
ForgetMarker ==
    /\ at = "stopped"
    /\ at' = "marked"
    /\ UNCHANGED <<durable, memory, request, before, answer, told, faults>>

\* The in-flight marker, before any business write can exist.
Mark ==
    /\ at = "stopped"
    /\ file' = [file EXCEPT !.inflight = [key |-> key, view |-> work]]
    /\ at' = "marked"
    /\ UNCHANGED <<row, memory, request, before, answer, told, faults>>

-----------------------------------------------------------------------------
(* The gateway node *)

\* start_action: a key with a row is replayed; on a fresh key the Guard denies,
\* asks for an approval or executes.
Starts(k, status, r) ==
    \/ /\ row[k] # "none" /\ status = Status(row[k]) /\ r = row[k]
       /\ UNCHANGED faults
    \/ /\ row[k] = "none"
       /\ <<status, r>> \in {<<"DENIED", "none">>, <<"EXECUTED", "receipt">>,
                             <<"WAITING_APPROVAL", "PENDING_APPROVAL">>}
       /\ UNCHANGED faults
    \/ status = "FAILED" /\ r = row[k] /\ Fails("failed")

\* A new submission is indexed, the first outcome that leaves a replay anchor
\* for good; an outcome with a pending id is tracked.
Recorded(view, k, status, r) ==
    LET submitted == [view EXCEPT
            !.first[k] = IF Anchored(view, k) THEN @ ELSE status,
            !.log = @ \cup {[kind |-> "reply", key |-> k, status |-> status]}]
    IN  IF status = "FAILED" \/ r \in {"none", "receipt"} THEN submitted
        ELSE Track([submitted EXCEPT !.actions = @ \cup {k}], k, r)

Submits(k, view) ==
    \E status \in Ended \cup {"WAITING_APPROVAL"}, r \in RowStates :
      /\ Starts(k, status, r)
      /\ row' = [row EXCEPT ![k] = r]
      /\ work' = Recorded(view, k, status, r)
      /\ entry' = [kind |-> "reply", key |-> k, status |-> status]

RunGateway ==
    /\ at = "marked"
    /\ Submits(key, work)
    /\ at' = "returned"
    /\ UNCHANGED <<file, memory, job, key, before, answer, told>>

\* start_action raised or never ran: nothing to recover, the marker is cleared.
GatewayRaises ==
    /\ at = "marked"
    /\ Fails("raised")
    /\ at' = "clearing"
    /\ UNCHANGED <<durable, memory, request, before, answer, told>>

ClearMarker ==
    /\ at = "clearing"
    /\ file' = [file EXCEPT !.inflight = None]
    /\ Ends("turn_failed")
    /\ UNCHANGED <<row, memory, request, before, told, faults>>

\* _commit: the new head and the cleared marker in one replace; then the reply.
Commit ==
    /\ at \in {"ended", "returned"}
    /\ file' = [head |-> work, inflight |-> None]
    /\ fields' = work
    /\ at' = "reply"
    /\ UNCHANGED <<row, loaded, request, before, answer, told, faults>>

\* Seeded fault: the reply leaves before the head is written.
ReplyEarly ==
    /\ at \in {"returned", "reply"}
    /\ told' = IF entry = None THEN told ELSE told \cup {entry}
    /\ Ends("reply")
    /\ UNCHANGED <<durable, memory, request, before, faults>>

Reply ==
    /\ at = "reply"
    /\ told' = IF entry = None THEN told ELSE told \cup {entry}
    /\ Ends("reply")
    /\ UNCHANGED <<durable, memory, request, before, faults>>

\* The answer is built from the audit table and may fail after the commit.
ReplyFails ==
    /\ at = "reply"
    /\ Fails("raised")
    /\ Ends("error")
    /\ UNCHANGED <<durable, memory, request, before, told>>

\* A failure that a restored snapshot cannot cover: the object is dropped, the
\* marker stays.
Discards ==
    /\ loaded' = FALSE
    /\ Ends("error")
    /\ UNCHANGED <<durable, fields, request, before, told>>

CommitFails ==
    /\ at \in {"returned", "clearing"}
    /\ Fails("file")
    /\ Discards

-----------------------------------------------------------------------------
(* decide: the operator's decision, T1 and T2 of the gateway, then the head *)

Deciding(k) ==
    /\ at = "ready" /\ job \in {"APPROVE", "REJECT"}
    /\ k \in fields.actions

\* Only this conversation's tracked actions can be decided.
DecideUnknown ==
    /\ at = "ready" /\ job \in {"APPROVE", "REJECT"}
    /\ fields.actions # Key
    /\ Ends("pending_action_not_found")
    /\ UNCHANGED <<durable, memory, request, before, told, faults>>

\* T1 on an undecided row; an APPROVE goes on to T2.
RecordDecision(k) ==
    /\ Deciding(k)
    /\ row[k] = "PENDING_APPROVAL"
    /\ key' = k
    /\ IF job = "APPROVE"
       THEN /\ row' = [row EXCEPT ![k] = "APPROVED"]
            /\ at' = "approved" /\ UNCHANGED entry
       ELSE /\ row' = [row EXCEPT ![k] = "REJECTED"]
            /\ at' = "decided" /\ entry' = Event(k, "REJECTED")
    /\ UNCHANGED <<file, memory, job, work, before, answer, told, faults>>

\* T1 on a decided row changes nothing.  APPROVE of a row that is still APPROVED
\* goes on to T2; any other is a replay or a conflict, and no news.
RepeatDecision(k) ==
    /\ Deciding(k)
    /\ row[k] # "PENDING_APPROVAL"
    /\ key' = k
    /\ at' = IF job = "APPROVE" /\ row[k] = "APPROVED" THEN "approved" ELSE "decided"
    /\ UNCHANGED <<durable, memory, job, work, entry, before, answer, told, faults>>

\* T1 rolled back and answered FAILED, which is news once.
DecisionFails(k) ==
    /\ Deciding(k)
    /\ Fails("decision")
    /\ key' = k /\ entry' = Event(k, "FAILED")
    /\ at' = "decided"
    /\ UNCHANGED <<durable, memory, job, work, before, answer, told>>

\* T2: the Guard executes, denies or finds the request stale.
Execute ==
    /\ at = "approved"
    /\ \E status \in {"EXECUTED", "STALE", "DENIED"} :
         /\ row' = [row EXCEPT ![key] = status]
         /\ entry' = Event(key, status)
    /\ at' = "decided"
    /\ UNCHANGED <<file, memory, job, work, key, before, answer, told, faults>>

\* T2 rolled back; its compensation is best effort.
ExecuteFails ==
    /\ at = "approved"
    /\ Fails("decision")
    /\ row' \in {row, [row EXCEPT ![key] = "FAILED"]}
    /\ entry' = Event(key, "FAILED")
    /\ at' = "decided"
    /\ UNCHANGED <<file, memory, job, work, key, before, answer, told>>

\* The fresh outcome becomes an entry and the head moves; an open clarification
\* stays open.
SaveDecision ==
    /\ at = "decided"
    /\ fields' = [Track(fields, key, row[key]) EXCEPT
                     !.log = IF entry = None THEN @ ELSE @ \cup {entry}]
    /\ file' = [head |-> fields', inflight |-> None]
    /\ at' = "reply"
    /\ UNCHANGED <<row, loaded, request, before, answer, told, faults>>

\* From resume_action on, the database may hold what the head does not.
DecideFails ==
    /\ \/ at = "ready" /\ job \in {"APPROVE", "REJECT"}
       \/ at \in {"approved", "decided"}
    /\ Fails("raised") \/ Fails("file")
    /\ Discards

-----------------------------------------------------------------------------
(* ensure_loaded *)

\* Seeded fault: a marker is left alone while the conversation loads.
LoadPastMarker ==
    /\ at = "load"
    /\ fields' = file.head
    /\ at' = "reconcile"
    /\ UNCHANGED <<durable, loaded, request, before, answer, told, faults>>

LoadHead ==
    /\ at = "load"
    /\ fields' = file.head
    /\ at' = IF file.inflight = None THEN "reconcile" ELSE "recover"
    /\ UNCHANGED <<durable, loaded, request, before, answer, told, faults>>

\* _recover runs only the gateway, from the marked checkpoint.
RecoverGateway ==
    /\ at = "recover"
    /\ Submits(file.inflight.key, file.inflight.view)
    /\ at' = "recovered"
    /\ UNCHANGED <<file, memory, job, key, before, answer, told>>

RecoverCommit ==
    /\ at = "recovered"
    /\ file' = [head |-> work, inflight |-> None]
    /\ fields' = work
    /\ entry' = None
    /\ at' = "reconcile"
    /\ UNCHANGED <<row, loaded, job, work, key, before, answer, told, faults>>

\* Seeded fault: reconciliation refreshes the open list and reports nothing.
Refreshed(view) == [view EXCEPT !.open = {k \in view.actions : row[k] \in Open}]

\* Every tracked action as the gateway has it now, each end reported once.
Reconciled(view) ==
    [view EXCEPT !.open = {k \in view.actions : row[k] \in Open},
                 !.log  = @ \cup {Event(k, Status(row[k])) :
                                  k \in {m \in view.actions : row[m] \notin Open}}]

Reconcile ==
    /\ at = "reconcile"
    /\ fields' = Reconciled(fields)
    /\ IF fields' = fields
       THEN at' = "ready" /\ loaded' = TRUE
       ELSE at' = "saving" /\ UNCHANGED loaded
    /\ before' = row
    /\ UNCHANGED <<durable, request, answer, told, faults>>

SaveReconciled ==
    /\ at = "saving"
    /\ file' = [head |-> fields, inflight |-> None]
    /\ loaded' = TRUE
    /\ at' = "ready"
    /\ before' = row
    /\ UNCHANGED <<row, fields, request, answer, told, faults>>

\* Any failure leaves the conversation unloaded: the next request tries again.
LoadFails ==
    /\ at \in {"load", "recover", "recovered", "reconcile", "saving"}
    /\ Fails("file") \/ Fails("raised")
    /\ Ends("recovery_pending")
    /\ UNCHANGED <<durable, memory, request, before, told>>

-----------------------------------------------------------------------------
Jobs == {"view", "message", "APPROVE", "REJECT"}

Turn ==
    \/ Full \/ Smalltalk \/ BeginRun \/ StepLimit
    \/ \E route \in {"read", "clarify", "finish", "rejected"} : Decide(route)
    \/ \E k \in Key : Ground(k)
    \/ Mark \/ RunGateway \/ ClearMarker \/ Commit \/ Reply

Decision ==
    \/ DecideUnknown
    \/ \E k \in Key : RecordDecision(k) \/ RepeatDecision(k)
    \/ Execute \/ SaveDecision

Load == LoadHead \/ RecoverGateway \/ RecoverCommit \/ Reconcile \/ SaveReconciled

Failure ==
    \/ TurnFails \/ GatewayRaises \/ CommitFails \/ ReplyFails \/ LoadFails
    \/ \E k \in Key : DecisionFails(k)
    \/ ExecuteFails \/ DecideFails \/ Crash

Work == View \/ Turn \/ Decision \/ Load

Next == (\E wanted \in Jobs : Ask(wanted)) \/ Work \/ Failure \/ Restart

\* The process runs and is restarted after a crash, and somebody comes back to
\* the conversation.
Fairness ==
    /\ WF_vars(Work)
    /\ WF_vars(Restart)
    /\ WF_vars(\E wanted \in Jobs : Ask(wanted))

Spec == Init /\ [][Next]_vars
FairSpec == Spec /\ Fairness

-----------------------------------------------------------------------------
(* Properties *)

\* TYPE: the fields hold what their tables, files and Python types admit; the first
\* outcome of a submission is one of those that start_action gives a fresh key.
TypeOK ==
    /\ row \in [Key -> RowStates] /\ before \in [Key -> RowStates]
    /\ file \in [head: Views, inflight: Markers \cup {None}]
    /\ fields \in Views /\ work \in Views /\ loaded \in BOOLEAN
    /\ at \in {"idle", "down", "load", "recover", "recovered", "reconcile", "saving",
              "ready", "decide", "ended", "stopped", "marked", "clearing", "returned",
              "reply", "approved", "decided"}
    /\ job \in Jobs \cup {"scan"} /\ key \in Key \cup {None}
    /\ entry \in Entries \cup {None} /\ told \subseteq Entries
    /\ answer \in {"none", "view", "reply", "error", "conversation_full", "turn_failed",
                  "pending_action_not_found", "recovery_pending"}
    /\ faults \in 0..MaxFaults

\* LoadedIsCurrent: between requests a loaded conversation is the view of its committed
\* head and no marker is unresolved, however its last request ended: a failure past
\* the point of no return must have unloaded it.  What it believes of every tracked
\* action is what the gateway has, and an ended one has its entry in the transcript,
\* also when the decision was made by a request that never came back.
LoadedIsCurrent ==
    /\ loaded /\ at \in {"idle", "ready"} => fields = file.head /\ file.inflight = None
    /\ loaded /\ at = "idle" =>
        \A k \in fields.actions :
            /\ k \in fields.open <=> row[k] \in Open
            /\ row[k] \notin Open => Event(k, Status(row[k])) \in fields.log

MarkerNames(k) == file.inflight # None /\ file.inflight.key = k

\* EffectsAreRecorded: a row of the gateway is in the committed head, or the marker
\* leads recovery to it.
EffectsAreRecorded ==
    \A k \in Key : row[k] # "none" => Anchored(file.head, k) \/ MarkerNames(k)

\* EffectsAreAccounted: the same under every kind of failure, except for a submission
\* that the customer's transcript reports as FAILED.  Every tracked action has the
\* submission that created its pending row, so an operator's decision is never refused
\* as ungrounded.  A turn that answers TurnFailed wrote no row and left no marker,
\* wherever it failed.
EffectsAreAccounted ==
    /\ \A k \in Key : row[k] # "none" =>
        \/ Anchored(file.head, k) \/ MarkerNames(k)
        \/ [kind |-> "reply", key |-> k, status |-> "FAILED"] \in file.head.log
    /\ \A k \in file.head.actions : file.head.first[k] = "WAITING_APPROVAL"
    /\ at = "idle" /\ answer = "turn_failed" => row = before /\ file.inflight = None

\* ToldIsTrue: an outcome that a caller was told is in every later committed head, and
\* the transcript never reports an effect, a rejection or a stale request that the
\* gateway does not have, nor a pending one before it exists.
ToldIsTrue ==
    /\ told \subseteq file.head.log
    /\ \A e \in file.head.log :
        /\ e.status = "EXECUTED" => row[e.key] \in {"EXECUTED", "receipt"}
        /\ e.status \in {"REJECTED", "STALE"} => row[e.key] = e.status
        /\ e.kind = "event" /\ e.status = "DENIED" => row[e.key] = "DENIED"
        /\ e.status = "WAITING_APPROVAL" => row[e.key] # "none"

\* NoForkPastMarker: while a marker stands the session file is written only to resolve
\* it: by the outcome of the marked submission on the marked checkpoint, or, when the
\* gateway wrote nothing, by clearing it on the same head.  Without one, decisions,
\* views and loading never consume a message, advance or end an open run, or submit.
NoForkPastMarker ==
    [][/\ file.inflight # None /\ file' # file =>
         /\ file'.inflight = None
         /\ \/ file'.head = file.head /\ row = before
            \/ \E status \in Ended \cup {"WAITING_APPROVAL"} :
                  LET k == file.inflight.key
                  IN  file'.head = Recorded(file.inflight.view, k, status, row[k])
       /\ job # "message" /\ file.inflight = None =>
         /\ file'.head.msgs = file.head.msgs
         /\ file'.head.run = file.head.run
         /\ file'.head.first = file.head.first
      ]_vars

\* RecoveryCompletes: a marked submission is resolved once failures stop, by the
\* start-up scan or the next request, and the end of a tracked action reaches the
\* committed transcript, also when the request that caused it died.
RecoveryCompletes ==
    /\ file.inflight # None ~> file.inflight = None
    /\ \A k \in Key :
        k \in file.head.actions /\ row[k] \in Ended
            ~> Event(k, Status(row[k])) \in file.head.log

\* StartupRecords: what the design promises of a start-up: every business effect is
\* recorded in the conversation once the scan is over (it does not hold).
StartupRecords ==
    job = "scan" /\ at = "idle" =>
        \A k \in file.head.actions :
            row[k] = "EXECUTED" => Event(k, "EXECUTED") \in file.head.log
=============================================================================
