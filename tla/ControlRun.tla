----------------------------- MODULE ControlRun -----------------------------
(***************************************************************************)
(* The control runs of one conversation of the after-sales service, under  *)
(* the policy m3-decision/1: what one customer message makes the graph of  *)
(* conversation.py do between begin_run and the end of the turn, and the   *)
(* operator's decisions between two messages.                              *)
(*                                                                         *)
(* A run is a loop of decisions of an untrusted model.  A clarification    *)
(* pauses it; the next message continues it with a new policy that knows   *)
(* nothing but the recorded observations.  An action ends it, through the  *)
(* grounding gate.  Conversation models how a turn is committed; here a    *)
(* turn that fails before the gateway leaves nothing behind.               *)
(***************************************************************************)
EXTENDS Naturals, Sequences, FiniteSets, FiniteSetsExt, SequencesExt

CONSTANTS
    Order, Item,    \* of this customer
    OrderOf,        \* the order that each item is linked to
    MaxMessages,    \* customer messages of one conversation
    MaxSteps,       \* decisions of one run
    RetryCap,       \* attempts of one identical call in a run
    Recent,         \* how many earlier replies a model is shown
    None            \* no run, no submission, no records

\* What the model may propose: any item under any order.
Action == [order : Order, item : Item]

Reading(o)    == [tool |-> "get_order", about |-> o]
ReadKnowledge == [tool |-> "search_knowledge_base", about |-> None]
ReadPending   == [tool |-> "get_my_pending_requests", about |-> None]
Call          == {Reading(o) : o \in Order} \cup {ReadKnowledge, ReadPending}

\* The open run, what became of the first submission of an action, and a recorded read.
Runs         == [index : 1 .. MaxMessages, start : Nat, used : 0 .. MaxSteps]
Submissions  == [run : 1 .. MaxMessages, anchored : BOOLEAN]
Found        == [items : {None} \cup SUBSET Item, waits : SUBSET Action]
Observations == [run : 1 .. MaxMessages, step : 1 .. MaxSteps, turn : 1 .. MaxMessages,
                 id : Nat \X Nat, call : Call, result : Found]

ASSUME ControlAssumption ==
    /\ MaxMessages \in Nat /\ MaxSteps \in Nat \ {0} /\ RetryCap \in Nat /\ Recent \in Nat
    /\ None \notin Runs \cup Submissions

VARIABLES
    core,     \* the gateway: what it holds of each action's key
    conv,     \* the conversation as the turn has left it so far
    saved,    \* the conversation to restore when the turn fails
    at,       \* "idle", or "decide" inside a turn
    queue,    \* the policy of this request: accepted calls not yet issued
    native,   \*   and the envelopes of the calls it issued, by control step
    sent,     \* history: the submissions that reached the gateway
    answer,   \* history: what the last answer said is pending, and what was
    broke     \* history: a decision was refused to a well-behaved loop

policy == <<queue, native>>
history == <<sent, answer, broke>>
vars == <<core, conv, saved, at, policy, history>>

Fresh == [messages |-> 0, runs |-> 0, tools |-> 0, run |-> None, obs |-> <<>>,
          replies |-> <<>>, tracked |-> {}, first |-> [a \in Action |-> None]]

Init ==
    /\ core = [a \in Action |-> "none"]
    /\ conv = Fresh /\ saved = Fresh
    /\ at = "idle"
    /\ queue = <<>> /\ native = <<>>
    /\ sent = {} /\ answer = None /\ broke = FALSE

-----------------------------------------------------------------------------
(* What a decision sees *)

\* The observations of the open run; those of earlier runs are behind its start.
Seen == SubSeq(conv.obs, conv.run.start + 1, Len(conv.obs))

NextStep == conv.run.used + 1

Remaining == MaxSteps - NextStep + 1

Attempts(c) == Cardinality({k \in DOMAIN Seen : Seen[k].call = c})

Waiting == {a \in conv.tracked : core[a] = "waiting"}

-----------------------------------------------------------------------------
(* One native response: any sequence of calls, well formed or not.          *)

Says(fn, what, fit) == [fn |-> fn, says |-> what, valid |-> fit]

\* A call that is not offered, or whose arguments its schema refuses, is not valid.
Calls ==
    UNION {[fn : {"read"}, says : Call, valid : BOOLEAN],
           [fn : {"act"}, says : Action, valid : BOOLEAN],
           [fn : {"ask"}, says : {None}, valid : BOOLEAN],
           [fn : {"finish"}, says : {"answer", "refuse", "boundary"}, valid : BOOLEAN]}

Reads(r) == \A k \in DOMAIN r : r[k].fn = "read" /\ r[k].valid

\* Seeded fault: the repeats inside one batch are not counted.
WithinCapApart(r, k) == Attempts(r[k].says) < RetryCap

WithinCap(r, k) ==
    Attempts(r[k].says) + Cardinality({j \in 1 .. k - 1 : r[j].says = r[k].says}) < RetryCap

\* A read batch is accepted whole and leaves a step for the decision after it; an
\* action, a question and a disposition stand alone; the last step offers no question.
\* Whatever else a model answers ends the run as a refusal.
Accepted(r) ==
    \/ /\ r # <<>> /\ Reads(r)
       /\ Len(r) <= Remaining - 1
       /\ \A k \in DOMAIN r : WithinCap(r, k)
    \/ /\ Len(r) = 1 /\ r[1].valid
       /\ r[1].fn \in {"act", "finish"} \/ (r[1].fn = "ask" /\ Remaining > 1)

-----------------------------------------------------------------------------
(* The history a model is shown: the run's observations turn by turn, those *)
(* of this request under the calls the model made, the others under         *)
(* synthetic ones, and the latest replies after the messages they answered. *)

Matches(o) == o.step \in DOMAIN native /\ native[o.step].call = o.call

\* A batch of this request is replayed whole and in its order.
Rebuilds ==
    \A k \in DOMAIN Seen : Seen[k].turn = conv.messages =>
        /\ Matches(Seen[k])
        /\ native[Seen[k].step].index < k
        /\ LET head == k - native[Seen[k].step].index
           IN  /\ head \in DOMAIN Seen
               /\ native[Seen[k].step].batch = Seen[head].step

Shown(replies) == SubSeq(replies, Len(replies) - Min({Recent, Len(replies)}) + 1, Len(replies))

\* A reply is shown before the message that follows the one it answered.
RepliesFit == \A k \in DOMAIN Shown(saved.replies) : Shown(saved.replies)[k] < conv.messages

QueueFits ==
    /\ Seen # <<>> /\ Last(Seen).step = NextStep - 1
    /\ Matches(Last(Seen))
    /\ Remaining >= 2

-----------------------------------------------------------------------------
(* Turns *)

Reply(c) == [c EXCEPT !.replies = Append(@, c.messages)]

\* The turn ends and becomes the head.
EndTurn(c) ==
    /\ conv' = c /\ saved' = c
    /\ at' = "idle" /\ queue' = <<>> /\ native' = <<>>

\* Seeded fault: a new run starts where the previous one had started.
BegunBefore(c) ==
    IF c.run # None THEN c
    ELSE [c EXCEPT !.runs = @ + 1,
                   !.run = [index |-> c.runs + 1, start |-> 0, used |-> 0]]

\* The message continues the paused run, or starts the next one at step 1.
Begun(c) ==
    IF c.run # None THEN c
    ELSE [c EXCEPT !.runs = @ + 1,
                   !.run = [index |-> c.runs + 1, start |-> Len(c.obs), used |-> 0]]

BeginRun ==
    /\ at = "idle" /\ conv.messages < MaxMessages
    /\ conv' = Begun([conv EXCEPT !.messages = @ + 1])
    /\ at' = "decide"
    /\ UNCHANGED <<core, saved, policy, history>>

\* A pure greeting outside a run is answered without one.
Smalltalk ==
    /\ at = "idle" /\ conv.run = None /\ conv.messages < MaxMessages
    /\ EndTurn(Reply([conv EXCEPT !.messages = @ + 1]))
    /\ UNCHANGED <<core, history>>

\* A full conversation refuses every message and stays viewable.
ConversationFull ==
    /\ at = "idle" /\ conv.messages = MaxMessages
    /\ UNCHANGED vars

\* A provider that fails, a reader that raises, a gateway that rolls back.
TurnFails ==
    /\ at = "decide"
    /\ conv' = saved
    /\ at' = "idle" /\ queue' = <<>> /\ native' = <<>>
    /\ UNCHANGED <<core, saved, history>>

-----------------------------------------------------------------------------
(* Decisions *)

Stepped == [conv EXCEPT !.run.used = NextStep]

\* The business record of an order with the items it now lists, nothing usable (not
\* found, failed, malformed), or the session's requests that wait for approval.
Results(c) ==
    CASE c.tool = "get_order" ->
           {[items |-> found, waits |-> {}] :
              found \in {None} \cup SUBSET {i \in Item : OrderOf[i] = c.about}}
      [] c.tool = "get_my_pending_requests" -> {[items |-> None, waits |-> Waiting]}
      [] c.tool = "search_knowledge_base" -> {[items |-> None, waits |-> {}]}

\* The number of the read in the conversation.
ToolStep == conv.tools + 1

Observation(c, result) ==
    [run |-> conv.run.index, step |-> NextStep, turn |-> conv.messages,
     id |-> <<conv.messages, ToolStep>>, call |-> c, result |-> result]

Read(c) ==
    /\ \E result \in Results(c) :
         conv' = [Stepped EXCEPT !.tools = ToolStep, !.obs = Append(@, Observation(c, result))]
    /\ UNCHANGED <<core, saved, at, history>>

Remember(r) ==
    LET batch == NextStep .. NextStep + Len(r) - 1
    IN  native' = [s \in DOMAIN native \cup batch |->
            IF s \in batch
            THEN [call |-> r[s - NextStep + 1].says, batch |-> NextStep, index |-> s - NextStep]
            ELSE native[s]]

\* The next call of the accepted batch, without asking the model again.
Drain ==
    /\ at = "decide" /\ queue # <<>> /\ QueueFits
    /\ Read(Head(queue))
    /\ queue' = Tail(queue)
    /\ UNCHANGED native

\* The run pauses: it stays open in the head.
Clarify ==
    /\ EndTurn(Reply(Stepped))
    /\ UNCHANGED <<core, history>>

\* Seeded fault: every pending read of the run is a source.
PendingOfAnyRead ==
    UNION {Seen[k].result.waits : k \in {j \in DOMAIN Seen : Seen[j].call = ReadPending}}

\* Of the run's reads of the pending requests only the latest is a source.
PendingSource == LET reads == {j \in DOMAIN Seen : Seen[j].call = ReadPending}
                 IN  Seen[Max(reads)].result.waits

AskedNow == \E k \in DOMAIN Seen : Seen[k].call = ReadPending /\ Seen[k].turn = conv.messages

\* An answer is written from the run's observations and from nothing earlier.
GenerateAnswer ==
    answer' = IF AskedNow THEN [said |-> PendingSource, waited |-> Waiting] ELSE None

\* Any other disposition is a fixed text, and so is an answer that cannot be given.
Finish(disposition) ==
    /\ EndTurn(Reply([Stepped EXCEPT !.run = None]))
    /\ (disposition = "answer" /\ GenerateAnswer) \/ answer' = None
    /\ UNCHANGED <<core, sent, broke>>

\* The route of a run that has no step left.
StepLimit ==
    /\ at = "decide" /\ conv.run.used >= MaxSteps
    /\ EndTurn(Reply([conv EXCEPT !.run = None]))
    /\ UNCHANGED <<core, history>>

-----------------------------------------------------------------------------
(* The grounding gate and the gateway *)

\* Seeded fault: the latest read that succeeded counts.
LatestUsable(o) ==
    {k \in DOMAIN Seen : Seen[k].call = Reading(o) /\ Seen[k].result.items # None
       /\ \A j \in k + 1 .. Len(Seen) :
            ~(Seen[j].call = Reading(o) /\ Seen[j].result.items # None)}

\* The latest read of the order in this run, whatever came of it.
Latest(o) ==
    {k \in DOMAIN Seen : Seen[k].call = Reading(o)
       /\ \A j \in k + 1 .. Len(Seen) : Seen[j].call # Reading(o)}

Grounded(a) ==
    \E k \in Latest(a.order) :
        Seen[k].result.items # None /\ a.item \in Seen[k].result.items

Anchored(a) == conv.first[a] # None /\ conv.first[a].anchored

GroundingRejected(a) ==
    /\ ~ Anchored(a) /\ ~ Grounded(a)
    /\ EndTurn(Reply([Stepped EXCEPT !.run = None]))
    /\ UNCHANGED <<core, history>>

\* The gateway answers a key it holds with what it holds.  Of a new one it keeps a
\* pending request, a receipt, or, when it denied it or failed, nothing.
StartAction(a) ==
    \E held \in IF core[a] = "none" THEN {"waiting", "done", "none"} ELSE {core[a]} :
        /\ core' = [core EXCEPT ![a] = held]
        /\ LET ended == [Stepped EXCEPT
                  !.run = None,
                  !.tracked = IF held = "waiting" THEN @ \cup {a} ELSE @,
                  !.first = IF Anchored(a) THEN @
                            ELSE [@ EXCEPT ![a] = [run |-> conv.run.index,
                                                   anchored |-> held # "none"]]]
           IN  EndTurn(Reply(ended))

Submit(a) ==
    /\ Anchored(a) \/ Grounded(a)
    /\ StartAction(a)
    /\ sent' = sent \cup {[action |-> a, run |-> conv.run.index, upto |-> Len(conv.obs),
                           held |-> core[a] # "none"]}
    /\ UNCHANGED <<answer, broke>>

-----------------------------------------------------------------------------
\* One response of the model, at a step where it is asked.
Respond(r) ==
    \/ /\ Accepted(r) /\ r[1].fn = "read"
       /\ Read(r[1].says)
       /\ Remember(r) /\ queue' = Tail([k \in DOMAIN r |-> r[k].says])
    \/ Accepted(r) /\ r[1].fn = "ask" /\ Clarify
    \/ Accepted(r) /\ r[1].fn = "finish" /\ Finish(r[1].says)
    \/ Accepted(r) /\ r[1].fn = "act" /\ (Submit(r[1].says) \/ GroundingRejected(r[1].says))
    \/ ~ Accepted(r) /\ Finish("refuse")

Asks == at = "decide" /\ queue = <<>> /\ conv.run.used < MaxSteps

Decide(r) == Asks /\ Rebuilds /\ RepliesFit /\ Respond(r)

\* The loop finds its own history inconsistent: the turn fails.
ProtocolError ==
    /\ at = "decide"
    /\ IF queue # <<>> THEN ~ QueueFits ELSE ~ (Rebuilds /\ RepliesFit)
    /\ conv' = saved /\ at' = "idle" /\ queue' = <<>> /\ native' = <<>>
    /\ broke' = TRUE
    /\ UNCHANGED <<core, saved, sent, answer>>

\* The operator decides between two messages, also while a run is paused, on a pending
\* request whose submission is bound: approved and executed, or closed.
OperatorDecides(a) ==
    /\ at = "idle"
    /\ a \in conv.tracked /\ core[a] = "waiting" /\ conv.first[a] # None
    /\ core' \in {[core EXCEPT ![a] = how] : how \in {"done", "closed"}}
    /\ conv' = Reply(conv) /\ saved' = conv'
    /\ UNCHANGED <<at, policy, history>>

\* A model may answer with any sequence of calls.
Next ==
    \/ BeginRun \/ Smalltalk \/ ConversationFull \/ TurnFails
    \/ Drain \/ StepLimit \/ ProtocolError
    \/ \E r \in Seq(Calls) : Decide(r)
    \/ \E a \in Action : OperatorDecides(a)

Spec == Init /\ [][Next]_vars

-----------------------------------------------------------------------------
(* Properties *)

Conv == [messages : 0 .. MaxMessages, runs : Nat, tools : Nat, run : Runs \cup {None},
         obs : Seq(Observations), replies : Seq(Nat), tracked : SUBSET Action,
         first : [Action -> Submissions \cup {None}]]

\* TYPE: the conversation, the gateway and the request's policy.
TypeOK ==
    /\ core \in [Action -> {"none", "waiting", "done", "closed"}]
    /\ conv \in Conv /\ saved \in Conv
    /\ at \in {"idle", "decide"}
    /\ queue \in Seq(Call)
    /\ DOMAIN native \subseteq 1 .. MaxSteps
    /\ native \in [DOMAIN native -> [call : Call, batch : 1 .. MaxSteps, index : Nat]]
    /\ sent \subseteq [action : Action, run : 1 .. MaxMessages, upto : Nat, held : BOOLEAN]
    /\ answer \in [said : SUBSET Action, waited : SUBSET Action] \cup {None}
    /\ broke \in BOOLEAN

\* ActionsAreGrounded: what reaches the gateway is a replay of what it holds already,
\* or an action whose order was read in the same run, the latest of those reads listing
\* its item: not a read of an earlier run, of before a failed turn, or one that a later
\* read of the same run did not confirm.  And every pending request can be decided: its
\* submission is bound and will be replayed.
ActionsAreGrounded ==
    /\ \A s \in sent : s.held \/
         \E k \in 1 .. s.upto :
            /\ conv.obs[k].run = s.run /\ conv.obs[k].call = Reading(s.action.order)
            /\ conv.obs[k].result.items # None
            /\ s.action.item \in conv.obs[k].result.items
            /\ \A j \in k + 1 .. s.upto :
                 ~(conv.obs[j].run = s.run /\ conv.obs[j].call = conv.obs[k].call)
    /\ \A a \in conv.tracked : Anchored(a)

AttemptsIn(n, c) == Cardinality({k \in DOMAIN conv.obs : conv.obs[k].run = n /\ conv.obs[k].call = c})

\* RunsKeepTheProtocol: across pauses, each with a new policy, no decision finds its
\* history or its batch inconsistent, no run makes an identical call more often than the
\* cap or reaches a decision without a step left for it, every read has an id of its own,
\* and an answer after reading the pending requests in its turn names those that wait,
\* whatever an operator decided since the run read them before.
RunsKeepTheProtocol ==
    /\ ~ broke
    /\ \A n \in 1 .. conv.runs : \A c \in Call : AttemptsIn(n, c) <= RetryCap
    /\ at = "decide" => conv.run.used < MaxSteps
    /\ \A j, k \in DOMAIN conv.obs : conv.obs[j].id = conv.obs[k].id => j = k
    /\ answer # None => answer.said = answer.waited
=============================================================================
