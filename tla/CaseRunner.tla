----------------------------- MODULE CaseRunner -----------------------------
(***************************************************************************)
(* One control run of the V2 evaluation: the runner's loop                 *)
(* (src/eval_v2/runner.py) under ANY control policy, and the gateway every *)
(* tool call goes through, which replaces the calls the case declares      *)
(* faulty (src/eval_v2/faults.py).  The runner and the gateway keep        *)
(* separate books of the same calls: the runner its observations, the      *)
(* gateway its ledger and, for every declared fault, the matching calls so *)
(* far.                                                                    *)
(*                                                                         *)
(* The provider-native tool loop (src/eval_v2/tool_loop.py) as the policy  *)
(* of such a run: a model answers every decision with any sequence of      *)
(* native calls, well formed or not.  A response with several runtime      *)
(* calls is a batch, accepted or refused whole, whose calls the policy     *)
(* issues one per control step without asking the model again; afterwards  *)
(* the conversation is rebuilt from the observations and from the wire     *)
(* envelopes the policy kept of the calls.                                 *)
(***************************************************************************)
EXTENDS Naturals, Sequences, FiniteSets, FiniteSetsExt, SequencesExt, TLC

CONSTANTS
    Call,           \* a runtime tool with arguments its schema accepts
    Foreign,        \* a call the registry or the argument schema refuses
    Slot,           \* the clarification slots
    Disposition,    \* the final outcomes
    Turns,          \* the slots each conditional user turn answers, in case order
    Plans,          \* the fault declarations of the cases
    MaxSteps,       \* decisions of one run
    None            \* no fault, no disposition, no turn

Outcomes == [error |-> "error", timeout |-> "error", malformed |-> "malformed"]
Fault    == [match : SUBSET Call, mode : DOMAIN Outcomes, on_call : Nat \ {0}]

(* What the case contract and the gateway's own check accept: no two          *)
(* declarations with the same match and the same count.                       *)
Applicable(plan) ==
    \A i, j \in DOMAIN plan :
        plan[i].match = plan[j].match /\ plan[i].on_call = plan[j].on_call => i = j

ASSUME CaseAssumption ==
    /\ MaxSteps \in Nat \ {0}
    /\ Foreign \notin Call
    /\ Turns \in Seq(SUBSET Slot)
    /\ Plans \subseteq Seq(Fault) /\ \A plan \in Plans : Applicable(plan)
    /\ None \notin Disposition /\ None \notin Nat

VARIABLES
    plan,       \* the gateway: the declared faults,
    counts,     \*   their matching calls so far,
    ledger,     \*   the calls that reached the handlers
    stopped,    \*   and whether a configuration error stopped it
    step,       \* the runner: decisions asked for,
    delivered,  \*   the case turns delivered, in order (0 is the first one),
    waiting,    \*   the conditional turns not yet delivered,
    obs,        \*   the observations,
    clar,       \*   the clarifications,
    sequence,   \*   the event counter,
    ended       \*   how the run ended and with which disposition

gateway == <<plan, counts, ledger, stopped>>
runner  == <<step, delivered, waiting, obs, clar, sequence, ended>>
vars    == <<gateway, runner>>

Running == ended = [how |-> "running", disposition |-> None]
End(how, disposition) == ended' = [how |-> how, disposition |-> disposition]

Init ==
    /\ plan \in Plans
    /\ counts = [i \in DOMAIN plan |-> 0] /\ ledger = <<>> /\ stopped = FALSE
    /\ step = 0 /\ delivered = <<0>> /\ waiting = DOMAIN Turns
    /\ obs = <<>> /\ clar = <<>> /\ sequence = 0
    /\ ended = [how |-> "running", disposition |-> None]

-----------------------------------------------------------------------------
(* The gateway's boundary: every declaration the call matches counts it, the *)
(* one whose turn it is replaces the handler, and two at once stop the run   *)
(* before anything is counted.                                               *)
Matched(c) == {i \in DOMAIN plan : c \in plan[i].match}
Due(c)     == {i \in Matched(c) : counts[i] + 1 = plan[i].on_call}

(* Seeded fault: a call another fault takes over is not counted. *)
CountedUnlessInjected(c) ==
    [i \in DOMAIN plan |-> counts[i] +
        IF i \in Matched(c) /\ (Due(c) = {} \/ i \in Due(c)) THEN 1 ELSE 0]

Counted(c) == [i \in DOMAIN plan |-> counts[i] + IF i \in Matched(c) THEN 1 ELSE 0]

Entry(id, c, fault) == [id |-> id, call |-> c, fault |-> fault]

(* A structural name: the delivered message and the call's number in the run. *)
ObservationId == <<Len(delivered), Len(obs) + 1>>

(* The real handlers answer, find nothing, or fail; a failure of theirs, a    *)
(* declared error and a declared timeout are all error results.               *)
HandlerStatus == {"ok", "empty", "error"}

Observation(n, c, status) ==
    [sequence |-> sequence + 1, step |-> n, turn |-> Len(delivered),
     id |-> ObservationId, call |-> c, status |-> status]

Observe(n, c, fault, status) ==
    /\ counts' = Counted(c)
    /\ ledger' = Append(ledger, Entry(ObservationId, c, fault))
    /\ obs' = Append(obs, Observation(n, c, status))
    /\ sequence' = sequence + 1
    /\ UNCHANGED <<plan, stopped, delivered, waiting, clar, ended>>

(* The call went through, with the handler's own answer. *)
Delegate(n, c) ==
    /\ c \in Call /\ Due(c) = {}
    /\ \E status \in HandlerStatus : Observe(n, c, None, status)

(* The declared fault took the handler's place.  A malformed result has no   *)
(* ToolResult: the executor raises and the runner records a contract failure *)
(* when the ledger shows that this very call was the injected one.           *)
Inject(n, c) ==
    /\ c \in Call
    /\ \E i \in Due(c) :
        /\ Due(c) = {i}
        /\ Observe(n, c, i, Outcomes[plan[i].mode])

(* The executor refuses an unknown tool and arguments outside the schema. *)
Refused(c) == c = Foreign

(* Faults are never chosen by their order: two due on one call stop the gateway. *)
Overdue(c) == c \in Call /\ Cardinality(Due(c)) > 1

(* The call never reached a handler.  Both errors propagate and end the run   *)
(* without a record.                                                          *)
Reject(c) ==
    /\ Refused(c) \/ Overdue(c)
    /\ stopped' = (stopped \/ Overdue(c))
    /\ End("raised", None)
    /\ UNCHANGED <<plan, counts, ledger, delivered, waiting, obs, clar, sequence>>

CallTool(n, c) == Delegate(n, c) \/ Inject(n, c) \/ Reject(c)

-----------------------------------------------------------------------------
(* A clarification is answered by the first undelivered conditional turn that *)
(* answers every requested slot; without one the run ends.                    *)
Answering(slots) == {t \in waiting : slots \subseteq Turns[t]}

Asked(n, slots, t) ==
    /\ clar' = Append(clar, [sequence |-> sequence + 1, step |-> n,
                             slots |-> slots, turn |-> t])
    /\ sequence' = sequence + 1
    /\ UNCHANGED <<gateway, obs>>

Clarify(n, slots) ==
    \/ /\ Answering(slots) # {}
       /\ LET t == Min(Answering(slots)) IN
            /\ waiting' = waiting \ {t}
            /\ delivered' = Append(delivered, t)
            /\ Asked(n, slots, t)
       /\ UNCHANGED ended
    \/ /\ Answering(slots) = {}
       /\ End("unanswered_clarification", None)
       /\ Asked(n, slots, None)
       /\ UNCHANGED <<waiting, delivered>>

Finish(disposition) ==
    /\ End("finished", disposition)
    /\ UNCHANGED <<gateway, delivered, waiting, obs, clar, sequence>>

(* What a policy may return, and what the runner does with it at step n.     *)
Action ==      [kind : {"call"}, says : Call \cup {Foreign}]
          \cup [kind : {"clarify"}, says : SUBSET Slot \ {{}}]
          \cup [kind : {"finish"}, says : Disposition]

Perform(n, a) ==
    /\ step' = n
    /\ \/ a.kind = "call" /\ CallTool(n, a.says)
       \/ a.kind = "clarify" /\ Clarify(n, a.says)
       \/ a.kind = "finish" /\ Finish(a.says)

CanStep == Running /\ step < MaxSteps

Decide == CanStep /\ \E a \in Action : Perform(step + 1, a)

(* The policy itself failed: a provider outage, an action outside the         *)
(* contract, or a protocol error.  The step was counted, nothing was recorded.*)
PolicyRaises ==
    /\ CanStep /\ step' = step + 1
    /\ End("raised", None)
    /\ UNCHANGED <<gateway, delivered, waiting, obs, clar, sequence>>

(* Seeded fault: nothing stops a run that used its steps. *)
NothingStops == FALSE /\ UNCHANGED vars

OutOfSteps ==
    /\ Running /\ step = MaxSteps
    /\ End("max_steps_exceeded", None)
    /\ UNCHANGED <<gateway, step, delivered, waiting, obs, clar, sequence>>

Next == Decide \/ PolicyRaises \/ OutOfSteps

Spec     == Init /\ [][Next]_vars
FairSpec == Spec /\ WF_vars(Next)
-----------------------------------------------------------------------------
TypeOK ==
    /\ plan \in Plans
    /\ counts \in [DOMAIN plan -> 0 .. MaxSteps]
    /\ ledger \in Seq([id : Nat \X Nat, call : Call, fault : DOMAIN plan \cup {None}])
    /\ stopped \in BOOLEAN
    /\ step \in 0 .. MaxSteps
    /\ delivered \in Seq({0} \cup DOMAIN Turns)
    /\ waiting \subseteq DOMAIN Turns
    /\ obs \in Seq([sequence : Nat, step : 1 .. MaxSteps, turn : Nat, id : Nat \X Nat,
                    call : Call, status : HandlerStatus \cup {"malformed"}])
    /\ clar \in Seq([sequence : Nat, step : 1 .. MaxSteps, slots : SUBSET Slot,
                     turn : DOMAIN Turns \cup {None}])
    /\ sequence \in 0 .. MaxSteps
    /\ ended.how \in {"running", "finished", "unanswered_clarification",
                      "max_steps_exceeded", "raised"}

(* The record's own accounting (runner.py record): the run that ended with a  *)
(* record has one event for every decision it counted, whatever the policy    *)
(* did; otherwise record() raises after the whole run.                        *)
StepsAddUp ==
    ended.how # "raised" =>
        step = Len(obs) + Len(clar) + IF ended.how = "finished" THEN 1 ELSE 0

(* The runner's and the gateway's books agree: every observation is one call  *)
(* of the ledger under its own id and nothing else is in the ledger, no two    *)
(* share an id, and an observation is malformed exactly when the ledger's     *)
(* entry is an injected malformed result.                                     *)
LedgerMatchesObservations ==
    /\ Len(ledger) = Len(obs)
    /\ \A k \in DOMAIN obs :
        /\ ledger[k].id = obs[k].id /\ ledger[k].call = obs[k].call
        /\ obs[k].status = "malformed" <=>
             ledger[k].fault # None /\ plan[ledger[k].fault].mode = "malformed"
    /\ \A j, k \in DOMAIN obs : obs[j].id = obs[k].id => j = k

(* A declared fault strikes once: at its n-th matching call and at no other,  *)
(* however many calls other faults took over and whichever turn they fell in. *)
FaultsStrikeOnTheirCall ==
    \A i \in DOMAIN plan : \A k \in DOMAIN ledger :
        ledger[k].fault = i <=>
            /\ ledger[k].call \in plan[i].match
            /\ plan[i].on_call =
                 Cardinality({j \in 1 .. k : ledger[j].call \in plan[i].match})

Answered == {k \in DOMAIN clar : clar[k].turn # None}

(* The policy never sees a conditional turn before a clarification delivered  *)
(* it, and no turn answers two: the delivered turns are the first one and     *)
(* those the clarifications name, in that order, each once.                   *)
TurnsAreAnswered ==
    /\ delivered[1] = 0 /\ Len(delivered) = 1 + Cardinality(Answered)
    /\ \A k \in Answered :
         delivered[1 + Cardinality({j \in Answered : j <= k})] = clar[k].turn
    /\ IsInjective(delivered)
    /\ \A k \in Answered : clar[k].slots \subseteq Turns[clar[k].turn]

(* An observation belongs to the message that was the latest when its call    *)
(* was made: read in event order, turns never go back, and every clarification*)
(* answered before a call has its turn counted in that call's.                *)
CallsFollowTheirMessage ==
    \A k \in DOMAIN obs :
        obs[k].turn = 1 + Cardinality({j \in DOMAIN clar :
            clar[j].turn # None /\ clar[j].sequence < obs[k].sequence})

(* The record of a run is consistent in every part, under any policy: the     *)
(* events add up to the steps, the two books agree, faults strike at their     *)
(* own call, and turns are delivered once and to the clarification they answer.*)
RecordIsSound ==
    /\ StepsAddUp /\ LedgerMatchesObservations /\ FaultsStrikeOnTheirCall
    /\ TurnsAreAnswered /\ CallsFollowTheirMessage

-----------------------------------------------------------------------------

CONSTANTS
    Responses,      \* BOUND: the native responses of the model
    RetryCap,       \* attempts of one identical call in a run
    Refuse          \* the disposition a refused response ends in

(* A native call: a runtime tool, one of the two control functions or an     *)
(* unknown name, and how its arguments fit what the function takes.          *)
Native ==
         [fn : {"tool"}, says : Call, fit : {"valid", "identity", "invalid"}]
    \cup [fn : {"ask_user"}, says : SUBSET Slot \ {{}}, fit : {"valid", "invalid"}]
    \cup [fn : {"finish"}, says : Disposition, fit : {"valid", "invalid"}]
    \cup [fn : {"unknown"}, says : {None}, fit : {"invalid"}]

ASSUME LoopAssumption ==
    /\ Responses \subseteq Seq(Native)
    /\ RetryCap \in Nat \ {0}
    /\ Refuse \in Disposition

VARIABLES
    formal,     \* a formal evaluation replays native ids or stops
    ids,        \* whether the provider gives its calls an id
    native,     \* control step -> the wire envelope of the call issued there
    pending,    \* accepted batch calls not yet issued
    decisions,  \* one record per model call
    broke       \* what made the policy raise

policy   == <<formal, ids, native, pending, decisions, broke>>
loopVars == <<vars, policy>>

LoopInit ==
    /\ Init
    /\ formal \in BOOLEAN /\ ids \in BOOLEAN
    /\ native = <<>> /\ pending = <<>> /\ decisions = <<>> /\ broke = "nothing"

Remaining(n) == MaxSteps - n + 1

(* Seeded fault: the last step offers everything. *)
OfferedAlways(n) == {"finish", "tool", "ask_user"}

(* On the last step only finish is offered. *)
Offered(n) ==
    {"finish"} \cup IF Remaining(n) > 1 THEN {"tool", "ask_user"} ELSE {}
-----------------------------------------------------------------------------
(* What one response means at step n.  The checks run in this order, and the *)
(* first one that fails names the diagnostic; the calls of a batch are       *)
(* checked one after the other, each counting the ones before it.            *)
Attempts(c) == Cardinality({k \in DOMAIN obs : obs[k].call = c})

Earlier(r, k) == Cardinality({j \in 1 .. k - 1 : r[j].says = r[k].says})

CallFault(r, k) ==
    IF r[k].fit = "identity" THEN "identity_argument"
    ELSE IF r[k].fit = "invalid" THEN "invalid_arguments"
    ELSE IF Attempts(r[k].says) + Earlier(r, k) >= RetryCap THEN "retry_cap_exceeded"
    ELSE "nothing"

(* A batch leaves the model one more decision. *)
BatchRoom(n) == Remaining(n) - 1

BatchFault(r) ==
    LET faulty == {k \in DOMAIN r : CallFault(r, k) # "nothing"}
    IN  IF faulty = {} THEN "nothing" ELSE CallFault(r, Min(faulty))

Names(r) == {r[k].fn : k \in DOMAIN r}

Diagnosis(n, r) ==
    CASE r = <<>>                                       -> "no_tool_call"
      [] r # <<>> /\ "unknown" \in Names(r)             -> "unknown_function"
      [] Len(r) > 1 /\ "unknown" \notin Names(r)
           /\ Names(r) # {"tool"}                       -> "multiple_tool_calls"
      [] Names(r) = {"tool"} \/ (Len(r) = 1 /\ "unknown" \notin Names(r)) ->
           IF ~ Names(r) \subseteq Offered(n) THEN "function_not_offered"
           ELSE IF Names(r) = {"tool"} THEN
                IF Len(r) > BatchRoom(n) THEN "batch_exceeds_step_budget"
                ELSE BatchFault(r)
           ELSE IF r[1].fit = "invalid" THEN
                IF r[1].fn = "ask_user" THEN "invalid_ask_user_slots"
                ELSE "invalid_finish_disposition"
           ELSE "nothing"

(* The first action of an accepted response; a refused one is always the     *)
(* single action Finish("refuse").                                           *)
Translated(r) ==
    [kind |-> CASE r[1].fn = "tool" -> "call" [] r[1].fn = "ask_user" -> "clarify"
                [] r[1].fn = "finish" -> "finish",
     says |-> r[1].says]

-----------------------------------------------------------------------------
(* Rebuilding the conversation: turn by turn, an observation that an envelope *)
(* matches opens a native response, which must follow whole and in order; a   *)
(* formal run replays native ids only.                                        *)
Matches(s, o) == s \in DOMAIN native /\ native[s].call = o.call

Members(b) == SetToSortSeq({s \in DOMAIN native : native[s].batch = b}, <)

TurnReplays(t) ==
    LET os == SelectSeq(obs, LAMBDA o : o.turn = t)
        from[i \in 1 .. Len(os) + 1] ==
            IF i = Len(os) + 1 THEN TRUE
            ELSE IF ~ Matches(os[i].step, os[i]) THEN ~ formal /\ from[i + 1]
            ELSE LET ms == Members(native[os[i].step].batch) IN
                 /\ native[os[i].step].index = 0
                 /\ i + Len(ms) <= Len(os) + 1
                 /\ \A k \in DOMAIN ms : Matches(ms[k], os[i + k - 1])
                 /\ formal => \A k \in DOMAIN ms : native[ms[k]].id
                 /\ from[i + Len(ms)]
    IN  from[1]

Replays == \A t \in DOMAIN delivered : TurnReplays(t)

(* The queue still belongs to what was observed: the previous batch call has *)
(* its one observation, the latest, whatever its status.                      *)
QueueMatches(n) ==
    /\ obs # <<>> /\ Last(obs).step = n - 1
    /\ Matches(n - 1, Last(obs))
    /\ Remaining(n) >= 2

-----------------------------------------------------------------------------
Issue(n) ==
    /\ QueueMatches(n)
    /\ Perform(n, [kind |-> "call", says |-> Head(pending)])
    /\ pending' = Tail(pending)
    /\ UNCHANGED <<formal, ids, native, decisions, broke>>

Drain == CanStep /\ pending # <<>> /\ Issue(step + 1)

Envelope(n, r, k) == [call |-> r[k].says, batch |-> n, index |-> k - 1, id |-> ids]

Remembered(n, r) ==
    [s \in DOMAIN native \cup (n .. n + Len(r) - 1) |->
        IF s \in DOMAIN native THEN native[s] ELSE Envelope(n, r, s - n + 1)]

Record(n, r, diagnosis) ==
    decisions' = Append(decisions, [step |-> n, calls |-> Len(r), diagnostic |-> diagnosis])

Accept(n, r) ==
    /\ Diagnosis(n, r) = "nothing"
    /\ Perform(n, Translated(r))
    /\ IF r[1].fn = "tool" THEN native' = Remembered(n, r) /\ pending' = Tail([k \in DOMAIN r |-> r[k].says])
       ELSE UNCHANGED <<native, pending>>

Decline(n, r) ==
    /\ Diagnosis(n, r) # "nothing"
    /\ Perform(n, [kind |-> "finish", says |-> Refuse])
    /\ UNCHANGED <<native, pending>>

AskModel ==
    /\ CanStep /\ pending = <<>> /\ Replays
    /\ \E r \in Responses :
        /\ Accept(step + 1, r) \/ Decline(step + 1, r)
        /\ Record(step + 1, r, Diagnosis(step + 1, r))
    /\ UNCHANGED <<formal, ids, broke>>

(* A provider outage propagates; a history or a queue that cannot be replayed *)
(* is a protocol error.  Neither is a refusal.                                *)
Break(why) ==
    /\ PolicyRaises
    /\ broke' = why
    /\ UNCHANGED <<formal, ids, native, pending, decisions>>

ProviderFails == pending = <<>> /\ Replays /\ Break("provider")

CannotReplay == (IF pending = <<>> THEN ~ Replays ELSE ~ QueueMatches(step + 1))
                    /\ Break("protocol")

LoopStep == Drain \/ AskModel \/ ProviderFails \/ CannotReplay

LoopNext == LoopStep \/ (OutOfSteps /\ UNCHANGED policy)

LoopSpec == LoopInit /\ [][LoopNext]_loopVars
-----------------------------------------------------------------------------
LoopTypeOK ==
    /\ TypeOK
    /\ formal \in BOOLEAN /\ ids \in BOOLEAN
    /\ DOMAIN native \subseteq 1 .. MaxSteps
    /\ pending \in Seq(Call)
    /\ broke \in {"nothing", "provider", "protocol"}

(* A model that is offered only finish on the last step, refused when it      *)
(* answers anything else and never given a batch that reaches that step,      *)
(* cannot use up its budget without a disposition: max_steps_exceeded is for  *)
(* other policies only.                                                       *)
NeverRunsOut == ended.how # "max_steps_exceeded"

(* A batch is atomic: every call of an accepted response has exactly one       *)
(* observation, at its own step and with the call the model made, before the   *)
(* model is asked again or the run ends with a record - whatever the calls of  *)
(* the same batch returned, and whatever faults struck them.                   *)
BatchesRunWhole ==
    /\ \A k \in DOMAIN obs : Matches(obs[k].step, obs[k])
    /\ ended.how # "raised" /\ pending = <<>> =>
         {obs[k].step : k \in DOMAIN obs} = DOMAIN native

(* No identical call is attempted more than RetryCap times in a run, counting  *)
(* failed attempts, attempts in earlier turns and repeats inside one batch.    *)
RetriesAreCapped == \A c \in Call : Attempts(c) <= RetryCap

(* The conversation can always be rebuilt exactly: a protocol error is left to *)
(* a formal run on a provider that gives its calls no ids.                     *)
HistoryReplays == broke = "protocol" => formal /\ ~ ids

(* What the protocol promises of a conversation with a model. *)
ProtocolHolds == NeverRunsOut /\ BatchesRunWhole /\ RetriesAreCapped /\ HistoryReplays

(* A formal run with native ids ends with what the model or the case decided,  *)
(* with a refusal, or with an outage or a mistake in the case's own faults.    *)
HasVerdict ==
    \/ ended.how \in {"finished", "unanswered_clarification"}
    \/ broke = "provider" \/ stopped
=============================================================================
