----------------------------- MODULE Stage6Case -----------------------------
(***************************************************************************)
(* One case-run of the Stage 6 evaluation on a database of its own: the    *)
(* main run submits an action under req-1, then the trusted operator       *)
(* script decides, mutates, lets time pass, restarts and submits again     *)
(* (src/eval_v2/stage6_runner.py, stage6_runtime.py).  The gateway is seen *)
(* as the harness sees it: transactions that cross the points where the    *)
(* case may inject a fault, their rows, outcomes and audit.  All actions   *)
(* are about one order item.                                               *)
(*                                                                         *)
(* What the scorer of the Stage 6 evaluation concludes from a case-run     *)
(* (src/eval_v2/stage6_scoring.py, the links of stage6_state.py) when the  *)
(* case is labelled with what the run did, and which labels the case       *)
(* contract admits (src/eval/v2/stage6_case_contract.py).                  *)
(***************************************************************************)
EXTENDS Naturals, Sequences, FiniteSets, FiniteSetsExt, SequencesExt

CONSTANTS
    Plans,          \* the action_faults of the cases
    MaxEvents,      \* events of one script
    MaxVersion,     \* of the order's record
    MaxTime,        \* business instants
    Window,         \* the last instant at which the policy allows the actions
    None            \* no row, no outcome, no gateway, no action

Action  == {"return", "exchange"}
Request == {"req-1", "req-2"}
RequestKey == Request \X Action

\* The risk policy sends a return to an operator and allows an exchange.
NeedsApproval(k) == k[2] = "return"

Open     == {"PENDING_APPROVAL", "APPROVED"}
Reads    == {"order", "pendings"}
Capture  == <<"order", "pendings", "policy_catalog">>
Writing  == <<"business_write", "receipt_write">>
Commit   == <<"commit">>

VARIABLES
    case,       \* the path of the case-run and its fault declarations
    world,      \* business time, the order's version, a case opened by the shop
    rows,       \* pending rows, receipts and cases of the gateway
    calls,      \* the injector: matching calls of each declaration so far,
    fired,      \*   and how often each one fired
    gateway,    \* the gateway object: the instant of its clock, or none
    main,       \* the main run: its action, outcome and observed Guard decision
    script,     \* the events so far with their outcomes
    at          \* "main", "script", or "raised"

vars == <<case, world, rows, calls, fired, gateway, main, script, at>>

Init ==
    /\ case \in [path : {"reference", "policy"}, plan : Plans]
    /\ world = [now |-> 1, version |-> 1, rival |-> FALSE]
    /\ rows = [pending |-> [k \in RequestKey |-> None], receipts |-> {}, cases |-> {}]
    /\ calls = [i \in DOMAIN case.plan |-> 0] /\ fired = calls
    /\ gateway = None
    /\ main = [did |-> None, outcome |-> None, guard |-> None, audit |-> <<>>]
    /\ script = <<>>
    /\ at = "main"

-----------------------------------------------------------------------------
(* The injector: one counter per declaration over the whole case-run.  A    *)
(* transaction that crosses the points p stops at the first one where a     *)
(* declaration is due.                                                       *)
Hits(fault, point) == fault.at = point \/ (fault.at = "guard_read" /\ point \in Reads)

Matching(i, p, k) == Cardinality({j \in 1 .. k : Hits(case.plan[i], p[j])})

Due(c, p, k) == {i \in DOMAIN case.plan : Hits(case.plan[i], p[k])
                                            /\ c[i] + Matching(i, p, k) = case.plan[i].on_call}

Stops(c, p)   == {k \in DOMAIN p : Due(c, p, k) # {}}
Crossed(c, p) == IF Stops(c, p) = {} THEN Len(p) ELSE Min(Stops(c, p))

\* Seeded fault: only the calls that went through are counted.
CountedWhenThrough(c, p) ==
    [i \in DOMAIN c |-> c[i] + IF Stops(c, p) = {} THEN Matching(i, p, Len(p)) ELSE 0]

Counted(c, p) == [i \in DOMAIN c |-> c[i] + Matching(i, p, Crossed(c, p))]

\* Two declarations due on one Guard read abort the case-run.
Clash(c, p) == Stops(c, p) # {} /\ Cardinality(Due(c, p, Crossed(c, p))) > 1

Code(c, p) ==
    LET point == p[Crossed(c, p)]
        malformed == \E i \in Due(c, p, Crossed(c, p)) : case.plan[i].mode = "malformed"
    IN  IF point \in Reads THEN (IF malformed THEN "state_malformed" ELSE "state_read_failed")
        ELSE IF point = "policy_catalog" THEN "policy_unavailable"
        ELSE IF point = "commit" THEN "transaction_failed" ELSE "write_failed"

GuardFailures == {"state_malformed", "state_read_failed", "policy_unavailable"}

-----------------------------------------------------------------------------
(* The gateway's transactions.  A result holds the rows and the counters     *)
(* after it, its outcome, the audit it left and the decision it observed.    *)
Outcome(k, status, code) ==
    [key |-> k, status |-> status, code |-> code, replay |-> FALSE, conflict |-> FALSE,
     recorded |-> FALSE]

Result(db, c, outcome, audit) ==
    [rows |-> db, calls |-> c, outcome |-> outcome, audit |-> audit, guard |-> None,
     struck |-> {}, raised |-> FALSE]

\* Everything or nothing: a struck transaction leaves what compensates it, an audit
\* trail for a submission, for the execution of an approved request also its failure.
Transaction(c, p, done, undone, key, attempt, guard) ==
    LET struck == Stops(c, p) # {}
        code   == Code(c, p)
        trail  == <<IF code \in GuardFailures THEN "guard.failed" ELSE "transaction.rolled_back",
                    "action.not_executed">>
        decided == p # Commit /\ Crossed(c, p) > Len(Capture)
        base    == IF ~struck THEN done
                   ELSE Result(IF attempt = "execution" THEN [undone EXCEPT !.pending[key] =
                                    [@ EXCEPT !.status = "FAILED", !.code = code]] ELSE undone,
                               c, Outcome(key, "FAILED", code), IF attempt = "decision" THEN <<>> ELSE trail)
    IN  [base EXCEPT !.calls = Counted(c, p),
                     !.guard = IF decided THEN guard ELSE None,
                     !.struck = IF struck THEN Due(c, p, Crossed(c, p)) ELSE {},
                     !.raised = Clash(c, p)]

Receipts(db, k) == {r \in db.receipts : r.key = k}

\* What the Guard reads: the item, its cases, the open requests but this one, the day.
Denied(db, now, excluded) ==
    \/ world.rival \/ db.cases # {} \/ now > Window
    \/ \E k \in RequestKey \ excluded : db.pending[k] # None /\ db.pending[k].status \in Open

Snapshot(db) == [version |-> world.version, rival |-> world.rival, cases |-> db.cases]

Executed(db, k, guard) ==
    [db EXCEPT !.cases = @ \cup {k},
               !.receipts = @ \cup {[key |-> k, guard |-> guard, pending |-> db.pending[k] # None]}]

\* The stored outcome of a pending row.
Stored(k, row) ==
    [Outcome(k, IF row.status \in Open THEN "WAITING_APPROVAL" ELSE row.status, row.code)
        EXCEPT !.recorded = row.status = "APPROVED"]

Replayed(outcome) == [outcome EXCEPT !.replay = TRUE]

Start(db, c, k, now) ==
    LET denied   == Denied(db, now, {})
        guard    == IF denied THEN "DENY" ELSE IF NeedsApproval(k) THEN "REQUIRE_APPROVAL" ELSE "ALLOW"
        row      == [status |-> "PENDING_APPROVAL", decision |-> None, at |-> None, code |-> None,
                     seen |-> Snapshot(db)]
        stored   == IF Receipts(db, k) # {} THEN Outcome(k, "EXECUTED", None) ELSE Stored(k, db.pending[k])
        done(outcome, after, last) == Result(after, c, outcome, <<"guard.evaluated", last>>)
    IN  IF Receipts(db, k) # {} \/ db.pending[k] # None
        THEN Transaction(c, Commit, Result(db, c, Replayed(stored), <<"action.replay_hit">>), db, k, "submission", None)
        ELSE Transaction(c, Capture \o (IF guard = "ALLOW" THEN Writing ELSE <<>>) \o Commit,
                CASE guard = "DENY"  -> done(Outcome(k, "DENIED", "denied"), db, "action.not_executed")
                  [] guard = "ALLOW" -> done(Outcome(k, "EXECUTED", None), Executed(db, k, guard), "action.executed")
                  [] OTHER -> done(Outcome(k, "WAITING_APPROVAL", None), [db EXCEPT !.pending[k] = row],
                                   "action.pending_created"),
                db, k, "submission", guard)

\* T1: the first decision is recorded, the same one again is a replay, the other one
\* a conflict.
RecordDecision(db, c, k, verdict) ==
    LET row      == db.pending[k]
        approved == verdict = "APPROVE"
        next     == [row EXCEPT !.status = IF approved THEN "APPROVED" ELSE "REJECTED", !.decision = verdict,
                                !.at = world.now, !.code = IF approved THEN None ELSE "approval_rejected"]
        same     == row.decision = verdict
        done     == IF row.status = "PENDING_APPROVAL"
                    THEN Result([db EXCEPT !.pending[k] = next], c, Stored(k, next),
                                <<"approval.recorded">> \o IF approved THEN <<>> ELSE <<"action.not_executed">>)
                    ELSE IF same THEN Result(db, c, Replayed(Stored(k, row)), <<"action.replay_hit">>)
                    ELSE Result(db, c, [Stored(k, row) EXCEPT !.conflict = TRUE], <<"approval.conflict">>)
    IN  Transaction(c, Commit, done, db, k, "decision", None)

\* T2: nothing before a decision; an end is replayed; else the snapshot, the Guard and
\* the writes.
Execute(db, c, k, now) ==
    LET row    == db.pending[k]
        ends(status, code) == [db EXCEPT !.pending[k] = [@ EXCEPT !.status = status, !.code = code]]
        stale  == row.seen # Snapshot(db)
        denied == Denied(db, now, {k})
        guard  == IF denied THEN "DENY" ELSE "REQUIRE_APPROVAL"
        status == IF stale THEN "STALE" ELSE IF denied THEN "DENIED" ELSE "EXECUTED"
        code   == CASE stale -> "record_version_changed" [] denied /\ ~stale -> "denied" [] OTHER -> None
        check  == <<"resume.started", IF stale THEN "mismatch" ELSE "match">>
                    \o (IF stale THEN <<>> ELSE <<"guard.evaluated">>)
                    \o <<IF status = "EXECUTED" THEN "action.executed" ELSE "action.not_executed">>
        after  == IF status = "EXECUTED" THEN Executed(ends(status, code), k, guard) ELSE ends(status, code)
    IN  CASE row.status = "PENDING_APPROVAL" -> Result(db, c, None, <<>>)
          [] row.status = "APPROVED" ->
                Transaction(c, Capture \o (IF status = "EXECUTED" THEN Writing ELSE <<>>) \o Commit,
                            Result(after, c, Outcome(k, status, code), check), db, k, "execution",
                            IF stale THEN None ELSE guard)
          [] OTHER -> Transaction(c, Commit, Result(db, c, Replayed(Stored(k, row)), <<"action.replay_hit">>),
                                  db, k, "decision", None)

\* resume_action: T1, and T2 when an APPROVE stands and waits.
Resume(db, c, k, verdict, now) ==
    LET first  == RecordDecision(db, c, k, verdict)
        second == Execute(first.rows, first.calls, k, now)
    IN  IF verdict = "APPROVE" /\ first.outcome.status = "WAITING_APPROVAL" /\ first.outcome.recorded
              /\ ~first.outcome.conflict
        THEN [second EXCEPT !.audit = first.audit \o @, !.struck = @ \cup first.struck]
        ELSE first

-----------------------------------------------------------------------------
(* The steps of the case-run.  The gateway is built when it is needed, with  *)
(* the business time of that moment, and kept until time or a restart drops  *)
(* it.                                                                       *)
Now   == IF gateway # None THEN gateway ELSE world.now
MainKey == <<"req-1", main.did>>
MainRow == IF main.did = None THEN None ELSE rows.pending[MainKey]

\* The pending id that the main run's outcome carries; nothing else is ever decided.
Paused == main.outcome # None /\ main.outcome.status = "WAITING_APPROVAL"

Apply(r) ==
    /\ rows' = r.rows /\ calls' = r.calls
    /\ fired' = [i \in DOMAIN fired |-> fired[i] + IF i \in r.struck THEN 1 ELSE 0]
    /\ gateway' = Now
    /\ at' = IF r.raised THEN "raised" ELSE "script"

\* The model's run, or the expected action handed over directly.
MainRun ==
    /\ at = "main"
    /\ UNCHANGED <<case, world, script>>
    /\ \/ /\ at' = "script"
          /\ UNCHANGED <<rows, calls, fired, main>>
          /\ gateway' = IF case.path = "policy" THEN Now ELSE gateway
       \/ \E did \in Action :
            LET r == Start(rows, calls, <<"req-1", did>>, Now)
            IN  Apply(r) /\ main' = [did |-> did, outcome |-> r.outcome, guard |-> r.guard, audit |-> r.audit]

CanRun(op) == at = "script" /\ Len(script) < MaxEvents

Logged(op, outcome, audit) ==
    script' = Append(script, [op |-> op, outcome |-> outcome, audit |-> audit, now |-> world.now,
                              row |-> IF main.did = None THEN None ELSE rows'.pending[MainKey]])

Harness(op) == UNCHANGED <<case, rows, calls, fired, main>> /\ Logged(op, None, <<>>)

\* A transaction of the harness on the business tables.  An update raises the version;
\* a second active case on the item breaks the unique index and ends the case-run.
Mutate ==
    /\ CanRun("mutate")
    /\ \/ /\ world.version < MaxVersion
          /\ world' = [world EXCEPT !.version = @ + 1]
          /\ UNCHANGED at
       \/ /\ world' = [world EXCEPT !.rival = ~@]
          /\ at' = IF ~world.rival /\ rows.cases # {} THEN "raised" ELSE at
    /\ Harness("mutate") /\ UNCHANGED gateway

\* Seeded fault: the gateway, and its clock, outlive the business time.
AdvanceTimeOnly ==
    /\ CanRun("advance_clock") /\ world.now < MaxTime
    /\ world' = [world EXCEPT !.now = @ + 1]
    /\ Harness("advance_clock") /\ UNCHANGED <<gateway, at>>

AdvanceClock ==
    /\ CanRun("advance_clock") /\ world.now < MaxTime
    /\ world' = [world EXCEPT !.now = @ + 1]
    /\ gateway' = None
    /\ Harness("advance_clock") /\ UNCHANGED at

\* Every connection and system object is dropped; the injector is the harness's own.
RestartSystem ==
    /\ CanRun("restart")
    /\ gateway' = None
    /\ Harness("restart") /\ UNCHANGED <<world, at>>

Performed(op, r) == Apply(r) /\ Logged(op, r.outcome, r.audit) /\ UNCHANGED <<case, world, main>>

NotPerformed(op) == UNCHANGED <<case, world, main, rows, calls, fired, at>> /\ Logged(op, None, <<>>)

\* The operator: the contract admits these events where a Guard asked for approval,
\* and the id is the one that the main run returned.
Verdict == [approve |-> "APPROVE", reject |-> "REJECT", record_approve |-> "APPROVE", record_reject |-> "REJECT"]

Operate ==
    /\ main.guard = "REQUIRE_APPROVAL" \/ case.path = "policy"
    /\ \E op \in DOMAIN Verdict \cup {"execute_approved"} :
        /\ CanRun(op)
        /\ IF Paused
           THEN Performed(op, CASE op \in {"approve", "reject"} -> Resume(rows, calls, MainKey, Verdict[op], Now)
                                [] op = "execute_approved" -> Execute(rows, calls, MainKey, Now)
                                [] OTHER -> RecordDecision(rows, calls, MainKey, Verdict[op]))
           ELSE NotPerformed(op) /\ UNCHANGED gateway

\* The accepted action of the main run once more, past any model.
ReplaySubmission ==
    /\ CanRun("replay_submission")
    /\ IF main.did = None THEN NotPerformed("replay_submission") /\ UNCHANGED gateway
       ELSE Performed("replay_submission", Start(rows, calls, MainKey, Now))

\* The conversation again under the same or a new request id, with a new policy that
\* may do anything, or with the expected action.
Requests == [rerun_request |-> "req-1", new_request |-> "req-2"]

Rerun ==
    \E op \in DOMAIN Requests :
        /\ CanRun(op)
        /\ \/ case.path = "policy" /\ NotPerformed(op) /\ gateway' = Now
           \/ case.path = "reference" /\ main.did = None /\ NotPerformed(op) /\ UNCHANGED gateway
           \/ \E did \in Action : /\ case.path = "policy" \/ did = main.did
                                 /\ Performed(op, Start(rows, calls, <<Requests[op], did>>, Now))

Next == MainRun \/ Mutate \/ AdvanceClock \/ RestartSystem \/ Operate \/ ReplaySubmission \/ Rerun

Spec == Init /\ [][Next]_vars

-----------------------------------------------------------------------------

Decisions  == DOMAIN Verdict
HarnessOps == {"mutate", "advance_clock", "restart"}
Replays    == {"replay_submission", "rerun_request", "new_request"}

Events(ops) == {n \in DOMAIN script : script[n].op \in ops}

\* What became of the action of the main run: its row, its receipt, or else the last
\* word of the gateway on its submission.
Final ==
    LET words == {n \in Events({"replay_submission"}) : script[n].outcome # None}
    IN  IF MainRow # None THEN Stored(MainKey, MainRow)
        ELSE IF Receipts(rows, MainKey) # {} THEN Outcome(MainKey, "EXECUTED", None)
        ELSE IF words # {} THEN script[Max(words)].outcome
        ELSE main.outcome

-----------------------------------------------------------------------------
(* The contract: which initial decision, faults, script and final status may *)
(* stand together.                                                           *)
Approves(n) == Verdict[script[n].op] = "APPROVE"

StatusFits ==
    CASE main.guard = None -> case.plan # <<>> /\ (Events(Replays) # {} \/ Final.status = "FAILED")
      [] main.guard = "ALLOW" -> Final.status = "EXECUTED" \/ (Final.status = "FAILED" /\ case.plan # <<>>)
      [] main.guard = "DENY" -> Final.status = "DENIED"
      [] OTHER -> IF Events(Decisions) = {} THEN Final.status = "WAITING_APPROVAL"
                  ELSE Approves(Min(Events(Decisions))) <=> Final.status # "REJECTED"

Admitted ==
    /\ case.path = "reference"
    /\ main.did = None => \A n \in DOMAIN script : script[n].op \in HarnessOps
    /\ main.did # None =>
        /\ StatusFits
        /\ main.guard # "REQUIRE_APPROVAL" => Events(Decisions \cup {"execute_approved"}) = {}
        /\ \A n \in DOMAIN script : script[n].op \notin HarnessOps => script[n].outcome # None

-----------------------------------------------------------------------------
(* The metrics.                                                              *)

\* The first decision event is taken for the one that the row records.
ApprovalState ==
    LET decided == Events(Decisions)
        first   == Min(decided)
        wanted  == CASE Final.status # "WAITING_APPROVAL" -> Final.status
                     [] OTHER -> IF decided # {} /\ Approves(first) THEN "APPROVED" ELSE "PENDING_APPROVAL"
    IN  IF main.guard # "REQUIRE_APPROVAL" THEN \A k \in RequestKey : rows.pending[k] = None
        ELSE /\ Paused /\ MainRow.status = wanted
             /\ IF decided = {} THEN MainRow.decision = None
                ELSE MainRow.decision = Verdict[script[first].op] /\ MainRow.at = script[first].now
             /\ MainRow.code = IF wanted \in {"REJECTED", "DENIED", "STALE", "FAILED"} THEN Final.code ELSE None

Execution ==
    IF main.did # None /\ Final.status = "EXECUTED"
    THEN Cardinality(Receipts(rows, MainKey)) = 1 /\ MainKey \in rows.cases
    ELSE rows.receipts = {} /\ rows.cases = {}

\* A replayed answer names the main run's pending row and receipt, and nothing is there
\* twice: all rows are about one item.
Idempotency ==
    /\ \A n \in DOMAIN script :
        LET o == script[n].outcome
        IN  /\ o # None /\ o.replay
            /\ \/ script[n].op = "replay_submission"
               \/ script[n].op \in Decisions /\ \E m \in Events(Decisions) : m < n
               \/ script[n].op = "execute_approved" /\ \E m \in Events({"approve", "execute_approved"}) : m < n
            => (MainRow # None => Paused)
    /\ Events(Replays) # {} \/ Cardinality(Events(Decisions)) > 1 =>
        /\ Cardinality(rows.cases) <= 1
        /\ \A a \in Action : Cardinality({r \in rows.receipts : r.key[2] = a}) <= 1
        /\ Cardinality({k \in RequestKey : rows.pending[k] # None /\ rows.pending[k].status \in Open}) <= 1

\* The events that the path of an outcome must have left, in this order.
Failure(o) == <<IF o.code \in GuardFailures THEN "guard.failed" ELSE "transaction.rolled_back", "action.not_executed">>

Required(o, op) ==
    LET t1 == IF op \in Decisions THEN <<"approval.recorded">> ELSE <<>>
        t2 == t1 \o <<"resume.started">>
    IN  CASE o = None -> <<>>
          [] o # None /\ o.conflict -> <<"approval.conflict">>
          [] o # None /\ ~o.conflict /\ o.replay -> <<"action.replay_hit">>
          [] OTHER ->
             IF op \notin Decisions \cup {"execute_approved"}
             THEN CASE o.status = "EXECUTED" -> <<"guard.evaluated", "action.executed">>
                    [] o.status = "WAITING_APPROVAL" -> <<"guard.evaluated", "action.pending_created">>
                    [] o.status = "DENIED" -> <<"guard.evaluated", "action.not_executed">>
                    [] OTHER -> Failure(o)
             ELSE IF op \in Decisions /\ o.status = "REJECTED" THEN t1 \o <<"action.not_executed">>
             ELSE IF op \in {"record_approve", "record_reject"} \/ (op \in Decisions /\ o.status = "WAITING_APPROVAL") THEN t1
             ELSE CASE o.status = "EXECUTED" -> t2 \o <<"match", "guard.evaluated", "action.executed">>
                    [] o.status = "STALE" -> t2 \o <<"mismatch", "action.not_executed">>
                    [] o.status = "DENIED" -> t2 \o <<"match", "guard.evaluated", "action.not_executed">>
                    [] OTHER -> t1 \o Failure(o)

InOrder(wanted, trail) ==
    <<>> = FoldLeft(LAMBDA rest, event : IF rest # <<>> /\ rest[1] = event THEN Tail(rest) ELSE rest, wanted, trail)

AuditTrace ==
    /\ InOrder(Required(main.outcome, "start"), main.audit)
    /\ \A n \in DOMAIN script : InOrder(Required(script[n].outcome, script[n].op), script[n].audit)

\* The fixed text of an outcome against the row of the MAIN action right after the event.
Grounded ==
    \A n \in DOMAIN script :
        LET o == script[n].outcome
        IN  o # None =>
                /\ o.status = "EXECUTED" => Receipts(rows, o.key) # {}
                /\ o.status = "WAITING_APPROVAL" => script[n].row # None /\ script[n].row.status \in Open

\* L1, L2: cases and receipts name each other, receipts and executed requests too.
Links ==
    /\ rows.cases = {r.key : r \in rows.receipts}
    /\ \A r \in rows.receipts :
        IF r.pending THEN rows.pending[r.key] # None /\ rows.pending[r.key].status = "EXECUTED"
        ELSE r.guard = "ALLOW"
    /\ \A k \in RequestKey : rows.pending[k] # None /\ rows.pending[k].status = "EXECUTED" => Receipts(rows, k) # {}

\* no_unauthorized_write, rejected_never_executes, stale_never_executes and
\* one_receipt_per_execution, which block a freeze whatever the labels say.
HardInvariants ==
    /\ \A r \in rows.receipts : r.key[2] = "return" =>
        /\ r.guard = "REQUIRE_APPROVAL"
        /\ rows.pending[r.key] # None /\ rows.pending[r.key].decision = "APPROVE"
        /\ rows.pending[r.key].status = "EXECUTED"
    /\ \A k \in RequestKey : rows.pending[k] # None /\ rows.pending[k].status \in {"REJECTED", "DENIED", "STALE", "FAILED"} =>
        Receipts(rows, k) = {}
    /\ \A r, s \in rows.receipts : r.key = s.key => r = s

Metrics == ApprovalState /\ Execution /\ Idempotency /\ AuditTrace /\ Grounded

-----------------------------------------------------------------------------
(* Four kinds of case that the contract admits and that the scorer fails     *)
(* although the gateway did what it documents.                               *)

\* The transaction of a decision or of a replay failed and left nothing behind.
DecisionLost == \E n \in Events(Decisions \cup {"execute_approved"}) :
                    script[n].outcome # None /\ script[n].outcome.status = "FAILED" /\ script[n].audit = <<>>

\* An approval repeats a recorded one and executes: its T1 was a replay.
DecisionRepeated ==
    \E n \in Events({"approve"}) : script[n].outcome # None /\ ~script[n].outcome.replay
        /\ script[n].audit # <<>> /\ script[n].audit[1] = "action.replay_hit"

\* A request of its own id left a row of its own.
SecondRequest == \E k \in RequestKey : k[1] = "req-2" /\ (rows.pending[k] # None \/ k \in rows.cases)

\* The first submission failed and a later one was accepted for approval.
LateSubmission == MainRow # None /\ ~Paused

ScorerIsSilent == DecisionLost \/ DecisionRepeated \/ SecondRequest \/ LateSubmission

\* CaseIsJudged: whatever a policy, a script and the faults do, no case-run breaks a hard
\* invariant or a link, no declared fault fires twice and no action passes the Guard after
\* its window.  A case that the contract admits and that is labelled with what a correct
\* gateway did passes every metric, but for the four kinds above.
CaseIsJudged ==
    /\ Links /\ HardInvariants
    /\ \A i \in DOMAIN fired : fired[i] <= 1
    /\ \A n \in DOMAIN script :
        ToSet(script[n].audit) \cap {"action.executed", "action.pending_created"} # {} => script[n].now <= Window
    /\ at = "script" /\ Admitted /\ ~ScorerIsSilent => Metrics
=============================================================================
