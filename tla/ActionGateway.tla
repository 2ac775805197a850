---------------------------- MODULE ActionGateway ----------------------------
(***************************************************************************)
(* The only writer of after-sales actions (aftersales/action_gateway.py    *)
(* over action_store.py).  Each of start_action, record_decision (T1) and  *)
(* execute_approved (T2) is one BEGIN IMMEDIATE transaction, so an action  *)
(* here is one transaction.  What interleaves is what the code splits over *)
(* several: resume_action runs T1 and then T2, and a T2 that fails rolls   *)
(* back and compensates in a transaction of its own.  Between any two of   *)
(* them other callers, the business systems, a policy publication or a     *)
(* restart may intervene.                                                  *)
(*                                                                         *)
(* A Key is an idempotency key: one identity, action and argument set. The *)
(* ids of the rows are derived from it, so the key names them too.         *)
(***************************************************************************)
EXTENDS Guard

CONSTANTS
    Key,          \* idempotency keys
    Intent,       \* [Key -> [name, item, trigger]]
    Item,         \* order items
    Category,     \* [Item -> category]
    StaffCase,    \* ids of the cases other systems open
    Worker,       \* concurrent callers of the gateway
    Failures,     \* infrastructure failure codes a transaction may end with
    Builds,       \* policy builds that may be published
    Rulebook,     \* [Builds -> set of policy records]
    Risk,         \* [release -> [action name -> disposition]]
    OrderStates,  \* order statuses the order system may set
    ParcelStates, \* sets of parcels the logistics system may report
    StockStates,  \* situations of the exchange target
    None,         \* no row
    MaxVersion,   \* bound: version of an order, parcel or stock row
    MaxDay        \* bound: business days

CaseId  == Key \cup StaffCase
Release == DOMAIN Risk
Day     == 0..MaxDay
Version == 1..MaxVersion

ASSUME GatewayAssumption ==
    /\ Intent \in [Key -> [name: ActionNames, item: Item, trigger: {"none", "quality_dispute"}]]
    /\ Rulebook \in [Builds -> SUBSET [type: {"handoff", "non_returnable", "return_window",
                                               "exchange_window"},
                                        trigger: {"none", "quality_dispute"},
                                        params: Nat, from: Nat, until: Nat, priority: Nat,
                                        scope: SUBSET {Category[i] : i \in Item}]]
    /\ Risk \in [DOMAIN Risk -> [ActionNames -> {"ALLOW", "REQUIRE_APPROVAL"}]]
    /\ Release \subseteq Nat /\ 1 \in Release
    /\ \A r \in Release : Risk[r]["escalate_to_human"] = "ALLOW"
    /\ Failures \subseteq STRING /\ "guard_decision_changed" \notin Failures
    /\ \A state \in ParcelStates : \A p \in state : p.at \in Int
    /\ Key \cap StaffCase = {}
    /\ None \notin Builds \cup Key
    /\ MaxVersion \in Nat \ {0} /\ MaxDay \in Nat

VARIABLES
    order,     \* Item -> [status, version]: orders and order_items
    parcels,   \* Item -> [rows, version]: logistics
    stock,     \* Item -> [state, version]: inventory and sku_variants of the exchange target
    cases,     \* after_sales_cases
    tickets,   \* human_handoff_tickets
    pending,   \* pending_actions
    receipts,  \* action_receipts
    build,     \* the published policy build, or None
    release,   \* the deployed risk policy and action contract
    day,       \* business time
    worker,    \* what a caller holds between two transactions (volatile)
    told       \* history: the final statuses callers were given

business == <<order, parcels, stock>>
rows     == <<cases, tickets, pending, receipts>>
config   == <<build, release, day>>
vars     == <<business, rows, config, worker, told>>

Open     == {"PENDING_APPROVAL", "APPROVED"}
Terminal == {"REJECTED", "EXECUTED", "STALE", "DENIED", "FAILED"}
Idle     == [at |-> "idle"]

Target(k)      == Intent[k].item
IsHandoff(k)   == Intent[k].name = "escalate_to_human"
CaseType(k)    == IF Intent[k].name = "create_return" THEN "return" ELSE "exchange"
Row(table, id) == table[id] # None
OpenPendings(i) ==
    {k \in Key : Row(pending, k) /\ pending[k].status \in Open /\ Target(k) = i}

-----------------------------------------------------------------------------
(* Guard.capture: one pass of reads and one policy snapshot *)

CasesOf(i)   == {c \in CaseId : Row(cases, c) /\ cases[c].item = i}
TicketsOf(k) == {t \in Key : Row(tickets, t) /\ tickets[t].item = Target(k)
                                             /\ tickets[t].trigger = Intent[k].trigger}

CapturedState(k, excluded) ==
    LET i == Target(k)
    IN  [order         |-> order[i].status,
         category      |-> Category[i],
         parcels       |-> parcels[i].rows,
         cases         |-> {cases[c] : c \in CasesOf(i)},
         tickets       |-> {tickets[t] : t \in TicketsOf(k)},
         otherPendings |-> OpenPendings(i) \ excluded,
         stock         |-> stock[i].state]

\* The rows of one table, as <<id, version>>.
RowsOf(k, table) ==
    LET i == Target(k)
    IN  CASE table = "orders"            -> {<<i, order[i].version>>}
          [] table = "logistics"         -> {<<p.no, parcels[i].version>> : p \in parcels[i].rows}
          [] table = "after_sales_cases" -> {<<c, cases[c].version>> : c \in CasesOf(i)}
          [] table = "inventory"         -> IF stock[i].state = "absent" THEN {}
                                            ELSE {<<i, stock[i].version>>}
          [] OTHER                       -> {<<h, tickets[h].version>> : h \in TicketsOf(k)}

\* An order the customer cannot see ends the pass; so does an item outside it.
Reads(k, table) ==
    /\ order[Target(k)].status # "absent"
    /\ order[Target(k)].status = "no_item" => table = "orders"

Records(k) ==
    [table \in RecordTables(Intent[k].name) |-> IF Reads(k, table) THEN RowsOf(k, table) ELSE {}]

CandidateSnapshot(k) == [records |-> Records(k), build |-> build, release |-> release]

GuardDecision(k, excluded) ==
    Decide(Intent[k], CapturedState(k, excluded), Rulebook[build], day, Risk[release])

-----------------------------------------------------------------------------
Init ==
    /\ order \in [Item -> [status: OrderStates, version: {1}]]
    /\ parcels \in [Item -> [rows: ParcelStates, version: {1}]]
    /\ stock \in [Item -> [state: StockStates, version: {1}]]
    /\ cases = [c \in CaseId |-> None]
    /\ tickets = [k \in Key |-> None]
    /\ pending = [k \in Key |-> None]
    /\ receipts = [k \in Key |-> None]
    /\ build \in Builds
    /\ release = 1
    /\ day = 0
    /\ worker = [w \in Worker |-> Idle]
    /\ told = [k \in Key |-> {}]

Tells(k, status)  == told' = [told EXCEPT ![k] = @ \cup {status}]

\* _write_execution: the declared business row and its receipt, nothing else.
WriteExecution(k, pended) ==
    /\ IF IsHandoff(k)
       THEN /\ tickets' = [tickets EXCEPT ![k] = [item |-> Target(k), status |-> "pending",
                                                  trigger |-> Intent[k].trigger, version |-> 1]]
            /\ UNCHANGED cases
       ELSE /\ cases' = [cases EXCEPT ![k] = [item |-> Target(k), type |-> CaseType(k),
                                              status |-> "pending", version |-> 1]]
            /\ UNCHANGED tickets
    /\ receipts' = [receipts EXCEPT ![k] = [pended |-> pended,
                                            snapshot |-> CandidateSnapshot(k)]]

-----------------------------------------------------------------------------
(* start_action: replay lookup, capture, decision, writes, one commit *)

Anchored(k) == Row(receipts, k) \/ Row(pending, k)

\* The stored outcome of this very key; the Guard is not run again.  An EXECUTED
\* row without its receipt would be an invariant failure and tells nothing.
StartReplay(k) ==
    /\ Anchored(k)
    /\ \/ Row(receipts, k) /\ Tells(k, "EXECUTED")
       \/ /\ ~Row(receipts, k)
          /\ pending[k].status # "EXECUTED"
          /\ IF pending[k].status \in Terminal THEN Tells(k, pending[k].status)
             ELSE UNCHANGED told
    /\ UNCHANGED <<business, rows, config, worker>>

\* A denial leaves no row: it is no anchor for a later start.
StartDenied(k) ==
    /\ ~Anchored(k)
    /\ build # None
    /\ GuardDecision(k, {}).decision = "DENY"
    /\ UNCHANGED vars

\* P0: a PENDING_APPROVAL row with the snapshot the decision was made on.
StartPending(k) ==
    /\ ~Anchored(k)
    /\ build # None
    /\ GuardDecision(k, {}).decision = "REQUIRE_APPROVAL"
    /\ pending' = [pending EXCEPT ![k] =
                     [status |-> "PENDING_APPROVAL", version |-> 1, decision |-> "none",
                      outcome |-> "none", snapshot |-> CandidateSnapshot(k)]]
    /\ UNCHANGED <<business, cases, tickets, receipts, config, worker, told>>

\* Seeded fault: whatever the Guard does not deny is executed.
StartExecutedUnlessDenied(k) ==
    /\ ~Anchored(k)
    /\ build # None
    /\ GuardDecision(k, {}).decision # "DENY"
    /\ WriteExecution(k, FALSE)
    /\ Tells(k, "EXECUTED")
    /\ UNCHANGED <<business, pending, config, worker>>

StartExecuted(k) ==
    /\ ~Anchored(k)
    /\ build # None
    /\ GuardDecision(k, {}).decision = "ALLOW"
    /\ WriteExecution(k, FALSE)
    /\ Tells(k, "EXECUTED")
    /\ UNCHANGED <<business, pending, config, worker>>

\* Rolled back: an attempt that failed, wherever it failed, leaves no row.
StartFailed(k) == UNCHANGED vars

-----------------------------------------------------------------------------
(* record_decision, T1 *)

\* Seeded fault: the update of T1 without its status guard.
RecordAnyDecision(w, k, decision) ==
    /\ worker[w].at = "idle"
    /\ Row(pending, k)
    /\ pending' = [pending EXCEPT
         ![k].status   = IF decision = "APPROVE" THEN "APPROVED" ELSE "REJECTED",
         ![k].decision = decision,
         ![k].version  = @ + 1]
    /\ IF decision = "REJECT" THEN Tells(k, "REJECTED") ELSE UNCHANGED told
    /\ UNCHANGED <<business, cases, tickets, receipts, config, worker>>

\* P1 and P2: the guarded update of a PENDING_APPROVAL row, version included.
\* resume_action goes on to T2 after an APPROVE.
RecordDecision(w, k, decision) ==
    /\ worker[w].at = "idle"
    /\ Row(pending, k)
    /\ pending[k].status = "PENDING_APPROVAL"
    /\ pending' = [pending EXCEPT
         ![k].status   = IF decision = "APPROVE" THEN "APPROVED" ELSE "REJECTED",
         ![k].decision = decision,
         ![k].outcome  = IF decision = "APPROVE" THEN "none" ELSE "approval_rejected",
         ![k].version  = @ + 1]
    /\ IF decision = "APPROVE"
       THEN worker' = [worker EXCEPT ![w] = [at |-> "approved", key |-> k]] /\ UNCHANGED told
       ELSE Tells(k, "REJECTED") /\ UNCHANGED worker
    /\ UNCHANGED <<business, cases, tickets, receipts, config>>

\* The first decision wins: a later one changes no row.  The same APPROVE on a
\* row that is still APPROVED goes on to T2 again; the opposite is a conflict.
RepeatDecision(w, k, decision) ==
    /\ worker[w].at = "idle"
    /\ Row(pending, k)
    /\ pending[k].status # "PENDING_APPROVAL"
    /\ IF pending[k].status \in Terminal
       THEN Tells(k, pending[k].status) /\ UNCHANGED worker
       ELSE /\ UNCHANGED told
            /\ IF decision = "APPROVE"
               THEN worker' = [worker EXCEPT ![w] = [at |-> "approved", key |-> k]]
               ELSE UNCHANGED worker
    /\ UNCHANGED <<business, rows, config>>

-----------------------------------------------------------------------------
(* execute_approved, T2: called by resume_action, or on its own *)

MayExecute(w, k) ==
    /\ Row(pending, k)
    /\ worker[w] \in {Idle, [at |-> "approved", key |-> k]}

Done(w) == worker' = [worker EXCEPT ![w] = Idle]

\* Seeded fault: a terminal write of T2 that forgets the version.
EndsUnversioned(k, status, outcome) ==
    /\ pending' = [pending EXCEPT ![k].status = status, ![k].outcome = outcome]
    /\ Tells(k, status)

\* P3, P4, P5: every terminal write of T2 leaves APPROVED and bumps the version.
Ends(k, status, outcome) ==
    /\ pending' = [pending EXCEPT ![k].status = status, ![k].outcome = outcome,
                                  ![k].version = @ + 1]
    /\ Tells(k, status)

ExecuteReplay(w, k) ==
    /\ MayExecute(w, k)
    /\ pending[k].status \in Terminal
    /\ Tells(k, pending[k].status)
    /\ Done(w)
    /\ UNCHANGED <<business, rows, config>>

\* U3 to U7: an APPROVED row without a receipt, and one capture that leaves the
\* request's own pending row out.
Resuming(w, k) ==
    /\ MayExecute(w, k)
    /\ pending[k].status = "APPROVED"
    /\ ~Row(receipts, k)
    /\ build # None

\* U8: after a mismatch the Guard is not asked to decide.
ExecuteStale(w, k) ==
    LET reason == StaleReason(pending[k].snapshot, CandidateSnapshot(k))
    IN  /\ Resuming(w, k)
        /\ reason # "none"
        /\ Ends(k, "STALE", reason)
        /\ Done(w)
        /\ UNCHANGED <<business, cases, tickets, receipts, config>>

\* U9 and U10: the decision on the same capture, then the business row, the
\* receipt and EXECUTED in one transaction.
ExecuteDecided(w, k) ==
    LET guard == GuardDecision(k, {k})
    IN  /\ Resuming(w, k)
        /\ StaleReason(pending[k].snapshot, CandidateSnapshot(k)) = "none"
        /\ IF guard.decision = "REQUIRE_APPROVAL"
           THEN /\ WriteExecution(k, TRUE)
                /\ Ends(k, "EXECUTED", "none")
           ELSE /\ IF guard.decision = "DENY"
                   THEN Ends(k, "DENIED", guard.reason)
                   ELSE Ends(k, "STALE", "guard_decision_changed")
                /\ UNCHANGED <<cases, tickets, receipts>>
        /\ Done(w)
        /\ UNCHANGED <<business, config>>

\* A failure before APPROVED is confirmed changes nothing and is not compensated.
ExecuteLost(w, k) ==
    /\ worker[w] = [at |-> "approved", key |-> k]
    /\ Done(w)
    /\ UNCHANGED <<business, rows, config, told>>

\* A failure after it rolls back and leaves the compensation for the next step;
\* the caller holds the version that it read.
ExecuteFailed(w, k) ==
    /\ MayExecute(w, k)
    /\ pending[k].status = "APPROVED"
    /\ \E code \in Failures \cup {"policy_unavailable", "invariant_violation"} :
         /\ code = "policy_unavailable" => build = None
         /\ code = "invariant_violation" => Row(receipts, k)
         /\ worker' = [worker EXCEPT ![w] = [at |-> "compensate", key |-> k, code |-> code,
                                             version |-> pending[k].version]]
    /\ UNCHANGED <<business, rows, config, told>>

\* Seeded fault: the compensation without its guard on status and version.
CompensateAlways(w) ==
    /\ worker[w].at = "compensate"
    /\ pending' = [pending EXCEPT ![worker[w].key].status = "FAILED",
                                  ![worker[w].key].outcome = worker[w].code]
    /\ Done(w)
    /\ UNCHANGED <<business, cases, tickets, receipts, config, told>>

\* P6, guarded by status and version like every other update.
Compensate(w) ==
    LET k == worker[w].key
    IN  /\ worker[w].at = "compensate"
        /\ IF /\ Row(pending, k)
              /\ pending[k].status = "APPROVED" /\ pending[k].version = worker[w].version
           THEN pending' = [pending EXCEPT ![k].status = "FAILED", ![k].outcome = worker[w].code,
                                           ![k].version = @ + 1]
           ELSE UNCHANGED pending
        /\ Done(w)
        /\ UNCHANGED <<business, cases, tickets, receipts, config, told>>

\* The compensation is best effort: the row then stays APPROVED.
CompensateFails(w) ==
    /\ worker[w].at = "compensate"
    /\ Done(w)
    /\ UNCHANGED <<business, rows, config, told>>

\* What a caller holds between transactions dies with the process.
Restart ==
    /\ \E w \in Worker : worker[w] # Idle
    /\ worker' = [w \in Worker |-> Idle]
    /\ UNCHANGED <<business, rows, config, told>>

-----------------------------------------------------------------------------
(* External: the business systems, the policy publication, the deployment *)

OrderChanges(i) ==
    /\ order[i].version < MaxVersion
    /\ \E status \in OrderStates :
         order' = [order EXCEPT ![i] = [status |-> status, version |-> @.version + 1]]
    /\ UNCHANGED <<parcels, stock, rows, config, worker, told>>

ParcelsChange(i) ==
    /\ parcels[i].version < MaxVersion
    /\ \E state \in ParcelStates :
         parcels' = [parcels EXCEPT ![i] = [rows |-> state, version |-> @.version + 1]]
    /\ UNCHANGED <<order, stock, rows, config, worker, told>>

StockChanges(i) ==
    /\ stock[i].version < MaxVersion
    /\ \E state \in StockStates :
         stock' = [stock EXCEPT ![i] = [state |-> state, version |-> @.version + 1]]
    /\ UNCHANGED <<order, parcels, rows, config, worker, told>>

\* The database refuses a second active case of an item.
StaffOpensCase(c, i, type) ==
    /\ ~Row(cases, c)
    /\ \A d \in CasesOf(i) : cases[d].status \notin ActiveStatuses
    /\ cases' = [cases EXCEPT ![c] = [item |-> i, type |-> type,
                                      status |-> "pending", version |-> 1]]
    /\ UNCHANGED <<business, tickets, pending, receipts, config, worker, told>>

\* Staff close an active case or ticket; they do not reopen one.
StaffClosesCase(c, status) ==
    /\ Row(cases, c)
    /\ cases[c].status \in ActiveStatuses
    /\ cases' = [cases EXCEPT ![c].status = status, ![c].version = @ + 1]
    /\ UNCHANGED <<business, tickets, pending, receipts, config, worker, told>>

StaffClosesTicket(k) ==
    /\ Row(tickets, k)
    /\ tickets[k].status \in ActiveStatuses
    /\ tickets' = [tickets EXCEPT ![k].status = "closed", ![k].version = @ + 1]
    /\ UNCHANGED <<business, cases, pending, receipts, config, worker, told>>

\* Publish another build, or retract the current one.
PolicyChanges ==
    /\ build' \in (Builds \cup {None}) \ {build}
    /\ UNCHANGED <<business, rows, release, day, worker, told>>

\* A new release starts a new process.
Deploy ==
    /\ release + 1 \in Release
    /\ release' = release + 1
    /\ worker' = [w \in Worker |-> Idle]
    /\ UNCHANGED <<business, rows, build, day, told>>

DayPasses ==
    /\ day < MaxDay
    /\ day' = day + 1
    /\ UNCHANGED <<business, rows, build, release, worker, told>>

-----------------------------------------------------------------------------
Start(k) ==
    \/ StartReplay(k) \/ StartDenied(k) \/ StartPending(k)
    \/ StartExecuted(k) \/ StartFailed(k)

Resume(w, k) ==
    \/ \E decision \in {"APPROVE", "REJECT"} :
         RecordDecision(w, k, decision) \/ RepeatDecision(w, k, decision)
    \/ ExecuteReplay(w, k) \/ ExecuteStale(w, k) \/ ExecuteDecided(w, k)
    \/ ExecuteLost(w, k) \/ ExecuteFailed(w, k)

Gateway ==
    \/ \E k \in Key : Start(k)
    \/ \E w \in Worker, k \in Key : Resume(w, k)
    \/ \E w \in Worker : Compensate(w) \/ CompensateFails(w)
    \/ Restart

External ==
    \/ \E i \in Item : OrderChanges(i) \/ ParcelsChange(i) \/ StockChanges(i)
    \/ \E c \in StaffCase, i \in Item, type \in {"return", "exchange"} : StaffOpensCase(c, i, type)
    \/ \E c \in CaseId, status \in {"completed", "rejected"} : StaffClosesCase(c, status)
    \/ \E k \in Key : StaffClosesTicket(k)
    \/ PolicyChanges \/ Deploy \/ DayPasses

Next == Gateway \/ External

Spec == Init /\ [][Next]_vars

-----------------------------------------------------------------------------
(* Properties *)

ParcelNo == {p.no : p \in UNION ParcelStates}
Statuses == Open \cup Terminal

StaleReasons == {"record_set_changed", "record_version_changed", "policy_changed",
                 "action_policy_changed", "guard_decision_changed"}

DenyReasons ==
    {"order_not_accessible", "order_item_not_in_order", "business_state_conflict",
     "order_status_ineligible", "not_delivered", "delivery_not_established",
     "active_after_sales_case_exists", "item_already_returned", "pending_request_exists",
     "handoff_required", "non_returnable", "no_applicable_policy", "policy_conflict",
     "return_window_closed", "exchange_window_closed", "exchange_target_invalid",
     "exchange_target_incompatible", "inventory_unavailable", "handoff_not_required",
     "handoff_ticket_exists"}

\* The codes each status may carry: the CHECK of the table and _TERMINAL_CODES.
CodesOf(status) ==
    CASE status \in {"PENDING_APPROVAL", "APPROVED", "EXECUTED"} -> {"none"}
      [] status = "REJECTED" -> {"approval_rejected"}
      [] status = "STALE"    -> StaleReasons
      [] status = "DENIED"   -> DenyReasons
      [] status = "FAILED"   -> Failures \cup {"policy_unavailable", "invariant_violation"}

Outcomes == UNION {CodesOf(status) : status \in Statuses}

RecordSets == SUBSET ((Item \cup CaseId \cup ParcelNo) \X (Version \cup 1..2))

Snapshots ==
    [records: [RecordTables("create_return") -> RecordSets]
                \cup [RecordTables("create_exchange") -> RecordSets]
                \cup [RecordTables("escalate_to_human") -> RecordSets],
     build: Builds, release: Release]

CaseRows ==
    [item: Item, type: {"return", "exchange"}, status: {"pending"}, version: {1}] \cup
    [item: Item, type: {"return", "exchange"}, status: {"completed", "rejected"}, version: {2}]

TicketRows ==
    [item: Item, trigger: {"none", "quality_dispute"}, status: {"pending"}, version: {1}] \cup
    [item: Item, trigger: {"none", "quality_dispute"}, status: {"closed"}, version: {2}]

PendingRows == [status: Statuses, version: 1..3, decision: {"none", "APPROVE", "REJECT"},
                outcome: Outcomes, snapshot: Snapshots]

ReceiptRows == [pended: BOOLEAN, snapshot: Snapshots]

WorkerStates == {Idle} \cup [at: {"approved"}, key: Key] \cup
                [at: {"compensate"}, key: Key, version: 1..3, code: CodesOf("FAILED")]

\* A missing row is not a row.
ASSUME NoneAssumption == None \notin CaseRows \cup TicketRows \cup PendingRows \cup ReceiptRows

\* The type invariant.
TypeOK ==
    /\ order \in [Item -> [status: OrderStates, version: Version]]
    /\ parcels \in [Item -> [rows: ParcelStates, version: Version]]
    /\ stock \in [Item -> [state: StockStates, version: Version]]
    /\ cases \in [CaseId -> {None} \cup CaseRows]
    /\ tickets \in [Key -> {None} \cup TicketRows]
    /\ pending \in [Key -> {None} \cup PendingRows]
    /\ receipts \in [Key -> {None} \cup ReceiptRows]
    /\ build \in Builds \cup {None}
    /\ release \in Release
    /\ day \in Day
    /\ worker \in [Worker -> WorkerStates]
    /\ told \in [Key -> SUBSET Terminal]

Active(table, id) == Row(table, id) /\ table[id].status \in ActiveStatuses

WellFormed(row) ==
    /\ row.status = "PENDING_APPROVAL" => row.decision = "none" /\ row.version = 1
    /\ row.status = "REJECTED" => row.decision = "REJECT" /\ row.version = 2
    /\ row.status = "APPROVED" => row.decision = "APPROVE" /\ row.version = 2
    /\ row.status \in Terminal \ {"REJECTED"} => row.decision = "APPROVE" /\ row.version = 3
    /\ row.outcome \in CodesOf(row.status)

\* The CHECK constraints of pending_actions: a row in any status carries the
\* decision, the version and the outcome code that its way there gave it, and its
\* snapshot covers the tables of its action, so that the comparison of T2 never
\* meets a snapshot that it cannot compare.
RowsAreWellFormed ==
    \A k \in Key : Row(pending, k) =>
      /\ WellFormed(pending[k])
      /\ DOMAIN pending[k].snapshot.records = RecordTables(Intent[k].name)

\* The three partial unique indexes of action_schema.sql, the "second line of
\* defence behind the Guard": the Guard alone keeps them, whatever two
\* conversations, an approval and the staff do to one item, so that no insert
\* is ever refused by the database.
GuardKeepsTheIndexes ==
    /\ \A c, d \in CaseId :
         Active(cases, c) /\ Active(cases, d) /\ cases[c].item = cases[d].item => c = d
    /\ \A k, m \in Key : \A i \in Item :
         /\ Row(pending, k) /\ pending[k].status \in Open /\ Target(k) = i
         /\ Row(pending, m) /\ pending[m].status \in Open /\ Target(m) = i
         => k = m
    /\ \A k, m \in Key :
         /\ Active(tickets, k) /\ Active(tickets, m)
         /\ tickets[k].item = tickets[m].item /\ tickets[k].trigger = tickets[m].trigger
         => k = m

Receipted(k) ==
    /\ Row(receipts, k) <=> Row(IF IsHandoff(k) THEN tickets ELSE cases, k)
    /\ Row(receipts, k) /\ ~receipts[k].pended => ~Row(pending, k)
    /\ Row(pending, k) => (pending[k].status = "EXECUTED" <=> Row(receipts, k))
    /\ Row(receipts, k) /\ receipts[k].pended =>
         /\ Row(pending, k)
         /\ pending[k].decision = "APPROVE"
         /\ pending[k].snapshot = receipts[k].snapshot

\* A key has a business row exactly when it has a receipt, and a receipt that
\* came through an approval belongs to an APPROVE'd EXECUTED row and was written
\* on the very snapshot the customer's request was approved on, whatever the
\* business systems did in between.
EffectsAreReceipted == \A k \in Key : Receipted(k)

\* Nothing that the risk policy in force at its execution wants approved is
\* executed without an approval, across redeployments of that policy.
NoEffectWithoutApproval ==
    \A k \in Key : Row(receipts, k) =>
      (receipts[k].pended <=>
         Risk[receipts[k].snapshot.release][Intent[k].name] = "REQUIRE_APPROVAL")

\* The stale check covers the Guard: once the stored and the fresh snapshot
\* agree, only the passing of time can still refuse an approved request.  No
\* refusal about rows, other requests or the risk policy is left to U9.
SnapshotCoversTheGuard ==
    \A k \in Key : Row(pending, k) =>
      /\ pending[k].status = "DENIED" => pending[k].outcome \in TimeDependentReasons
      /\ pending[k].outcome # "guard_decision_changed"

\* What a caller was told to be final stays so: an EXECUTED answer has its
\* receipt ever after, any other final answer is the row's status ever after.
AnswersAreFirm ==
    \A k \in Key : \A status \in told[k] :
      IF status = "EXECUTED" THEN Row(receipts, k)
      ELSE Row(pending, k) /\ pending[k].status = status

\* No case that the gateway wrote is open on an item whose return is completed.
NoCaseAfterReturn ==
    \A k \in Key, c \in CaseId :
      /\ Active(cases, k)
      /\ Row(cases, c) /\ cases[c].item = cases[k].item
      => ~(cases[c].type = "return" /\ cases[c].status = "completed")

\* What the gateway executes is allowed to it: by the risk policy in force and the
\* approval that it asks for, and by what has become of the item before and since.
EffectsAreAllowed == NoEffectWithoutApproval /\ NoCaseAfterReturn

Advances(k) ==
    /\ Row(receipts, k) => receipts'[k] = receipts[k]
    /\ Row(pending, k) /\ pending'[k] # pending[k] =>
         /\ pending[k].status \in Open
         /\ pending'[k].version = pending[k].version + 1
         /\ pending'[k].snapshot = pending[k].snapshot
         /\ pending[k].decision # "none" => pending'[k].decision = pending[k].decision
         /\ pending'[k].status = "EXECUTED" => pending[k].status = "APPROVED"

\* A request only advances: no row disappears, a terminal row and a receipt
\* never change, a recorded decision is the first and the last, the snapshot is
\* never rewritten, and every change of status takes the next version.
RequestsOnlyAdvance == [][\A k \in Key : Advances(k)]_vars

Phase(k) ==
    CASE Row(receipts, k)                       -> "done"
      [] ~Row(receipts, k) /\ ~Row(pending, k)  -> "new"
      [] OTHER -> CASE pending[k].status = "PENDING_APPROVAL" -> "waiting"
                    [] pending[k].status = "APPROVED"         -> "approved"
                    [] OTHER                                  -> "closed"

OpenCases(i) == {c \in CaseId : Active(cases, c) /\ cases[c].item = i}

Lifecycle == INSTANCE ActionLifecycle WITH
    ItemOf    <- [k \in Key |-> Target(k)],
    Handoffs  <- {k \in Key : IsHandoff(k)},
    Case      <- CaseId,
    phase     <- [k \in Key |-> Phase(k)],
    openCases <- [i \in Item |-> OpenCases(i)]

\* The gateway implements the promised life of a request: whatever the races,
\* failures, restarts and changes of the world, every transaction is a step of
\* ActionLifecycle or changes nothing that it speaks of.
FollowsLifecycle == Lifecycle!Spec
=============================================================================
