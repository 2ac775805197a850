------------------------------- MODULE Guard -------------------------------
(***************************************************************************)
(* The Guard of the after-sales actions (aftersales/guard.py): which       *)
(* policies a decision selects, the ordered matrix of refusals, and the    *)
(* comparison of a stored snapshot with a fresh one.  Everything here is a *)
(* pure operator; ActionGateway supplies the captured state.               *)
(*                                                                         *)
(*   a      an intent: [name, item, trigger]                               *)
(*   s      what one capture saw (CapturedState of ActionGateway)          *)
(*          [order, category, parcels, cases, tickets, otherPendings, stock]*)
(*   rules  the policy records of the published build                      *)
(*   day    txn_now, the one instant read by the transaction               *)
(***************************************************************************)
EXTENDS Integers, Sequences, FiniteSets

ActionNames == {"create_return", "create_exchange", "escalate_to_human"}

\* A list of [fails, code] checks stops at its first failing entry.
FirstFailing(checks) ==
    LET failing == {n \in DOMAIN checks : checks[n].fails}
    IN  IF failing = {}
        THEN "none"
        ELSE checks[CHOOSE n \in failing : \A m \in failing : n <= m].code

Check(fails, code) == [fails |-> fails, code |-> code]

-----------------------------------------------------------------------------
(* Policy selection *)

\* In force on [from, until).
InEffect(r, day) == r.from <= day /\ day < r.until

Applicable(rules, day, type, category) ==
    {r \in rules : /\ r.type = type
                   /\ InEffect(r, day)
                   /\ r.scope = {} \/ category \in r.scope}

\* Only the applicable records of the highest priority are selected.
SelectPolicies(rules, day, type, category) ==
    LET applicable == Applicable(rules, day, type, category)
    IN  {r \in applicable : \A q \in applicable : q.priority <= r.priority}

\* Selected records whose parameters disagree are a precedence conflict.
PrecedenceConflict(selected) == \E r, q \in selected : r.params # q.params

\* Handoff rules are filtered by trigger before the selection.
Handoff(rules, day, trigger, category) ==
    SelectPolicies({r \in rules : r.trigger = trigger}, day, "handoff", category)

-----------------------------------------------------------------------------
(* The captured facts *)

ParcelsAre(s, statuses) == \E p \in s.parcels : p.status \in statuses

\* Order and logistics rows that cannot both be true; no parcel, no conflict.
BusinessStateConflict(s) ==
    /\ s.parcels # {}
    /\ \/ s.order = "shipped" /\ \A p \in s.parcels : p.status = "delivered"
       \/ s.order = "delivered" /\ ParcelsAre(s, {"in_transit"})
       \/ s.order = "paid" /\ ParcelsAre(s, {"in_transit", "delivered"})

\* A parcel without a delivery instant.
NoDay == -1

\* Rule D: exactly one parcel, with a delivery instant that is not in the future.
DeliveryEstablished(s, day) ==
    /\ Cardinality(s.parcels) = 1
    /\ \A p \in s.parcels : p.at # NoDay /\ p.at <= day

ActiveStatuses == {"pending", "in_progress"}

\* Seeded fault: a case of the staff that nobody works on yet is overlooked.
StartedCase(s) == \E c \in s.cases : c.status = "in_progress"

ActiveCase(s) == \E c \in s.cases : c.status \in ActiveStatuses

ReturnedBefore(s) == \E c \in s.cases : c.type = "return" /\ c.status = "completed"

\* Seeded fault: only a ticket that somebody works on counts as open.
AssignedTicket(s) == \E t \in s.tickets : t.status = "in_progress"

OpenTicket(s) == \E t \in s.tickets : t.status \in ActiveStatuses

\* Natural days since the delivery: the delivery's own day does not count.
DaysSince(p, day) == day - p.at

WindowType(name) == IF name = "create_return" THEN "return_window" ELSE "exchange_window"

WindowClosed(name) ==
    IF name = "create_return" THEN "return_window_closed" ELSE "exchange_window_closed"

-----------------------------------------------------------------------------
(* The matrix, R-1..R-12, E-1..E-13 and H-1..H-4, in the order of the code *)

HandoffChecks(a, s, rules, day) ==
    LET routes == Handoff(rules, day, a.trigger, s.category)
    IN  << Check(s.order = "absent", "order_not_accessible"),
           Check(s.order = "no_item", "order_item_not_in_order"),
           Check(PrecedenceConflict(routes), "policy_conflict"),
           Check(routes = {}, "handoff_not_required"),
           Check(OpenTicket(s), "handoff_ticket_exists") >>

CaseChecks(a, s, rules, day) ==
    LET isReturn == a.name = "create_return"
        select(type) == SelectPolicies(rules, day, type, s.category)
        routes  == IF a.trigger = "none" THEN {}
                   ELSE Handoff(rules, day, a.trigger, s.category)
        barred  == IF isReturn THEN select("non_returnable") ELSE {}
        windows == select(WindowType(a.name))
    IN  << Check(s.order = "absent", "order_not_accessible"),
           Check(s.order = "no_item", "order_item_not_in_order"),
           Check(BusinessStateConflict(s), "business_state_conflict"),
           Check(s.order = "cancelled", "order_status_ineligible"),
           Check(s.order \in {"paid", "shipped"}, "not_delivered"),
           Check(~DeliveryEstablished(s, day), "delivery_not_established"),
           Check(ActiveCase(s), "active_after_sales_case_exists"),
           Check(ReturnedBefore(s), "item_already_returned"),
           Check(s.otherPendings # {}, "pending_request_exists"),
           Check(PrecedenceConflict(routes), "policy_conflict"),
           Check(routes # {}, "handoff_required"),
           Check(PrecedenceConflict(barred), "policy_conflict"),
           Check(barred # {}, "non_returnable"),
           Check(~isReturn /\ s.stock = "absent", "exchange_target_invalid"),
           Check(~isReturn /\ s.stock = "incompatible", "exchange_target_incompatible"),
           Check(PrecedenceConflict(windows), "policy_conflict"),
           Check(windows = {}, "no_applicable_policy"),
           Check(\E w \in windows, p \in s.parcels : DaysSince(p, day) > w.params,
                 WindowClosed(a.name)),
           Check(~isReturn /\ s.stock = "insufficient", "inventory_unavailable") >>

Denial(a, s, rules, day) ==
    FirstFailing(IF a.name = "escalate_to_human"
                 THEN HandoffChecks(a, s, rules, day)
                 ELSE CaseChecks(a, s, rules, day))

\* The risk policy is the last step, once no check has failed.
Decide(a, s, rules, day, disposition) ==
    LET denial == Denial(a, s, rules, day)
    IN  IF denial # "none"
        THEN [decision |-> "DENY", reason |-> denial]
        ELSE [decision |-> disposition[a.name],
              reason |-> IF disposition[a.name] = "ALLOW"
                         THEN "risk_policy_allows"
                         ELSE "risk_policy_requires_approval"]

\* Refusals that the mere passing of time can cause while every row and the
\* published build stay the same.
TimeDependentReasons ==
    {"policy_conflict", "handoff_required", "non_returnable", "no_applicable_policy",
     "return_window_closed", "exchange_window_closed", "handoff_not_required"}

-----------------------------------------------------------------------------
(* Snapshots *)

\* Seeded fault: the parcels are not part of the snapshot.
TablesWithoutParcels(name) ==
    IF name = "escalate_to_human"
    THEN {"orders", "human_handoff_tickets"}
    ELSE {"orders", "after_sales_cases"}

\* The tables whose rows and versions a snapshot of the action records.
RecordTables(name) ==
    IF name = "escalate_to_human"
    THEN {"orders", "human_handoff_tickets"}
    ELSE {"orders", "logistics", "after_sales_cases"}
         \cup IF name = "create_exchange" THEN {"inventory"} ELSE {}

RowIds(table) == {row[1] : row \in table}

\* The first difference between two snapshots in the frozen order, or "none".
StaleReason(stored, candidate) ==
    LET tables == DOMAIN stored.records
    IN  FirstFailing(
         << Check(\E t \in tables : RowIds(stored.records[t]) # RowIds(candidate.records[t]),
                  "record_set_changed"),
            Check(\E t \in tables : stored.records[t] # candidate.records[t],
                  "record_version_changed"),
            Check(stored.build # candidate.build, "policy_changed"),
            Check(stored.release # candidate.release, "action_policy_changed") >>)
=============================================================================
