------------------------- MODULE EvidenceEnrichment -------------------------
(***************************************************************************)
(* orchestration/evidence_policy_v2.py: whether the collected evidence     *)
(* supports a conclusion that needs some facts at a business instant, and  *)
(* what of it may be used.                                                 *)
(*                                                                         *)
(* Evidence is its own reference: evidence_ref is a digest of all that the *)
(* item says, so equal items are one item and an input of a derived fact   *)
(* is the item itself.  An item is                                         *)
(*   [kind, key, value, at, contract, inputs]                              *)
(* where key is <<subject, field>>, and at the instant that its contract   *)
(* offers as a proof of its age: when it was read, or derived, or what a   *)
(* snapshot reflects.  Reason codes are the source's, shortened.           *)
(*                                                                         *)
(* The read tools of the after-sales runtime: the queries of               *)
(* aftersales/business_tools.py under the executor of executor.py.         *)
(*                                                                         *)
(* db is [orders, items, parcels, stock, cases], sets of rows.  A row that *)
(* a valid source cannot hold is sound = FALSE.  Of the columns of a row   *)
(* those are kept that a fact is derived of or a query selects by.         *)
(*                                                                         *)
(* eval_v2/evidence.py over aftersales/derived.py and policy_catalog.py:   *)
(* the facts that are derived of what a run read.  A run reads at one      *)
(* business instant, now, and may read the same thing more than once.      *)
(*                                                                         *)
(* An observation is [tool, about, result, picks, build]: about is the     *)
(* order of the call's arguments, result the tool's, and picks what a      *)
(* policy search selected, pairs of a rule and of the category, or None,   *)
(* that it was selected for, of one build.  A malformed call leaves no     *)
(* result and is not an observation here.  An instant is an integer, and a *)
(* calendar date is Day instants.                                          *)
(***************************************************************************)
EXTENDS Integers, Sequences, FiniteSets, FiniteSetsExt

CONSTANT None \* no instant, no cause, no limit of age

Kinds == {"wiki", "document", "business", "derived"}
Contracts == {"online", "snapshot", "none"}

\* Which evidence may support which kind of claim.
Accepts(scope) == IF scope = "policy" THEN {"wiki", "document"} ELSE {"business", "derived"}
Operational == Accepts("state")

ConflictFact == "business_state_conflict"

\* What the constructors of the evidence let through: a direct read says when it was
\* made, a snapshot what it reflects, a derived fact when it was derived and from what.
IsItem(e) ==
    /\ e.kind \in Kinds /\ e.contract \in Contracts
    /\ e.kind # "business" => e.contract = "none"
    /\ e.contract # "none" => e.at # None
    /\ (e.kind = "derived") <=> (e.inputs # {})
    /\ e.kind = "derived" => e.at # None

\* A result carries evidence exactly when it is "ok", and no tool derives facts.
IsResult(r) ==
    /\ r.status \in {"ok", "empty", "error"}
    /\ (r.status = "ok") <=> (r.evidence # {})
    /\ \A e \in r.evidence : IsItem(e) /\ e.kind # "derived"

\* A requirement may narrow, and never widen, what its scope accepts.
IsRequirement(q) == q.scope \in {"policy", "state"} /\ q.types # {} /\ q.types \subseteq Accepts(q.scope)

-----------------------------------------------------------------------------
(* Freshness *)

\* Fresh is not older than the limit, without one exactly of the instant, and never later.
IsRecent(at, asOf, maxAge) ==
    LET age == asOf - at
    IN  age >= 0 /\ age <= IF maxAge = None THEN 0 ELSE maxAge

AgeVerdict(at, asOf, maxAge) == IF IsRecent(at, asOf, maxAge) THEN None ELSE "freshness_unsatisfied"

\* How old a snapshot may be is the caller's to say; without a contract nothing is proved.
BusinessVerdict(e, asOf, maxAge) ==
    CASE e.contract = "none" \/ e.at = None            -> "freshness_unsupported"
      [] e.contract = "snapshot" /\ maxAge = None      -> "freshness_unsupported"
      [] OTHER                                         -> AgeVerdict(e.at, asOf, maxAge)

DerivedVerdict(e, asOf) ==
    CASE e.at = None -> "freshness_unsupported"
      [] e.at # asOf -> "freshness_unsatisfied"
      [] OTHER       -> None

\* Why an item is not usable, by itself.
OwnVerdict(e, asOf, maxAge) ==
    CASE e.kind = "business" -> BusinessVerdict(e, asOf, maxAge)
      [] e.kind = "derived"  -> DerivedVerdict(e, asOf)
      [] OTHER               -> None

\* Seeded fault: the direct inputs must be there, whatever theirs are.
DirectlySupported(e, collected, asOf, maxAge) ==
    e.inputs \subseteq {i \in collected : OwnVerdict(i, asOf, maxAge) = None}

\* A derived fact is as good as its inputs, and they as theirs: each must be there.
RECURSIVE IsSupported(_, _, _, _)
IsSupported(e, collected, asOf, maxAge) ==
    \A i \in e.inputs :
        /\ i \in collected /\ OwnVerdict(i, asOf, maxAge) = None
        /\ IsSupported(i, collected, asOf, maxAge)

Exclusion(e, collected, asOf, maxAge) ==
    IF OwnVerdict(e, asOf, maxAge) # None THEN OwnVerdict(e, asOf, maxAge)
    ELSE IF IsSupported(e, collected, asOf, maxAge) THEN None
    ELSE "derived_input_unavailable"

-----------------------------------------------------------------------------
(* Evaluation *)

Collected(results, derived) == (UNION {r.evidence : r \in results}) \cup derived

Usable(results, derived, asOf, maxAge) ==
    LET collected == Collected(results, derived)
    IN  {e \in collected : Exclusion(e, collected, asOf, maxAge) = None}

\* Usable facts that say the business systems contradict each other.
StateConflicts(usable) ==
    {e \in usable : e.kind = "derived" /\ e.key[2] = ConflictFact /\ e.value = TRUE}

\* The facts of which usable operational evidence has two values.
Contested(usable) ==
    LET speaking == {e \in usable : e.kind \in Operational}
    IN  {k \in {e.key : e \in speaking} : Cardinality({e.value : e \in {s \in speaking : s.key = k}}) > 1}

ExclusionOrder == <<"freshness_unsupported", "freshness_unsatisfied", "derived_input_unavailable">>

FirstOf(order, causes) == order[Min({i \in DOMAIN order : order[i] \in causes})]

\* Without anything in scope, the absence is explained by who should have brought it.
Explained(statuses, matching) ==
    CASE "error" \in statuses -> "tool_error"
      [] "error" \notin statuses /\ "empty" \in statuses -> "empty_tool_result"
      [] OTHER -> IF matching # {} THEN "out_of_scope" ELSE "missing_evidence"

Cause(q, results, derived, asOf, maxAge) ==
    LET collected == Collected(results, derived)
        usable    == Usable(results, derived, asOf, maxAge)
        matching  == {e \in collected : e.key = q.key}
        inScope   == {e \in matching : e.kind \in q.types}
        statuses  == {r.status : r \in {s \in results : s.tool \in q.providers}}
    IN  IF inScope \cap usable # {} THEN IF q.key \in Contested(usable) THEN "conflicting" ELSE None
        ELSE IF inScope # {}
        THEN FirstOf(ExclusionOrder, {Exclusion(e, collected, asOf, maxAge) : e \in inScope})
        ELSE Explained(statuses, matching)

Insufficient(scope) == IF scope = "policy" THEN "insufficient_policy" ELSE "insufficient_operational"

\* evaluate_evidence_v2: blocked iff a requirement is not met or a usable conflict stands.
DecideV2(results, requirements, derived, asOf, maxAge) ==
    LET usable    == Usable(results, derived, asOf, maxAge)
        causeOf   == [q \in requirements |-> Cause(q, results, derived, asOf, maxAge)]
        unmet     == {q \in requirements : causeOf[q] # None}
        conflicts == StateConflicts(usable)
    IN  [outcome   |-> IF unmet = {} /\ conflicts = {} THEN "sufficient" ELSE "blocked",
         reasons   |-> {causeOf[q] : q \in unmet} \cup {Insufficient(q.scope) : q \in unmet}
                         \cup (IF conflicts # {} THEN {"state_conflict"} ELSE {})
                         \cup (IF unmet = {} /\ conflicts = {} THEN {"sufficient"} ELSE {}),
         causes    |-> causeOf,
         usable    |-> usable,
         excluded  |-> Collected(results, derived) \ usable,
         conflicts |-> conflicts,
         contested |-> Contested(usable)]

-----------------------------------------------------------------------------
(* Properties *)

\* All that an item rests on, itself included.
RECURSIVE Ancestry(_)
Ancestry(e) == {e} \cup UNION {Ancestry(i) : i \in e.inputs}

Without(result, items) ==
    LET left == result.evidence \ items
    IN  [result EXCEPT !.evidence = left, !.status = IF result.status = "ok" /\ left = {} THEN "empty" ELSE @]

\* An item is used exactly when all that it rests on was collected and is fresh, an
\* outcome is "sufficient" only when every requirement is met by such items that agree
\* and none of them is a conflict, and it is the same without the failed calls and
\* without what may not be used: that has no say, not even through a derived fact.
IsJudgedByUsable(results, requirements, derived, asOf, maxAge) ==
    LET collected == Collected(results, derived)
        d         == DecideV2(results, requirements, derived, asOf, maxAge)
        answered  == {Without(r, d.excluded) : r \in {x \in results : x.status # "error"}}
        again     == DecideV2(answered, requirements, derived \ d.excluded, asOf, maxAge)
    IN  /\ d.usable = {e \in collected : \A x \in Ancestry(e) :
                          x \in collected /\ OwnVerdict(x, asOf, maxAge) = None}
        /\ d.outcome = "sufficient" =>
              /\ \A q \in requirements :
                    LET met == {e \in d.usable : e.key = q.key /\ e.kind \in q.types}
                    IN  met # {} /\ (q.scope = "state" => Cardinality({e.value : e \in met}) = 1)
              /\ ~\E e \in d.usable : e.key[2] = ConflictFact /\ e.value
        /\ again.outcome = d.outcome /\ again.usable = d.usable /\ again.contested = d.contested

-----------------------------------------------------------------------------
(* The read tools.                                                         *)

ReadTools == {"get_order", "get_logistics", "get_inventory", "get_after_sales_case"}

\* One evidence per field, all of one reading of the clock.
Evidence(id, field, value, now) ==
    [kind |-> "business", key |-> <<id, field>>, value |-> value,
     at |-> now, contract |-> "online", inputs |-> {}]

OrderRows(db, customer, order) == {r \in db.orders : r.id = order /\ r.owner = customer}
IsOwn(db, customer, order) == OrderRows(db, customer, order) # {}

ItemRows(db, customer, order) ==
    IF IsOwn(db, customer, order) THEN {r \in db.items : r.order = order} ELSE {}

ParcelRows(db, customer, order) ==
    IF IsOwn(db, customer, order) THEN {r \in db.parcels : r.order = order} ELSE {}

\* A case whose customer is not its order's owner is hidden from everyone.
CaseRows(db, customer, order) ==
    IF IsOwn(db, customer, order) THEN {r \in db.cases : r.order = order /\ r.owner = customer} ELSE {}

\* The rows that a call selects; the argument of the inventory is a SKU, of nobody.
Rows(tool, db, customer, argument) ==
    CASE tool = "get_order"            -> OrderRows(db, customer, argument) \cup ItemRows(db, customer, argument)
      [] tool = "get_logistics"        -> ParcelRows(db, customer, argument)
      [] tool = "get_inventory"        -> {r \in db.stock : r.id = argument}
      [] tool = "get_after_sales_case" -> CaseRows(db, customer, argument)

Fields(tool, rows, now) ==
    CASE tool = "get_order" ->
           {Evidence(r.id, "status", r.status, now) : r \in {x \in rows : "status" \in DOMAIN x}}
             \cup {Evidence(r.id, "category", r.category, now) : r \in {x \in rows : "category" \in DOMAIN x}}
      [] tool = "get_logistics" ->
           UNION {{Evidence(r.id, "order_id", r.order, now), Evidence(r.id, "status", r.status, now),
                   Evidence(r.id, "delivered_at", r.delivered, now)} : r \in rows}
      [] tool = "get_inventory"        -> {Evidence(r.id, "available_qty", r.qty, now) : r \in rows}
      [] tool = "get_after_sales_case" -> {Evidence(r.id, "status", r.status, now) : r \in rows}

\* How the handler of a call may fail, and the code the executor answers with; an error
\* of contract between the two, and a write during a read, are raised instead.
ErrorCode == [timeout |-> "tool_timeout", not_ready |-> "tool_not_ready", fault |-> "tool_error",
              reported |-> "tool_reported_error"]

Failed(tool, code) == [tool |-> tool, status |-> "error", evidence |-> {}, code |-> code]

\* The executor's answer to a handler that ended in `fault`, or "none" of ErrorCode's.
Execute(tool, fault, db, customer, argument, now) ==
    LET rows == Rows(tool, db, customer, argument)
    IN  IF fault \in DOMAIN ErrorCode THEN Failed(tool, ErrorCode[fault])
        ELSE IF \E r \in rows : ~r.sound THEN Failed(tool, "tool_error")
        ELSE [tool |-> tool, status |-> IF rows = {} THEN "empty" ELSE "ok",
              evidence |-> Fields(tool, rows, now), code |-> None]

\* The part of the database that is the customer's, or of nobody.
Own(db, customer) ==
    LET own(o) == \E r \in db.orders : r.id = o /\ r.owner = customer
    IN  [orders  |-> {r \in db.orders : r.owner = customer},
         items   |-> {r \in db.items : own(r.order)},
         parcels |-> {r \in db.parcels : own(r.order)},
         stock   |-> db.stock,
         cases   |-> {r \in db.cases : own(r.order) /\ r.owner = customer}]

\* A call answers as if nothing of other customers were stored, not even a row that
\* is broken or that names this customer: of the rest not even the existence shows.
AnswersFromOwn(tool, fault, db, customer, argument, now) ==
    Execute(tool, fault, db, customer, argument, now)
      = Execute(tool, fault, Own(db, customer), customer, argument, now)

-----------------------------------------------------------------------------

CONSTANT Day \* instants of a calendar date

G == INSTANCE Guard

WindowTypes == {"return_window", "exchange_window"}

-----------------------------------------------------------------------------
(* The policy search *)

\* A query names topics, and perhaps categories; naming none, it asks for the general
\* rule and for that of every category some rule is scoped to.
Targets(rules, named) ==
    LET categories == UNION {r.scope : r \in rules}
    IN  IF named \cap categories # {} THEN named \cap categories ELSE {None} \cup categories

\* No category selects among the general rules and never guesses a category.
Select(rules, now, type, category) ==
    G!SelectPolicies(IF category = None THEN {r \in rules : r.scope = {}} ELSE rules, now, type, category)

\* PublishedPolicyCatalog.search: a topic on which top rules disagree fails the search.
Search(rules, now, types, named) ==
    LET asked == types \X Targets(rules, named)
        chosen(q) == Select(rules, now, q[1], q[2])
    IN  IF \E q \in asked : G!PrecedenceConflict(chosen(q))
        THEN [status |-> "error", picks |-> {}]
        ELSE LET picks == UNION {{<<r, q[2]>> : r \in chosen(q)} : q \in asked}
             IN  [status |-> IF picks = {} THEN "empty" ELSE "ok", picks |-> picks]

-----------------------------------------------------------------------------
(* Reading observations *)

FieldsOf(o, name) == {e \in o.result.evidence : e.key[2] = name}
Records(o) == {e.key[1] : e \in o.result.evidence}

Reads(obs, tool, statuses) == {o \in obs : o.tool = tool /\ o.result.status \in statuses}

\* An error is no observation of the logistics; nothing found is one.
Shipments(obs) == Reads(obs, "get_logistics", {"ok", "empty"})
Orders(obs) == Reads(obs, "get_order", {"ok"})

\* complete_delivered_at_evidence: one order, and one delivery instant per package.
IsComplete(o) ==
    /\ Cardinality({e.at : e \in o.result.evidence}) <= 1
    /\ \A e \in FieldsOf(o, "order_id") : e.value = o.about
    /\ \A p \in Records(o) : Cardinality({e \in FieldsOf(o, "delivered_at") : e.key[1] = p}) = 1

\* The rules observed, each validated against what is published when it is used.
Observed(obs) == UNION {o.picks : o \in obs}
WindowRules(obs) == {r \in {pick[1] : pick \in Observed(obs)} : r.type \in WindowTypes}
SelectedFor(obs, r) == {pick[2] : pick \in {x \in Observed(obs) : x[1] = r}}

IsPublished(obs, build) == \A o \in obs : o.picks # {} => o.build = build

\* The selection that the evidence records is one that a catalog can have made.
IsConsistent(obs) ==
    /\ \A r \in WindowRules(obs) : r.scope # {} => SelectedFor(obs, r) \subseteq r.scope
    /\ \A r, q \in WindowRules(obs) :
          r.type = q.type /\ SelectedFor(obs, r) \cap SelectedFor(obs, q) # {} =>
             r.priority = q.priority /\ r.params = q.params

\* Seeded fault: the general rules stand beside the one for the category.
ApplicableBesideGeneral(obs, type, category) ==
    {r \in WindowRules(obs) : r.type = type /\ {category, None} \cap SelectedFor(obs, r) # {}}

\* The rule selected for the category, or else the general one.
ApplicableRefs(obs, type, category) ==
    LET ofType   == {r \in WindowRules(obs) : r.type = type}
        explicit == {r \in ofType : category \in SelectedFor(obs, r)}
        general  == {r \in ofType : None \in SelectedFor(obs, r) /\ r.scope = {}}
    IN  IF explicit # {} THEN explicit ELSE general

-----------------------------------------------------------------------------
(* Derivations *)

Derived(subject, fact, value, now, inputs) ==
    [kind |-> "derived", key |-> <<subject, fact>>, value |-> value,
     at |-> now, contract |-> "none", inputs |-> inputs]

\* Calendar dates at the rule's offset; the day of the delivery is day 0.
ElapsedDays(start, now, offset) == (now + offset) \div Day - (start + offset) \div Day

\* A delivery that is known and not to come.
IsDelivered(e, now) == e.value # None /\ e.value <= now

Available(obs, now) ==
    {Derived(e.key[1], "inventory_available", e.value > 0, now, {e})
       : e \in UNION {FieldsOf(o, "available_qty") : o \in Reads(obs, "get_inventory", {"ok"})}}

\* One order and one logistics observation of it, read at one instant; no package, or
\* one without its fields, proves neither a conflict nor that there is none.
ConflictOf(status, o, now) ==
    LET statuses == FieldsOf(o, "status")
        orders   == FieldsOf(o, "order_id")
        parcels  == {[status |-> e.value] : e \in statuses}
    IN  IF statuses = {} \/ {e.key[1] : e \in statuses} # {e.key[1] : e \in orders}
             \/ \E e \in statuses : e.at # status.at
        THEN {}
        ELSE {Derived(status.key[1], ConflictFact,
                      G!BusinessStateConflict([order |-> status.value, parcels |-> parcels]),
                      now, {status} \cup statuses \cup orders)}

Conflicts(obs, now) ==
    UNION {UNION {ConflictOf(e, o, now) : e \in FieldsOf(p, "status")}
             : <<p, o>> \in {x \in Orders(obs) \X Shipments(obs) : x[1].about = x[2].about}}

\* The days since each delivery, as every observed window rule would count them.
DaysSince(obs, now) ==
    {Derived(x[1].key[1], "days_since_delivery", ElapsedDays(x[1].value, now, x[2].params.offset), now, {x[1]})
       : x \in {e \in UNION {FieldsOf(o, "delivered_at") : o \in Shipments(obs)} : IsDelivered(e, now)}
               \X WindowRules(obs)}

\* The only package of an observation, if it was delivered: items are not linked to
\* packages, so that of several none is the item's.
OnlyDelivered(o, now) ==
    IF Cardinality(FieldsOf(o, "delivered_at")) = 1
    THEN {e \in FieldsOf(o, "delivered_at") : IsDelivered(e, now)}
    ELSE {}

WindowFact(type) == IF type = "return_window" THEN "within_return_window" ELSE "within_exchange_window"

WindowsOf(category, o, rule, now) ==
    IF ~G!InEffect(rule, now) \/ (rule.scope # {} /\ category.value \notin rule.scope) THEN {}
    ELSE {Derived(category.key[1], WindowFact(rule.type),
                  ElapsedDays(e.value, now, rule.params.offset) <= rule.params.days,
                  now, {e, category}) : e \in OnlyDelivered(o, now)}

ItemWindows(obs, category, o, now) ==
    UNION {WindowsOf(category, o, r, now)
             : r \in UNION {ApplicableRefs(obs, t, category.value) : t \in WindowTypes}}

Windows(obs, now) ==
    UNION {UNION {ItemWindows(obs, c, o, now) : c \in FieldsOf(p, "category")}
             : <<p, o>> \in {x \in Orders(obs) \X Shipments(obs) : x[1].about = x[2].about}}

\* What cannot be trusted stops the enrichment.
Refuses(obs, build) ==
    \/ \E o \in Shipments(obs) : ~IsComplete(o)
    \/ ~IsPublished(obs, build)
    \/ ~IsConsistent(obs)

Enriched(obs, now) == Available(obs, now) \cup Conflicts(obs, now) \cup DaysSince(obs, now) \cup Windows(obs, now)

\* evaluate_evidence_state: with no limit of age, only what is of this instant is used.
DecideState(obs, now, requirements) ==
    DecideV2({o.result : o \in obs}, requirements, Enriched(obs, now), now, None)

-----------------------------------------------------------------------------
(* Properties *)

\* The calendar dates that begin after start, up to now.
Midnights(start, now, offset) == Cardinality({t \in (start + 1) .. now : (t + offset) % Day = 0})

\* What a run derives of an item's window is what the Guard of an action on the item
\* would decide at the same instant: by the rules in force for its category, whatever
\* the queries named, and of the only package that can have carried it.
WindowsAreTheGuards(obs, rules, now) ==
    \A f \in Windows(obs, now) :
        LET type     == CHOOSE t \in WindowTypes : f.key[2] = WindowFact(t)
            category == (CHOOSE e \in f.inputs : e.key[2] = "category").value
            start    == (CHOOSE e \in f.inputs : e.key[2] = "delivered_at").value
            selected == G!SelectPolicies(rules, now, type, category)
        IN  /\ selected # {} /\ ~G!PrecedenceConflict(selected)
            /\ f.value <=> \A w \in selected : Midnights(start, now, w.params.offset) <= w.params.days
            /\ \E o \in Shipments(obs) : Cardinality(Records(o)) = 1 /\ f.inputs \cap o.result.evidence # {}

\* A window is answered only when no two observations contradict each other: not the
\* order's status a shipment's, and not one reading of a package another.
AnsweredIsConsistent(obs, now, item) ==
    \A t \in WindowTypes :
        LET q == [key |-> <<item, WindowFact(t)>>, scope |-> "state", types |-> {"derived"},
                  providers |-> {"get_order", "get_logistics"}]
            facts == {f \in Windows(obs, now) : f.key = q.key}
        IN  DecideState(obs, now, {q}).outcome = "sufficient" =>
              /\ Cardinality({f.value : f \in facts}) = 1
              /\ \A p \in Orders(obs), o \in Shipments(obs) :
                    p.about = o.about => \A s \in FieldsOf(p, "status") :
                      ~G!BusinessStateConflict([order |-> s.value,
                                                parcels |-> {[status |-> e.value] : e \in FieldsOf(o, "status")}])

\* Observations of one instant are all usable, as are the facts derived of them, and
\* nothing in them stops the enrichment as long as the policies stay published.
EnrichmentHolds(obs, rules, now, build, item) ==
    /\ Refuses(obs, build) <=> \E o \in obs : o.picks # {} /\ o.build # build
    /\ \A e \in Enriched(obs, now) : Exclusion(e, Collected({o.result : o \in obs}, Enriched(obs, now)), now, None) = None
    /\ WindowsAreTheGuards(obs, rules, now)
    /\ AnsweredIsConsistent(obs, now, item)
=============================================================================
