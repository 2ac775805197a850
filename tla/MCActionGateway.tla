-------------------------- MODULE MCActionGateway --------------------------
(***************************************************************************)
(* Small instances of ActionGateway.  One order item carries all the       *)
(* interference; the keys are two returns of two conversations, an         *)
(* exchange and two handoffs of the same item.                             *)
(***************************************************************************)
EXTENDS ActionGateway, TLC

CONSTANTS r1, r2, q1, x1, h1, h2, i1, s1, w1, w2

Intents ==
    (r1 :> [name |-> "create_return", item |-> i1, trigger |-> "none"]) @@
    (r2 :> [name |-> "create_return", item |-> i1, trigger |-> "none"]) @@
    (q1 :> [name |-> "create_return", item |-> i1, trigger |-> "quality_dispute"]) @@
    (x1 :> [name |-> "create_exchange", item |-> i1, trigger |-> "none"]) @@
    (h1 :> [name |-> "escalate_to_human", item |-> i1, trigger |-> "quality_dispute"]) @@
    (h2 :> [name |-> "escalate_to_human", item |-> i1, trigger |-> "quality_dispute"])

MCIntent == [k \in Key |-> Intents[k]]
MCCategory == [i \in Item |-> "shoes"]

Delivered == {[no |-> "t1", status |-> "delivered", at |-> 0]}
Moving    == {[no |-> "t1", status |-> "in_transit", at |-> NoDay]}
Two       == Delivered \cup {[no |-> "t2", status |-> "delivered", at |-> 1]}

Rule(type, trigger, params, from, until, priority, scope) ==
    [type |-> type, trigger |-> trigger, params |-> params, from |-> from, until |-> until,
     priority |-> priority, scope |-> scope]

\* b1: both windows last a day, quality disputes are routed to people.
\* b2: from day 1 a higher rule forbids returning shoes; quality disputes are not routed.
RulebookOf(builds) ==
    [b \in builds |->
       {Rule("return_window", "none", 1, 0, 9, 1, {}),
        Rule("exchange_window", "none", 1, 0, 9, 1, {})}
       \cup IF b = "b1"
            THEN {Rule("handoff", "quality_dispute", 0, 0, 9, 1, {})}
            ELSE {Rule("non_returnable", "none", 0, 1, 9, 2, {"shoes"})}]
MCRulebook == RulebookOf(Builds)

\* s6-risk/1, and a later release that lets returns pass and wants exchanges approved.
MCRisk ==
    << [create_return |-> "REQUIRE_APPROVAL", create_exchange |-> "ALLOW",
        escalate_to_human |-> "ALLOW"],
       [create_return |-> "ALLOW", create_exchange |-> "REQUIRE_APPROVAL",
        escalate_to_human |-> "ALLOW"] >>

OneRelease    == SubSeq(MCRisk, 1, 1)
OnlyDelivered == {Delivered}
AllParcels    == {Delivered, Moving, Two, {}}
Handoffs      == Permutations({h1, h2})
Callers       == Permutations({w1, w2}) \cup Permutations({r1, r2})
TwoParcels    == {Delivered, Moving}

\* The races on the gateway's own tables: two processes, two conversations, the staff
\* and a publication, on orders, days and risk rules that stand still (MCGatewayGuard
\* moves those).
RacesNext ==
    \/ Gateway
    \/ \E c \in StaffCase, i \in Item, type \in {"return", "exchange"} : StaffOpensCase(c, i, type)
    \/ \E c \in CaseId, status \in {"completed", "rejected"} : StaffClosesCase(c, status)
    \/ PolicyChanges

RacesSpec == Init /\ [][RacesNext]_vars
=============================================================================
