--------------------------- MODULE ActionLifecycle ---------------------------
(***************************************************************************)
(* What the action gateway promises, without its rows, snapshots, policies *)
(* or failures.  A request for an item either takes effect at once or      *)
(* waits for a decision; at most one request for an item is undecided or   *)
(* approved at a time; an effect opens a case only while the item has none *)
(* open; an effect happens once, and an approved request that cannot take  *)
(* effect any more is closed.                                              *)
(***************************************************************************)
CONSTANTS
    Key,     \* requests
    Item,    \* order items
    ItemOf,  \* [Key -> Item]
    Handoffs,\* the requests whose effect is a ticket, not a case
    Case     \* the keys of possible cases: those of requests and of the staff

VARIABLES
    phase,     \* Key -> "new", "waiting", "approved", "done" or "closed"
    openCases  \* [Item -> the open cases of the item]

vars == <<phase, openCases>>

Undecided(i) == {k \in Key : phase[k] \in {"waiting", "approved"} /\ ItemOf[k] = i}

Init == phase = [k \in Key |-> "new"] /\ openCases = [i \in Item |-> {}]

Moves(k, from, to) == phase[k] = from /\ phase' = [phase EXCEPT ![k] = to]

\* The request waits for a decision.
Ask(k) ==
    /\ Moves(k, "new", "waiting")
    /\ k \notin Handoffs
    /\ Undecided(ItemOf[k]) = {} /\ openCases[ItemOf[k]] = {}
    /\ UNCHANGED openCases

\* A person decides, once.
Approve(k) == Moves(k, "waiting", "approved") /\ UNCHANGED openCases
Reject(k)  == Moves(k, "waiting", "closed") /\ UNCHANGED openCases

\* An approved request whose circumstances changed ends without effect.
Close(k) == Moves(k, "approved", "closed") /\ UNCHANGED openCases

\* The effect, and with it the end of the request.
TakeEffect(k) ==
    /\ \/ Moves(k, "new", "done") /\ (k \in Handoffs \/ Undecided(ItemOf[k]) = {})
       \/ Moves(k, "approved", "done")
    /\ IF k \in Handoffs
       THEN UNCHANGED openCases
       ELSE /\ openCases[ItemOf[k]] = {}
            /\ openCases' = [openCases EXCEPT ![ItemOf[k]] = {k}]

StaffOpens(i, c) ==
    /\ openCases[i] = {}
    /\ openCases' = [openCases EXCEPT ![i] = {c}]
    /\ UNCHANGED phase

StaffCloses(i) ==
    /\ openCases[i] # {}
    /\ openCases' = [openCases EXCEPT ![i] = {}]
    /\ UNCHANGED phase

Next ==
    \/ \E k \in Key : Ask(k) \/ Approve(k) \/ Reject(k) \/ Close(k) \/ TakeEffect(k)
    \/ \E i \in Item, c \in Case : StaffOpens(i, c)
    \/ \E i \in Item : StaffCloses(i)

Spec == Init /\ [][Next]_vars
=============================================================================
