---------------------------- MODULE PublishedWiki ----------------------------
(***************************************************************************)
(* What the wiki's repository promises to its readers: a build is written  *)
(* once, can only be live when it is there, and a build that failed        *)
(* neither becomes live nor is live.                                       *)
(***************************************************************************)
CONSTANTS Build, None

VARIABLES
    catalog, \* what each build holds
    live,    \* the build that readers are given
    failed   \* the builds that must not be published

vars == <<catalog, live, failed>>

Init ==
    /\ catalog = [b \in Build |-> None]
    /\ live = None
    /\ failed = {}

Add(b) ==
    /\ catalog[b] = None
    /\ \A other \in Build \ {b} : catalog'[other] = catalog[other]
    /\ catalog'[b] # None
    /\ UNCHANGED <<live, failed>>

Publish(b) ==
    /\ catalog[b] # None /\ b \notin failed
    /\ live' = b
    /\ UNCHANGED <<catalog, failed>>

Retract ==
    /\ live' = None
    /\ UNCHANGED <<catalog, failed>>

Fail(b) ==
    /\ catalog[b] # None /\ b # live
    /\ failed' = failed \cup {b}
    /\ UNCHANGED <<catalog, live>>

Next == Retract \/ \E b \in Build : Add(b) \/ Publish(b) \/ Fail(b)

Spec == Init /\ [][Next]_vars
=============================================================================
