--------------------------- MODULE ConversationProofs ---------------------------
(***************************************************************************)
(* Proofs about Conversation, for any keys, message and step limits and    *)
(* kinds and numbers of failures.                                          *)
(*                                                                         *)
(* The head of the session file is the only view that survives, so the     *)
(* invariant says how everything else is derived from it: a loaded object  *)
(* equals it, a marker holds a checkpoint with the same books, the work of *)
(* an answered submission is that checkpoint with the answer recorded, and *)
(* every view with those books agrees with the gateway's rows.             *)
(***************************************************************************)
EXTENDS Conversation, TLAPS

-----------------------------------------------------------------------------
(* The inductive invariant *)

\* An outcome in a transcript agrees with the rows of the gateway.
EntryFits(e, rows) ==
    /\ e.status = "EXECUTED" => rows[e.key] \in {"EXECUTED", "receipt"}
    /\ e.status \in {"REJECTED", "STALE"} => rows[e.key] = e.status
    /\ e.kind = "event" /\ e.status = "DENIED" => rows[e.key] = "DENIED"
    /\ e.status = "WAITING_APPROVAL" => rows[e.key] # "none"

\* What a view says of a key agrees with its row: the tracked actions are those whose
\* submission was answered WAITING_APPROVAL, and nobody else's row has been decided.
KeyFits(view, rows, k) ==
    /\ k \in view.actions <=> view.first[k] = "WAITING_APPROVAL"
    /\ k \in view.actions => rows[k] \notin {"none", "receipt"}
    /\ view.first[k] = "EXECUTED" => rows[k] = "receipt"
    /\ rows[k] \notin {"none", "receipt", "PENDING_APPROVAL"} => k \in view.actions

Fits(view, rows) ==
    /\ \A k \in Key : KeyFits(view, rows, k)
    /\ \A e \in view.log : EntryFits(e, rows)

\* The transcript of a view is up to date with the row of a key.
Current(view, rows, k) ==
    k \in view.actions =>
      /\ k \in view.open <=> rows[k] \in Open
      /\ rows[k] \notin Open => Event(k, Status(rows[k])) \in view.log

ReplyOf(k, status) == [kind |-> "reply", key |-> k, status |-> status]

\* What the gateway can have answered to a submission.
Answered(k, status, r) ==
    \/ r # "none" /\ status = Status(r)
    \/ r = "none" /\ status = "DENIED"
    \/ status = "FAILED" /\ "failed" \in Faults

\* The head accounts for a row without a marker.
Known(view, k) ==
    \/ Anchored(view, k)
    \/ "failed" \in Faults /\ ReplyOf(k, "FAILED") \in view.log

SameBook(v, w) == v.first = w.first /\ v.actions = w.actions /\ v.open = w.open /\ v.log = w.log

Loading == {"load", "recover", "recovered", "reconcile", "saving"}
BeforeGateway == {"decide", "ended", "stopped", "marked", "clearing"}

\* The head, the marker and the rows.
HeadInv ==
    /\ Fits(file.head, row)
    /\ \A k \in Key : row[k] # "none" => Known(file.head, k) \/ MarkerNames(k)
    /\ file.inflight # None => SameBook(file.inflight.view, file.head)
    /\ told \subseteq file.head.log

\* The object: loaded from the head, and current except for a decision under way.
ObjectInv ==
    /\ at \in Loading \cup {"down"} => ~loaded
    /\ at \notin Loading \cup {"down", "idle"} => loaded
    /\ loaded => /\ fields = file.head
                 /\ \A k \in Key : (at = "decided" /\ k = key) \/ Current(file.head, row, k)
                 /\ at \notin {"marked", "clearing", "returned"} => file.inflight = None
    /\ at \in {"reconcile", "saving"} => file.inflight = None
    /\ at = "reconcile" => fields = file.head
    /\ at = "saving" => fields = Reconciled(file.head)

\* A submission under way: nothing written before the gateway, and what it wrote and
\* answered recorded on the marked checkpoint.
SubmissionInv ==
    /\ at \in BeforeGateway => job = "message" /\ SameBook(work, file.head)
    /\ at \in {"ready"} \cup BeforeGateway => row = before
    /\ at = "idle" /\ answer = "turn_failed" => row = before /\ file.inflight = None
    /\ at \in (Loading \ {"recovered"}) \cup {"down", "ready", "approved"} \cup BeforeGateway =>
         entry = None
    /\ at = "stopped" => key \in Key
    /\ at = "marked" => file.inflight = [key |-> key, view |-> work]
    /\ at \in {"marked", "clearing"} => \A k \in Key : row[k] # "none" => Known(file.head, k)
    /\ at \in {"recover", "recovered", "marked", "returned"} => file.inflight # None
    /\ at \in {"recovered", "returned"} =>
         \E status \in Ended \cup {"WAITING_APPROVAL"} :
           LET k == file.inflight.key
           IN  /\ Answered(k, status, row[k])
               /\ work = Recorded(file.inflight.view, k, status, row[k])
               /\ entry = ReplyOf(k, status)
    /\ at = "reply" /\ entry # None => entry \in file.head.log

\* A decision under way.
DecisionInv ==
    /\ at \in {"approved", "decided"} => key \in file.head.actions
    /\ at = "approved" => row[key] = "APPROVED"
    /\ at = "decided" =>
         /\ entry # None => EntryFits(entry, row)
         /\ row[key] \notin Open =>
              Event(key, Status(row[key])) \in file.head.log \cup {entry}

ConversationInv == TypeOK /\ HeadInv /\ ObjectInv /\ SubmissionInv /\ DecisionInv

-----------------------------------------------------------------------------
(* Views *)

Statuses == Ended \cup {"WAITING_APPROVAL"}
Rows     == [Key -> RowStates]

\* What recording an outcome of a submission preserves and brings about.
LEMMA RecordedFits ==
    ASSUME NEW v \in Views, NEW rows \in Rows, NEW k \in Key, NEW status \in Statuses,
           Fits(v, rows), Answered(k, status, rows[k])
    PROVE  /\ Recorded(v, k, status, rows[k]) \in Views
           /\ Fits(Recorded(v, k, status, rows[k]), rows)
           /\ \A m \in Key : (Known(v, m) \/ m = k) /\ rows[m] # "none" =>
                Known(Recorded(v, k, status, rows[k]), m)
           /\ (\A m \in Key : Current(v, rows, m)) =>
                \A m \in Key : Current(Recorded(v, k, status, rows[k]), rows, m)
           /\ EntryFits(ReplyOf(k, status), rows)
<1> DEFINE r == rows[k]
           w == Recorded(v, k, status, r)
<1>1. r \in RowStates
  BY DEF Rows
<1>2. /\ w.msgs = v.msgs /\ w.run = v.run
      /\ w.first = [v.first EXCEPT ![k] = IF Anchored(v, k) THEN @ ELSE status]
      /\ w.log = v.log \cup {ReplyOf(k, status)}
      /\ status = "FAILED" \/ r \in {"none", "receipt"} =>
           w.actions = v.actions /\ w.open = v.open
      /\ ~(status = "FAILED" \/ r \in {"none", "receipt"}) =>
           /\ w.actions = v.actions \cup {k}
           /\ w.open = IF r \in Open THEN v.open \cup {k} ELSE v.open \ {k}
      /\ w = [msgs |-> v.msgs, run |-> v.run, first |-> w.first,
              actions |-> w.actions, open |-> w.open, log |-> w.log]
  BY <1>1 DEF Recorded, Track, Views, ReplyOf
<1> HIDE DEF w
<1>3. /\ v.msgs \in 0..MaxMessages /\ v.run \in 0..(MaxSteps + 1)
      /\ v.first \in [Key -> {"none", "WAITING_APPROVAL", "EXECUTED", "DENIED", "FAILED"}]
      /\ v.actions \subseteq Key /\ v.open \subseteq Key /\ v.log \subseteq Entries
  BY DEF Views
<1>4. KeyFits(v, rows, k)
  BY DEF Fits
<1>5. Anchored(v, k) <=> v.first[k] \in {"WAITING_APPROVAL", "EXECUTED"}
  BY DEF Anchored
\* A key whose row has been decided is anchored, so only the four outcomes of a fresh
\* submission are ever indexed.
<1>6. ~Anchored(v, k) => /\ k \notin v.actions
                         /\ r \in {"none", "receipt", "PENDING_APPROVAL"}
                         /\ status \in {"WAITING_APPROVAL", "EXECUTED", "DENIED", "FAILED"}
                         /\ status = "WAITING_APPROVAL" <=> r = "PENDING_APPROVAL" /\ status # "FAILED"
                         /\ status = "EXECUTED" <=> r = "receipt" /\ status # "FAILED"
  BY <1>4, <1>5 DEF KeyFits, Answered, Status, Open
<1>7. w.first \in [Key -> {"none", "WAITING_APPROVAL", "EXECUTED", "DENIED", "FAILED"}]
  BY <1>2, <1>3, <1>6
<1>8. ReplyOf(k, status) \in Entries
  BY DEF ReplyOf, Entries, Statuses
<1>9. w \in Views
  <2>1. w.actions \subseteq Key /\ w.open \subseteq Key /\ w.log \subseteq Entries
    BY <1>2, <1>3, <1>8
  <2>2. QED
    BY <1>2, <1>3, <1>7, <2>1 DEF Views
<1>10. \A m \in Key \ {k} : /\ w.first[m] = v.first[m]
                            /\ m \in w.actions <=> m \in v.actions
                            /\ m \in w.open <=> m \in v.open
  BY <1>2, <1>3
<1>11. w.first[k] = IF Anchored(v, k) THEN v.first[k] ELSE status
  BY <1>2, <1>3
<1>12. KeyFits(w, rows, k)
  <2>1. CASE Anchored(v, k)
    <3>1. r # "none"
      BY <1>4, <1>5, <2>1 DEF KeyFits
    <3>2. v.first[k] = "EXECUTED" => r = "receipt" /\ k \notin v.actions
      BY <1>4, <2>1 DEF KeyFits
    <3>3. k \in w.actions <=> k \in v.actions
      BY <1>2, <1>4, <1>5, <2>1, <3>2 DEF KeyFits
    <3>4. QED
      BY <1>4, <1>11, <2>1, <3>3 DEF KeyFits
  <2>2. CASE ~Anchored(v, k)
    <3>1. k \in w.actions <=> status = "WAITING_APPROVAL"
      BY <1>1, <1>2, <1>6, <2>2 DEF Answered, Status, Open
    <3>2. QED
      BY <1>6, <1>11, <2>2, <3>1 DEF KeyFits
  <2>3. QED
    BY <2>1, <2>2
<1>13. EntryFits(ReplyOf(k, status), rows)
  BY <1>1 DEF EntryFits, ReplyOf, Answered, Status, Open, RowStates, Ended
<1>14. Fits(w, rows)
  <2>1. \A m \in Key \ {k} : KeyFits(w, rows, m)
    BY <1>10 DEF Fits, KeyFits
  <2>2. \A e \in w.log : EntryFits(e, rows)
    BY <1>2, <1>13 DEF Fits
  <2>3. QED
    BY <1>12, <2>1, <2>2 DEF Fits
<1>15. ASSUME NEW m \in Key, Known(v, m) \/ m = k, rows[m] # "none" PROVE Known(w, m)
  <2>1. CASE Known(v, m)
    <3>1. Anchored(v, m) => Anchored(w, m)
      BY <1>10, <1>11 DEF Anchored
    <3>2. QED
      BY <1>2, <2>1, <3>1 DEF Known
  <2>2. CASE m = k /\ ~Anchored(v, k)
    <3>1. CASE status = "FAILED"
      <4>1. "failed" \in Faults
        BY <1>6, <1>15, <2>2, <3>1 DEF Answered, Status, Open
      <4>2. QED
        BY <1>2, <2>2, <3>1, <4>1 DEF Known
    <3>2. CASE status # "FAILED"
      BY <1>5, <1>6, <1>11, <1>15, <2>2, <3>2 DEF Known, Anchored
    <3>3. QED
      BY <3>1, <3>2
  <2>3. CASE m = k /\ Anchored(v, k)
    BY <1>11, <2>3 DEF Known, Anchored
  <2>4. QED
    BY <1>15, <2>1, <2>2, <2>3
<1>16. ASSUME \A m \in Key : Current(v, rows, m), NEW m \in Key PROVE Current(w, rows, m)
  <2>1. v.log \subseteq w.log
    BY <1>2
  <2>2. CASE m # k
    BY <1>10, <1>16, <2>1, <2>2 DEF Current
  <2>3. CASE m = k /\ k \in v.actions
    <3>1. k \in w.open <=> r \in Open
      BY <1>2, <1>16, <2>3 DEF Current
    <3>2. QED
      BY <1>16, <2>1, <2>3, <3>1 DEF Current
  <2>4. CASE m = k /\ k \notin v.actions
    BY <1>2, <1>4, <1>6, <2>4 DEF Current, KeyFits, Open
  <2>5. QED
    BY <2>2, <2>3, <2>4
<1>17. QED
  BY <1>9, <1>13, <1>14, <1>15, <1>16 DEF w

\* The only moves of a row, as the conversation whose head is v makes them: a fresh key
\* gets its first row, and a tracked action is decided and carried out.
RowMoves(v, k, r, s) ==
    \/ s = r
    \/ r = "none" /\ s \in {"receipt", "PENDING_APPROVAL"}
    \/ k \in v.actions /\ r = "PENDING_APPROVAL" /\ s \in {"APPROVED", "REJECTED"}
    \/ k \in v.actions /\ r = "APPROVED" /\ s \in {"EXECUTED", "STALE", "DENIED", "FAILED"}

\* No move of a row makes a view untrue.
LEMMA FitsStays ==
    ASSUME NEW v \in Views, NEW rows \in Rows, NEW later \in Rows,
           Fits(v, rows), \A k \in Key : RowMoves(v, k, rows[k], later[k])
    PROVE  Fits(v, later)
<1>1. ASSUME NEW k \in Key PROVE KeyFits(v, later, k)
  BY <1>1 DEF Fits, KeyFits, RowMoves
<1>2. ASSUME NEW e \in v.log PROVE EntryFits(e, later)
  <2>1. e.key \in Key /\ EntryFits(e, rows) /\ e.status \in Statuses
    BY <1>2 DEF Fits, Views, Entries, Statuses
  <2>2. RowMoves(v, e.key, rows[e.key], later[e.key])
    BY <2>1
  <2>3. QED
    BY <2>1, <2>2 DEF EntryFits, RowMoves
<1>3. QED
  BY <1>1, <1>2 DEF Fits

LEMMA SameBookFits ==
    ASSUME NEW v \in Views, NEW w \in Views, NEW rows, SameBook(v, w)
    PROVE  /\ Fits(v, rows) <=> Fits(w, rows)
           /\ \A k \in Key : Known(v, k) <=> Known(w, k)
           /\ \A k \in Key : Current(v, rows, k) <=> Current(w, rows, k)
<1>1. Fits(v, rows) <=> Fits(w, rows)
  BY DEF SameBook, Fits, KeyFits
<1>2. ASSUME NEW k \in Key PROVE Known(v, k) <=> Known(w, k)
  BY DEF SameBook, Known, Anchored
<1>3. ASSUME NEW k \in Key PROVE Current(v, rows, k) <=> Current(w, rows, k)
  BY DEF SameBook, Current
<1>4. QED
  BY <1>1, <1>2, <1>3

\* The view that a decision saves.
Decided(v, k, r, e) ==
    [Track(v, k, r) EXCEPT !.log = IF e = None THEN @ ELSE @ \cup {e}]

LEMMA DecidedFits ==
    ASSUME NEW v \in Views, NEW rows \in Rows, NEW k \in v.actions, NEW e \in Entries \cup {None},
           Fits(v, rows), e # None => EntryFits(e, rows),
           \A m \in Key \ {k} : Current(v, rows, m),
           rows[k] \notin Open => Event(k, Status(rows[k])) \in v.log \cup {e}
    PROVE  /\ Decided(v, k, rows[k], e) \in Views
           /\ Fits(Decided(v, k, rows[k], e), rows)
           /\ \A m \in Key : Known(v, m) => Known(Decided(v, k, rows[k], e), m)
           /\ \A m \in Key : Current(Decided(v, k, rows[k], e), rows, m)
           /\ v.log \subseteq Decided(v, k, rows[k], e).log
           /\ e # None => e \in Decided(v, k, rows[k], e).log
           /\ Decided(v, k, rows[k], e).msgs = v.msgs
           /\ Decided(v, k, rows[k], e).run = v.run
           /\ Decided(v, k, rows[k], e).first = v.first
<1> DEFINE w == Decided(v, k, rows[k], e)
           o == IF rows[k] \in Open THEN v.open \cup {k} ELSE v.open \ {k}
           l == IF e = None THEN v.log ELSE v.log \cup {e}
<1>1. /\ w.msgs = v.msgs /\ w.run = v.run /\ w.first = v.first /\ w.actions = v.actions
      /\ w.open = o /\ w.log = l
      /\ w = [msgs |-> w.msgs, run |-> w.run, first |-> w.first, actions |-> w.actions,
              open |-> w.open, log |-> w.log]
  <2> DEFINE u == Track(v, k, rows[k])
  <2>1. /\ u.msgs = v.msgs /\ u.run = v.run /\ u.first = v.first /\ u.actions = v.actions
        /\ u.log = v.log /\ u.open = o
    BY DEF Track, Views
  <2>2. u \in [msgs : {u.msgs}, run : {u.run}, first : {u.first}, actions : {u.actions},
               open : {u.open}, log : {u.log}]
    BY DEF Track, Views
  <2>3. w = [u EXCEPT !.log = l]
    BY <2>1 DEF Decided
  <2> HIDE DEF u, w, o, l
  <2>4. QED
    BY <2>1, <2>2, <2>3
<1>2. /\ v.msgs \in 0..MaxMessages /\ v.run \in 0..(MaxSteps + 1)
      /\ v.first \in [Key -> {"none", "WAITING_APPROVAL", "EXECUTED", "DENIED", "FAILED"}]
      /\ v.actions \subseteq Key /\ v.open \subseteq Key /\ v.log \subseteq Entries
  BY DEF Views
<1>3. k \in Key
  BY <1>2
<1>4. rows[k] \notin Open => Event(k, Status(rows[k])) \in Entries
  BY <1>3 DEF Fits, KeyFits, Event, Entries, Status, Rows, RowStates
<1> HIDE DEF w
<1>5. w \in Views
  BY <1>1, <1>2, <1>3 DEF Views
<1>6. w.msgs = v.msgs /\ w.run = v.run /\ w.first = v.first /\ w.actions = v.actions
      /\ w.open = o /\ w.log = l
  BY <1>1
<1>7. Fits(w, rows)
  <2>1. \A m \in Key : KeyFits(w, rows, m)
    BY <1>6 DEF Fits, KeyFits
  <2>2. \A x \in w.log : EntryFits(x, rows)
    BY <1>6 DEF Fits
  <2>3. QED
    BY <2>1, <2>2 DEF Fits
<1>8. \A m \in Key : Known(v, m) => Known(w, m)
  BY <1>6 DEF Known, Anchored
<1>9. ASSUME NEW m \in Key PROVE Current(w, rows, m)
  <2>1. CASE m # k
    BY <1>6, <2>1 DEF Current
  <2>2. CASE m = k
    <3>1. rows[k] \notin Open => Event(k, Status(rows[k])) \in w.log
      <4>1. CASE e = None
        BY <1>4, <1>6, <4>1, MarkerAssumption
      <4>2. CASE e # None
        BY <1>6, <4>2
      <4>3. QED
        BY <4>1, <4>2
    <3>2. k \in w.open <=> rows[k] \in Open
      BY <1>6
    <3>3. QED
      BY <2>2, <3>1, <3>2 DEF Current
  <2>3. QED
    BY <2>1, <2>2
<1>10. QED
  BY <1>5, <1>6, <1>7, <1>8, <1>9 DEF w

\* The view that loading reconciles with the gateway.
LEMMA ReconciledFits ==
    ASSUME NEW v \in Views, row \in Rows, Fits(v, row)
    PROVE  /\ Reconciled(v) \in Views
           /\ Fits(Reconciled(v), row)
           /\ \A m \in Key : Known(v, m) => Known(Reconciled(v), m)
           /\ \A m \in Key : Current(Reconciled(v), row, m)
           /\ v.log \subseteq Reconciled(v).log
           /\ Reconciled(v).msgs = v.msgs
           /\ Reconciled(v).run = v.run
           /\ Reconciled(v).first = v.first
<1> DEFINE w == Reconciled(v)
           o == {k \in v.actions : row[k] \in Open}
           l == v.log \cup {Event(k, Status(row[k])) : k \in {m \in v.actions : row[m] \notin Open}}
<1>1. /\ w.msgs = v.msgs /\ w.run = v.run /\ w.first = v.first /\ w.actions = v.actions
      /\ w.open = o /\ w.log = l
      /\ w \in [msgs : {w.msgs}, run : {w.run}, first : {w.first}, actions : {w.actions},
                open : {w.open}, log : {w.log}]
  BY DEF Reconciled, Views
<1>2. /\ v.msgs \in 0..MaxMessages /\ v.run \in 0..(MaxSteps + 1)
      /\ v.first \in [Key -> {"none", "WAITING_APPROVAL", "EXECUTED", "DENIED", "FAILED"}]
      /\ v.actions \subseteq Key /\ v.open \subseteq Key /\ v.log \subseteq Entries
  BY DEF Views
<1> HIDE DEF w
<1>3. ASSUME NEW k \in v.actions, row[k] \notin Open
      PROVE  /\ Event(k, Status(row[k])) \in Entries
             /\ EntryFits(Event(k, Status(row[k])), row)
  <2>1. row[k] \in Ended /\ k \in Key
    BY <1>2, <1>3 DEF Fits, KeyFits, Rows, RowStates, Open
  <2>2. Status(row[k]) = row[k]
    BY <2>1 DEF Status, Ended, Open
  <2>3. QED
    BY <2>1, <2>2 DEF Event, Entries, EntryFits, Ended
<1>4. l \subseteq Entries
  BY <1>2, <1>3
<1>5. w \in Views
  BY <1>1, <1>2, <1>4 DEF Views
<1>6. Fits(w, row)
  <2>1. \A m \in Key : KeyFits(w, row, m)
    BY <1>1 DEF Fits, KeyFits
  <2>2. \A e \in w.log : EntryFits(e, row)
    BY <1>1, <1>3 DEF Fits
  <2>3. QED
    BY <2>1, <2>2 DEF Fits
<1>7. \A m \in Key : Known(v, m) => Known(w, m)
  BY <1>1 DEF Known, Anchored
<1>8. \A m \in Key : Current(w, row, m)
  BY <1>1 DEF Current
<1>9. QED
  BY <1>1, <1>5, <1>6, <1>7, <1>8 DEF w

-----------------------------------------------------------------------------
(* The steps that write a view *)

LEMMA ConversationInit == Init => ConversationInv
<1> SUFFICES ASSUME Init PROVE ConversationInv
  OBVIOUS
<1> USE ConversationAssumption DEF Init
<1>1. EmptyView \in Views
  BY DEF EmptyView, Views
<1>2. row \in Rows /\ \A k \in Key : row[k] = "none"
  BY DEF Rows, RowStates
<1>3. TypeOK
  BY <1>1, <1>2 DEF TypeOK, Jobs, Rows
<1>4. Fits(EmptyView, row) /\ \A k \in Key : Current(EmptyView, row, k)
  BY <1>2 DEF EmptyView, Fits, KeyFits, Current
<1>5. HeadInv
  BY <1>2, <1>4 DEF HeadInv
<1>6. ObjectInv
  BY <1>4 DEF ObjectInv, Loading
<1>7. SubmissionInv /\ DecisionInv
  BY DEF SubmissionInv, DecisionInv, Loading, BeforeGateway
<1>8. QED
  BY <1>3, <1>5, <1>6, <1>7 DEF ConversationInv

\* What the gateway answers to a submission and leaves behind.
LEMMA Submitted ==
    ASSUME ConversationInv, NEW k \in Key, NEW v \in Views, Submits(k, v), SameBook(v, file.head)
    PROVE  \E status \in Statuses :
             /\ row' = [row EXCEPT ![k] = row'[k]] /\ row' \in Rows
             /\ \/ row'[k] = row[k]
                \/ row[k] = "none" /\ row'[k] \in {"receipt", "PENDING_APPROVAL"}
             /\ Answered(k, status, row'[k])
             /\ work' = Recorded(v, k, status, row'[k])
             /\ work' \in Views
             /\ entry' = ReplyOf(k, status)
             /\ entry' \in Entries
             /\ faults' \in 0..MaxFaults
             /\ Fits(file.head, row')
<1> PICK status \in Statuses, r \in RowStates :
      /\ Starts(k, status, r)
      /\ row' = [row EXCEPT ![k] = r]
      /\ work' = Recorded(v, k, status, r)
      /\ entry' = ReplyOf(k, status)
  BY DEF Submits, Statuses, ReplyOf
<1>1. row \in Rows /\ faults \in 0..MaxFaults /\ file.head \in Views
  BY DEF ConversationInv, TypeOK, Rows
<1>2. row'[k] = r /\ row' \in Rows
  BY <1>1 DEF Rows
<1>3. row' = [row EXCEPT ![k] = row'[k]]
  BY <1>2
<1>4. /\ \/ r = row[k]
         \/ row[k] = "none" /\ r \in {"receipt", "PENDING_APPROVAL"}
      /\ Answered(k, status, r) /\ faults' \in 0..MaxFaults
  <2>1. CASE row[k] # "none" /\ status = Status(row[k]) /\ r = row[k] /\ UNCHANGED faults
    BY <1>1, <2>1 DEF Answered
  <2>2. CASE /\ row[k] = "none" /\ UNCHANGED faults
             /\ <<status, r>> \in {<<"DENIED", "none">>, <<"EXECUTED", "receipt">>,
                                  <<"WAITING_APPROVAL", "PENDING_APPROVAL">>}
    <3>1. CASE status = "DENIED" /\ r = "none"
      BY <1>1, <2>2, <3>1 DEF Answered
    <3>2. CASE status = "EXECUTED" /\ r = "receipt"
      BY <1>1, <2>2, <3>2 DEF Answered, Status, Open
    <3>3. CASE status = "WAITING_APPROVAL" /\ r = "PENDING_APPROVAL"
      BY <1>1, <2>2, <3>3 DEF Answered, Status, Open
    <3>4. QED
      BY <2>2, <3>1, <3>2, <3>3
  <2>3. CASE status = "FAILED" /\ r = row[k] /\ Fails("failed")
    BY <1>1, <2>3, ConversationAssumption DEF Answered, Fails
  <2>4. QED
    BY <2>1, <2>2, <2>3 DEF Starts
<1>5. Fits(file.head, row')
  <2>1. PICK h \in Views : h = file.head
    BY <1>1
  <2>2. PICK old \in Rows : old = row
    BY <1>1
  <2>3. PICK new \in Rows : new = row'
    BY <1>2
  <2>4. \A m \in Key : RowMoves(h, m, old[m], new[m])
    BY <1>1, <1>2, <1>3, <1>4, <2>2, <2>3 DEF RowMoves, Rows
  <2>5. Fits(h, old)
    BY <2>1, <2>2 DEF ConversationInv, HeadInv
  <2>6. QED
    BY <2>1, <2>3, <2>4, <2>5, FitsStays
<1>6. work' \in Views
  <2>1. PICK new \in Rows : new = row'
    BY <1>2
  <2>2. PICK h \in Views : h = file.head
    BY <1>1
  <2>3. Fits(v, new)
    BY <1>5, <2>1, <2>2, SameBookFits
  <2>4. new[k] = r /\ Answered(k, status, new[k])
    BY <1>2, <1>4, <2>1
  <2>5. Recorded(v, k, status, new[k]) \in Views
    BY <2>3, <2>4, RecordedFits
  <2>6. QED
    BY <2>4, <2>5
<1>7. entry' \in Entries
  BY DEF ReplyOf, Entries, Statuses
<1>8. QED
  BY <1>2, <1>3, <1>4, <1>5, <1>6, <1>7

\* The view a decision saves is the fields with the row of its key and its outcome.
LEMMA Saved ==
    ASSUME ConversationInv, SaveDecision
    PROVE  /\ fields' = Decided(file.head, key, row[key], entry)
           /\ key \in file.head.actions /\ key \in Key
           /\ entry \in Entries \cup {None}
           /\ entry # None => EntryFits(entry, row)
           /\ \A m \in Key \ {key} : Current(file.head, row, m)
           /\ row[key] \notin Open => Event(key, Status(row[key])) \in file.head.log \cup {entry}
           /\ fields' \in Views
           /\ Fits(fields', row)
           /\ \A m \in Key : Known(file.head, m) => Known(fields', m)
           /\ \A m \in Key : Current(fields', row, m)
           /\ file.head.log \subseteq fields'.log
           /\ entry # None => entry \in fields'.log
           /\ fields'.msgs = file.head.msgs /\ fields'.run = file.head.run
           /\ fields'.first = file.head.first
<1>1. at = "decided" /\ fields = file.head /\ file.head \in Views
  BY DEF SaveDecision, ConversationInv, ObjectInv, Loading, TypeOK
<1>2. /\ fields' = Decided(file.head, key, row[key], entry)
      /\ key \in file.head.actions
      /\ entry \in Entries \cup {None}
      /\ entry # None => EntryFits(entry, row)
      /\ row[key] \notin Open => Event(key, Status(row[key])) \in file.head.log \cup {entry}
  BY <1>1 DEF SaveDecision, ConversationInv, DecisionInv, TypeOK, Decided, Track
<1>3. key \in Key
  BY <1>1, <1>2 DEF Views
<1>4. \A m \in Key \ {key} : Current(file.head, row, m)
  BY <1>1 DEF ConversationInv, ObjectInv, Loading
<1>5. PICK h \in Views : h = file.head
  BY <1>1
<1>6. PICK rows \in Rows : rows = row
  BY DEF ConversationInv, TypeOK, Rows
<1>7. PICK k \in h.actions : k = key
  BY <1>2, <1>5
<1>8. PICK e \in Entries \cup {None} : e = entry
  BY <1>2
<1>9. Fits(h, rows)
  BY <1>5, <1>6 DEF ConversationInv, HeadInv
<1>10. /\ e # None => EntryFits(e, rows)
       /\ \A m \in Key \ {k} : Current(h, rows, m)
       /\ rows[k] \notin Open => Event(k, Status(rows[k])) \in h.log \cup {e}
       /\ fields' = Decided(h, k, rows[k], e)
  BY <1>2, <1>4, <1>5, <1>6, <1>7, <1>8
<1>11. /\ Decided(h, k, rows[k], e) \in Views
       /\ Fits(Decided(h, k, rows[k], e), rows)
       /\ \A m \in Key : Known(h, m) => Known(Decided(h, k, rows[k], e), m)
       /\ \A m \in Key : Current(Decided(h, k, rows[k], e), rows, m)
       /\ h.log \subseteq Decided(h, k, rows[k], e).log
       /\ e # None => e \in Decided(h, k, rows[k], e).log
       /\ Decided(h, k, rows[k], e).msgs = h.msgs
       /\ Decided(h, k, rows[k], e).run = h.run
       /\ Decided(h, k, rows[k], e).first = h.first
  <2>1. /\ e # None => EntryFits(e, rows)
        /\ \A m \in Key \ {k} : Current(h, rows, m)
        /\ rows[k] \notin Open => Event(k, Status(rows[k])) \in h.log \cup {e}
        /\ k \in Key
    BY <1>3, <1>7, <1>10
  <2>2. QED
    BY <1>9, <2>1, DecidedFits
<1>12. QED
  BY <1>2, <1>3, <1>4, <1>5, <1>6, <1>7, <1>8, <1>10, <1>11

\* The submission in the marker and the gateway's answer to it, at the two places where
\* the gateway runs.
LEMMA Ran ==
    ASSUME ConversationInv, RunGateway \/ RecoverGateway
    PROVE  /\ file.inflight # None /\ file.inflight \in Markers
           /\ UNCHANGED <<file, told, before, job, fields, loaded, answer>>
           /\ at \in {"marked", "recover"}
           /\ RunGateway => at = "marked" /\ at' = "returned"
           /\ RecoverGateway => at = "recover" /\ at' = "recovered"
           /\ Submits(file.inflight.key, file.inflight.view)
           /\ SameBook(file.inflight.view, file.head)
           /\ file.inflight.key \in Key /\ file.inflight.view \in Views
<1>1. file.inflight # None /\ Submits(file.inflight.key, file.inflight.view)
  <2>1. CASE RunGateway
    BY <2>1, MarkerAssumption DEF RunGateway, ConversationInv, SubmissionInv, TypeOK, Markers
  <2>2. CASE RecoverGateway
    BY <2>2 DEF RecoverGateway, ConversationInv, SubmissionInv
  <2>3. QED
    BY <2>1, <2>2
<1>2. file.inflight \in Markers
  BY <1>1 DEF ConversationInv, TypeOK
<1>3. SameBook(file.inflight.view, file.head)
  BY <1>1 DEF ConversationInv, HeadInv
<1>4. QED
  BY <1>1, <1>2, <1>3 DEF Markers, RunGateway, RecoverGateway, memory

\* The same with the checkpoint and the key named.
LEMMA RunsWell ==
    ASSUME ConversationInv, RunGateway \/ RecoverGateway
    PROVE  LET k == file.inflight.key
           IN  \E status \in Statuses :
                 /\ row' = [row EXCEPT ![k] = row'[k]] /\ row' \in Rows
                 /\ \/ row'[k] = row[k]
                    \/ row[k] = "none" /\ row'[k] \in {"receipt", "PENDING_APPROVAL"}
                 /\ Answered(k, status, row'[k])
                 /\ work' = Recorded(file.inflight.view, k, status, row'[k])
                 /\ work' \in Views
                 /\ entry' = ReplyOf(k, status)
                 /\ entry' \in Entries
                 /\ faults' \in 0..MaxFaults
                 /\ Fits(file.head, row')
<1>1. /\ file.inflight.key \in Key /\ file.inflight.view \in Views
      /\ Submits(file.inflight.key, file.inflight.view)
      /\ SameBook(file.inflight.view, file.head)
  BY Ran
<1>2. PICK k \in Key : k = file.inflight.key
  BY <1>1
<1>3. PICK v \in Views : v = file.inflight.view
  BY <1>1
<1>4. Submits(k, v) /\ SameBook(v, file.head)
  BY <1>1, <1>2, <1>3
<1>5. QED
  BY <1>2, <1>3, <1>4, Submitted

\* The work of an answered submission is fit to become the head.
LEMMA Recordings ==
    ASSUME ConversationInv, at \in {"returned", "recovered"}
    PROVE  /\ Fits(work, row)
           /\ \A m \in Key : row[m] # "none" => Known(work, m)
           /\ loaded => \A m \in Key : Current(work, row, m)
           /\ file.head.log \subseteq work.log
           /\ entry \in work.log
           /\ file.inflight # None /\ file.inflight \in Markers
<1>1. /\ file.inflight # None /\ file.inflight \in Markers
      /\ file.inflight.key \in Key /\ file.inflight.view \in Views
      /\ SameBook(file.inflight.view, file.head) /\ file.head \in Views
  BY DEF ConversationInv, SubmissionInv, TypeOK, Markers, HeadInv
<1>2. PICK k \in Key : k = file.inflight.key
  BY <1>1
<1>3. PICK v \in Views : v = file.inflight.view
  BY <1>1
<1>4. PICK h \in Views : h = file.head
  BY <1>1
<1>5. PICK rows \in Rows : rows = row
  BY DEF ConversationInv, TypeOK, Rows
<1>6. PICK status \in Statuses : /\ Answered(k, status, rows[k])
                                 /\ work = Recorded(v, k, status, rows[k])
                                 /\ entry = ReplyOf(k, status)
  BY <1>2, <1>3, <1>5 DEF ConversationInv, SubmissionInv, Statuses
<1>7. SameBook(v, h) /\ Fits(h, rows)
  BY <1>1, <1>3, <1>4, <1>5 DEF ConversationInv, HeadInv
<1>8. /\ Fits(v, rows)
      /\ \A m \in Key : Known(v, m) <=> Known(h, m)
      /\ \A m \in Key : Current(v, rows, m) <=> Current(h, rows, m)
  BY <1>7, SameBookFits
<1>9. \A m \in Key : rows[m] # "none" => Known(v, m) \/ m = k
  BY <1>1, <1>2, <1>4, <1>5, <1>8 DEF ConversationInv, HeadInv, MarkerNames
<1>10. loaded => \A m \in Key : Current(v, rows, m)
  BY <1>4, <1>5, <1>8 DEF ConversationInv, ObjectInv
<1>11. Recorded(v, k, status, rows[k]).log = v.log \cup {ReplyOf(k, status)}
  BY DEF Recorded, Track, ReplyOf, Views
<1>12. /\ Fits(work, rows)
       /\ \A m \in Key : rows[m] # "none" => Known(work, m)
       /\ loaded => \A m \in Key : Current(work, rows, m)
  BY <1>6, <1>8, <1>9, <1>10, RecordedFits
<1>13. h.log \subseteq work.log /\ entry \in work.log
  BY <1>6, <1>7, <1>11 DEF SameBook
<1>14. QED
  BY <1>1, <1>4, <1>5, <1>12, <1>13

\* What loading makes of a head.
LEMMA Reconciles ==
    ASSUME ConversationInv, at \in {"reconcile", "saving"}
    PROVE  /\ Reconciled(file.head) \in Views
           /\ Fits(Reconciled(file.head), row)
           /\ \A m \in Key : Known(file.head, m) => Known(Reconciled(file.head), m)
           /\ \A m \in Key : Current(Reconciled(file.head), row, m)
           /\ file.head.log \subseteq Reconciled(file.head).log
           /\ Reconciled(file.head).msgs = file.head.msgs
           /\ Reconciled(file.head).run = file.head.run
           /\ Reconciled(file.head).first = file.head.first
<1>1. file.head \in Views /\ row \in Rows /\ Fits(file.head, row)
  BY DEF ConversationInv, TypeOK, HeadInv, Rows
<1>2. PICK h \in Views : h = file.head
  BY <1>1
<1>3. QED
  BY <1>1, <1>2, ReconciledFits

-----------------------------------------------------------------------------
(* Types *)

LEMMA TypeStep ==
    ASSUME ConversationInv, [Next]_vars
    PROVE  TypeOK'
<1> USE ConversationAssumption, MarkerAssumption
<1>0. TypeOK /\ file.head \in Views /\ faults \in Nat
  BY DEF ConversationInv, TypeOK
<1>1. ASSUME NEW kind, Fails(kind) PROVE faults' \in 0..MaxFaults
  BY <1>0, <1>1 DEF TypeOK, Fails
<1>2. EmptyView \in Views
  BY DEF EmptyView, Views
<1>3. ASSUME NEW wanted \in Jobs, Ask(wanted) PROVE TypeOK'
  BY <1>0, <1>2, <1>3 DEF Ask, TypeOK, durable, memory
<1>4. CASE Restart \/ View \/ UNCHANGED vars
  BY <1>0, <1>4 DEF Restart, View, TypeOK, durable, memory, request, vars, Ends
<1>5. CASE Crash
  BY <1>0, <1>1, <1>2, <1>5 DEF Crash, TypeOK, durable
<1>6. ASSUME NEW v \in Views, NEW m, NEW n, m \in 0..MaxMessages, n \in 0..(MaxSteps + 1)
      PROVE  /\ [v EXCEPT !.msgs = m, !.run = n] \in Views
             /\ [v EXCEPT !.msgs = m] \in Views /\ [v EXCEPT !.run = n] \in Views
  BY <1>6 DEF Views
<1>7. CASE Turn
  <2>1. CASE Full \/ Reply \/ RunGateway
    <3>1. CASE Full \/ Reply
      BY <1>0, <3>1 DEF Full, Reply, TypeOK, durable, memory, request, Ends
    <3>2. CASE RunGateway
      <4>1. /\ row' \in Rows /\ work' \in Views /\ entry' \in Entries /\ faults' \in 0..MaxFaults
        BY <3>2, Ran, RunsWell
      <4>2. QED
        BY <1>0, <4>1, <3>2 DEF RunGateway, TypeOK, memory, Rows
    <3>3. QED
      BY <2>1, <3>1, <3>2
  <2>2. CASE Smalltalk
    <3>1. fields' \in Views
      BY <1>0, <2>2 DEF Smalltalk, TypeOK, Views
    <3>2. QED
      BY <1>0, <2>2, <3>1 DEF Smalltalk, TypeOK, request, Ends
  <2>3. CASE BeginRun
    <3>1. PICK v \in Views : v = fields
      BY <1>0 DEF TypeOK
    <3>2. PICK n \in 0..(MaxSteps + 1) : n = IF v.run = 0 THEN 1 ELSE v.run
      BY DEF Views
    <3>3. work' = [v EXCEPT !.msgs = v.msgs + 1, !.run = n]
      BY <2>3, <3>1, <3>2 DEF BeginRun
    <3>4. v.msgs + 1 \in 0..MaxMessages
      BY <2>3, <3>1 DEF BeginRun, Views
    <3>5. work' \in Views
      BY <1>6, <3>3, <3>4
    <3>6. QED
      BY <1>0, <2>3, <3>5 DEF BeginRun, TypeOK, durable, memory
  <2>4. CASE StepLimit
    <3>1. work' \in Views
      BY <1>0, <2>4 DEF StepLimit, TypeOK, Views
    <3>2. QED
      BY <1>0, <2>4, <3>1 DEF StepLimit, TypeOK, durable, memory
  <2>5. ASSUME NEW route, Decide(route) PROVE TypeOK'
    <3>1. work' \in Views
      BY <1>0, <2>5 DEF Decide, TypeOK, Views
    <3>2. QED
      BY <1>0, <2>5, <3>1 DEF Decide, TypeOK, durable, memory
  <2>6. ASSUME NEW k \in Key, Ground(k) PROVE TypeOK'
    <3>1. work' \in Views
      BY <1>0, <2>6 DEF Ground, TypeOK, Views
    <3>2. QED
      BY <1>0, <2>6, <3>1 DEF Ground, TypeOK, durable, memory
  <2>7. CASE Mark
    <3>1. [key |-> key, view |-> work] \in Markers
      BY <1>0, <2>7 DEF Mark, ConversationInv, SubmissionInv, TypeOK, Markers
    <3>2. QED
      BY <1>0, <2>7, <3>1 DEF Mark, TypeOK, memory, request
  <2>8. CASE ClearMarker \/ Commit
    BY <1>0, <2>8 DEF ClearMarker, Commit, TypeOK, memory, request, Ends
  <2>9. QED
    BY <1>7, <2>1, <2>2, <2>3, <2>4, <2>5, <2>6, <2>7, <2>8 DEF Turn
<1>8. CASE Decision
  <2>1. ASSUME NEW k \in Key, RecordDecision(k) \/ RepeatDecision(k) PROVE TypeOK'
    BY <1>0, <2>1 DEF RecordDecision, RepeatDecision, TypeOK, durable, memory, Event, Entries,
                      RowStates, Open, Ended
  <2>2. CASE Execute
    <3>1. key \in Key
      BY <1>0, <2>2 DEF Execute, ConversationInv, DecisionInv, Views
    <3>2. QED
      BY <1>0, <2>2, <3>1 DEF Execute, TypeOK, memory, Event, Entries, RowStates, Ended
  <2>3. CASE DecideUnknown
    BY <1>0, <2>3 DEF DecideUnknown, TypeOK, durable, memory, request, Ends
  <2>4. CASE SaveDecision
    <3>1. fields' \in Views
      BY <2>4, Saved
    <3>2. QED
      BY <1>0, <2>4, <3>1 DEF SaveDecision, TypeOK, request
  <2>5. QED
    BY <1>8, <2>1, <2>2, <2>3, <2>4 DEF Decision
<1>9. CASE Load
  <2>1. CASE LoadHead
    BY <1>0, <2>1 DEF LoadHead, TypeOK, durable, request
  <2>2. CASE RecoverGateway
    <3>1. /\ row' \in Rows /\ work' \in Views /\ entry' \in Entries /\ faults' \in 0..MaxFaults
      BY <2>2, Ran, RunsWell
    <3>2. QED
      BY <1>0, <3>1, <2>2 DEF RecoverGateway, TypeOK, memory, Rows
  <2>3. CASE RecoverCommit
    BY <1>0, <2>3 DEF RecoverCommit, TypeOK
  <2>4. CASE Reconcile
    <3>1. fields' \in Views
      BY <2>4, Reconciles DEF Reconcile, ConversationInv, ObjectInv
    <3>2. QED
      BY <1>0, <2>4, <3>1 DEF Reconcile, TypeOK, durable, request
  <2>5. CASE SaveReconciled
    BY <1>0, <2>5 DEF SaveReconciled, TypeOK, request
  <2>6. QED
    BY <1>9, <2>1, <2>2, <2>3, <2>4, <2>5 DEF Load
<1>10. CASE Failure /\ ~Crash
  <2>1. faults' \in 0..MaxFaults
    BY <1>1, <1>10 DEF Failure, TurnFails, GatewayRaises, CommitFails, ReplyFails, LoadFails,
       DecisionFails, ExecuteFails, DecideFails
  <2>2. CASE TurnFails \/ GatewayRaises \/ ReplyFails \/ LoadFails
    BY <1>0, <2>1, <2>2 DEF TurnFails, GatewayRaises, ReplyFails, LoadFails, TypeOK, durable,
       memory, request, Ends
  <2>3. CASE CommitFails \/ DecideFails
    BY <1>0, <2>1, <2>3 DEF CommitFails, DecideFails, Discards, TypeOK, durable, request, Ends
  <2>4. ASSUME NEW k \in Key, DecisionFails(k) PROVE TypeOK'
    BY <1>0, <2>1, <2>4 DEF DecisionFails, TypeOK, durable, memory, Event, Entries, Ended
  <2>5. CASE ExecuteFails
    <3>1. key \in Key
      BY <1>0, <2>5 DEF ExecuteFails, ConversationInv, DecisionInv, Views
    <3>2. QED
      BY <1>0, <2>1, <2>5, <3>1 DEF ExecuteFails, TypeOK, memory, Event, Entries, RowStates, Ended
  <2>6. QED
    BY <1>10, <2>2, <2>3, <2>4, <2>5 DEF Failure
<1>11. QED
  BY <1>3, <1>4, <1>5, <1>7, <1>8, <1>9, <1>10 DEF Next, Work, Failure

-----------------------------------------------------------------------------
(* The head, the marker and the rows *)

Unwritten == UNCHANGED <<row, file, told>>

\* The steps that write nothing durable and tell nobody anything.
LEMMA UnwrittenSteps ==
    ASSUME [Next]_vars
    PROVE  \/ Unwritten
           \/ Smalltalk \/ Mark \/ RunGateway \/ ClearMarker \/ Commit \/ Reply
           \/ \E k \in Key : RecordDecision(k)
           \/ Execute \/ ExecuteFails \/ SaveDecision
           \/ RecoverGateway \/ RecoverCommit \/ SaveReconciled
<1> USE DEF Unwritten, durable
<1>1. ASSUME NEW wanted \in Jobs, Ask(wanted) PROVE Unwritten
  BY <1>1 DEF Ask
<1>2. CASE Restart \/ View \/ UNCHANGED vars
  BY <1>2 DEF Restart, View, vars
<1>3. CASE Full \/ BeginRun \/ StepLimit
  BY <1>3 DEF Full, BeginRun, StepLimit
<1>4. ASSUME NEW route, Decide(route) PROVE Unwritten
  BY <1>4 DEF Decide
<1>5. ASSUME NEW k, Ground(k) \/ RepeatDecision(k) \/ DecisionFails(k) PROVE Unwritten
  BY <1>5 DEF Ground, RepeatDecision, DecisionFails
<1>6. CASE DecideUnknown \/ LoadHead \/ Reconcile
  BY <1>6 DEF DecideUnknown, LoadHead, Reconcile
<1>7. CASE TurnFails \/ GatewayRaises \/ CommitFails \/ ReplyFails \/ LoadFails \/ DecideFails \/ Crash
  BY <1>7 DEF TurnFails, GatewayRaises, CommitFails, ReplyFails, LoadFails, DecideFails, Crash, Discards
<1>8. QED
  BY <1>1, <1>2, <1>3, <1>4, <1>5, <1>6, <1>7
     DEF Next, Work, Turn, Decision, Load, Failure

LEMMA HeadReplaced ==
    ASSUME NEW v \in Views, file' = [head |-> v, inflight |-> None], UNCHANGED row,
           Fits(v, row), \A m \in Key : row[m] # "none" => Known(v, m), told' \subseteq v.log
    PROVE  HeadInv'
  BY DEF HeadInv

\* A decided row stays true to the head.
LEMMA HeadDecided ==
    ASSUME ConversationInv, NEW k \in Key, k \in file.head.actions, row' \in Rows,
           row' = [row EXCEPT ![k] = row'[k]],
           \/ row'[k] = row[k]
           \/ row[k] = "PENDING_APPROVAL" /\ row'[k] \in {"APPROVED", "REJECTED"}
           \/ row[k] = "APPROVED" /\ row'[k] \in {"EXECUTED", "STALE", "DENIED", "FAILED"},
           UNCHANGED <<file, told>>
    PROVE  HeadInv'
<1>1. /\ row \in Rows /\ file.head \in Views /\ Fits(file.head, row)
      /\ \A m \in Key : row[m] # "none" => Known(file.head, m) \/ MarkerNames(m)
  BY DEF ConversationInv, TypeOK, HeadInv, Rows
<1>2. PICK h \in Views : h = file.head
  BY <1>1
<1>3. PICK old \in Rows : old = row
  BY <1>1
<1>4. PICK new \in Rows : new = row'
  OBVIOUS
<1>5. \A m \in Key : m # k => new[m] = old[m]
  BY <1>1, <1>3, <1>4 DEF Rows
<1>6. \A m \in Key : RowMoves(h, m, old[m], new[m])
  BY <1>2, <1>3, <1>4, <1>5 DEF RowMoves
<1>7. Fits(file.head, row')
  BY <1>1, <1>2, <1>3, <1>4, <1>6, FitsStays
<1>8. ASSUME NEW m \in Key, row'[m] # "none" PROVE Known(file.head, m) \/ MarkerNames(m)
  <2>1. row[m] # "none"
    BY <1>3, <1>4, <1>5, <1>8
  <2>2. QED
    BY <1>1, <2>1
<1>9. QED
  BY <1>7, <1>8 DEF ConversationInv, HeadInv, MarkerNames

LEMMA HeadStep ==
    ASSUME ConversationInv, [Next]_vars
    PROVE  HeadInv'
<1>1. /\ HeadInv /\ file.head \in Views /\ row \in Rows
      /\ file \in [head : Views, inflight : Markers \cup {None}]
      /\ fields \in Views /\ work \in Views
  BY DEF ConversationInv, TypeOK, Rows
<1>2. /\ Fits(file.head, row) /\ told \subseteq file.head.log
      /\ file.inflight = None => \A m \in Key : row[m] # "none" => Known(file.head, m)
  BY <1>1 DEF HeadInv, MarkerNames
<1>3. ASSUME NEW v \in Views, SameBook(v, file.head), file.inflight = None,
             file' = [head |-> v, inflight |-> None], UNCHANGED <<row, told>>
      PROVE  HeadInv'
  <2>1. PICK h \in Views : h = file.head
    BY <1>1
  <2>2. PICK rows \in Rows : rows = row
    BY <1>1
  <2>3. Fits(v, rows) /\ \A m \in Key : rows[m] # "none" => Known(v, m)
    BY <1>2, <1>3, <2>1, <2>2, SameBookFits
  <2>4. told' \subseteq v.log
    BY <1>2, <1>3 DEF SameBook
  <2>5. QED
    BY <1>3, <2>2, <2>3, <2>4, HeadReplaced
<1>4. CASE Unwritten
  BY <1>1, <1>4 DEF Unwritten, HeadInv, MarkerNames
<1>5. CASE Smalltalk
  <2>1. fields = file.head /\ file.inflight = None
    BY <1>5 DEF Smalltalk, ConversationInv, ObjectInv, Loading
  <2>2. PICK v \in Views : v = fields'
    BY TypeStep DEF TypeOK
  <2>3. SameBook(v, file.head)
    BY <1>1, <1>5, <2>1, <2>2 DEF Smalltalk, SameBook, Views
  <2>4. QED
    BY <1>3, <1>5, <2>1, <2>2, <2>3 DEF Smalltalk
<1>6. CASE Mark
  <2>1. /\ file' = [file EXCEPT !.inflight = [key |-> key, view |-> work]]
        /\ SameBook(work, file.head) /\ file.inflight = None /\ UNCHANGED <<row, told>>
    BY <1>6 DEF Mark, ConversationInv, ObjectInv, SubmissionInv, Loading, BeforeGateway
  <2>2. file'.head = file.head /\ file'.inflight.view = work
    BY <1>1, <2>1
  <2>3. QED
    BY <1>2, <2>1, <2>2 DEF HeadInv
<1>7. CASE RunGateway \/ RecoverGateway
  <2>1. UNCHANGED <<file, told>> /\ file.inflight # None
    BY <1>7, Ran
  <2>2. /\ Fits(file.head, row')
        /\ row' = [row EXCEPT ![file.inflight.key] = row'[file.inflight.key]]
    BY <1>7, RunsWell
  <2>3. \A m \in Key : m # file.inflight.key => row'[m] = row[m]
    BY <1>1, <2>2 DEF Rows
  <2>4. QED
    BY <1>1, <2>1, <2>2, <2>3 DEF HeadInv, MarkerNames
<1>8. CASE ClearMarker
  <2>1. /\ file' = [file EXCEPT !.inflight = None] /\ UNCHANGED <<row, told>>
        /\ \A m \in Key : row[m] # "none" => Known(file.head, m)
    BY <1>8 DEF ClearMarker, ConversationInv, SubmissionInv
  <2>2. file' = [head |-> file.head, inflight |-> None]
    BY <1>1, <2>1
  <2>3. PICK h \in Views : h = file.head
    BY <1>1
  <2>4. QED
    BY <1>2, <2>1, <2>2, <2>3, HeadReplaced
<1>9. CASE Commit \/ RecoverCommit
  <2>1. file' = [head |-> work, inflight |-> None] /\ UNCHANGED <<row, told>>
    BY <1>9 DEF Commit, RecoverCommit
  <2>2. PICK w \in Views : w = work
    BY <1>1
  <2>3. CASE at = "ended"
    <3>1. SameBook(work, file.head) /\ file.inflight = None
      BY <2>3 DEF ConversationInv, SubmissionInv, ObjectInv, BeforeGateway, Loading
    <3>2. QED
      BY <1>3, <2>1, <2>2, <3>1
  <2>4. CASE at \in {"returned", "recovered"}
    <3>1. /\ Fits(work, row) /\ file.head.log \subseteq work.log
          /\ \A m \in Key : row[m] # "none" => Known(work, m)
      BY <2>4, Recordings
    <3>2. QED
      BY <1>2, <2>1, <2>2, <3>1, HeadReplaced
  <2>5. QED
    BY <1>9, <2>3, <2>4 DEF Commit, RecoverCommit
<1>10. CASE Reply
  <2>1. entry # None => entry \in file.head.log
    BY <1>10 DEF Reply, ConversationInv, SubmissionInv
  <2>2. QED
    BY <1>1, <1>10, <2>1 DEF Reply, HeadInv, MarkerNames, durable
<1>11. ASSUME NEW k \in Key, RecordDecision(k) PROVE HeadInv'
  <2>1. k \in file.head.actions
    BY <1>11 DEF RecordDecision, Deciding, ConversationInv, ObjectInv, Loading
  <2>2. /\ row[k] = "PENDING_APPROVAL" /\ UNCHANGED <<file, told>>
        /\ \/ row' = [row EXCEPT ![k] = "APPROVED"]
           \/ row' = [row EXCEPT ![k] = "REJECTED"]
    BY <1>11 DEF RecordDecision
  <2>3. row' \in Rows /\ row'[k] \in {"APPROVED", "REJECTED"} /\ row' = [row EXCEPT ![k] = row'[k]]
    BY <1>1, <2>2 DEF Rows, RowStates, Open, Ended
  <2>4. QED
    BY <2>1, <2>2, <2>3, HeadDecided
<1>12. CASE Execute \/ ExecuteFails
  <2>1. /\ key \in file.head.actions /\ row[key] = "APPROVED" /\ UNCHANGED <<file, told>>
        /\ \/ row' = row
           \/ \E status \in {"EXECUTED", "STALE", "DENIED", "FAILED"} :
                row' = [row EXCEPT ![key] = status]
    BY <1>12 DEF Execute, ExecuteFails, ConversationInv, DecisionInv
  <2>2. PICK k \in Key : k = key
    BY <1>1, <2>1 DEF Views
  <2>3. CASE row' = row
    BY <1>2, <2>1, <2>3, <1>1 DEF HeadInv, MarkerNames
  <2>4. ASSUME NEW status \in {"EXECUTED", "STALE", "DENIED", "FAILED"},
               row' = [row EXCEPT ![key] = status]
        PROVE  HeadInv'
    <3>1. row' \in Rows /\ row'[k] = status /\ row' = [row EXCEPT ![k] = row'[k]]
      BY <1>1, <2>2, <2>4 DEF Rows, RowStates, Ended
    <3>2. QED
      BY <2>1, <2>2, <3>1, HeadDecided
  <2>5. QED
    BY <2>1, <2>3, <2>4
<1>13. CASE SaveDecision
  <2>1. /\ fields' \in Views /\ Fits(fields', row) /\ file.head.log \subseteq fields'.log
        /\ \A m \in Key : Known(file.head, m) => Known(fields', m)
    BY <1>13, Saved
  <2>2. file' = [head |-> fields', inflight |-> None] /\ UNCHANGED <<row, told>>
    BY <1>13 DEF SaveDecision
  <2>3. file.inflight = None
    BY <1>13 DEF SaveDecision, ConversationInv, ObjectInv, Loading
  <2>4. PICK v \in Views : v = fields'
    BY <2>1
  <2>5. QED
    BY <1>2, <2>1, <2>2, <2>3, <2>4, HeadReplaced
<1>14. CASE SaveReconciled
  <2>1. /\ fields = Reconciled(file.head) /\ file.inflight = None
        /\ file' = [head |-> fields, inflight |-> None] /\ UNCHANGED <<row, told>>
    BY <1>14 DEF SaveReconciled, ConversationInv, ObjectInv
  <2>2. /\ Fits(fields, row) /\ file.head.log \subseteq fields.log
        /\ \A m \in Key : Known(file.head, m) => Known(fields, m)
    BY <1>14, <2>1, Reconciles DEF SaveReconciled
  <2>3. PICK v \in Views : v = fields
    BY <1>1
  <2>4. QED
    BY <1>2, <2>1, <2>2, <2>3, HeadReplaced
<1>15. QED
  BY <1>4, <1>5, <1>6, <1>7, <1>8, <1>9, <1>10, <1>11, <1>12, <1>13, <1>14, UnwrittenSteps

-----------------------------------------------------------------------------
(* The object *)

\* The steps at which an object is neither replaced nor loaded.
LEMMA ObjectStep ==
    ASSUME ConversationInv, [Next]_vars
    PROVE  ObjectInv'
<1> USE DEF ObjectInv, Loading
<1>1. ObjectInv /\ TypeOK
  BY DEF ConversationInv
<1>2. ASSUME at' \in {"idle", "down"}, loaded' = FALSE PROVE ObjectInv'
  BY <1>2
<1>3. ASSUME loaded, loaded', at # "decided", UNCHANGED <<row, file, fields>>,
             file.inflight = None \/ at' \in {"marked", "clearing", "returned"},
             at' \notin Loading \cup {"down", "decided"}
      PROVE  ObjectInv'
  BY <1>1, <1>3 DEF Current
<1>4. ASSUME NEW wanted \in Jobs, Ask(wanted) PROVE ObjectInv'
  BY <1>1, <1>4 DEF Ask, durable, memory, Current, TypeOK
<1>5. CASE Restart
  BY <1>1, <1>5 DEF Restart, durable, memory
<1>6. CASE View \/ UNCHANGED vars
  <2>1. CASE View
    BY <1>1, <1>3, <2>1 DEF View, durable, memory, Ends
  <2>2. CASE UNCHANGED vars
    <3>1. UNCHANGED <<row, file, fields, loaded, at, key>>
      BY <2>2 DEF vars, durable, memory, request
    <3>2. Reconciled(file.head)' = Reconciled(file.head)
      BY <3>1 DEF Reconciled
    <3>3. QED
      BY <1>1, <3>1, <3>2 DEF Current
  <2>3. QED
    BY <1>6, <2>1, <2>2
<1>7. CASE Crash
  BY <1>2, <1>7 DEF Crash
<1>8. CASE Turn
  <2>1. CASE Full \/ BeginRun \/ StepLimit \/ Reply
    BY <1>1, <1>3, <2>1 DEF Full, BeginRun, StepLimit, Reply, durable, memory, Ends
  <2>2. ASSUME NEW route, Decide(route) PROVE ObjectInv'
    BY <1>1, <1>3, <2>2 DEF Decide, durable, memory
  <2>3. ASSUME NEW k, Ground(k) PROVE ObjectInv'
    BY <1>1, <1>3, <2>3 DEF Ground, durable, memory
  <2>4. CASE Smalltalk
    <3>1. fields = file.head /\ \A k \in Key : Current(fields, row, k)
      BY <1>1, <2>4 DEF Smalltalk
    <3>2. /\ fields'.actions = fields.actions /\ fields'.open = fields.open
          /\ fields'.log = fields.log
      BY <1>1, <2>4 DEF Smalltalk, TypeOK, Views
    <3>3. \A k \in Key : Current(fields', row, k)
      BY <3>1, <3>2 DEF Current
    <3>4. /\ file' = [head |-> fields', inflight |-> None] /\ at' = "idle"
          /\ UNCHANGED row
      BY <2>4 DEF Smalltalk, Ends
    <3>5. QED
      BY <3>3, <3>4
  <2>5. CASE Mark
    <3>1. file'.head = file.head /\ at' = "marked" /\ UNCHANGED <<row, fields, loaded>> /\ loaded
      BY <1>1, <2>5 DEF Mark, TypeOK, memory
    <3>2. at = "stopped"
      BY <2>5 DEF Mark
    <3>3. QED
      BY <1>1, <3>1, <3>2 DEF Current
  <2>6. CASE RunGateway
    <3>1. /\ UNCHANGED <<file, fields, loaded>> /\ at = "marked" /\ at' = "returned" /\ loaded
      BY <1>1, <2>6, Ran
    <3>2. PICK k \in Key : /\ row' = [row EXCEPT ![k] = row'[k]]
                           /\ \/ row'[k] = row[k]
                              \/ row[k] = "none"
      BY <2>6, RunsWell, Ran
    <3>3. \A m \in Key : row'[m] = row[m] \/ row[m] = "none"
      BY <1>1, <3>2 DEF TypeOK
    <3>4. \A m \in file.head.actions : m \in Key /\ row[m] # "none"
      BY <1>1 DEF ConversationInv, HeadInv, Fits, KeyFits, TypeOK, Views
    <3>5. \A m \in Key : Current(file.head, row', m)
      BY <1>1, <3>1, <3>3, <3>4 DEF Current
    <3>6. QED
      BY <1>1, <3>1, <3>5
  <2>7. CASE ClearMarker
    <3>1. /\ file'.head = file.head /\ file'.inflight = None /\ at = "clearing" /\ at' = "idle"
          /\ UNCHANGED <<row, fields, loaded>>
      BY <1>1, <2>7 DEF ClearMarker, TypeOK, memory, Ends
    <3>2. QED
      BY <1>1, <3>1 DEF Current
  <2>8. CASE Commit
    <3>1. /\ file' = [head |-> work, inflight |-> None] /\ fields' = work /\ at' = "reply"
          /\ at \in {"ended", "returned"} /\ UNCHANGED <<row, loaded>> /\ loaded
      BY <1>1, <2>8 DEF Commit
    <3>2. \A m \in Key : Current(work, row, m)
      <4>1. CASE at = "ended"
        <5>1. SameBook(work, file.head) /\ \A m \in Key : Current(file.head, row, m)
          BY <1>1, <3>1, <4>1 DEF ConversationInv, SubmissionInv, BeforeGateway
        <5>2. PICK w \in Views : w = work
          BY <1>1 DEF TypeOK
        <5>3. PICK h \in Views : h = file.head
          BY <1>1 DEF TypeOK
        <5>4. PICK rows \in Rows : rows = row
          BY <1>1 DEF TypeOK, Rows
        <5>5. QED
          BY <5>1, <5>2, <5>3, <5>4, SameBookFits
      <4>2. CASE at = "returned"
        BY <3>1, <4>2, Recordings
      <4>3. QED
        BY <3>1, <4>1, <4>2
    <3>3. QED
      BY <3>1, <3>2
  <2>9. QED
    BY <1>8, <2>1, <2>2, <2>3, <2>4, <2>5, <2>6, <2>7, <2>8 DEF Turn
<1>9. ASSUME loaded, loaded', at # "decided", UNCHANGED <<file, fields>>, at' = "decided",
             file.inflight = None, key' \in Key,
             \A m \in Key \ {key'} : row'[m] = row[m]
      PROVE  ObjectInv'
  BY <1>1, <1>9 DEF Current
<1>10. CASE Decision
  <2>1. CASE DecideUnknown
    BY <1>1, <1>3, <2>1 DEF DecideUnknown, durable, memory, Ends
  <2>2. ASSUME NEW k \in Key, RecordDecision(k) PROVE ObjectInv'
    <3>1. /\ UNCHANGED <<file, fields, loaded>> /\ at = "ready" /\ loaded /\ row[k] = "PENDING_APPROVAL"
          /\ key' = k /\ file.inflight = None
          /\ \A m \in Key \ {k} : row'[m] = row[m]
      BY <1>1, <2>2 DEF RecordDecision, Deciding, memory, TypeOK
    <3>2. CASE job = "APPROVE"
      <4>1. row'[k] = "APPROVED" /\ at' = "approved"
        BY <1>1, <2>2, <3>2 DEF RecordDecision, TypeOK
      <4>2. \A m \in Key : row'[m] = row[m] \/ (row[m] \in Open /\ row'[m] \in Open)
        BY <3>1, <4>1 DEF Open
      <4>3. \A m \in Key : Current(file.head, row', m)
        BY <1>1, <3>1, <4>2 DEF Current
      <4>4. QED
        BY <1>1, <3>1, <4>1, <4>3
    <3>3. CASE job # "APPROVE"
      <4>1. at' = "decided"
        BY <2>2, <3>3 DEF RecordDecision
      <4>2. QED
        BY <1>1, <1>9, <3>1, <4>1
    <3>4. QED
      BY <3>2, <3>3
  <2>3. ASSUME NEW k \in Key, RepeatDecision(k) PROVE ObjectInv'
    <3>1. at' \in {"approved", "decided"}
      BY <2>3 DEF RepeatDecision
    <3>2. QED
      BY <1>1, <1>3, <1>9, <2>3, <3>1 DEF RepeatDecision, Deciding, durable, memory
  <2>4. CASE Execute
    <3>1. key \in Key /\ at = "approved" /\ at' = "decided" /\ UNCHANGED <<file, fields, loaded, key>>
      BY <1>1, <2>4 DEF Execute, ConversationInv, DecisionInv, TypeOK, Views, memory
    <3>2. \A m \in Key \ {key} : row'[m] = row[m]
      BY <1>1, <2>4 DEF Execute, TypeOK
    <3>3. QED
      BY <1>1, <1>9, <3>1, <3>2
  <2>5. CASE SaveDecision
    <3>1. /\ file' = [head |-> fields', inflight |-> None] /\ at' = "reply"
          /\ UNCHANGED <<row, loaded>>
      BY <2>5 DEF SaveDecision
    <3>2. \A m \in Key : Current(fields', row, m)
      BY <2>5, Saved
    <3>3. QED
      BY <3>1, <3>2, <1>1, <2>5 DEF SaveDecision
  <2>6. QED
    BY <1>10, <2>1, <2>2, <2>3, <2>4, <2>5 DEF Decision
<1>11. CASE Load
  <2>1. CASE LoadHead
    BY <1>1, <2>1 DEF LoadHead, durable
  <2>2. CASE RecoverGateway
    BY <1>1, <2>2 DEF RecoverGateway, memory
  <2>3. CASE RecoverCommit
    BY <1>1, <2>3 DEF RecoverCommit
  <2>4. CASE Reconcile
    <3>1. /\ fields = file.head /\ fields' = Reconciled(file.head) /\ UNCHANGED <<row, file>>
          /\ file.inflight = None /\ ~loaded /\ at = "reconcile"
      BY <1>1, <2>4 DEF Reconcile, durable
    <3>2. \A m \in Key : Current(Reconciled(file.head), row, m)
      BY <3>1, Reconciles
    <3>3. CASE fields' = fields
      BY <2>4, <3>1, <3>2, <3>3 DEF Reconcile
    <3>4. CASE fields' # fields
      BY <2>4, <3>1, <3>4 DEF Reconcile, Reconciled
    <3>5. QED
      BY <3>3, <3>4
  <2>5. CASE SaveReconciled
    <3>1. /\ fields = Reconciled(file.head) /\ UNCHANGED <<row, fields>> /\ at' = "ready"
          /\ file' = [head |-> fields, inflight |-> None]
      BY <1>1, <2>5 DEF SaveReconciled
    <3>2. \A m \in Key : Current(fields, row, m)
      BY <2>5, <3>1, Reconciles DEF SaveReconciled
    <3>3. QED
      BY <2>5, <3>1, <3>2 DEF SaveReconciled
  <2>6. QED
    BY <1>11, <2>1, <2>2, <2>3, <2>4, <2>5 DEF Load
<1>12. CASE Failure /\ ~Crash
  <2>1. CASE TurnFails \/ ReplyFails \/ GatewayRaises
    BY <1>1, <1>3, <2>1 DEF TurnFails, ReplyFails, GatewayRaises, durable, memory, Ends
  <2>2. CASE CommitFails \/ DecideFails
    BY <1>2, <2>2 DEF CommitFails, DecideFails, Discards, Ends
  <2>3. CASE LoadFails
    BY <1>1, <1>2, <2>3 DEF LoadFails, memory, Ends
  <2>4. ASSUME NEW k \in Key, DecisionFails(k) PROVE ObjectInv'
    BY <1>1, <1>9, <2>4 DEF DecisionFails, Deciding, durable, memory
  <2>5. CASE ExecuteFails
    <3>1. key \in Key /\ at = "approved" /\ at' = "decided" /\ UNCHANGED <<file, fields, loaded, key>>
      BY <1>1, <2>5 DEF ExecuteFails, ConversationInv, DecisionInv, TypeOK, Views, memory
    <3>2. \A m \in Key \ {key} : row'[m] = row[m]
      BY <1>1, <2>5 DEF ExecuteFails, TypeOK
    <3>3. QED
      BY <1>1, <1>9, <3>1, <3>2
  <2>6. QED
    BY <1>12, <2>1, <2>2, <2>3, <2>4, <2>5 DEF Failure
<1>13. QED
  BY <1>4, <1>5, <1>6, <1>7, <1>8, <1>10, <1>11, <1>12 DEF Next, Work, Failure

-----------------------------------------------------------------------------
(* A submission *)

LEMMA SubmissionStep ==
    ASSUME ConversationInv, [Next]_vars
    PROVE  SubmissionInv'
<1> USE DEF SubmissionInv, Loading, BeforeGateway
<1>1. SubmissionInv /\ TypeOK
  BY DEF ConversationInv
<1>2. ASSUME \/ at' = "idle" /\ answer' # "turn_failed"
             \/ at' = "decided"
      PROVE  SubmissionInv'
  BY <1>2
<1>3. at \in {"ready", "decide", "ended", "stopped"} => file.inflight = None /\ fields = file.head
  BY DEF ConversationInv, ObjectInv
<1>4. \A v \in Views : SameBook(v, v)
  BY DEF SameBook
<1>5. ASSUME NEW wanted \in Jobs, Ask(wanted) PROVE SubmissionInv'
  BY <1>1, <1>5 DEF Ask, durable
<1>6. CASE Restart
  BY <1>1, <1>6 DEF Restart, durable
<1>7. CASE Crash
  BY <1>7 DEF Crash
<1>8. CASE View \/ Full \/ DecideUnknown
  BY <1>2, <1>8 DEF View, Full, DecideUnknown, Ends
<1>9. CASE UNCHANGED vars
  <2>1. UNCHANGED <<row, file, at, job, work, key, entry, before, answer>>
    BY <1>9 DEF vars, durable, request
  <2>2. QED
    BY <1>1, <2>1 DEF SameBook, Known, Anchored
<1>10. CASE Turn
  <2>1. CASE Smalltalk \/ Reply
    BY <1>2, <2>1 DEF Smalltalk, Reply, Ends
  <2>2. CASE BeginRun
    <3>1. fields \in Views /\ fields = file.head
      BY <1>1, <1>3, <2>2 DEF BeginRun, TypeOK
    <3>2. SameBook(work', file.head)
      BY <2>2, <3>1 DEF BeginRun, SameBook, Views
    <3>3. QED
      BY <1>1, <2>2, <3>2 DEF BeginRun, durable
  <2>3. ASSUME at \in BeforeGateway, UNCHANGED <<row, file, job, entry, before>>,
               \E n : work' = [work EXCEPT !.run = n],
               at' \in {"decide", "ended", "stopped"}, at' = "stopped" => key' \in Key
        PROVE  SubmissionInv'
    <3>1. SameBook(work', file.head)
      BY <1>1, <2>3 DEF SameBook, TypeOK, Views
    <3>2. QED
      BY <1>1, <2>3, <3>1
  <2>4. CASE StepLimit
    BY <2>3, <2>4 DEF StepLimit, durable
  <2>5. ASSUME NEW route, Decide(route) PROVE SubmissionInv'
    BY <2>3, <2>5 DEF Decide, durable
  <2>6. ASSUME NEW k \in Key, Ground(k) PROVE SubmissionInv'
    BY <2>3, <2>6 DEF Ground, durable
  <2>7. CASE Mark
    <3>1. /\ file'.head = file.head /\ file'.inflight = [key |-> key, view |-> work]
          /\ key \in Key /\ at = "stopped" /\ at' = "marked"
          /\ UNCHANGED <<row, job, work, key, entry, before>>
      BY <1>1, <2>7 DEF Mark, TypeOK, request
    <3>2. file'.inflight # None
      BY <1>1, <3>1, MarkerAssumption DEF TypeOK, Markers
    <3>3. \A k \in Key : row[k] # "none" => Known(file.head, k)
      BY <1>3, <3>1 DEF ConversationInv, HeadInv, MarkerNames
    <3>4. QED
      BY <1>1, <3>1, <3>2, <3>3
  <2>8. CASE RunGateway
    BY <2>8, Ran, RunsWell DEF Statuses
  <2>9. CASE ClearMarker
    <3>1. file'.inflight = None /\ row = before /\ UNCHANGED <<row, before>> /\ at' = "idle"
      BY <1>1, <2>9 DEF ClearMarker, TypeOK, Ends
    <3>2. QED
      BY <3>1
  <2>10. CASE Commit
    <3>1. file'.head = work /\ at' = "reply" /\ UNCHANGED entry /\ at \in {"ended", "returned"}
      BY <2>10 DEF Commit, request
    <3>2. at = "ended" => entry = None
      BY <1>1
    <3>3. at = "returned" => entry \in work.log
      BY Recordings
    <3>4. QED
      BY <3>1, <3>2, <3>3
  <2>11. QED
    BY <1>8, <1>10, <2>1, <2>2, <2>4, <2>5, <2>6, <2>7, <2>8, <2>9, <2>10 DEF Turn
<1>11. CASE Decision
  <2>1. ASSUME NEW k \in Key, RecordDecision(k) \/ RepeatDecision(k) PROVE SubmissionInv'
    <3>1. at' = "decided" \/ (at' = "approved" /\ at = "ready" /\ UNCHANGED entry)
      BY <2>1 DEF RecordDecision, RepeatDecision, Deciding
    <3>2. QED
      BY <1>1, <3>1
  <2>2. CASE Execute
    BY <1>2, <2>2 DEF Execute
  <2>3. CASE SaveDecision
    <3>1. entry # None => entry \in fields'.log
      BY <2>3, Saved
    <3>2. file'.head = fields' /\ at' = "reply" /\ UNCHANGED entry
      BY <2>3 DEF SaveDecision, request
    <3>3. QED
      BY <3>1, <3>2
  <2>4. QED
    BY <1>8, <1>11, <2>1, <2>2, <2>3 DEF Decision
<1>12. CASE Load
  <2>1. CASE LoadHead
    BY <1>1, <2>1 DEF LoadHead, durable, request
  <2>2. CASE RecoverGateway
    BY <2>2, Ran, RunsWell DEF Statuses
  <2>3. CASE RecoverCommit
    BY <1>1, <2>3 DEF RecoverCommit
  <2>4. CASE Reconcile
    BY <1>1, <2>4 DEF Reconcile, durable, request
  <2>5. CASE SaveReconciled
    BY <1>1, <2>5 DEF SaveReconciled, request
  <2>6. QED
    BY <1>12, <2>1, <2>2, <2>3, <2>4, <2>5 DEF Load
<1>13. CASE Failure /\ ~Crash
  <2>1. CASE TurnFails
    BY <1>1, <1>3, <2>1 DEF TurnFails, Ends, durable
  <2>2. CASE GatewayRaises
    BY <1>1, <2>2 DEF GatewayRaises, durable, request
  <2>3. CASE ReplyFails \/ LoadFails \/ CommitFails \/ DecideFails
    BY <1>2, <2>3 DEF ReplyFails, LoadFails, CommitFails, DecideFails, Discards, Ends
  <2>4. ASSUME NEW k \in Key, DecisionFails(k) PROVE SubmissionInv'
    BY <1>2, <2>4 DEF DecisionFails
  <2>5. CASE ExecuteFails
    BY <1>2, <2>5 DEF ExecuteFails
  <2>6. QED
    BY <1>13, <2>1, <2>2, <2>3, <2>4, <2>5 DEF Failure
<1>14. QED
  BY <1>5, <1>6, <1>7, <1>8, <1>9, <1>10, <1>11, <1>12, <1>13 DEF Next, Work, Failure

-----------------------------------------------------------------------------
(* A decision *)

LEMMA DecisionStep ==
    ASSUME ConversationInv, [Next]_vars
    PROVE  DecisionInv'
<1> USE DEF DecisionInv
<1>1. /\ DecisionInv /\ TypeOK
      /\ \A k \in file.head.actions : k \in Key
  BY DEF ConversationInv, TypeOK, Views
<1>2. at \in {"ready", "approved", "decided"} => fields = file.head
  BY DEF ConversationInv, ObjectInv, Loading
<1>3. at = "ready" => /\ entry = None
                      /\ \A k \in Key : Current(file.head, row, k)
  BY DEF ConversationInv, SubmissionInv, ObjectInv, Loading
<1>4. ASSUME NEW k \in Key, RecordDecision(k) PROVE DecisionInv'
  <2>1. k \in file.head.actions /\ UNCHANGED file /\ key' = k
    BY <1>2, <1>4 DEF RecordDecision, Deciding
  <2>2. \/ at' = "approved" /\ row'[k] = "APPROVED"
        \/ at' = "decided" /\ row'[k] = "REJECTED" /\ entry' = Event(k, "REJECTED")
    BY <1>1, <1>4 DEF RecordDecision, TypeOK
  <2>3. QED
    BY <2>1, <2>2 DEF Event, EntryFits, Status, Open
<1>5. ASSUME NEW k \in Key, RepeatDecision(k) PROVE DecisionInv'
  <2>1. /\ k \in file.head.actions /\ UNCHANGED <<file, row, entry>> /\ key' = k /\ entry = None
        /\ at' = "decided" \/ (at' = "approved" /\ row[k] = "APPROVED")
        /\ Current(file.head, row, k)
    BY <1>2, <1>3, <1>5 DEF RepeatDecision, Deciding, durable
  <2>2. row[k] \notin Open => Event(k, Status(row[k])) \in file.head.log
    BY <2>1 DEF Current
  <2>3. QED
    BY <2>1, <2>2
<1>6. ASSUME NEW k \in Key, DecisionFails(k) PROVE DecisionInv'
  <2>1. /\ k \in file.head.actions /\ UNCHANGED <<file, row>> /\ key' = k
        /\ at' = "decided" /\ entry' = Event(k, "FAILED")
        /\ Current(file.head, row, k)
    BY <1>2, <1>3, <1>6 DEF DecisionFails, Deciding, durable
  <2>2. row[k] \notin Open => Event(k, Status(row[k])) \in file.head.log
    BY <2>1 DEF Current
  <2>3. EntryFits(Event(k, "FAILED"), row)
    BY DEF EntryFits, Event
  <2>4. QED
    BY <2>1, <2>2, <2>3
<1>7. CASE Execute \/ ExecuteFails
  <2>1. /\ key \in file.head.actions /\ key \in Key /\ UNCHANGED <<file, key>> /\ at' = "decided"
        /\ row[key] = "APPROVED"
    BY <1>1, <1>7 DEF Execute, ExecuteFails
  <2>2. \/ UNCHANGED row /\ entry' = Event(key, "FAILED")
        \/ \E status \in {"EXECUTED", "STALE", "DENIED", "FAILED"} :
             row'[key] = status /\ entry' = Event(key, status)
    BY <1>1, <1>7, <2>1 DEF Execute, ExecuteFails, TypeOK
  <2>3. CASE UNCHANGED row /\ entry' = Event(key, "FAILED")
    BY <2>1, <2>3 DEF EntryFits, Event, Open
  <2>4. ASSUME NEW status \in {"EXECUTED", "STALE", "DENIED", "FAILED"},
               row'[key] = status, entry' = Event(key, status)
        PROVE  DecisionInv'
    BY <2>1, <2>4 DEF EntryFits, Event, Status, Open
  <2>5. QED
    BY <2>2, <2>3, <2>4
<1>8. \/ at' \notin {"approved", "decided"}
      \/ \E k \in Key : RecordDecision(k) \/ RepeatDecision(k) \/ DecisionFails(k)
      \/ Execute \/ ExecuteFails \/ UNCHANGED vars
  <2>1. ASSUME NEW wanted \in Jobs, Ask(wanted) PROVE at' \notin {"approved", "decided"}
    BY <2>1 DEF Ask
  <2>2. CASE Restart \/ Crash \/ View \/ DecideUnknown \/ SaveDecision
    BY <2>2 DEF Restart, Crash, View, DecideUnknown, SaveDecision, Ends
  <2>3. CASE Turn
    BY <2>3 DEF Turn, Full, Smalltalk, BeginRun, StepLimit, Decide, Ground, Mark, RunGateway,
       ClearMarker, Commit, Reply, Ends
  <2>4. CASE Load
    BY <2>4 DEF Load, LoadHead, RecoverGateway, RecoverCommit, Reconcile, SaveReconciled
  <2>5. CASE TurnFails \/ GatewayRaises \/ CommitFails \/ ReplyFails \/ LoadFails \/ DecideFails
    BY <2>5 DEF TurnFails, GatewayRaises, CommitFails, ReplyFails, LoadFails, DecideFails,
       Discards, Ends
  <2>6. QED
    BY <2>1, <2>2, <2>3, <2>4, <2>5 DEF Next, Work, Decision, Failure
<1>9. CASE UNCHANGED vars
  <2>1. UNCHANGED <<row, file, at, key, entry>>
    BY <1>9 DEF vars, durable, request
  <2>2. QED
    BY <1>1, <2>1 DEF EntryFits
<1>10. QED
  BY <1>4, <1>5, <1>6, <1>7, <1>8, <1>9

LEMMA ConversationInductive == ConversationInv /\ [Next]_vars => ConversationInv'
  BY TypeStep, HeadStep, ObjectStep, SubmissionStep, DecisionStep DEF ConversationInv

LEMMA Invariance == Spec => []ConversationInv
  BY ConversationInit, ConversationInductive, PTL DEF Spec

-----------------------------------------------------------------------------
(* Theorems *)

\* The fields, the session file and the transcript of a conversation only ever take the
\* values that their Python types and the gateway's statuses admit.
THEOREM TypeCorrect == Spec => []TypeOK
  BY Invariance, PTL DEF ConversationInv

\* Between requests a loaded conversation is its committed head, has no marker and knows
\* the end of each of its actions, whichever of its requests failed where.
THEOREM LoadedCorrect == Spec => []LoadedIsCurrent
<1>1. ConversationInv => LoadedIsCurrent
  BY DEF ConversationInv, TypeOK, Views, ObjectInv, Loading, Current, LoadedIsCurrent
<1>2. QED
  BY Invariance, <1>1, PTL

\* No row of the gateway is lost to the conversation that caused it, no tracked action
\* lacks the submission that an operator's decision needs, and TurnFailed means that
\* nothing happened.
THEOREM EffectsAccounted == Spec => []EffectsAreAccounted
<1>1. ConversationInv => EffectsAreAccounted
  <2> SUFFICES ASSUME ConversationInv PROVE EffectsAreAccounted
    OBVIOUS
  <2>1. HeadInv /\ SubmissionInv /\ file.head.actions \subseteq Key
    BY DEF ConversationInv, TypeOK, Views
  <2>2. QED
    BY <2>1 DEF HeadInv, SubmissionInv, Fits, KeyFits, Known, ReplyOf, EffectsAreAccounted
<1>2. QED
  BY Invariance, <1>1, PTL

\* When the gateway rolls no submission back, every row is in the committed head or the
\* marker leads recovery to it, wherever the process dies.
THEOREM EffectsRecorded ==
    ASSUME "failed" \notin Faults
    PROVE  Spec => []EffectsAreRecorded
<1>1. ConversationInv => EffectsAreRecorded
  BY DEF ConversationInv, HeadInv, Known, EffectsAreRecorded
<1>2. QED
  BY Invariance, <1>1, PTL

\* What callers were told stays in every later head, and no transcript claims an effect, a
\* rejection or a pending request that the gateway does not have.
THEOREM ToldTrue == Spec => []ToldIsTrue
<1>1. ConversationInv => ToldIsTrue
  BY DEF ConversationInv, HeadInv, Fits, EntryFits, ToldIsTrue
<1>2. QED
  BY Invariance, <1>1, PTL

\* The steps that write the session file.
LEMMA Writers ==
    ASSUME ConversationInv, [Next]_vars, file' # file
    PROVE  Smalltalk \/ Mark \/ ClearMarker \/ Commit \/ SaveDecision \/ RecoverCommit
           \/ SaveReconciled
<1>1. ASSUME Reply PROVE FALSE
  BY <1>1 DEF Reply, durable
<1>2. ASSUME NEW k \in Key, RecordDecision(k) PROVE FALSE
  BY <1>2 DEF RecordDecision
<1>3. ASSUME Execute \/ ExecuteFails PROVE FALSE
  BY <1>3 DEF Execute, ExecuteFails
<1>4. ASSUME RunGateway \/ RecoverGateway PROVE FALSE
  BY <1>4, Ran
<1>5. QED
  BY <1>1, <1>2, <1>3, <1>4, UnwrittenSteps DEF Unwritten

MarkerStands ==
    file.inflight # None /\ file' # file =>
      /\ file'.inflight = None
      /\ \/ file'.head = file.head /\ row = before
         \/ \E status \in Statuses :
               LET k == file.inflight.key
               IN  file'.head = Recorded(file.inflight.view, k, status, row[k])

LEMMA MarkerOnlyResolved ==
    ASSUME ConversationInv, [Next]_vars
    PROVE  MarkerStands
<1> SUFFICES ASSUME file.inflight # None, file' # file PROVE MarkerStands
  BY DEF MarkerStands
<1>1. at \in {"ready", "stopped", "ended", "decided", "saving"} => file.inflight = None
  BY DEF ConversationInv, ObjectInv, Loading
<1>2. \/ ClearMarker
      \/ (Commit \/ RecoverCommit) /\ at \in {"returned", "recovered"}
  BY <1>1, Writers DEF Smalltalk, Mark, SaveDecision, SaveReconciled, Commit, RecoverCommit
<1>3. CASE ClearMarker
  BY <1>3 DEF ClearMarker, ConversationInv, TypeOK, SubmissionInv, BeforeGateway, MarkerStands
<1>4. CASE (Commit \/ RecoverCommit) /\ at \in {"returned", "recovered"}
  <2>1. file' = [head |-> work, inflight |-> None]
    BY <1>4 DEF Commit, RecoverCommit
  <2>2. PICK status \in Statuses :
          work = Recorded(file.inflight.view, file.inflight.key, status, row[file.inflight.key])
    BY <1>4 DEF ConversationInv, SubmissionInv, Statuses
  <2>3. QED
    BY <2>1, <2>2 DEF MarkerStands
<1>5. QED
  BY <1>2, <1>3, <1>4

Undisturbed ==
    job # "message" /\ file.inflight = None =>
      /\ file'.head.msgs = file.head.msgs
      /\ file'.head.run = file.head.run
      /\ file'.head.first = file.head.first

LEMMA OthersOnlyReport ==
    ASSUME ConversationInv, [Next]_vars
    PROVE  Undisturbed
<1> SUFFICES ASSUME job # "message", file.inflight = None, file' # file PROVE Undisturbed
  BY DEF Undisturbed
<1>1. at \in BeforeGateway => job = "message"
  BY DEF ConversationInv, SubmissionInv
<1>2. at \in {"returned", "recovered"} => file.inflight # None
  BY DEF ConversationInv, SubmissionInv
<1>3. Mark \/ SaveDecision \/ SaveReconciled \/ ClearMarker
  BY <1>1, <1>2, Writers DEF Smalltalk, Commit, RecoverCommit, BeforeGateway
<1>4. CASE Mark \/ ClearMarker
  BY <1>4 DEF Mark, ClearMarker, ConversationInv, TypeOK, Undisturbed
<1>5. CASE SaveDecision
  BY <1>5, Saved DEF SaveDecision, Undisturbed
<1>6. CASE SaveReconciled
  <2>1. at = "saving" /\ fields = Reconciled(file.head)
    BY <1>6 DEF SaveReconciled, ConversationInv, ObjectInv
  <2>2. QED
    BY <1>6, <2>1, Reconciles DEF SaveReconciled, Undisturbed
<1>7. QED
  BY <1>3, <1>4, <1>5, <1>6

\* While a marker stands the session file is written only to resolve it, and what is not a
\* customer's message neither consumes one nor moves an open run nor submits anything.
THEOREM MarkersHold == Spec => NoForkPastMarker
<1>1. ConversationInv /\ [Next]_vars => MarkerStands /\ Undisturbed
  BY MarkerOnlyResolved, OthersOnlyReport
<1>2. MarkerStands /\ Undisturbed =>
        [/\ file.inflight # None /\ file' # file =>
             /\ file'.inflight = None
             /\ \/ file'.head = file.head /\ row = before
                \/ \E status \in Ended \cup {"WAITING_APPROVAL"} :
                      LET k == file.inflight.key
                      IN  file'.head = Recorded(file.inflight.view, k, status, row[k])
         /\ job # "message" /\ file.inflight = None =>
             /\ file'.head.msgs = file.head.msgs
             /\ file'.head.run = file.head.run
             /\ file'.head.first = file.head.first]_vars
  BY DEF MarkerStands, Undisturbed, Statuses
<1>3. QED
  BY Invariance, <1>1, <1>2, PTL DEF Spec, NoForkPastMarker
=============================================================================
