------------------------- MODULE ActionGatewayProofs -------------------------
(***************************************************************************)
(* Theorems about ActionGateway for every number of requests, items,       *)
(* callers, builds, releases and days.                                     *)
(***************************************************************************)
EXTENDS ActionGateway, WellFoundedInduction, FiniteSetTheorems, TLAPS

-----------------------------------------------------------------------------
(* The list of refusals *)

\* A non-empty set of naturals has a least element.
LEMMA LeastIndex ==
    ASSUME NEW F \in SUBSET Nat, F # {}
    PROVE  \E n \in F : \A m \in F : n <= m
<1>1. \A x, y \in Nat : y < x => <<y, x>> \in OpToRel(<, Nat)
  BY DEF OpToRel
<1>2. PICK R : /\ IsWellFoundedOn(R, Nat)
               /\ \A x, y \in Nat : y < x => <<y, x>> \in R
  BY <1>1, NatLessThanWellFounded, Zenon
<1>3. PICK n \in F : \A m \in F : ~(<<m, n>> \in R)
  BY <1>2, WFMin
<1>4. ASSUME NEW m \in F PROVE n <= m
  <2>1. n \in Nat /\ m \in Nat
    OBVIOUS
  <2>2. m < n => <<m, n>> \in R
    BY <1>2, <2>1, Zenon
  <2>3. ~(m < n)
    BY <1>3, <2>2, Zenon
  <2>4. QED
    BY <2>1, <2>3
<1>5. QED
  BY <1>4

\* The code of a list of checks is one of its codes, or "none".
LEMMA FirstFailingIn ==
    ASSUME NEW C, NEW checks, DOMAIN checks \subseteq Nat,
           \A n \in DOMAIN checks : checks[n].code \in C
    PROVE  FirstFailing(checks) \in C \cup {"none"}
  BY LeastIndex DEF FirstFailing

\* A list of checks whose code is "none" has no failing check.
LEMMA NoneFailing ==
    ASSUME NEW checks, DOMAIN checks \subseteq Nat,
           \A n \in DOMAIN checks : checks[n].code # "none",
           FirstFailing(checks) = "none"
    PROVE  \A n \in DOMAIN checks : ~checks[n].fails
  BY LeastIndex DEF FirstFailing

\* The refusals of a return or an exchange are those the table accepts.
LEMMA CaseCodes ==
    ASSUME NEW a, NEW s, NEW rules, NEW d
    PROVE  /\ DOMAIN CaseChecks(a, s, rules, d) = 1..19
           /\ \A n \in 1..19 : CaseChecks(a, s, rules, d)[n].code \in DenyReasons
  BY DEF CaseChecks, Check, WindowClosed, DenyReasons

LEMMA HandoffCodes ==
    ASSUME NEW a, NEW s, NEW rules, NEW d
    PROVE  /\ DOMAIN HandoffChecks(a, s, rules, d) = 1..5
           /\ \A n \in 1..5 : HandoffChecks(a, s, rules, d)[n].code \in DenyReasons
  BY DEF HandoffChecks, Check, DenyReasons

\* What a return or an exchange that no check refuses can rely on.
LEMMA CasePasses ==
    ASSUME NEW a, NEW s, NEW rules, NEW d,
           a.name # "escalate_to_human", Denial(a, s, rules, d) = "none"
    PROVE  ~ActiveCase(s) /\ ~ReturnedBefore(s) /\ s.otherPendings = {}
<1> DEFINE checks == CaseChecks(a, s, rules, d)
<1>1. \A n \in DOMAIN checks : checks[n].code # "none"
  <2>1. "none" \notin DenyReasons
    BY DEF DenyReasons
  <2>2. QED
    BY CaseCodes, <2>1
<1>2. \A n \in 1..19 : ~checks[n].fails
  <2>1. FirstFailing(checks) = "none"
    BY DEF Denial
  <2>2. DOMAIN checks = 1..19
    BY CaseCodes
  <2> HIDE DEF checks
  <2>3. QED
    BY <1>1, <2>1, <2>2, NoneFailing
<1>3. /\ checks[7].fails = ActiveCase(s)
      /\ checks[8].fails = ReturnedBefore(s)
      /\ checks[9].fails = (s.otherPendings # {})
  BY DEF CaseChecks, Check
<1>4. 7 \in 1..19 /\ 8 \in 1..19 /\ 9 \in 1..19
  OBVIOUS
<1> HIDE DEF checks
<1>5. QED
  BY <1>2, <1>3, <1>4

\* A handoff that no check refuses has no open ticket before it.
LEMMA HandoffPasses ==
    ASSUME NEW a, NEW s, NEW rules, NEW d,
           a.name = "escalate_to_human", Denial(a, s, rules, d) = "none"
    PROVE  ~OpenTicket(s)
<1> DEFINE checks == HandoffChecks(a, s, rules, d)
<1>1. \A n \in DOMAIN checks : checks[n].code # "none"
  <2>1. "none" \notin DenyReasons
    BY DEF DenyReasons
  <2>2. QED
    BY HandoffCodes, <2>1
<1>2. \A n \in 1..5 : ~checks[n].fails
  <2>1. FirstFailing(checks) = "none"
    BY DEF Denial
  <2>2. DOMAIN checks = 1..5
    BY HandoffCodes
  <2> HIDE DEF checks
  <2>3. QED
    BY <1>1, <2>1, <2>2, NoneFailing
<1>3. checks[5].fails = OpenTicket(s)
  BY DEF HandoffChecks, Check
<1>4. 5 \in 1..5
  OBVIOUS
<1> HIDE DEF checks
<1>5. QED
  BY <1>2, <1>3, <1>4

\* A refusal is one of the codes a DENIED row may carry.
LEMMA DenialIn ==
    ASSUME NEW a, NEW s, NEW rules, NEW d
    PROVE  Denial(a, s, rules, d) \in DenyReasons \cup {"none"}
<1>1. CASE a.name = "escalate_to_human"
  <2>1. DOMAIN HandoffChecks(a, s, rules, d) \subseteq Nat
    BY HandoffCodes
  <2>2. QED
    BY <1>1, <2>1, HandoffCodes, FirstFailingIn DEF Denial
<1>2. CASE a.name # "escalate_to_human"
  <2>1. DOMAIN CaseChecks(a, s, rules, d) \subseteq Nat
    BY CaseCodes
  <2>2. QED
    BY <1>2, <2>1, CaseCodes, FirstFailingIn DEF Denial
<1>3. QED
  BY <1>1, <1>2

-----------------------------------------------------------------------------
(* Type correctness *)

\* What one capture records is a snapshot.
LEMMA SnapshotType ==
    ASSUME TypeOK, build # None, NEW k \in Key
    PROVE  CandidateSnapshot(k) \in Snapshots
<1>1. Target(k) \in Item /\ Intent[k].name \in ActionNames
  BY GatewayAssumption DEF Target
<1> DEFINE i == Target(k)
<1>2. ASSUME NEW table PROVE RowsOf(k, table) \in RecordSets
  <2>1. {<<i, order[i].version>>} \in RecordSets
    BY <1>1 DEF TypeOK, RecordSets
  <2>2. {<<p.no, parcels[i].version>> : p \in parcels[i].rows} \in RecordSets
    <3>1. parcels[i].version \in Version /\ parcels[i].rows \in ParcelStates
      BY <1>1 DEF TypeOK
    <3>2. \A p \in parcels[i].rows : p.no \in ParcelNo
      BY <3>1 DEF ParcelNo
    <3>3. QED
      BY <3>1, <3>2 DEF RecordSets
  <2>3. {<<c, cases[c].version>> : c \in CasesOf(i)} \in RecordSets
    BY DEF TypeOK, CasesOf, Row, RecordSets, CaseRows
  <2>4. {<<i, stock[i].version>>} \in RecordSets
    BY <1>1 DEF TypeOK, RecordSets
  <2>5. {<<h, tickets[h].version>> : h \in TicketsOf(k)} \in RecordSets
    BY DEF TypeOK, TicketsOf, Row, RecordSets, TicketRows, CaseId
  <2>6. {} \in RecordSets
    BY DEF RecordSets
  <2>7. QED
    BY <2>1, <2>2, <2>3, <2>4, <2>5, <2>6 DEF RowsOf
<1>3. Records(k) \in [RecordTables(Intent[k].name) -> RecordSets]
  <2>1. {} \in RecordSets
    BY DEF RecordSets
  <2>2. QED
    BY <1>2, <2>1 DEF Records
<1>4. build \in Builds /\ release \in Release
  BY DEF TypeOK
<1>5. QED
  BY <1>1, <1>3, <1>4 DEF CandidateSnapshot, Snapshots, ActionNames

\* It covers the tables of its action.
LEMMA SnapshotTables ==
    ASSUME NEW k \in Key
    PROVE  DOMAIN CandidateSnapshot(k).records = RecordTables(Intent[k].name)
  BY DEF CandidateSnapshot, Records

\* The codes of each status are outcomes.
LEMMA Codes ==
    /\ CodesOf("PENDING_APPROVAL") = {"none"}
    /\ CodesOf("APPROVED") = {"none"}
    /\ CodesOf("EXECUTED") = {"none"}
    /\ CodesOf("REJECTED") = {"approval_rejected"}
    /\ CodesOf("STALE") = StaleReasons
    /\ CodesOf("DENIED") = DenyReasons
    /\ CodesOf("FAILED") = Failures \cup {"policy_unavailable", "invariant_violation"}
    /\ \A status \in Statuses : CodesOf(status) \subseteq Outcomes
<1>1. \A status \in Statuses : CodesOf(status) \subseteq Outcomes
  BY DEF Outcomes
<1>2. QED
  BY <1>1, Zenon DEF CodesOf

\* A decision is a denial with a refusal, or the disposition of the risk policy.
LEMMA Decisions ==
    ASSUME TypeOK, NEW k \in Key, NEW excluded
    PROVE  /\ GuardDecision(k, excluded).decision \in {"DENY", "ALLOW", "REQUIRE_APPROVAL"}
           /\ GuardDecision(k, excluded).decision = "DENY" =>
                GuardDecision(k, excluded).reason \in DenyReasons
           /\ GuardDecision(k, excluded).decision # "DENY" =>
                /\ GuardDecision(k, excluded).decision = Risk[release][Intent[k].name]
                /\ Denial(Intent[k], CapturedState(k, excluded), Rulebook[build], day) = "none"
<1> DEFINE denial == Denial(Intent[k], CapturedState(k, excluded), Rulebook[build], day)
<1>1. denial \in DenyReasons \cup {"none"}
  BY DenialIn
<1>2. Risk[release][Intent[k].name] \in {"ALLOW", "REQUIRE_APPROVAL"}
  BY GatewayAssumption DEF TypeOK, Release
<1> HIDE DEF denial
<1>3. GuardDecision(k, excluded) =
        IF denial # "none"
        THEN [decision |-> "DENY", reason |-> denial]
        ELSE [decision |-> Risk[release][Intent[k].name],
              reason |-> IF Risk[release][Intent[k].name] = "ALLOW"
                         THEN "risk_policy_allows" ELSE "risk_policy_requires_approval"]
  BY DEF GuardDecision, Decide, denial
<1>4. QED
  BY <1>1, <1>2, <1>3 DEF denial

\* A stale reason is one of the codes a STALE row may carry.
LEMMA StaleReasonIn ==
    ASSUME NEW stored, NEW candidate
    PROVE  StaleReason(stored, candidate) \in
             {"record_set_changed", "record_version_changed", "policy_changed",
              "action_policy_changed", "none"}
<1> DEFINE tables == DOMAIN stored.records
<1> DEFINE checks ==
      << Check(\E t \in tables : RowIds(stored.records[t]) # RowIds(candidate.records[t]),
               "record_set_changed"),
         Check(\E t \in tables : stored.records[t] # candidate.records[t],
               "record_version_changed"),
         Check(stored.build # candidate.build, "policy_changed"),
         Check(stored.release # candidate.release, "action_policy_changed") >>
<1> DEFINE C == {"record_set_changed", "record_version_changed", "policy_changed",
                 "action_policy_changed"}
<1>1. DOMAIN checks = 1..4 /\ \A n \in 1..4 : checks[n].code \in C
  BY DEF Check
<1>2. StaleReason(stored, candidate) = FirstFailing(checks)
  BY DEF StaleReason
<1> HIDE DEF checks, C
<1>3. FirstFailing(checks) \in C \cup {"none"}
  BY <1>1, FirstFailingIn
<1>4. QED
  BY <1>2, <1>3 DEF C

Rows == pending \in [Key -> {None} \cup PendingRows] /\ RowsAreWellFormed

\* Writing a well-formed row keeps the table well formed.
LEMMA RowWritten ==
    ASSUME Rows, NEW k \in Key, NEW row \in PendingRows, WellFormed(row),
           DOMAIN row.snapshot.records = RecordTables(Intent[k].name),
           pending' = [pending EXCEPT ![k] = row]
    PROVE  Rows'
  BY DEF Rows, RowsAreWellFormed, Row

\* A terminal write of T2 on an APPROVED row.
LEMMA RowEnded ==
    ASSUME Rows, NEW k \in Key, Row(pending, k), pending[k].status = "APPROVED",
           NEW status \in {"EXECUTED", "STALE", "DENIED", "FAILED"},
           NEW outcome \in CodesOf(status),
           pending' = [pending EXCEPT ![k].status = status, ![k].outcome = outcome,
                                      ![k].version = @ + 1]
    PROVE  Rows'
<1> DEFINE row == [status |-> status, version |-> 3, decision |-> "APPROVE",
                   outcome |-> outcome, snapshot |-> pending[k].snapshot]
<1>1. /\ pending[k] \in PendingRows
      /\ pending[k].version = 2 /\ pending[k].decision = "APPROVE"
  BY DEF Rows, RowsAreWellFormed, WellFormed, Row
<1>5. DOMAIN row.snapshot.records = RecordTables(Intent[k].name)
  BY DEF Rows, RowsAreWellFormed
<1>2. row \in PendingRows
  BY <1>1, Codes DEF PendingRows, Statuses, Open, Terminal
<1>3. WellFormed(row)
  BY DEF WellFormed, Terminal
<1>4. pending' = [pending EXCEPT ![k] = row]
  BY <1>1 DEF Rows, PendingRows
<1>6. QED
  BY <1>2, <1>3, <1>4, <1>5, RowWritten

\* The business row and the receipt of an execution are rows of their tables.
LEMMA ExecutionTyped ==
    ASSUME TypeOK, build # None, NEW k \in Key, NEW pended \in BOOLEAN, WriteExecution(k, pended)
    PROVE  /\ cases' \in [CaseId -> {None} \cup CaseRows]
           /\ tickets' \in [Key -> {None} \cup TicketRows]
           /\ receipts' \in [Key -> {None} \cup ReceiptRows]
<1>1. Target(k) \in Item /\ Intent[k].trigger \in {"none", "quality_dispute"} /\ k \in CaseId
  BY GatewayAssumption DEF Target, CaseId
<1>2. [pended |-> pended, snapshot |-> CandidateSnapshot(k)] \in ReceiptRows
  BY SnapshotType DEF ReceiptRows
<1>3. receipts' \in [Key -> {None} \cup ReceiptRows]
  BY <1>2 DEF WriteExecution, TypeOK
<1>4. [item |-> Target(k), status |-> "pending", trigger |-> Intent[k].trigger, version |-> 1]
        \in TicketRows
  BY <1>1 DEF TicketRows
<1>5. [item |-> Target(k), type |-> CaseType(k), status |-> "pending", version |-> 1] \in CaseRows
  BY <1>1 DEF CaseRows, CaseType
<1>6. QED
  BY <1>1, <1>3, <1>4, <1>5 DEF WriteExecution, TypeOK

TypeInv == TypeOK /\ RowsAreWellFormed

LEMMA TypeInit == Init => TypeInv
<1> SUFFICES ASSUME Init PROVE TypeInv
  OBVIOUS
<1>1. 1 \in Version /\ 0 \in Day /\ 1 \in Release
  BY GatewayAssumption DEF Version, Day
<1>2. TypeOK
  <2>1. /\ order \in [Item -> [status: OrderStates, version: Version]]
        /\ parcels \in [Item -> [rows: ParcelStates, version: Version]]
        /\ stock \in [Item -> [state: StockStates, version: Version]]
    BY <1>1 DEF Init
  <2>2. worker \in [Worker -> WorkerStates]
    BY DEF Init, WorkerStates
  <2>3. QED
    BY <1>1, <2>1, <2>2 DEF Init, TypeOK
<1>3. RowsAreWellFormed
  BY DEF Init, RowsAreWellFormed, Row
<1>4. QED
  BY <1>2, <1>3 DEF TypeInv

\* A step that leaves every table alone.
LEMMA TablesUnchanged ==
    ASSUME TypeInv, UNCHANGED <<business, rows, config>>,
           worker' \in [Worker -> WorkerStates], told' \in [Key -> SUBSET Terminal]
    PROVE  TypeInv'
<1>1. TypeOK'
  BY DEF TypeInv, TypeOK, business, rows, config
<1>2. RowsAreWellFormed'
  BY DEF TypeInv, RowsAreWellFormed, Row, rows
<1>3. QED
  BY <1>1, <1>2 DEF TypeInv

LEMMA StartTyped ==
    ASSUME TypeInv, NEW k \in Key, Start(k)
    PROVE  TypeInv'
<1> USE DEF TypeInv
<1>1. CASE StartReplay(k)
  <2>1. told' \in [Key -> SUBSET Terminal]
    BY <1>1 DEF StartReplay, Tells, TypeOK, Terminal
  <2>2. QED
    BY <1>1, <2>1, TablesUnchanged DEF StartReplay, TypeOK
<1>2. CASE StartDenied(k) \/ StartFailed(k)
  BY <1>2, TablesUnchanged DEF StartDenied, StartFailed, vars, TypeOK
<1>3. CASE StartPending(k)
  <2> DEFINE row == [status |-> "PENDING_APPROVAL", version |-> 1, decision |-> "none",
                     outcome |-> "none", snapshot |-> CandidateSnapshot(k)]
  <2>1. row \in PendingRows
    BY <1>3, SnapshotType, Codes DEF StartPending, PendingRows, Statuses, Open
  <2>2. WellFormed(row)
    BY Codes DEF WellFormed, Terminal
  <2>3. Rows'
    BY <1>3, <2>1, <2>2, RowWritten, SnapshotTables DEF StartPending, Rows, TypeOK
  <2>4. QED
    BY <1>3, <2>3 DEF StartPending, Rows, TypeOK, business, config
<1>4. CASE StartExecuted(k)
  <2>1. told' \in [Key -> SUBSET Terminal]
    BY <1>4 DEF StartExecuted, Tells, TypeOK, Terminal
  <2>2. QED
    BY <1>4, <2>1, ExecutionTyped
       DEF StartExecuted, TypeOK, RowsAreWellFormed, Row, business, config
<1>5. QED
  BY <1>1, <1>2, <1>3, <1>4 DEF Start

LEMMA DecisionTyped ==
    ASSUME TypeInv, NEW w \in Worker, NEW k \in Key, NEW decision \in {"APPROVE", "REJECT"},
           RecordDecision(w, k, decision) \/ RepeatDecision(w, k, decision)
    PROVE  TypeInv'
<1> USE DEF TypeInv
<1>1. CASE RecordDecision(w, k, decision)
  <2> DEFINE row == [status |-> IF decision = "APPROVE" THEN "APPROVED" ELSE "REJECTED",
                     version |-> 2, decision |-> decision,
                     outcome |-> IF decision = "APPROVE" THEN "none" ELSE "approval_rejected",
                     snapshot |-> pending[k].snapshot]
  <2>1. pending[k] \in PendingRows /\ pending[k].version = 1
    BY <1>1 DEF RecordDecision, TypeOK, RowsAreWellFormed, WellFormed, Row
  <2>2. row \in PendingRows
    BY <2>1, Codes DEF PendingRows, Statuses, Open, Terminal
  <2>3. WellFormed(row)
    BY Codes DEF WellFormed, Terminal
  <2>4. pending' = [pending EXCEPT ![k] = row]
    BY <1>1, <2>1 DEF RecordDecision, TypeOK, PendingRows
  <2>5. Rows'
    <3>1. DOMAIN row.snapshot.records = RecordTables(Intent[k].name)
      BY <1>1 DEF RecordDecision, RowsAreWellFormed
    <3>2. QED
      BY <2>2, <2>3, <2>4, <3>1, RowWritten DEF Rows, TypeOK
  <2>6. worker' \in [Worker -> WorkerStates]
    <3>1. [at |-> "approved", key |-> k] \in WorkerStates
      BY DEF WorkerStates
    <3>2. QED
      BY <1>1, <3>1 DEF RecordDecision, TypeOK
  <2>7. told' \in [Key -> SUBSET Terminal]
    BY <1>1 DEF RecordDecision, Tells, TypeOK, Terminal
  <2>8. QED
    BY <1>1, <2>5, <2>6, <2>7 DEF RecordDecision, Rows, TypeOK, business, config
<1>2. CASE RepeatDecision(w, k, decision)
  <2>1. /\ worker' \in [Worker -> WorkerStates]
        /\ told' \in [Key -> SUBSET Terminal]
    BY <1>2 DEF RepeatDecision, Tells, TypeOK, Terminal, WorkerStates
  <2>2. QED
    BY <1>2, <2>1, TablesUnchanged DEF RepeatDecision
<1>3. QED
  BY <1>1, <1>2

\* A terminal write of T2, and the answer that goes with it.
LEMMA EndsTyped ==
    ASSUME TypeInv, NEW k \in Key, Row(pending, k), pending[k].status = "APPROVED",
           NEW status \in {"EXECUTED", "STALE", "DENIED", "FAILED"},
           NEW outcome \in CodesOf(status), Ends(k, status, outcome)
    PROVE  Rows' /\ told' \in [Key -> SUBSET Terminal]
<1>1. Rows
  BY DEF TypeInv, TypeOK, Rows
<1>2. Rows'
  BY <1>1, RowEnded DEF Ends
<1>3. told' \in [Key -> SUBSET Terminal]
  BY DEF TypeInv, TypeOK, Ends, Tells, Terminal
<1>4. QED
  BY <1>2, <1>3

LEMMA ExecuteTyped ==
    ASSUME TypeInv, NEW w \in Worker, NEW k \in Key,
           \/ ExecuteReplay(w, k) \/ ExecuteStale(w, k) \/ ExecuteDecided(w, k)
           \/ ExecuteLost(w, k) \/ ExecuteFailed(w, k)
    PROVE  TypeInv'
<1>1. Idle \in WorkerStates
  BY DEF WorkerStates
<1>2. CASE ExecuteReplay(w, k)
  <2>1. worker' \in [Worker -> WorkerStates]
    BY <1>1, <1>2 DEF ExecuteReplay, Done, TypeInv, TypeOK
  <2>2. told' \in [Key -> SUBSET Terminal]
    BY <1>2 DEF ExecuteReplay, Tells, TypeInv, TypeOK
  <2>3. QED
    BY <1>2, <2>1, <2>2, TablesUnchanged DEF ExecuteReplay
<1>3. CASE ExecuteStale(w, k)
  <2> DEFINE reason == StaleReason(pending[k].snapshot, CandidateSnapshot(k))
  <2>1. reason \in CodesOf("STALE")
    BY <1>3, StaleReasonIn, Codes DEF ExecuteStale, StaleReasons
  <2>2. Row(pending, k) /\ pending[k].status = "APPROVED" /\ Ends(k, "STALE", reason)
    BY <1>3 DEF ExecuteStale, Resuming, MayExecute
  <2> HIDE DEF reason
  <2>3. Rows' /\ told' \in [Key -> SUBSET Terminal]
    BY <2>1, <2>2, EndsTyped
  <2>4. worker' \in [Worker -> WorkerStates]
    BY <1>1, <1>3 DEF ExecuteStale, Done, TypeInv, TypeOK
  <2>5. QED
    BY <1>3, <2>3, <2>4 DEF ExecuteStale, Rows, TypeInv, TypeOK, business, config
<1>4. CASE ExecuteDecided(w, k)
  <2> DEFINE guard == GuardDecision(k, {k})
  <2>1. Row(pending, k) /\ pending[k].status = "APPROVED" /\ build # None
    BY <1>4 DEF ExecuteDecided, Resuming, MayExecute
  <2>2. guard.decision = "DENY" => guard.reason \in CodesOf("DENIED")
    BY Decisions, Codes DEF TypeInv
  <2>3. "guard_decision_changed" \in CodesOf("STALE") /\ "none" \in CodesOf("EXECUTED")
    BY Codes DEF StaleReasons
  <2>4. worker' \in [Worker -> WorkerStates]
    BY <1>1, <1>4 DEF ExecuteDecided, Done, TypeInv, TypeOK
  <2>5. Rows' /\ told' \in [Key -> SUBSET Terminal]
    <3>1. CASE guard.decision = "REQUIRE_APPROVAL"
      BY <1>4, <2>1, <2>3, <3>1, EndsTyped DEF ExecuteDecided
    <3>2. CASE guard.decision = "DENY"
      BY <1>4, <2>1, <2>2, <3>2, EndsTyped DEF ExecuteDecided
    <3>3. CASE guard.decision \notin {"REQUIRE_APPROVAL", "DENY"}
      BY <1>4, <2>1, <2>3, <3>3, EndsTyped DEF ExecuteDecided
    <3>4. QED
      BY <3>1, <3>2, <3>3
  <2>6. /\ cases' \in [CaseId -> {None} \cup CaseRows]
        /\ tickets' \in [Key -> {None} \cup TicketRows]
        /\ receipts' \in [Key -> {None} \cup ReceiptRows]
    <3>1. CASE guard.decision = "REQUIRE_APPROVAL"
      BY <1>4, <2>1, <3>1, ExecutionTyped DEF ExecuteDecided, TypeInv
    <3>2. CASE guard.decision # "REQUIRE_APPROVAL"
      BY <1>4, <3>2 DEF ExecuteDecided, TypeInv, TypeOK
    <3>3. QED
      BY <3>1, <3>2
  <2>7. QED
    BY <1>4, <2>4, <2>5, <2>6 DEF ExecuteDecided, Rows, TypeInv, TypeOK, business, config
<1>5. CASE ExecuteLost(w, k)
  <2>1. worker' \in [Worker -> WorkerStates]
    BY <1>1, <1>5 DEF ExecuteLost, Done, TypeInv, TypeOK
  <2>2. QED
    BY <1>5, <2>1, TablesUnchanged DEF ExecuteLost, TypeInv, TypeOK
<1>6. CASE ExecuteFailed(w, k)
  <2>1. pending[k].version \in 1..3
    BY <1>6 DEF ExecuteFailed, MayExecute, Row, TypeInv, TypeOK, PendingRows
  <2>2. \A code \in Failures \cup {"policy_unavailable", "invariant_violation"} :
          [at |-> "compensate", key |-> k, code |-> code, version |-> pending[k].version]
            \in WorkerStates
    BY <2>1, Codes DEF WorkerStates
  <2>3. worker' \in [Worker -> WorkerStates]
    BY <1>6, <2>2 DEF ExecuteFailed, TypeInv, TypeOK
  <2>4. QED
    BY <1>6, <2>3, TablesUnchanged DEF ExecuteFailed, TypeInv, TypeOK
<1>7. QED
  BY <1>2, <1>3, <1>4, <1>5, <1>6

LEMMA CompensateTyped ==
    ASSUME TypeInv, NEW w \in Worker, Compensate(w) \/ CompensateFails(w)
    PROVE  TypeInv'
<1>1. worker' \in [Worker -> WorkerStates]
  BY DEF Compensate, CompensateFails, Done, WorkerStates, TypeInv, TypeOK
<1>2. CASE CompensateFails(w)
  BY <1>1, <1>2, TablesUnchanged DEF CompensateFails, TypeInv, TypeOK
<1>3. CASE Compensate(w)
  <2>1. worker[w] \in [at: {"compensate"}, key: Key, version: 1..3, code: CodesOf("FAILED")]
    BY <1>3 DEF Compensate, TypeInv, TypeOK, WorkerStates, Idle
  <2>2. Rows'
    <3>1. CASE /\ pending[worker[w].key].status = "APPROVED"
               /\ pending[worker[w].key].version = worker[w].version
               /\ Row(pending, worker[w].key)
      BY <1>3, <2>1, <3>1, RowEnded DEF Compensate, TypeInv, TypeOK, Rows
    <3>2. CASE UNCHANGED pending
      BY <3>2 DEF TypeInv, TypeOK, Rows, RowsAreWellFormed, Row
    <3>3. QED
      BY <1>3, <3>1, <3>2 DEF Compensate
  <2>3. QED
    BY <1>1, <1>3, <2>2 DEF Compensate, Rows, TypeInv, TypeOK, business, config
<1>4. QED
  BY <1>2, <1>3

\* The changes that the world around the gateway makes.
LEMMA ExternalTyped ==
    ASSUME TypeInv, External
    PROVE  TypeInv'
<1>1. UNCHANGED <<pending, told>>
  BY DEF External, OrderChanges, ParcelsChange, StockChanges, StaffOpensCase, StaffClosesCase,
         StaffClosesTicket, PolicyChanges, Deploy, DayPasses, rows
<1>2. RowsAreWellFormed'
  BY <1>1 DEF TypeInv, RowsAreWellFormed, Row
<1>3. TypeOK'
  <2> USE DEF TypeInv, TypeOK
  <2>1. ASSUME NEW i \in Item, OrderChanges(i) \/ ParcelsChange(i) \/ StockChanges(i)
        PROVE  TypeOK'
    <3>1. CASE OrderChanges(i)
      BY <3>1, GatewayAssumption DEF OrderChanges, rows, config, Version
    <3>2. CASE ParcelsChange(i)
      BY <3>2, GatewayAssumption DEF ParcelsChange, rows, config, Version
    <3>3. CASE StockChanges(i)
      BY <3>3, GatewayAssumption DEF StockChanges, rows, config, Version
    <3>4. QED
      BY <2>1, <3>1, <3>2, <3>3
  <2>2. ASSUME NEW c \in StaffCase, NEW i \in Item, NEW type \in {"return", "exchange"},
               StaffOpensCase(c, i, type)
        PROVE  TypeOK'
    <3>1. [item |-> i, type |-> type, status |-> "pending", version |-> 1] \in CaseRows
      BY DEF CaseRows
    <3>2. QED
      BY <2>2, <3>1 DEF StaffOpensCase, business, config
  <2>3. ASSUME NEW c \in CaseId, NEW status \in {"completed", "rejected"}, StaffClosesCase(c, status)
        PROVE  TypeOK'
    <3>1. cases[c] \in CaseRows /\ cases[c].version = 1
      BY <2>3 DEF StaffClosesCase, Row, CaseRows, ActiveStatuses
    <3>2. [cases[c] EXCEPT !.status = status, !.version = 2] \in CaseRows
      BY <3>1 DEF CaseRows
    <3>3. cases' = [cases EXCEPT ![c] = [cases[c] EXCEPT !.status = status, !.version = 2]]
      BY <2>3, <3>1 DEF StaffClosesCase, CaseRows
    <3>4. QED
      BY <2>3, <3>2, <3>3 DEF StaffClosesCase, business, config
  <2>4. ASSUME NEW k \in Key, StaffClosesTicket(k)
        PROVE  TypeOK'
    <3>1. tickets[k] \in TicketRows /\ tickets[k].version = 1
      BY <2>4 DEF StaffClosesTicket, Row, TicketRows, ActiveStatuses
    <3>2. [tickets[k] EXCEPT !.status = "closed", !.version = 2] \in TicketRows
      BY <3>1 DEF TicketRows
    <3>3. tickets' = [tickets EXCEPT ![k] = [tickets[k] EXCEPT !.status = "closed", !.version = 2]]
      BY <2>4, <3>1 DEF StaffClosesTicket, TicketRows
    <3>4. QED
      BY <2>4, <3>2, <3>3 DEF StaffClosesTicket, business, config
  <2>5. CASE PolicyChanges
    BY <2>5 DEF PolicyChanges, business, rows
  <2>6. CASE Deploy
    BY <2>6 DEF Deploy, business, rows, WorkerStates
  <2>7. CASE DayPasses
    BY <2>7, GatewayAssumption DEF DayPasses, business, rows, Day
  <2>8. QED
    BY <2>1, <2>2, <2>3, <2>4, <2>5, <2>6, <2>7 DEF External
<1>4. QED
  BY <1>2, <1>3 DEF TypeInv

LEMMA TypeStep == TypeInv /\ [Next]_vars => TypeInv'
<1> SUFFICES ASSUME TypeInv, [Next]_vars PROVE TypeInv'
  OBVIOUS
<1>1. ASSUME NEW k \in Key, Start(k) PROVE TypeInv'
  BY <1>1, StartTyped
<1>2. ASSUME NEW w \in Worker, NEW k \in Key, Resume(w, k) PROVE TypeInv'
  BY <1>2, DecisionTyped, ExecuteTyped DEF Resume
<1>3. ASSUME NEW w \in Worker, Compensate(w) \/ CompensateFails(w) PROVE TypeInv'
  BY <1>3, CompensateTyped
<1>4. CASE Restart
  <2>1. worker' \in [Worker -> WorkerStates]
    BY <1>4 DEF Restart, WorkerStates
  <2>2. QED
    BY <1>4, <2>1, TablesUnchanged DEF Restart, TypeInv, TypeOK
<1>5. CASE External
  BY <1>5, ExternalTyped
<1>6. CASE UNCHANGED vars
  BY <1>6, TablesUnchanged DEF vars, TypeInv, TypeOK
<1>7. QED
  BY <1>1, <1>2, <1>3, <1>4, <1>5, <1>6 DEF Next, Gateway

\* Every reachable state is well typed: no row, snapshot, worker or answer takes
\* a value that its table or its reader does not know.
THEOREM TypeCorrect == Spec => []TypeOK
<1>1. TypeInv => TypeOK
  BY DEF TypeInv
<1>2. QED
  BY <1>1, TypeInit, TypeStep, PTL DEF Spec

\* No CHECK constraint of pending_actions is ever hit by a write of the gateway.
THEOREM RowsCorrect == Spec => []RowsAreWellFormed
<1>1. TypeInv => RowsAreWellFormed
  BY DEF TypeInv
<1>2. QED
  BY <1>1, TypeInit, TypeStep, PTL DEF Spec

-----------------------------------------------------------------------------
(* Receipts *)

\* Two snapshots between which the comparison finds no difference are equal.
LEMMA SameSnapshot ==
    ASSUME NEW stored \in Snapshots, NEW candidate \in Snapshots,
           DOMAIN stored.records = DOMAIN candidate.records,
           StaleReason(stored, candidate) = "none"
    PROVE  stored = candidate
<1> DEFINE tables == DOMAIN stored.records
<1> DEFINE otherRows == \E t \in tables : RowIds(stored.records[t]) # RowIds(candidate.records[t])
<1> DEFINE otherVersions == \E t \in tables : stored.records[t] # candidate.records[t]
<1> DEFINE otherBuild == stored.build # candidate.build
<1> DEFINE otherRelease == stored.release # candidate.release
<1> DEFINE checks == << Check(otherRows, "record_set_changed"),
                        Check(otherVersions, "record_version_changed"),
                        Check(otherBuild, "policy_changed"),
                        Check(otherRelease, "action_policy_changed") >>
<1>1. DOMAIN checks = 1..4 /\ \A n \in 1..4 : checks[n].code # "none"
  BY DEF Check
<1>2. FirstFailing(checks) = "none"
  BY DEF StaleReason
<1>3. \A n \in 1..4 : ~checks[n].fails
  <2> HIDE DEF checks
  <2>1. QED
    BY <1>1, <1>2, NoneFailing
<1>4. /\ checks[2].fails = otherVersions
      /\ checks[3].fails = otherBuild
      /\ checks[4].fails = otherRelease
      /\ 2 \in 1..4 /\ 3 \in 1..4 /\ 4 \in 1..4
  <2> HIDE DEF otherRows, otherVersions, otherBuild, otherRelease
  <2>1. QED
    BY DEF Check
<1> HIDE DEF checks
<1>5. /\ \A t \in tables : stored.records[t] = candidate.records[t]
      /\ stored.build = candidate.build /\ stored.release = candidate.release
  BY <1>3, <1>4
<1>6. /\ stored.records = [t \in tables |-> stored.records[t]]
      /\ candidate.records = [t \in tables |-> candidate.records[t]]
  <2>1. ASSUME NEW s \in Snapshots
        PROVE  s.records = [t \in DOMAIN s.records |-> s.records[t]]
    <3>1. PICK name \in ActionNames : s.records \in [RecordTables(name) -> RecordSets]
      BY DEF Snapshots, ActionNames
    <3>2. QED
      BY <3>1
  <2>2. QED
    BY <2>1
<1>7. stored.records = candidate.records
  BY <1>5, <1>6
<1>8. QED
  BY <1>5, <1>7 DEF Snapshots

\* What an execution writes for its own key, and that it writes for no other.
LEMMA ExecutionWrites ==
    ASSUME TypeInv, build # None, NEW k \in Key, NEW pended \in BOOLEAN, WriteExecution(k, pended)
    PROVE  /\ Row(receipts', k) /\ receipts'[k].pended = pended
           /\ receipts'[k].snapshot = CandidateSnapshot(k)
           /\ Row(IF IsHandoff(k) THEN tickets' ELSE cases', k)
           /\ \A m \in Key \ {k} : /\ receipts'[m] = receipts[m]
                                   /\ tickets'[m] = tickets[m] /\ cases'[m] = cases[m]
<1>1. Target(k) \in Item /\ Intent[k].trigger \in {"none", "quality_dispute"} /\ k \in CaseId
  BY GatewayAssumption DEF Target, CaseId
<1> DEFINE receipt == [pended |-> pended, snapshot |-> CandidateSnapshot(k)]
<1> DEFINE ticket == [item |-> Target(k), status |-> "pending", trigger |-> Intent[k].trigger,
                      version |-> 1]
<1> DEFINE case == [item |-> Target(k), type |-> CaseType(k), status |-> "pending", version |-> 1]
<1>2. receipt # None
  BY SnapshotType, NoneAssumption DEF ReceiptRows, TypeInv
<1>3. ticket # None
  BY <1>1, NoneAssumption DEF TicketRows
<1>4. case # None
  BY <1>1, NoneAssumption DEF CaseRows, CaseType
<1>5. receipts' = [receipts EXCEPT ![k] = receipt]
  BY DEF WriteExecution
<1>6. /\ IsHandoff(k) => tickets' = [tickets EXCEPT ![k] = ticket] /\ cases' = cases
      /\ ~IsHandoff(k) => cases' = [cases EXCEPT ![k] = case] /\ tickets' = tickets
  BY DEF WriteExecution
<1> HIDE DEF ticket, case
<1>7. QED
  BY <1>1, <1>2, <1>3, <1>4, <1>5, <1>6 DEF Row, TypeInv, TypeOK, CaseId

\* A key whose receipt, request and business row stay is receipted as before.
LEMMA ReceiptedStays ==
    ASSUME NEW m \in Key, Receipted(m), receipts'[m] = receipts[m], pending'[m] = pending[m],
           Row(tickets', m) <=> Row(tickets, m), Row(cases', m) <=> Row(cases, m)
    PROVE  Receipted(m)'
  BY DEF Receipted, Row, IsHandoff

\* A request without effect that moves without one.
LEMMA ReceiptedMoves ==
    ASSUME NEW k \in Key, Receipted(k), ~Row(receipts, k), pending'[k].status # "EXECUTED",
           UNCHANGED <<receipts, tickets, cases>>
    PROVE  Receipted(k)'
  BY DEF Receipted, Row, IsHandoff

LEMMA ReceiptInit == Init => EffectsAreReceipted
  BY DEF Init, EffectsAreReceipted, Receipted, Row, CaseId

\* The gateway's terminal writes, and what they leave.
LEMMA EndsWrites ==
    ASSUME TypeInv, NEW k \in Key, Row(pending, k), pending[k].status = "APPROVED",
           NEW status \in {"EXECUTED", "STALE", "DENIED", "FAILED"}, NEW outcome,
           pending' = [pending EXCEPT ![k].status = status, ![k].outcome = outcome,
                                      ![k].version = @ + 1]
    PROVE  /\ pending'[k] = [status |-> status, version |-> 3, decision |-> "APPROVE",
                              outcome |-> outcome, snapshot |-> pending[k].snapshot]
           /\ pending[k] \in PendingRows /\ pending[k].version = 2
           /\ pending[k].decision = "APPROVE"
           /\ \A m \in Key \ {k} : pending'[m] = pending[m]
<1>1. pending[k] \in PendingRows /\ pending[k].version = 2 /\ pending[k].decision = "APPROVE"
  BY DEF TypeInv, TypeOK, RowsAreWellFormed, WellFormed, Row
<1>2. QED
  BY <1>1 DEF TypeInv, TypeOK, PendingRows

LEMMA ReceiptExecuteDecided ==
    ASSUME TypeInv, EffectsAreReceipted, NEW w \in Worker, NEW k \in Key, ExecuteDecided(w, k)
    PROVE  EffectsAreReceipted'
<1> DEFINE guard == GuardDecision(k, {k})
<1>1. /\ Row(pending, k) /\ pending[k].status = "APPROVED"
      /\ ~Row(receipts, k) /\ build # None
  BY DEF ExecuteDecided, Resuming, MayExecute
<1>2. ASSUME NEW m \in Key PROVE Receipted(m)
  BY DEF EffectsAreReceipted
<1>3. CASE guard.decision = "REQUIRE_APPROVAL"
  <2>1. WriteExecution(k, TRUE) /\ Ends(k, "EXECUTED", "none")
    BY <1>3 DEF ExecuteDecided
  <2>2. /\ Row(receipts', k) /\ receipts'[k].pended = TRUE
        /\ receipts'[k].snapshot = CandidateSnapshot(k)
        /\ Row(IF IsHandoff(k) THEN tickets' ELSE cases', k)
        /\ \A m \in Key \ {k} : /\ receipts'[m] = receipts[m]
                                /\ tickets'[m] = tickets[m] /\ cases'[m] = cases[m]
    BY <1>1, <2>1, ExecutionWrites
  <2>3. /\ pending'[k] = [status |-> "EXECUTED", version |-> 3, decision |-> "APPROVE",
                           outcome |-> "none", snapshot |-> pending[k].snapshot]
        /\ pending[k] \in PendingRows /\ pending[k].decision = "APPROVE"
        /\ \A m \in Key \ {k} : pending'[m] = pending[m]
    BY <1>1, <2>1, EndsWrites DEF Ends
  <2>4. pending[k].snapshot = CandidateSnapshot(k)
    <3>1. CandidateSnapshot(k) \in Snapshots /\ pending[k].snapshot \in Snapshots
      BY <1>1, <2>3, SnapshotType DEF TypeInv, PendingRows
    <3>2. DOMAIN pending[k].snapshot.records = DOMAIN CandidateSnapshot(k).records
      BY <1>1, SnapshotTables DEF TypeInv, RowsAreWellFormed
    <3>3. QED
      BY <3>1, <3>2, SameSnapshot DEF ExecuteDecided
  <2>5. /\ pending'[k].status = "EXECUTED" /\ pending'[k].decision = "APPROVE"
        /\ pending'[k].snapshot = pending[k].snapshot
    BY <2>3
  <2>6. pending'[k] # None
    <3>1. "none" \in Outcomes /\ "EXECUTED" \in Statuses
      BY Codes DEF Statuses, Open, Terminal
    <3>2. pending'[k] \in PendingRows
      BY <2>3, <3>1 DEF PendingRows
    <3>3. QED
      BY <2>3, <3>2, NoneAssumption
  <2>7. Receipted(k)'
    BY <2>2, <2>4, <2>5, <2>6 DEF Receipted, Row, IsHandoff
  <2>8. ASSUME NEW m \in Key \ {k} PROVE Receipted(m)'
    BY <1>2, <2>2, <2>3, ReceiptedStays DEF Row
  <2>9. QED
    BY <2>7, <2>8 DEF EffectsAreReceipted
<1>4. CASE guard.decision # "REQUIRE_APPROVAL"
  <2>1. UNCHANGED <<cases, tickets, receipts>>
    BY <1>4 DEF ExecuteDecided
  <2>2. \/ Ends(k, "DENIED", guard.reason)
        \/ Ends(k, "STALE", "guard_decision_changed")
    BY <1>4 DEF ExecuteDecided
  <2>3. pending'[k].status # "EXECUTED" /\ \A m \in Key \ {k} : pending'[m] = pending[m]
    <3>1. CASE Ends(k, "DENIED", guard.reason)
      <4> DEFINE reason == guard.reason
      <4>1. Ends(k, "DENIED", reason)
        BY <3>1
      <4> HIDE DEF reason
      <4>2. /\ pending'[k] = [status |-> "DENIED", version |-> 3, decision |-> "APPROVE",
                               outcome |-> reason, snapshot |-> pending[k].snapshot]
            /\ \A m \in Key \ {k} : pending'[m] = pending[m]
        BY <1>1, <4>1, EndsWrites DEF Ends
      <4>3. QED
        BY <4>2
    <3>2. CASE Ends(k, "STALE", "guard_decision_changed")
      <4>1. /\ pending'[k] = [status |-> "STALE", version |-> 3, decision |-> "APPROVE",
                               outcome |-> "guard_decision_changed",
                               snapshot |-> pending[k].snapshot]
            /\ \A m \in Key \ {k} : pending'[m] = pending[m]
        BY <1>1, <3>2, EndsWrites DEF Ends
      <4>2. QED
        BY <4>1
    <3>3. QED
      BY <2>2, <3>1, <3>2
  <2>4. Receipted(k)'
    BY <1>1, <1>2, <2>1, <2>3, ReceiptedMoves
  <2>5. ASSUME NEW m \in Key \ {k} PROVE Receipted(m)'
    BY <1>2, <2>1, <2>3, ReceiptedStays DEF Row
  <2>6. QED
    BY <2>4, <2>5 DEF EffectsAreReceipted
<1>5. QED
  BY <1>3, <1>4

\* Cases and tickets of other parties come and go; those of a key stay rows.
LEMMA ExternalKeepsRows ==
    ASSUME TypeInv, External
    PROVE  /\ UNCHANGED <<pending, receipts>>
           /\ \A m \in Key : Row(tickets', m) <=> Row(tickets, m)
           /\ \A m \in Key : Row(cases', m) <=> Row(cases, m)
<1>1. UNCHANGED <<pending, receipts>>
  BY DEF External, OrderChanges, ParcelsChange, StockChanges, StaffOpensCase, StaffClosesCase,
         StaffClosesTicket, PolicyChanges, Deploy, DayPasses, rows
<1>2. ASSUME NEW c \in StaffCase, NEW i \in Item, NEW type \in {"return", "exchange"},
             StaffOpensCase(c, i, type), NEW m \in Key
      PROVE  UNCHANGED tickets /\ cases'[m] = cases[m]
  BY <1>2, GatewayAssumption DEF StaffOpensCase, TypeInv, TypeOK, CaseId
<1>3. ASSUME NEW c \in CaseId, NEW status \in {"completed", "rejected"}, StaffClosesCase(c, status)
      PROVE  UNCHANGED tickets /\ \A m \in Key : Row(cases', m) <=> Row(cases, m)
  <2>1. cases[c] \in CaseRows /\ cases[c].version = 1
    BY <1>3 DEF StaffClosesCase, Row, CaseRows, ActiveStatuses, TypeInv, TypeOK
  <2>2. [cases[c] EXCEPT !.status = status, !.version = 2] \in CaseRows
    BY <2>1 DEF CaseRows
  <2>3. cases' = [cases EXCEPT ![c] = [cases[c] EXCEPT !.status = status, !.version = 2]]
    BY <1>3, <2>1 DEF StaffClosesCase, CaseRows, TypeInv, TypeOK
  <2>4. cases'[c] # None /\ cases[c] # None
    BY <2>1, <2>2, <2>3, NoneAssumption DEF TypeInv, TypeOK
  <2>5. \A m \in Key : m # c => cases'[m] = cases[m]
    BY <2>3 DEF TypeInv, TypeOK, CaseId
  <2>6. QED
    BY <1>3, <2>4, <2>5 DEF StaffClosesCase, Row
<1>4. ASSUME NEW k \in Key, StaffClosesTicket(k)
      PROVE  UNCHANGED cases /\ \A m \in Key : Row(tickets', m) <=> Row(tickets, m)
  <2>1. tickets[k] \in TicketRows /\ tickets[k].version = 1
    BY <1>4 DEF StaffClosesTicket, Row, TicketRows, ActiveStatuses, TypeInv, TypeOK
  <2>2. [tickets[k] EXCEPT !.status = "closed", !.version = 2] \in TicketRows
    BY <2>1 DEF TicketRows
  <2>3. tickets' = [tickets EXCEPT ![k] = [tickets[k] EXCEPT !.status = "closed", !.version = 2]]
    BY <1>4, <2>1 DEF StaffClosesTicket, TicketRows, TypeInv, TypeOK
  <2>4. tickets'[k] # None /\ tickets[k] # None
    BY <2>1, <2>2, <2>3, NoneAssumption DEF TypeInv, TypeOK
  <2>5. \A m \in Key : m # k => tickets'[m] = tickets[m]
    BY <2>3 DEF TypeInv, TypeOK
  <2>6. QED
    BY <1>4, <2>4, <2>5 DEF StaffClosesTicket, Row
<1>5. CASE UNCHANGED <<cases, tickets>>
  BY <1>1, <1>5 DEF Row
<1>6. QED
  BY <1>1, <1>2, <1>3, <1>4, <1>5
     DEF External, OrderChanges, ParcelsChange, StockChanges, PolicyChanges, Deploy, DayPasses,
         rows, Row

ReceiptInv == TypeInv /\ EffectsAreReceipted

LEMMA ReceiptStep == ReceiptInv /\ [Next]_vars => EffectsAreReceipted'
<1> SUFFICES ASSUME ReceiptInv, [Next]_vars PROVE EffectsAreReceipted'
  OBVIOUS
<1> USE DEF ReceiptInv
<1>1. ASSUME NEW m \in Key PROVE Receipted(m)
  BY DEF EffectsAreReceipted
<1>2. CASE UNCHANGED rows
  BY <1>1, <1>2, ReceiptedStays DEF EffectsAreReceipted, rows, Row
<1>3. ASSUME NEW k \in Key, StartPending(k) PROVE EffectsAreReceipted'
  <2>1. /\ pending'[k].status = "PENDING_APPROVAL"
        /\ \A m \in Key \ {k} : pending'[m] = pending[m]
        /\ UNCHANGED <<receipts, tickets, cases>> /\ ~Row(receipts, k)
    BY <1>3 DEF StartPending, Anchored, TypeInv, TypeOK
  <2>2. QED
    BY <1>1, <2>1, ReceiptedMoves, ReceiptedStays DEF EffectsAreReceipted, Row
<1>4. ASSUME NEW k \in Key, StartExecuted(k) PROVE EffectsAreReceipted'
  <2>1. ~Row(pending, k) /\ UNCHANGED pending /\ build # None /\ WriteExecution(k, FALSE)
    BY <1>4 DEF StartExecuted, Anchored
  <2>2. /\ Row(receipts', k) /\ receipts'[k].pended = FALSE
        /\ Row(IF IsHandoff(k) THEN tickets' ELSE cases', k)
        /\ \A m \in Key \ {k} : /\ receipts'[m] = receipts[m]
                                /\ tickets'[m] = tickets[m] /\ cases'[m] = cases[m]
    BY <2>1, ExecutionWrites
  <2>3. Receipted(k)'
    BY <2>1, <2>2 DEF Receipted, Row, IsHandoff
  <2>4. ASSUME NEW m \in Key \ {k} PROVE Receipted(m)'
    BY <1>1, <2>1, <2>2, ReceiptedStays DEF Row
  <2>5. QED
    BY <2>3, <2>4 DEF EffectsAreReceipted
<1>5. ASSUME NEW w \in Worker, NEW k \in Key, NEW decision \in {"APPROVE", "REJECT"},
             RecordDecision(w, k, decision)
      PROVE  EffectsAreReceipted'
  <2>1. pending[k] \in PendingRows
    BY <1>5 DEF RecordDecision, Row, TypeInv, TypeOK
  <2>2. /\ pending'[k].status \in {"APPROVED", "REJECTED"}
        /\ \A m \in Key \ {k} : pending'[m] = pending[m]
    BY <1>5, <2>1 DEF RecordDecision, TypeInv, TypeOK, PendingRows
  <2>3. UNCHANGED <<receipts, tickets, cases>> /\ ~Row(receipts, k)
    BY <1>1, <1>5 DEF RecordDecision, Receipted
  <2>4. QED
    BY <1>1, <2>2, <2>3, ReceiptedMoves, ReceiptedStays DEF EffectsAreReceipted, Row
<1>6. ASSUME NEW w \in Worker, NEW k \in Key, ExecuteStale(w, k) PROVE EffectsAreReceipted'
  <2> DEFINE reason == StaleReason(pending[k].snapshot, CandidateSnapshot(k))
  <2>1. /\ Row(pending, k) /\ pending[k].status = "APPROVED" /\ ~Row(receipts, k)
        /\ Ends(k, "STALE", reason) /\ UNCHANGED <<receipts, tickets, cases>>
    BY <1>6 DEF ExecuteStale, Resuming, MayExecute
  <2> HIDE DEF reason
  <2>2. /\ pending'[k] = [status |-> "STALE", version |-> 3, decision |-> "APPROVE",
                           outcome |-> reason, snapshot |-> pending[k].snapshot]
        /\ \A m \in Key \ {k} : pending'[m] = pending[m]
    BY <2>1, EndsWrites DEF Ends
  <2>3. pending'[k].status # "EXECUTED"
    BY <2>2
  <2>4. QED
    BY <1>1, <2>1, <2>2, <2>3, ReceiptedMoves, ReceiptedStays DEF EffectsAreReceipted, Row
<1>7. ASSUME NEW w \in Worker, Compensate(w) PROVE EffectsAreReceipted'
  <2> DEFINE k == worker[w].key
  <2> DEFINE code == worker[w].code
  <2>1. k \in Key /\ UNCHANGED <<receipts, tickets, cases>>
    BY <1>7 DEF Compensate, TypeInv, TypeOK, WorkerStates, Idle
  <2>2. CASE UNCHANGED pending
    BY <1>1, <2>1, <2>2, ReceiptedStays DEF EffectsAreReceipted, Row
  <2>3. CASE ~UNCHANGED pending
    <3>1. /\ Row(pending, k) /\ pending[k].status = "APPROVED"
          /\ pending' = [pending EXCEPT ![k].status = "FAILED", ![k].outcome = code,
                                        ![k].version = @ + 1]
      BY <1>7, <2>3 DEF Compensate
    <3>2. ~Row(receipts, k)
      BY <1>1, <2>1, <3>1 DEF Receipted
    <3> HIDE DEF k, code
    <3>3. /\ pending'[k] = [status |-> "FAILED", version |-> 3, decision |-> "APPROVE",
                             outcome |-> code, snapshot |-> pending[k].snapshot]
          /\ \A m \in Key \ {k} : pending'[m] = pending[m]
      BY <2>1, <3>1, EndsWrites
    <3>4. pending'[k].status # "EXECUTED"
      BY <3>3
    <3>5. QED
      BY <1>1, <2>1, <3>2, <3>3, <3>4, ReceiptedMoves, ReceiptedStays DEF EffectsAreReceipted, Row
  <2>4. QED
    BY <2>2, <2>3
<1>8. CASE External
  <2>1. /\ pending' = pending /\ receipts' = receipts
        /\ \A m \in Key : Row(tickets', m) <=> Row(tickets, m)
        /\ \A m \in Key : Row(cases', m) <=> Row(cases, m)
    BY <1>8, ExternalKeepsRows
  <2>2. ASSUME NEW m \in Key PROVE Receipted(m)'
    <3>1. Receipted(m)
      BY <1>1
    <3>2. tickets'[m] # None <=> tickets[m] # None
      BY <2>1 DEF Row
    <3>3. cases'[m] # None <=> cases[m] # None
      BY <2>1 DEF Row
    <3>4. QED
      BY <2>1, <3>1, <3>2, <3>3 DEF Receipted, Row, IsHandoff
  <2>3. QED
    BY <2>2 DEF EffectsAreReceipted
<1>9. ASSUME NEW k \in Key, Start(k) PROVE EffectsAreReceipted'
  BY <1>2, <1>3, <1>4, <1>9 DEF Start, StartReplay, StartDenied, StartFailed, vars
<1>10. ASSUME NEW w \in Worker, NEW k \in Key, Resume(w, k) PROVE EffectsAreReceipted'
  BY <1>2, <1>5, <1>6, <1>10, ReceiptExecuteDecided
     DEF Resume, RepeatDecision, ExecuteReplay, ExecuteLost, ExecuteFailed
<1>11. QED
  BY <1>2, <1>7, <1>8, <1>9, <1>10 DEF Next, Gateway, CompensateFails, Restart, vars

\* Every business row that the gateway wrote has its receipt and every receipt
\* its row, and what was executed after an approval was executed on exactly the
\* rows, policies and release on which the approval had been asked for.
THEOREM EffectsCorrect == Spec => []EffectsAreReceipted
<1>1. Init => ReceiptInv
  BY TypeInit, ReceiptInit DEF ReceiptInv
<1>2. ReceiptInv /\ [Next]_vars => ReceiptInv'
  BY TypeStep, ReceiptStep DEF ReceiptInv
<1>3. ReceiptInv => EffectsAreReceipted
  BY DEF ReceiptInv
<1>4. QED
  BY <1>1, <1>2, <1>3, PTL DEF Spec

-----------------------------------------------------------------------------
(* The life of a request *)

\* Every step of the gateway advances every request or leaves it alone.
LEMMA AdvanceStep ==
    ASSUME ReceiptInv, [Next]_vars, NEW m \in Key
    PROVE  Advances(m)
<1> USE DEF ReceiptInv
<1>1. Receipted(m)
  BY DEF EffectsAreReceipted
<1>2. CASE UNCHANGED <<pending, receipts>>
  BY <1>2 DEF Advances
<1>3. ASSUME NEW k \in Key, StartPending(k) PROVE Advances(m)
  BY <1>3 DEF StartPending, Anchored, Advances, TypeInv, TypeOK
<1>4. ASSUME NEW k \in Key, StartExecuted(k) PROVE Advances(m)
  BY <1>4 DEF StartExecuted, WriteExecution, Anchored, Advances, TypeInv, TypeOK
<1>5. ASSUME NEW w \in Worker, NEW k \in Key, NEW decision \in {"APPROVE", "REJECT"},
             RecordDecision(w, k, decision)
      PROVE  Advances(m)
  <2>1. pending[k] \in PendingRows /\ pending[k].decision = "none"
    BY <1>5 DEF RecordDecision, Row, TypeInv, TypeOK, RowsAreWellFormed, WellFormed
  <2>2. /\ pending'[k].status # "EXECUTED" /\ pending'[k].version = pending[k].version + 1
        /\ pending'[k].snapshot = pending[k].snapshot
        /\ m # k => pending'[m] = pending[m]
    BY <1>5, <2>1 DEF RecordDecision, TypeInv, TypeOK, PendingRows
  <2>3. QED
    BY <1>5, <2>1, <2>2 DEF RecordDecision, Advances, Open
<1>6. ASSUME NEW k \in Key, Row(pending, k), pending[k].status = "APPROVED", ~Row(receipts, k),
             NEW status \in {"EXECUTED", "STALE", "DENIED", "FAILED"}, NEW outcome,
             pending' = [pending EXCEPT ![k].status = status, ![k].outcome = outcome,
                                        ![k].version = @ + 1],
             m # k => receipts'[m] = receipts[m]
      PROVE  Advances(m)
  <2>1. /\ pending'[k] = [status |-> status, version |-> 3, decision |-> "APPROVE",
                          outcome |-> outcome, snapshot |-> pending[k].snapshot]
        /\ pending[k].version = 2 /\ pending[k].decision = "APPROVE"
        /\ \A n \in Key \ {k} : pending'[n] = pending[n]
    <3>1. TypeInv
      OBVIOUS
    <3>2. /\ pending[k] \in PendingRows
          /\ pending[k].version = 2 /\ pending[k].decision = "APPROVE"
      BY <1>6, <3>1 DEF TypeInv, TypeOK, RowsAreWellFormed, WellFormed, Row
    <3>3. QED
      BY <1>6, <3>1, <3>2 DEF TypeInv, TypeOK, PendingRows
  <2>2. /\ pending'[k].version = pending[k].version + 1
        /\ pending'[k].snapshot = pending[k].snapshot
        /\ pending'[k].decision = pending[k].decision
    BY <2>1
  <2>3. CASE m = k
    BY <1>6, <2>2, <2>3 DEF Advances, Open, Row
  <2>4. CASE m # k
    BY <1>6, <2>1, <2>4 DEF Advances
  <2>5. QED
    BY <2>3, <2>4
<1>7. ASSUME NEW w \in Worker, NEW k \in Key, ExecuteStale(w, k) PROVE Advances(m)
  BY <1>6, <1>7 DEF ExecuteStale, Resuming, MayExecute, Ends
<1>8. ASSUME NEW w \in Worker, NEW k \in Key, ExecuteDecided(w, k) PROVE Advances(m)
  <2>1. /\ Row(pending, k) /\ pending[k].status = "APPROVED" /\ ~Row(receipts, k)
    BY <1>8 DEF ExecuteDecided, Resuming, MayExecute
  <2>2. m # k => receipts'[m] = receipts[m]
    BY <1>8 DEF ExecuteDecided, WriteExecution, TypeInv, TypeOK
  <2>3. \E status \in {"EXECUTED", "STALE", "DENIED", "FAILED"} : \E outcome :
          Ends(k, status, outcome)
    <3>1. \/ Ends(k, "EXECUTED", "none")
          \/ Ends(k, "DENIED", GuardDecision(k, {k}).reason)
          \/ Ends(k, "STALE", "guard_decision_changed")
      BY <1>8 DEF ExecuteDecided
    <3>2. QED
      BY <3>1, Zenon
  <2>4. PICK status \in {"EXECUTED", "STALE", "DENIED", "FAILED"} : \E outcome :
          Ends(k, status, outcome)
    BY <2>3
  <2>5. PICK outcome :
          pending' = [pending EXCEPT ![k].status = status, ![k].outcome = outcome,
                                     ![k].version = @ + 1]
    BY <2>4 DEF Ends
  <2>6. QED
    BY <1>6, <2>1, <2>2, <2>5
<1>9. ASSUME NEW w \in Worker, Compensate(w) PROVE Advances(m)
  <2>1. worker[w].key \in Key
    BY <1>9 DEF Compensate, TypeInv, TypeOK, WorkerStates, Idle
  <2>2. ~Row(receipts, worker[w].key) \/ pending[worker[w].key].status # "APPROVED"
        \/ ~Row(pending, worker[w].key)
    BY <2>1 DEF EffectsAreReceipted, Receipted
  <2>3. QED
    BY <1>2, <1>6, <1>9, <2>1, <2>2 DEF Compensate
<1>10. CASE External
  BY <1>2, <1>10, ExternalKeepsRows
<1>11. ASSUME NEW k \in Key, Start(k) PROVE Advances(m)
  BY <1>2, <1>3, <1>4, <1>11 DEF Start, StartReplay, StartDenied, StartFailed, vars, rows
<1>12. ASSUME NEW w \in Worker, NEW k \in Key, Resume(w, k) PROVE Advances(m)
  BY <1>2, <1>5, <1>7, <1>8, <1>12
     DEF Resume, RepeatDecision, ExecuteReplay, ExecuteLost, ExecuteFailed, rows
<1>13. QED
  BY <1>2, <1>9, <1>10, <1>11, <1>12
     DEF Next, Gateway, CompensateFails, Restart, vars, rows

LEMMA ReceiptInductive == ReceiptInv /\ [Next]_vars => ReceiptInv'
  BY TypeStep, ReceiptStep DEF ReceiptInv

LEMMA ReceiptInitially == Init => ReceiptInv
  BY TypeInit, ReceiptInit DEF ReceiptInv

\* A step never undoes a request: rows stay, terminal rows and receipts are
\* frozen, and each move of an open row is one version further.
THEOREM RequestsAdvance == Spec => RequestsOnlyAdvance
<1>1. ReceiptInv /\ [Next]_vars => [\A k \in Key : Advances(k)]_vars
  BY AdvanceStep
<1>2. QED
  BY ReceiptInitially, ReceiptInductive, <1>1, PTL DEF Spec, RequestsOnlyAdvance

-----------------------------------------------------------------------------
(* What callers were told *)

\* The row that a decision leaves.
LEMMA DecisionWrites ==
    ASSUME TypeInv, NEW w \in Worker, NEW k \in Key, NEW decision \in {"APPROVE", "REJECT"},
           RecordDecision(w, k, decision)
    PROVE  /\ Row(pending', k)
           /\ pending'[k].status = IF decision = "APPROVE" THEN "APPROVED" ELSE "REJECTED"
           /\ \A m \in Key \ {k} : pending'[m] = pending[m]
<1> DEFINE row == [status |-> IF decision = "APPROVE" THEN "APPROVED" ELSE "REJECTED",
                   version |-> 2, decision |-> decision,
                   outcome |-> IF decision = "APPROVE" THEN "none" ELSE "approval_rejected",
                   snapshot |-> pending[k].snapshot]
<1>1. pending[k] \in PendingRows /\ pending[k].version = 1
  BY DEF RecordDecision, TypeInv, TypeOK, RowsAreWellFormed, WellFormed, Row
<1>2. row \in PendingRows
  BY <1>1, Codes DEF PendingRows, Statuses, Open, Terminal
<1>3. pending' = [pending EXCEPT ![k] = row]
  BY <1>1 DEF RecordDecision, TypeInv, TypeOK, PendingRows
<1>4. row # None
  BY <1>2, NoneAssumption
<1> HIDE DEF row
<1>5. Row(pending', k) /\ pending'[k] = row /\ \A m \in Key \ {k} : pending'[m] = pending[m]
  BY <1>3, <1>4 DEF Row, TypeInv, TypeOK
<1>6. QED
  BY <1>5 DEF row

\* The row that a terminal write of T2 leaves is a row.
LEMMA RowEndedIn ==
    ASSUME TypeInv, NEW k \in Key, Row(pending, k), pending[k].status = "APPROVED",
           NEW status \in {"EXECUTED", "STALE", "DENIED", "FAILED"},
           NEW outcome \in CodesOf(status),
           pending' = [pending EXCEPT ![k].status = status, ![k].outcome = outcome,
                                      ![k].version = @ + 1]
    PROVE  /\ Row(pending', k) /\ pending'[k].status = status
           /\ \A m \in Key \ {k} : pending'[m] = pending[m]
<1> DEFINE row == [status |-> status, version |-> 3, decision |-> "APPROVE",
                   outcome |-> outcome, snapshot |-> pending[k].snapshot]
<1>1. /\ pending[k] \in PendingRows
      /\ pending[k].version = 2 /\ pending[k].decision = "APPROVE"
  BY DEF TypeInv, TypeOK, RowsAreWellFormed, WellFormed, Row
<1>2. row \in PendingRows
  BY <1>1, Codes DEF PendingRows, Statuses, Open, Terminal
<1>3. pending' = [pending EXCEPT ![k] = row]
  BY <1>1 DEF TypeInv, TypeOK, PendingRows
<1>4. row # None /\ row.status = status
  BY <1>2, NoneAssumption
<1> HIDE DEF row
<1>5. pending'[k] = row /\ \A m \in Key \ {k} : pending'[m] = pending[m]
  BY <1>3 DEF TypeInv, TypeOK
<1>6. QED
  BY <1>4, <1>5 DEF Row

Firm(k, status) ==
    IF status = "EXECUTED" THEN Row(receipts, k)
    ELSE Row(pending, k) /\ pending[k].status = status

\* A final answer that is true stays true: a receipt and a terminal row are frozen.
LEMMA FirmStays ==
    ASSUME ReceiptInv, [Next]_vars, NEW k \in Key, NEW status \in Terminal, Firm(k, status)
    PROVE  Firm(k, status)'
<1>1. Advances(k)
  BY AdvanceStep
<1>2. CASE status = "EXECUTED"
  BY <1>1, <1>2 DEF Firm, Advances, Row
<1>3. CASE status # "EXECUTED"
  <2>1. Row(pending, k) /\ pending[k].status \notin Open
    BY <1>3 DEF Firm, Terminal, Open
  <2>2. pending'[k] = pending[k]
    BY <1>1, <2>1 DEF Advances
  <2>3. QED
    BY <1>3, <2>2 DEF Firm, Row
<1>4. QED
  BY <1>2, <1>3

\* The final status of a row is true of its request.
LEMMA RowIsFirm ==
    ASSUME ReceiptInv, NEW k \in Key, Row(pending, k), pending[k].status \in Terminal
    PROVE  Firm(k, pending[k].status)
<1>1. Receipted(k)
  BY DEF ReceiptInv, EffectsAreReceipted
<1>2. QED
  BY <1>1 DEF Firm, Receipted

\* What a step tells is true after it.
LEMMA ToldIsFirm ==
    ASSUME ReceiptInv, [Next]_vars, NEW m \in Key, NEW status \in told'[m] \ told[m]
    PROVE  status \in Terminal /\ Firm(m, status)'
<1> USE DEF ReceiptInv
<1>1. told \in [Key -> SUBSET Terminal]
  BY DEF TypeInv, TypeOK
<1>2. ASSUME NEW k \in Key, NEW said, Tells(k, said) PROVE k = m /\ status = said
  BY <1>1, <1>2 DEF Tells
<1>3. ASSUME UNCHANGED rows, NEW k \in Key, Row(pending, k), pending[k].status \in Terminal,
             Tells(k, pending[k].status)
      PROVE  status \in Terminal /\ Firm(m, status)'
  <2>1. k = m /\ status = pending[k].status
    BY <1>1, <1>3 DEF Tells
  <2>2. Firm(m, status)
    BY <1>3, <2>1, RowIsFirm
  <2>3. QED
    BY <1>3, <2>1, <2>2 DEF Firm, Row, rows
<1>4. ASSUME NEW k \in Key, StartReplay(k) PROVE status \in Terminal /\ Firm(m, status)'
  <2>1. CASE Row(receipts, k) /\ Tells(k, "EXECUTED")
    BY <1>2, <1>4, <2>1 DEF StartReplay, Firm, Row, rows, Terminal
  <2>2. CASE ~Row(receipts, k)
    BY <1>3, <1>4, <2>2 DEF StartReplay, Anchored
  <2>3. QED
    BY <1>4, <2>1, <2>2 DEF StartReplay
<1>5. ASSUME NEW k \in Key, StartExecuted(k) PROVE status \in Terminal /\ Firm(m, status)'
  <2>1. Tells(k, "EXECUTED") /\ build # None /\ WriteExecution(k, FALSE)
    BY <1>5 DEF StartExecuted
  <2>2. Row(receipts', k)
    BY <2>1, ExecutionWrites
  <2>3. k = m /\ status = "EXECUTED"
    BY <1>2, <2>1
  <2>4. QED
    BY <2>2, <2>3 DEF Firm, Row, Terminal
<1>6. ASSUME NEW w \in Worker, NEW k \in Key, NEW decision \in {"APPROVE", "REJECT"},
             RecordDecision(w, k, decision)
      PROVE  status \in Terminal /\ Firm(m, status)'
  <2>1. decision = "REJECT" /\ Tells(k, "REJECTED")
    BY <1>6 DEF RecordDecision
  <2>2. k = m /\ status = "REJECTED"
    BY <1>2, <2>1
  <2>3. Row(pending', k) /\ pending'[k].status = "REJECTED"
    BY <1>6, <2>1, DecisionWrites
  <2>4. QED
    BY <2>2, <2>3 DEF Firm, Row, Terminal
<1>7. ASSUME NEW w \in Worker, NEW k \in Key,
             RepeatDecision(w, k, "APPROVE") \/ RepeatDecision(w, k, "REJECT") \/ ExecuteReplay(w, k)
      PROVE  status \in Terminal /\ Firm(m, status)'
  <2>1. Row(pending, k) /\ pending[k].status \in Terminal /\ Tells(k, pending[k].status)
    BY <1>7 DEF RepeatDecision, ExecuteReplay, MayExecute
  <2>2. UNCHANGED rows
    BY <1>7 DEF RepeatDecision, ExecuteReplay
  <2>3. QED
    BY <1>3, <2>1, <2>2
<1>8. ASSUME NEW k \in Key, Row(pending, k), pending[k].status = "APPROVED",
             NEW ended \in {"STALE", "DENIED"}, NEW outcome \in CodesOf(ended),
             Ends(k, ended, outcome)
      PROVE  status \in Terminal /\ Firm(m, status)'
  <2>1. k = m /\ status = ended
    BY <1>2, <1>8 DEF Ends
  <2>2. Row(pending', k) /\ pending'[k].status = ended
    BY <1>8, RowEndedIn DEF Ends
  <2>3. QED
    BY <2>1, <2>2 DEF Firm, Row, Terminal
<1>9. ASSUME NEW w \in Worker, NEW k \in Key, ExecuteStale(w, k)
      PROVE  status \in Terminal /\ Firm(m, status)'
  <2> DEFINE reason == StaleReason(pending[k].snapshot, CandidateSnapshot(k))
  <2>1. reason \in CodesOf("STALE")
    BY <1>9, StaleReasonIn, Codes DEF ExecuteStale, StaleReasons
  <2>2. Row(pending, k) /\ pending[k].status = "APPROVED" /\ Ends(k, "STALE", reason)
    BY <1>9 DEF ExecuteStale, Resuming, MayExecute
  <2> HIDE DEF reason
  <2>3. QED
    BY <1>8, <2>1, <2>2
<1>10. ASSUME NEW w \in Worker, NEW k \in Key, ExecuteDecided(w, k)
       PROVE  status \in Terminal /\ Firm(m, status)'
  <2> DEFINE guard == GuardDecision(k, {k})
  <2>1. Row(pending, k) /\ pending[k].status = "APPROVED" /\ build # None
    BY <1>10 DEF ExecuteDecided, Resuming, MayExecute
  <2>2. guard.decision = "DENY" => guard.reason \in CodesOf("DENIED")
    BY Decisions, Codes DEF TypeInv
  <2>3. "guard_decision_changed" \in CodesOf("STALE")
    BY Codes DEF StaleReasons
  <2>4. CASE guard.decision = "REQUIRE_APPROVAL"
    <3>1. WriteExecution(k, TRUE) /\ Tells(k, "EXECUTED")
      BY <1>10, <2>4 DEF ExecuteDecided, Ends
    <3>2. Row(receipts', k)
      BY <2>1, <3>1, ExecutionWrites
    <3>3. k = m /\ status = "EXECUTED"
      BY <1>2, <3>1
    <3>4. QED
      BY <3>2, <3>3 DEF Firm, Row, Terminal
  <2>5. CASE guard.decision = "DENY"
    BY <1>8, <1>10, <2>1, <2>2, <2>5 DEF ExecuteDecided
  <2>6. CASE guard.decision \notin {"REQUIRE_APPROVAL", "DENY"}
    BY <1>8, <1>10, <2>1, <2>3, <2>6 DEF ExecuteDecided
  <2>7. QED
    BY <2>4, <2>5, <2>6
<1>11. told' # told
  OBVIOUS
<1>12. ASSUME NEW k \in Key, Start(k) PROVE status \in Terminal /\ Firm(m, status)'
  BY <1>4, <1>5, <1>11, <1>12 DEF Start, StartDenied, StartPending, StartFailed, vars
<1>13. ASSUME NEW w \in Worker, NEW k \in Key, Resume(w, k)
       PROVE  status \in Terminal /\ Firm(m, status)'
  BY <1>6, <1>7, <1>9, <1>10, <1>11, <1>13 DEF Resume, ExecuteLost, ExecuteFailed
<1>14. ~External
  BY <1>11 DEF External, OrderChanges, ParcelsChange, StockChanges, StaffOpensCase,
     StaffClosesCase, StaffClosesTicket, PolicyChanges, Deploy, DayPasses
<1>15. QED
  BY <1>11, <1>12, <1>13, <1>14
     DEF Next, Gateway, Compensate, CompensateFails, Restart, vars

FirmInv == ReceiptInv /\ AnswersAreFirm

LEMMA FirmStep == FirmInv /\ [Next]_vars => FirmInv'
<1> SUFFICES ASSUME FirmInv, [Next]_vars PROVE FirmInv'
  OBVIOUS
<1>1. ReceiptInv /\ ReceiptInv'
  BY ReceiptInductive DEF FirmInv
<1>2. ASSUME NEW k \in Key, NEW status \in told'[k] PROVE Firm(k, status)'
  <2>1. CASE status \in told[k]
    <3>1. status \in Terminal /\ Firm(k, status)
      BY <1>1, <2>1 DEF FirmInv, AnswersAreFirm, Firm, ReceiptInv, TypeInv, TypeOK
    <3>2. QED
      BY <1>1, <3>1, FirmStays
  <2>2. CASE status \notin told[k]
    BY <1>1, <2>2, ToldIsFirm
  <2>3. QED
    BY <2>1, <2>2
<1>3. AnswersAreFirm'
  BY <1>2 DEF AnswersAreFirm, Firm
<1>4. QED
  BY <1>1, <1>3 DEF FirmInv

\* What a caller was once told to be final stays true of its request: an EXECUTED has its
\* receipt ever after, and a REJECTED, STALE, DENIED or FAILED is what the row says ever
\* after, whatever compensations, restarts and other callers follow.
THEOREM AnswersStayFirm == Spec => []AnswersAreFirm
<1>1. Init => FirmInv
  BY ReceiptInitially DEF Init, FirmInv, AnswersAreFirm
<1>2. FirmInv => AnswersAreFirm
  BY DEF FirmInv
<1>3. QED
  BY <1>1, FirmStep, <1>2, PTL DEF Spec

-----------------------------------------------------------------------------
(* The effects of the transactions on the four tables *)

\* A request without a row begins to wait, on an item that nothing else is open for.
Waits(k) ==
    /\ ~Row(pending, k) /\ ~Row(receipts, k) /\ ~IsHandoff(k)
    /\ Row(pending', k) /\ pending'[k].status = "PENDING_APPROVAL"
    /\ \A m \in Key \ {k} : pending'[m] = pending[m]
    /\ OpenPendings(Target(k)) = {} /\ OpenCases(Target(k)) = {}
    /\ UNCHANGED <<cases, tickets, receipts>>

\* A waiting request is decided.
IsDecided(k) ==
    /\ Row(pending, k) /\ pending[k].status = "PENDING_APPROVAL"
    /\ Row(pending', k) /\ pending'[k].status \in {"APPROVED", "REJECTED"}
    /\ \A m \in Key \ {k} : pending'[m] = pending[m]
    /\ UNCHANGED <<cases, tickets, receipts>>

\* An approved request ends without effect.
Closes(k) ==
    /\ Row(pending, k) /\ pending[k].status = "APPROVED" /\ ~Row(receipts, k)
    /\ Row(pending', k) /\ pending'[k].status \in {"STALE", "DENIED", "FAILED"}
    /\ \A m \in Key \ {k} : pending'[m] = pending[m]
    /\ UNCHANGED <<cases, tickets, receipts>>

\* The business row of a request, which meets no other of its kind.
MeetsNone(k) ==
    IF IsHandoff(k)
    THEN /\ \A t \in Key : Active(tickets, t) =>
              ~(tickets[t].item = Target(k) /\ tickets[t].trigger = Intent[k].trigger)
         /\ tickets' = [tickets EXCEPT ![k] = [item |-> Target(k), status |-> "pending",
                                               trigger |-> Intent[k].trigger, version |-> 1]]
         /\ UNCHANGED cases
    ELSE /\ ~Row(cases, k) /\ OpenCases(Target(k)) = {}
         /\ \A c \in CaseId : Row(cases, c) /\ cases[c].item = Target(k) =>
              ~(cases[c].type = "return" /\ cases[c].status = "completed")
         /\ cases' = [cases EXCEPT ![k] = [item |-> Target(k), type |-> CaseType(k),
                                           status |-> "pending", version |-> 1]]
         /\ UNCHANGED tickets

\* A request takes effect, with an approval or without: the risk policy in force asks
\* for it or does not.
HasEffect(k, pended) ==
    /\ ~Row(receipts, k) /\ Row(receipts', k)
    /\ receipts'[k].pended = pended /\ receipts'[k].snapshot.release = release
    /\ Risk[release][Intent[k].name] = IF pended THEN "REQUIRE_APPROVAL" ELSE "ALLOW"
    /\ \A m \in Key \ {k} : pending'[m] = pending[m] /\ receipts'[m] = receipts[m]
    /\ IF pended
       THEN /\ Row(pending, k) /\ pending[k].status = "APPROVED"
            /\ Row(pending', k) /\ pending'[k].status = "EXECUTED"
       ELSE /\ ~Row(pending, k) /\ pending'[k] = pending[k]
            /\ IsHandoff(k) \/ OpenPendings(Target(k)) = {}
    /\ MeetsNone(k)

StaffMove ==
    \/ \E c \in StaffCase, i \in Item, type \in {"return", "exchange"} : StaffOpensCase(c, i, type)
    \/ \E c \in CaseId, status \in {"completed", "rejected"} : StaffClosesCase(c, status)
    \/ \E k \in Key : StaffClosesTicket(k)

\* What the Guard knows of the tables when it does not refuse.
LEMMA NotRefused ==
    ASSUME TypeOK, NEW k \in Key, NEW excluded, GuardDecision(k, excluded).decision # "DENY"
    PROVE  /\ Risk[release][Intent[k].name] = GuardDecision(k, excluded).decision
           /\ ~IsHandoff(k) =>
                /\ OpenCases(Target(k)) = {}
                /\ OpenPendings(Target(k)) \ excluded = {}
                /\ \A c \in CaseId : Row(cases, c) /\ cases[c].item = Target(k) =>
                     ~(cases[c].type = "return" /\ cases[c].status = "completed")
           /\ IsHandoff(k) =>
                \A t \in Key : Active(tickets, t) =>
                  ~(tickets[t].item = Target(k) /\ tickets[t].trigger = Intent[k].trigger)
<1> DEFINE s == CapturedState(k, excluded)
<1>1. /\ Risk[release][Intent[k].name] = GuardDecision(k, excluded).decision
      /\ Denial(Intent[k], s, Rulebook[build], day) = "none"
  BY Decisions
<1>2. /\ s.cases = {cases[c] : c \in CasesOf(Target(k))}
      /\ s.tickets = {tickets[t] : t \in TicketsOf(k)}
      /\ s.otherPendings = OpenPendings(Target(k)) \ excluded
  BY DEF CapturedState
<1> HIDE DEF s
<1>3. CASE ~IsHandoff(k)
  <2>1. ~ActiveCase(s) /\ ~ReturnedBefore(s) /\ s.otherPendings = {}
    BY <1>1, <1>3, CasePasses DEF IsHandoff
  <2>2. ASSUME NEW c \in CaseId, Row(cases, c), cases[c].item = Target(k)
        PROVE  /\ cases[c].status \notin ActiveStatuses
               /\ ~(cases[c].type = "return" /\ cases[c].status = "completed")
    <3>1. cases[c] \in s.cases
      BY <1>2, <2>2 DEF CasesOf
    <3>2. QED
      BY <2>1, <3>1 DEF ActiveCase, ReturnedBefore
  <2>3. QED
    BY <1>1, <1>2, <1>3, <2>1, <2>2 DEF OpenCases, Active
<1>4. CASE IsHandoff(k)
  <2>1. ~OpenTicket(s)
    BY <1>1, <1>4, HandoffPasses DEF IsHandoff
  <2>2. ASSUME NEW t \in Key, Row(tickets, t), tickets[t].item = Target(k),
               tickets[t].trigger = Intent[k].trigger
        PROVE  tickets[t].status \notin ActiveStatuses
    <3>1. tickets[t] \in s.tickets
      BY <1>2, <2>2 DEF TicketsOf
    <3>2. QED
      BY <2>1, <3>1 DEF OpenTicket
  <2>3. QED
    BY <1>1, <1>4, <2>2 DEF Active
<1>5. QED
  BY <1>3, <1>4

\* An execution that the Guard lets pass, in the terms of the tables.
LEMMA ExecutionHasEffect ==
    ASSUME ReceiptInv, build # None, NEW k \in Key, NEW pended \in BOOLEAN, NEW excluded,
           ~Row(receipts, k), WriteExecution(k, pended),
           GuardDecision(k, excluded).decision = IF pended THEN "REQUIRE_APPROVAL" ELSE "ALLOW"
    PROVE  /\ Row(receipts', k) /\ receipts'[k].pended = pended
           /\ receipts'[k].snapshot.release = release
           /\ Risk[release][Intent[k].name] = IF pended THEN "REQUIRE_APPROVAL" ELSE "ALLOW"
           /\ \A m \in Key \ {k} : receipts'[m] = receipts[m]
           /\ ~IsHandoff(k) => OpenPendings(Target(k)) \ excluded = {}
           /\ MeetsNone(k)
<1> USE DEF ReceiptInv, TypeInv
<1>1. /\ Row(receipts', k) /\ receipts'[k].pended = pended
      /\ receipts'[k].snapshot = CandidateSnapshot(k)
      /\ \A m \in Key \ {k} : receipts'[m] = receipts[m]
  BY ExecutionWrites
<1>2. receipts'[k].snapshot.release = release
  BY <1>1 DEF CandidateSnapshot
<1>3. GuardDecision(k, excluded).decision # "DENY"
  OBVIOUS
<1>4. /\ Risk[release][Intent[k].name] = GuardDecision(k, excluded).decision
      /\ ~IsHandoff(k) => OpenPendings(Target(k)) \ excluded = {}
  BY <1>3, NotRefused
<1>5. MeetsNone(k)
  <2>1. Receipted(k)
    BY DEF EffectsAreReceipted
  <2>2. ~IsHandoff(k) => ~Row(cases, k)
    BY <2>1 DEF Receipted
  <2>3. QED
    BY <1>3, <2>2, NotRefused DEF MeetsNone, WriteExecution
<1>6. QED
  BY <1>1, <1>2, <1>4, <1>5

\* A terminal write without effect closes its request.
LEMMA EndsClose ==
    ASSUME TypeInv, NEW k \in Key, Row(pending, k), pending[k].status = "APPROVED",
           ~Row(receipts, k), UNCHANGED <<cases, tickets, receipts>>,
           NEW status \in {"STALE", "DENIED", "FAILED"}, NEW outcome \in CodesOf(status),
           pending' = [pending EXCEPT ![k].status = status, ![k].outcome = outcome,
                                      ![k].version = @ + 1]
    PROVE  Closes(k)
<1>1. /\ Row(pending', k) /\ pending'[k].status = status
      /\ \A m \in Key \ {k} : pending'[m] = pending[m]
  BY RowEndedIn
<1>2. QED
  BY <1>1 DEF Closes

LEMMA StartSteps ==
    ASSUME ReceiptInv, NEW k \in Key, Start(k)
    PROVE  UNCHANGED rows \/ Waits(k) \/ HasEffect(k, FALSE)
<1> USE DEF ReceiptInv, TypeInv
<1>1. CASE StartPending(k)
  <2> DEFINE row == [status |-> "PENDING_APPROVAL", version |-> 1, decision |-> "none",
                     outcome |-> "none", snapshot |-> CandidateSnapshot(k)]
  <2>1. row \in PendingRows
    BY <1>1, SnapshotType, Codes DEF StartPending, PendingRows, Statuses, Open
  <2>2. row # None /\ row.status = "PENDING_APPROVAL"
    BY <2>1, NoneAssumption
  <2>3. pending' = [pending EXCEPT ![k] = row]
    BY <1>1 DEF StartPending
  <2> HIDE DEF row
  <2>4. /\ Row(pending', k) /\ pending'[k].status = "PENDING_APPROVAL"
        /\ \A m \in Key \ {k} : pending'[m] = pending[m]
    BY <2>2, <2>3 DEF Row, TypeOK
  <2>5. /\ Risk[release][Intent[k].name] = "REQUIRE_APPROVAL"
        /\ ~IsHandoff(k) => OpenCases(Target(k)) = {} /\ OpenPendings(Target(k)) \ {} = {}
    BY <1>1, NotRefused DEF StartPending
  <2>6. ~IsHandoff(k)
    BY <2>5, GatewayAssumption DEF IsHandoff, TypeOK, Release
  <2>7. OpenPendings(Target(k)) = {} /\ OpenCases(Target(k)) = {}
    BY <2>5, <2>6
  <2>8. QED
    BY <1>1, <2>4, <2>6, <2>7 DEF StartPending, Anchored, Waits
<1>2. CASE StartExecuted(k)
  <2>1. /\ ~Row(receipts, k) /\ ~Row(pending, k) /\ build # None /\ WriteExecution(k, FALSE)
        /\ GuardDecision(k, {}).decision = "ALLOW" /\ UNCHANGED pending
    BY <1>2 DEF StartExecuted, Anchored
  <2>2. /\ Row(receipts', k) /\ receipts'[k].pended = FALSE
        /\ receipts'[k].snapshot.release = release
        /\ Risk[release][Intent[k].name] = "ALLOW"
        /\ \A m \in Key \ {k} : receipts'[m] = receipts[m]
        /\ ~IsHandoff(k) => OpenPendings(Target(k)) \ {} = {}
        /\ MeetsNone(k)
    BY <2>1, ExecutionHasEffect
  <2>3. QED
    BY <2>1, <2>2 DEF HasEffect
<1>3. QED
  BY <1>1, <1>2 DEF Start, StartReplay, StartDenied, StartFailed, vars, rows

LEMMA ExecuteSteps ==
    ASSUME ReceiptInv, NEW w \in Worker, NEW k \in Key, ExecuteDecided(w, k)
    PROVE  Closes(k) \/ HasEffect(k, TRUE)
<1> USE DEF ReceiptInv, TypeInv
<1> DEFINE guard == GuardDecision(k, {k})
<1>1. Row(pending, k) /\ pending[k].status = "APPROVED" /\ ~Row(receipts, k) /\ build # None
  BY DEF ExecuteDecided, Resuming, MayExecute
<1>2. guard.decision = "DENY" => guard.reason \in CodesOf("DENIED")
  BY Decisions, Codes
<1>3. "guard_decision_changed" \in CodesOf("STALE") /\ "none" \in CodesOf("EXECUTED")
  BY Codes DEF StaleReasons
<1>4. CASE guard.decision = "REQUIRE_APPROVAL"
  <2>1. WriteExecution(k, TRUE) /\ Ends(k, "EXECUTED", "none")
    BY <1>4 DEF ExecuteDecided
  <2>2. /\ Row(receipts', k) /\ receipts'[k].pended = TRUE
        /\ receipts'[k].snapshot.release = release
        /\ Risk[release][Intent[k].name] = "REQUIRE_APPROVAL"
        /\ \A m \in Key \ {k} : receipts'[m] = receipts[m]
        /\ MeetsNone(k)
    BY <1>1, <1>4, <2>1, ExecutionHasEffect
  <2>3. /\ Row(pending', k) /\ pending'[k].status = "EXECUTED"
        /\ \A m \in Key \ {k} : pending'[m] = pending[m]
    BY <1>1, <1>3, <2>1, RowEndedIn DEF Ends
  <2>4. QED
    BY <1>1, <2>2, <2>3 DEF HasEffect
<1>5. CASE guard.decision = "DENY"
  <2>1. Ends(k, "DENIED", guard.reason) /\ UNCHANGED <<cases, tickets, receipts>>
    BY <1>5 DEF ExecuteDecided
  <2>2. PICK reason \in CodesOf("DENIED") : Ends(k, "DENIED", reason)
    BY <1>2, <1>5, <2>1
  <2>3. Closes(k)
    BY <1>1, <2>1, <2>2, EndsClose DEF Ends
  <2>4. QED
    BY <2>3
<1>6. CASE guard.decision \notin {"REQUIRE_APPROVAL", "DENY"}
  <2>1. Ends(k, "STALE", "guard_decision_changed") /\ UNCHANGED <<cases, tickets, receipts>>
    BY <1>6 DEF ExecuteDecided
  <2>2. Closes(k)
    BY <1>1, <1>3, <2>1, EndsClose DEF Ends
  <2>3. QED
    BY <2>2
<1>7. QED
  BY <1>4, <1>5, <1>6

\* Whatever the failures and the restarts, a step makes a request wait, decides it,
\* closes it or gives it its effect, or it is the staff's, or it leaves the tables alone.
LEMMA Steps ==
    ASSUME ReceiptInv, [Next]_vars
    PROVE  \/ UNCHANGED rows
           \/ \E k \in Key : Waits(k) \/ IsDecided(k) \/ Closes(k)
           \/ \E k \in Key, pended \in BOOLEAN : HasEffect(k, pended)
           \/ StaffMove /\ UNCHANGED <<pending, receipts>>
<1> USE DEF ReceiptInv
<1>1. ASSUME NEW k \in Key, Start(k)
      PROVE  UNCHANGED rows \/ Waits(k) \/ HasEffect(k, FALSE)
  BY <1>1, StartSteps
<1>2. ASSUME NEW w \in Worker, NEW k \in Key, NEW decision \in {"APPROVE", "REJECT"},
             RecordDecision(w, k, decision)
      PROVE  IsDecided(k)
  <2>1. /\ Row(pending', k)
        /\ pending'[k].status = IF decision = "APPROVE" THEN "APPROVED" ELSE "REJECTED"
        /\ \A m \in Key \ {k} : pending'[m] = pending[m]
    BY <1>2, DecisionWrites
  <2>2. QED
    BY <1>2, <2>1 DEF RecordDecision, IsDecided
<1>3. ASSUME NEW w \in Worker, NEW k \in Key, ExecuteStale(w, k)
      PROVE  Closes(k)
  <2> DEFINE reason == StaleReason(pending[k].snapshot, CandidateSnapshot(k))
  <2>1. reason \in CodesOf("STALE")
    BY <1>3, StaleReasonIn, Codes DEF ExecuteStale, StaleReasons
  <2>2. /\ Row(pending, k) /\ pending[k].status = "APPROVED" /\ ~Row(receipts, k)
        /\ Ends(k, "STALE", reason) /\ UNCHANGED <<cases, tickets, receipts>>
    BY <1>3 DEF ExecuteStale, Resuming, MayExecute
  <2> HIDE DEF reason
  <2>3. PICK outcome \in CodesOf("STALE") : Ends(k, "STALE", outcome)
    BY <2>1, <2>2
  <2>4. QED
    BY <2>2, <2>3, EndsClose DEF Ends
<1>4. ASSUME NEW w \in Worker, Compensate(w)
      PROVE  UNCHANGED rows \/ \E k \in Key : Closes(k)
  <2>1. worker[w] \in [at: {"compensate"}, key: Key, version: 1..3, code: CodesOf("FAILED")]
    BY <1>4 DEF Compensate, TypeInv, TypeOK, WorkerStates, Idle
  <2>2. PICK k \in Key : k = worker[w].key
    BY <2>1
  <2>3. PICK code \in CodesOf("FAILED") : code = worker[w].code
    BY <2>1
  <2>4. UNCHANGED <<cases, tickets, receipts>>
    BY <1>4 DEF Compensate
  <2>5. CASE UNCHANGED pending
    BY <2>4, <2>5 DEF rows
  <2>6. CASE ~UNCHANGED pending
    <3>1. /\ Row(pending, k) /\ pending[k].status = "APPROVED"
          /\ pending' = [pending EXCEPT ![k].status = "FAILED", ![k].outcome = code,
                                        ![k].version = @ + 1]
      BY <1>4, <2>2, <2>3, <2>6 DEF Compensate
    <3>2. Receipted(k)
      BY DEF EffectsAreReceipted
    <3>3. ~Row(receipts, k)
      BY <3>1, <3>2 DEF Receipted
    <3>4. Closes(k)
      BY <2>4, <3>1, <3>3, EndsClose
    <3>5. QED
      BY <3>4
  <2>7. QED
    BY <2>5, <2>6
<1>5. ASSUME NEW w \in Worker, NEW k \in Key, Resume(w, k)
      PROVE  UNCHANGED rows \/ IsDecided(k) \/ Closes(k) \/ HasEffect(k, TRUE)
  BY <1>2, <1>3, <1>5, ExecuteSteps
     DEF Resume, RepeatDecision, ExecuteReplay, ExecuteLost, ExecuteFailed
<1>6. CASE External
  BY <1>6 DEF External, OrderChanges, ParcelsChange, StockChanges, StaffOpensCase,
     StaffClosesCase, StaffClosesTicket, PolicyChanges, Deploy, DayPasses, StaffMove, rows
<1>7. QED
  BY <1>1, <1>4, <1>5, <1>6 DEF Next, Gateway, CompensateFails, Restart, vars

-----------------------------------------------------------------------------
(* The unique indexes, the approvals and the returned items *)

\* A case is opened on an item without an open one.
OpensCase(c, i) ==
    /\ ~Row(cases, c) /\ OpenCases(i) = {}
    /\ Row(cases', c) /\ cases'[c].status = "pending" /\ cases'[c].item = i
    /\ \A d \in CaseId \ {c} : cases'[d] = cases[d]

\* An open case is closed for good.
ShutsCase(c) ==
    /\ Active(cases, c)
    /\ Row(cases', c) /\ cases'[c].status \in {"completed", "rejected"}
    /\ cases'[c].item = cases[c].item /\ cases'[c].type = cases[c].type
    /\ \A d \in CaseId \ {c} : cases'[d] = cases[d]

LEMMA EffectOpensCase ==
    ASSUME TypeInv, NEW k \in Key, NEW pended \in BOOLEAN, HasEffect(k, pended), ~IsHandoff(k)
    PROVE  OpensCase(k, Target(k))
<1> DEFINE row == [item |-> Target(k), type |-> CaseType(k), status |-> "pending", version |-> 1]
<1>1. Target(k) \in Item /\ k \in CaseId
  BY GatewayAssumption DEF Target, CaseId
<1>2. row # None /\ row.status = "pending" /\ row.item = Target(k)
  BY <1>1, NoneAssumption DEF CaseRows, CaseType
<1>3. cases' = [cases EXCEPT ![k] = row] /\ ~Row(cases, k) /\ OpenCases(Target(k)) = {}
  BY DEF HasEffect, MeetsNone
<1> HIDE DEF row
<1>4. cases'[k] = row /\ \A d \in CaseId \ {k} : cases'[d] = cases[d]
  BY <1>1, <1>3 DEF TypeInv, TypeOK
<1>5. QED
  BY <1>2, <1>3, <1>4 DEF OpensCase, Row

LEMMA StaffOpens ==
    ASSUME TypeInv, NEW c \in StaffCase, NEW i \in Item, NEW type \in {"return", "exchange"},
           StaffOpensCase(c, i, type)
    PROVE  OpensCase(c, i)
<1> DEFINE row == [item |-> i, type |-> type, status |-> "pending", version |-> 1]
<1>1. c \in CaseId
  BY DEF CaseId
<1>2. row # None /\ row.status = "pending" /\ row.item = i
  BY NoneAssumption DEF CaseRows
<1>3. cases' = [cases EXCEPT ![c] = row] /\ ~Row(cases, c)
  BY DEF StaffOpensCase
<1>4. OpenCases(i) = {}
  BY DEF StaffOpensCase, OpenCases, CasesOf, Active
<1> HIDE DEF row
<1>5. cases'[c] = row /\ \A d \in CaseId \ {c} : cases'[d] = cases[d]
  BY <1>1, <1>3 DEF TypeInv, TypeOK
<1>6. QED
  BY <1>2, <1>3, <1>4, <1>5 DEF OpensCase, Row

LEMMA StaffCloses ==
    ASSUME TypeInv, NEW c \in CaseId, NEW status \in {"completed", "rejected"},
           StaffClosesCase(c, status)
    PROVE  ShutsCase(c)
<1> DEFINE row == [cases[c] EXCEPT !.status = status, !.version = 2]
<1>1. cases[c] \in CaseRows /\ cases[c].version = 1 /\ Active(cases, c)
  BY DEF StaffClosesCase, Row, CaseRows, ActiveStatuses, TypeInv, TypeOK, Active
<1>2. /\ row \in CaseRows /\ row.status = status
      /\ row.item = cases[c].item /\ row.type = cases[c].type
  BY <1>1 DEF CaseRows
<1>3. cases' = [cases EXCEPT ![c] = row]
  BY <1>1 DEF StaffClosesCase, CaseRows, TypeInv, TypeOK
<1>4. row # None
  BY <1>2, NoneAssumption
<1> HIDE DEF row
<1>5. cases'[c] = row /\ \A d \in CaseId \ {c} : cases'[d] = cases[d]
  BY <1>3 DEF TypeInv, TypeOK
<1>6. QED
  BY <1>1, <1>2, <1>4, <1>5 DEF ShutsCase, Row

\* What a step does to the cases.
LEMMA CaseSteps ==
    ASSUME ReceiptInv, [Next]_vars
    PROVE  \/ UNCHANGED cases
           \/ \E k \in Key, pended \in BOOLEAN : HasEffect(k, pended) /\ OpensCase(k, Target(k))
           \/ \E c \in StaffCase, i \in Item : OpensCase(c, i)
           \/ \E c \in CaseId : ShutsCase(c)
<1> USE DEF ReceiptInv
<1>1. ASSUME NEW k \in Key, NEW pended \in BOOLEAN, HasEffect(k, pended)
      PROVE  UNCHANGED cases \/ OpensCase(k, Target(k))
  <2>1. IsHandoff(k) => UNCHANGED cases
    BY <1>1 DEF HasEffect, MeetsNone
  <2>2. QED
    BY <1>1, <2>1, EffectOpensCase
<1>2. CASE StaffMove
  BY <1>2, StaffOpens, StaffCloses DEF StaffMove, StaffClosesTicket
<1>3. QED
  BY <1>1, <1>2, Steps DEF rows, Waits, IsDecided, Closes

OneActiveCase ==
    \A c, d \in CaseId :
      Active(cases, c) /\ Active(cases, d) /\ cases[c].item = cases[d].item => c = d

\* At most one undecided or approved request for an item.
OneOpenRequest ==
    \A k, m \in Key :
      /\ Row(pending, k) /\ pending[k].status \in Open
      /\ Row(pending, m) /\ pending[m].status \in Open
      /\ Target(k) = Target(m)
      => k = m

OneOpenTicket ==
    \A k, m \in Key :
      /\ Active(tickets, k) /\ Active(tickets, m)
      /\ tickets[k].item = tickets[m].item /\ tickets[k].trigger = tickets[m].trigger
      => k = m

\* No receipt without the approval that the risk policy asked for, or with one it did not.
ApprovedEffect(k) ==
    Row(receipts, k) =>
      (receipts[k].pended <=>
         Risk[receipts[k].snapshot.release][Intent[k].name] = "REQUIRE_APPROVAL")

LEMMA CasesStayAlone ==
    ASSUME ReceiptInv, [Next]_vars, OneActiveCase
    PROVE  OneActiveCase'
<1>1. ASSUME NEW c \in CaseId, NEW i, OpensCase(c, i) PROVE OneActiveCase'
  <2>1. \A d \in CaseId \ {c} : ~(Active(cases, d) /\ cases[d].item = i)
    BY <1>1 DEF OpensCase, OpenCases
  <2>2. \A d \in CaseId \ {c} : ~(Active(cases', d) /\ cases'[d].item = i)
    BY <1>1, <2>1 DEF OpensCase, Active, Row
  <2>3. QED
    BY <1>1, <2>2 DEF OneActiveCase, OpensCase, Active, Row
<1>2. ASSUME NEW c \in CaseId, ShutsCase(c) PROVE OneActiveCase'
  BY <1>2 DEF OneActiveCase, ShutsCase, Active, Row, ActiveStatuses
<1>3. CASE UNCHANGED cases
  BY <1>3 DEF OneActiveCase, Active, Row
<1>4. QED
  BY <1>1, <1>2, <1>3, CaseSteps DEF CaseId

LEMMA RequestsStayAlone ==
    ASSUME ReceiptInv, [Next]_vars, OneOpenRequest
    PROVE  OneOpenRequest'
<1>1. ASSUME NEW k \in Key, Waits(k) PROVE OneOpenRequest'
  <2>1. \A m \in Key : Row(pending, m) /\ pending[m].status \in Open => Target(m) # Target(k)
    BY <1>1 DEF Waits, OpenPendings
  <2>2. QED
    BY <1>1, <2>1 DEF Waits, OneOpenRequest, Row
<1>2. ASSUME \A m \in Key : Row(pending', m) /\ pending'[m].status \in Open
                            => Row(pending, m) /\ pending[m].status \in Open
      PROVE  OneOpenRequest'
  BY <1>2 DEF OneOpenRequest, Row
<1>3. ASSUME NEW k \in Key, IsDecided(k) PROVE OneOpenRequest'
  BY <1>2, <1>3 DEF IsDecided, Open, Row
<1>4. ASSUME NEW k \in Key, Closes(k) PROVE OneOpenRequest'
  BY <1>2, <1>4 DEF Closes, Open, Row
<1>5. ASSUME NEW k \in Key, NEW pended \in BOOLEAN, HasEffect(k, pended) PROVE OneOpenRequest'
  BY <1>2, <1>5 DEF HasEffect, Open, Row
<1>6. CASE UNCHANGED pending
  BY <1>2, <1>6 DEF Row
<1>7. QED
  BY <1>1, <1>3, <1>4, <1>5, <1>6, Steps DEF rows

LEMMA TicketsStayAlone ==
    ASSUME ReceiptInv, [Next]_vars, OneOpenTicket
    PROVE  OneOpenTicket'
<1> USE DEF ReceiptInv
<1>1. ASSUME NEW k \in Key, NEW pended \in BOOLEAN, HasEffect(k, pended), IsHandoff(k)
      PROVE  OneOpenTicket'
  <2> DEFINE row == [item |-> Target(k), status |-> "pending", trigger |-> Intent[k].trigger,
                     version |-> 1]
  <2>1. tickets' = [tickets EXCEPT ![k] = row]
    BY <1>1 DEF HasEffect, MeetsNone
  <2>2. row.item = Target(k) /\ row.trigger = Intent[k].trigger
    OBVIOUS
  <2> HIDE DEF row
  <2>3. tickets'[k] = row /\ \A m \in Key \ {k} : tickets'[m] = tickets[m]
    BY <2>1 DEF TypeInv, TypeOK
  <2>4. \A m \in Key \ {k} : Active(tickets', m) =>
          ~(tickets'[m].item = Target(k) /\ tickets'[m].trigger = Intent[k].trigger)
    BY <1>1, <2>3 DEF HasEffect, MeetsNone, Active, Row
  <2>5. QED
    BY <2>2, <2>3, <2>4 DEF OneOpenTicket, Active, Row
<1>2. ASSUME NEW k \in Key, StaffClosesTicket(k) PROVE OneOpenTicket'
  <2>1. tickets[k] \in TicketRows /\ tickets[k].version = 1
    BY <1>2 DEF StaffClosesTicket, Row, TicketRows, ActiveStatuses, TypeInv, TypeOK
  <2>2. tickets' = [tickets EXCEPT ![k] = [tickets[k] EXCEPT !.status = "closed", !.version = 2]]
    BY <1>2, <2>1 DEF StaffClosesTicket, TicketRows, TypeInv, TypeOK
  <2>3. tickets'[k].status = "closed" /\ \A m \in Key \ {k} : tickets'[m] = tickets[m]
    BY <2>1, <2>2 DEF TypeInv, TypeOK, TicketRows
  <2>4. QED
    BY <2>3 DEF OneOpenTicket, Active, Row, ActiveStatuses
<1>3. CASE UNCHANGED tickets
  BY <1>3 DEF OneOpenTicket, Active, Row
<1>4. CASE StaffMove
  BY <1>2, <1>3, <1>4 DEF StaffMove, StaffOpensCase, StaffClosesCase
<1>5. QED
  BY <1>1, <1>3, <1>4, Steps DEF rows, Waits, IsDecided, Closes, HasEffect, MeetsNone

LEMMA EffectsStayApproved ==
    ASSUME ReceiptInv, [Next]_vars, NoEffectWithoutApproval
    PROVE  NoEffectWithoutApproval'
<1>1. ASSUME NEW m \in Key PROVE ApprovedEffect(m)
  BY DEF NoEffectWithoutApproval, ApprovedEffect
<1>2. ASSUME NEW m \in Key, receipts'[m] = receipts[m] PROVE ApprovedEffect(m)'
  BY <1>1, <1>2 DEF ApprovedEffect, Row
<1>3. ASSUME NEW k \in Key, NEW pended \in BOOLEAN, HasEffect(k, pended)
      PROVE  \A m \in Key : ApprovedEffect(m)'
  <2>1. ApprovedEffect(k)'
    <3>1. /\ receipts'[k].pended = pended /\ receipts'[k].snapshot.release = release
          /\ Risk[release][Intent[k].name] = IF pended THEN "REQUIRE_APPROVAL" ELSE "ALLOW"
      BY <1>3 DEF HasEffect
    <3>2. CASE pended
      BY <3>1, <3>2 DEF ApprovedEffect
    <3>3. CASE ~pended
      <4>1. Risk[receipts'[k].snapshot.release][Intent[k].name] # "REQUIRE_APPROVAL"
        BY <3>1, <3>3
      <4>2. receipts'[k].pended = FALSE
        BY <3>1, <3>3
      <4>3. QED
        BY <4>1, <4>2, Zenon DEF ApprovedEffect
    <3>4. QED
      BY <3>2, <3>3
  <2>2. ASSUME NEW m \in Key \ {k} PROVE ApprovedEffect(m)'
    BY <1>2, <1>3 DEF HasEffect
  <2>3. QED
    BY <2>1, <2>2
<1>4. \A m \in Key : ApprovedEffect(m)'
  BY <1>2, <1>3, Steps DEF rows, Waits, IsDecided, Closes
<1>5. QED
  BY <1>4 DEF NoEffectWithoutApproval, ApprovedEffect

LEMMA ReturnedStaysClosed ==
    ASSUME ReceiptInv, [Next]_vars, OneActiveCase, NoCaseAfterReturn
    PROVE  NoCaseAfterReturn'
<1> DEFINE Returned(c, i) == /\ Row(cases, c) /\ cases[c].item = i
                             /\ cases[c].type = "return" /\ cases[c].status = "completed"
<1>1. \A k \in Key, c \in CaseId : Active(cases, k) => ~Returned(c, cases[k].item)
  BY DEF NoCaseAfterReturn
<1>2. \A k \in Key : k \in CaseId
  BY DEF CaseId
<1>3. ASSUME NEW k \in Key, NEW pended \in BOOLEAN, HasEffect(k, pended), OpensCase(k, Target(k))
      PROVE  NoCaseAfterReturn'
  <2>1. \A c \in CaseId \ {k} : ~Returned(c, Target(k))
    <3>1. CASE IsHandoff(k)
      <4>1. UNCHANGED cases /\ ~Row(cases, k) /\ Row(cases', k)
        BY <1>3, <3>1 DEF HasEffect, MeetsNone, OpensCase
      <4>2. QED
        BY <4>1 DEF Row
    <3>2. CASE ~IsHandoff(k)
      BY <1>3, <3>2 DEF HasEffect, MeetsNone
    <3>3. QED
      BY <3>1, <3>2
  <2>2. QED
    BY <1>1, <1>2, <1>3, <2>1 DEF NoCaseAfterReturn, OpensCase, Active, Row
<1>4. ASSUME NEW s \in StaffCase, NEW i \in Item, OpensCase(s, i) PROVE NoCaseAfterReturn'
  <2>1. \A k \in Key : k # s
    BY GatewayAssumption
  <2>2. QED
    BY <1>1, <1>2, <1>4, <2>1 DEF NoCaseAfterReturn, OpensCase, Active, Row, CaseId
<1>5. ASSUME NEW s \in CaseId, ShutsCase(s) PROVE NoCaseAfterReturn'
  <2>1. \A k \in Key : k # s /\ Active(cases, k) => cases[k].item # cases[s].item
    BY <1>2, <1>5 DEF OneActiveCase, ShutsCase
  <2>2. ~Active(cases', s)
    BY <1>5 DEF ShutsCase, Active, ActiveStatuses
  <2>3. QED
    BY <1>1, <1>2, <1>5, <2>1, <2>2 DEF NoCaseAfterReturn, ShutsCase, Active, Row
<1>6. CASE UNCHANGED cases
  BY <1>6 DEF NoCaseAfterReturn, Active, Row
<1>7. QED
  BY <1>3, <1>4, <1>5, <1>6, CaseSteps

LEMMA IndexesSplit == GuardKeepsTheIndexes <=> OneActiveCase /\ OneOpenRequest /\ OneOpenTicket
<1>1. \A k \in Key : Target(k) \in Item
  BY GatewayAssumption DEF Target
<1>2. QED
  BY <1>1 DEF GuardKeepsTheIndexes, OneActiveCase, OneOpenRequest, OneOpenTicket

GuardedInv ==
    /\ ReceiptInv
    /\ OneActiveCase /\ OneOpenRequest /\ OneOpenTicket
    /\ NoEffectWithoutApproval
    /\ NoCaseAfterReturn

LEMMA GuardedInitially == Init => GuardedInv
  BY ReceiptInitially
     DEF Init, GuardedInv, OneActiveCase, OneOpenRequest, OneOpenTicket, NoEffectWithoutApproval,
         NoCaseAfterReturn, Active, Row, CaseId

LEMMA GuardedInductive == GuardedInv /\ [Next]_vars => GuardedInv'
  BY ReceiptInductive, CasesStayAlone, RequestsStayAlone, TicketsStayAlone, EffectsStayApproved,
     ReturnedStaysClosed DEF GuardedInv

\* No insert or update of the gateway is ever refused by one of the three partial unique
\* indexes: the checks of the Guard keep them, in whatever order conversations, approvals,
\* staff, publications and deployments follow one another.
THEOREM IndexesHold == Spec => []GuardKeepsTheIndexes
<1>1. GuardedInv => GuardKeepsTheIndexes
  BY IndexesSplit DEF GuardedInv
<1>2. QED
  BY GuardedInitially, GuardedInductive, <1>1, PTL DEF Spec

\* Across redeployments of the risk policy, an effect has an approval exactly when the
\* policy in force at its execution asks for one; and a case that the gateway wrote is
\* never open on an item whose return is completed.
THEOREM EffectsAllowed == Spec => []EffectsAreAllowed
<1>1. GuardedInv => EffectsAreAllowed
  BY DEF GuardedInv, EffectsAreAllowed
<1>2. QED
  BY GuardedInitially, GuardedInductive, <1>1, PTL DEF Spec

-----------------------------------------------------------------------------
(* The gateway implements the promised life of a request *)

phases == [k \in Key |-> Phase(k)]
opened == [i \in Item |-> OpenCases(i)]

\* A step that changes one request moves the phase of that request.
LEMMA PhaseMoves ==
    ASSUME NEW k \in Key,
           \A m \in Key \ {k} : pending'[m] = pending[m] /\ receipts'[m] = receipts[m]
    PROVE  Lifecycle!Moves(k, Phase(k), Phase(k)')
<1>1. \A m \in Key \ {k} : Phase(m)' = Phase(m)
  BY DEF Phase, Row
<1>2. QED
  BY <1>1 DEF Lifecycle!Moves

LEMMA PhasesKept ==
    ASSUME UNCHANGED <<pending, receipts>>
    PROVE  phases' = phases
<1>1. \A m \in Key : Phase(m)' = Phase(m)
  BY DEF Phase, Row
<1>2. QED
  BY <1>1 DEF phases

LEMMA OpenedKept ==
    ASSUME UNCHANGED cases
    PROVE  opened' = opened
  BY DEF opened, OpenCases, Active, Row

LEMMA CaseOpened ==
    ASSUME NEW c \in CaseId, NEW i \in Item, OpensCase(c, i)
    PROVE  opened[i] = {} /\ opened' = [opened EXCEPT ![i] = {c}]
<1>1. OpenCases(i) = {} /\ OpenCases(i)' = {c}
  BY DEF OpensCase, OpenCases, Active, Row, ActiveStatuses
<1>2. ASSUME NEW j \in Item, j # i PROVE OpenCases(j)' = OpenCases(j)
  BY <1>2 DEF OpensCase, OpenCases, Active, Row
<1>3. QED
  BY <1>1, <1>2 DEF opened

LEMMA CaseShut ==
    ASSUME TypeInv, OneActiveCase, NEW c \in CaseId, ShutsCase(c)
    PROVE  \E i \in Item : opened[i] # {} /\ opened' = [opened EXCEPT ![i] = {}]
<1>1. PICK i \in Item : i = cases[c].item
  BY DEF ShutsCase, Active, Row, TypeInv, TypeOK, CaseRows
<1>2. OpenCases(i) = {c} /\ OpenCases(i)' = {}
  BY <1>1 DEF ShutsCase, OpenCases, OneActiveCase, Active, Row, ActiveStatuses
<1>3. ASSUME NEW j \in Item, j # i PROVE OpenCases(j)' = OpenCases(j)
  BY <1>1, <1>3 DEF ShutsCase, OpenCases, Active, Row, ActiveStatuses
<1>4. QED
  BY <1>2, <1>3 DEF opened

\* An item without an open request has none that is undecided.
LEMMA NoneUndecided ==
    ASSUME NEW i \in Item, OpenPendings(i) = {}
    PROVE  Lifecycle!Undecided(i) = {}
<1>1. \A k \in Key : Phase(k) \in {"waiting", "approved"} /\ Target(k) = i => k \in OpenPendings(i)
  BY DEF Phase, OpenPendings, Open, Row
<1>2. QED
  BY <1>1 DEF Lifecycle!Undecided

LEMMA InitImplements == Init => Lifecycle!Init
<1> SUFFICES ASSUME Init PROVE Lifecycle!Init
  OBVIOUS
<1>1. \A k \in Key : Phase(k) = "new"
  BY DEF Init, Phase, Row
<1>2. \A i \in Item : OpenCases(i) = {}
  BY DEF Init, OpenCases, Active, Row
<1>3. QED
  BY <1>1, <1>2 DEF Lifecycle!Init

LEMMA StepImplements ==
    ASSUME GuardedInv, [Next]_vars
    PROVE  [Lifecycle!Next]_(Lifecycle!vars)
<1> USE DEF GuardedInv, ReceiptInv
<1>1. ASSUME NEW k \in Key PROVE Target(k) \in Item /\ k \in CaseId /\ Receipted(k)
  BY GatewayAssumption DEF Target, CaseId, EffectsAreReceipted
<1>2. CASE UNCHANGED <<pending, receipts, cases>>
  <2>1. phases' = phases /\ opened' = opened
    BY <1>2, PhasesKept, OpenedKept
  <2>2. QED
    BY <2>1 DEF Lifecycle!vars, phases, opened
<1>3. ASSUME NEW k \in Key, Waits(k) PROVE Lifecycle!Ask(k)
  <2>1. Phase(k) = "new" /\ Phase(k)' = "waiting"
    BY <1>3 DEF Waits, Phase, Row
  <2>2. Lifecycle!Moves(k, "new", "waiting")
    BY <1>3, <2>1, PhaseMoves DEF Waits
  <2>3. Lifecycle!Undecided(Target(k)) = {}
    BY <1>1, <1>3, NoneUndecided DEF Waits
  <2>4. opened' = opened
    BY <1>3, OpenedKept DEF Waits
  <2>5. opened[Target(k)] = {}
    BY <1>1, <1>3 DEF Waits, opened
  <2>6. QED
    BY <1>3, <2>2, <2>3, <2>4, <2>5 DEF Waits, Lifecycle!Ask, opened
<1>4. ASSUME NEW k \in Key, IsDecided(k) PROVE Lifecycle!Approve(k) \/ Lifecycle!Reject(k)
  <2>1. ~Row(receipts, k)
    BY <1>1, <1>4 DEF IsDecided, Receipted
  <2>2. Phase(k) = "waiting" /\ Phase(k)' \in {"approved", "closed"}
    BY <1>4, <2>1 DEF IsDecided, Phase, Row
  <2>3. Lifecycle!Moves(k, Phase(k), Phase(k)')
    BY <1>4, PhaseMoves DEF IsDecided
  <2>4. opened' = opened
    BY <1>4, OpenedKept DEF IsDecided
  <2>5. QED
    BY <2>2, <2>3, <2>4 DEF Lifecycle!Approve, Lifecycle!Reject, opened
<1>5. ASSUME NEW k \in Key, Closes(k) PROVE Lifecycle!Close(k)
  <2>1. Phase(k) = "approved" /\ Phase(k)' = "closed"
    BY <1>5 DEF Closes, Phase, Row
  <2>2. Lifecycle!Moves(k, "approved", "closed")
    BY <1>5, <2>1, PhaseMoves DEF Closes
  <2>3. opened' = opened
    BY <1>5, OpenedKept DEF Closes
  <2>4. QED
    BY <2>2, <2>3 DEF Lifecycle!Close, opened
<1>6. ASSUME NEW k \in Key, NEW pended \in BOOLEAN, HasEffect(k, pended)
      PROVE  Lifecycle!TakeEffect(k)
  <2>1. Phase(k)' = "done"
    BY <1>6 DEF HasEffect, Phase, Row
  <2>2. Lifecycle!Moves(k, Phase(k), "done")
    BY <1>6, <2>1, PhaseMoves DEF HasEffect
  <2>3. \/ Phase(k) = "approved"
        \/ Phase(k) = "new" /\ (IsHandoff(k) \/ OpenPendings(Target(k)) = {})
    BY <1>6 DEF HasEffect, Phase
  <2>4. \/ Lifecycle!Moves(k, "new", "done")
             /\ (IsHandoff(k) \/ Lifecycle!Undecided(Target(k)) = {})
        \/ Lifecycle!Moves(k, "approved", "done")
    BY <1>1, <2>2, <2>3, NoneUndecided
  <2>5. CASE IsHandoff(k)
    <3>1. opened' = opened
      BY <1>6, <2>5, OpenedKept DEF HasEffect, MeetsNone
    <3>2. QED
      BY <2>4, <2>5, <3>1 DEF Lifecycle!TakeEffect, opened
  <2>6. CASE ~IsHandoff(k)
    <3>1. OpensCase(k, Target(k))
      BY <1>6, <2>6, EffectOpensCase
    <3>2. opened[Target(k)] = {} /\ opened' = [opened EXCEPT ![Target(k)] = {k}]
      <4>1. PICK i \in Item : i = Target(k)
        BY <1>1
      <4>2. opened[i] = {} /\ opened' = [opened EXCEPT ![i] = {k}]
        BY <1>1, <3>1, <4>1, CaseOpened
      <4>3. QED
        BY <4>1, <4>2
    <3>3. QED
      BY <2>4, <2>6, <3>2 DEF Lifecycle!TakeEffect, opened
  <2>7. QED
    BY <2>5, <2>6
<1>7. ASSUME StaffMove, UNCHANGED <<pending, receipts>>
      PROVE  \/ UNCHANGED cases
             \/ \E i \in Item, c \in CaseId : Lifecycle!StaffOpens(i, c)
             \/ \E i \in Item : Lifecycle!StaffCloses(i)
  <2>1. phases' = phases
    BY <1>7, PhasesKept
  <2>2. ASSUME NEW c \in StaffCase, NEW i \in Item, NEW type \in {"return", "exchange"},
               StaffOpensCase(c, i, type)
        PROVE  Lifecycle!StaffOpens(i, c) /\ c \in CaseId
    <3>1. c \in CaseId /\ OpensCase(c, i)
      BY <2>2, StaffOpens DEF CaseId
    <3>2. opened[i] = {} /\ opened' = [opened EXCEPT ![i] = {c}]
      BY <3>1, CaseOpened
    <3>3. QED
      BY <2>1, <3>1, <3>2 DEF Lifecycle!StaffOpens, phases, opened
  <2>3. ASSUME NEW c \in CaseId, NEW status \in {"completed", "rejected"}, StaffClosesCase(c, status)
        PROVE  \E i \in Item : Lifecycle!StaffCloses(i)
    <3>1. PICK i \in Item : opened[i] # {} /\ opened' = [opened EXCEPT ![i] = {}]
      BY <2>3, StaffCloses, CaseShut
    <3>2. QED
      BY <2>1, <3>1 DEF Lifecycle!StaffCloses, phases, opened
  <2>4. QED
    BY <1>7, <2>2, <2>3 DEF StaffMove, StaffClosesTicket
<1>8. QED
  BY <1>2, <1>3, <1>4, <1>5, <1>6, <1>7, Steps DEF Lifecycle!Next, rows

\* Whatever the races, failures, restarts and changes of the world, every transaction of
\* the gateway is a step of the promised life of one request, or of the staff, or changes
\* nothing of which the promise speaks.
THEOREM ImplementsLifecycle == Spec => FollowsLifecycle
  BY InitImplements, StepImplements, GuardedInitially, GuardedInductive, PTL
     DEF Spec, FollowsLifecycle, Lifecycle!Spec

-----------------------------------------------------------------------------
(* The stale check covers the Guard *)

\* Rows of the order and of its parcels under which a return or an exchange may pass.
Deliverable(i) ==
    LET s == [order |-> order[i].status, parcels |-> parcels[i].rows]
    IN  /\ s.order \notin {"absent", "no_item", "cancelled", "paid", "shipped"}
        /\ ~BusinessStateConflict(s)
        /\ DeliveryEstablished(s, day)

Exchangeable(i) == stock[i].state \notin {"absent", "incompatible", "insufficient"}

\* A case that refuses nothing any more.
AtRest(c) ==
    /\ Row(cases, c) /\ cases[c].status \notin ActiveStatuses
    /\ ~(cases[c].type = "return" /\ cases[c].status = "completed")

\* The rows of a recorded table: present, of no later version, of the very version.
NotNewer(table, version) == table # {} /\ \A row \in table : row[2] <= version
Current(table, version)  == \A row \in table : row[2] = version

\* What the snapshot of a request pins down: while the versions it records are the
\* versions of the rows, the rows are still such that the Guard does not refuse.
Settled(k) ==
    LET i       == Target(k)
        records == pending[k].snapshot.records
    IN  /\ ~IsHandoff(k)
        /\ Risk[pending[k].snapshot.release][Intent[k].name] = "REQUIRE_APPROVAL"
        /\ NotNewer(records["orders"], order[i].version)
        /\ NotNewer(records["logistics"], parcels[i].version)
        /\ /\ Current(records["orders"], order[i].version)
           /\ Current(records["logistics"], parcels[i].version)
           => Deliverable(i)
        /\ Intent[k].name # "create_return" =>
             /\ NotNewer(records["inventory"], stock[i].version)
             /\ Current(records["inventory"], stock[i].version) => Exchangeable(i)
        /\ \A row \in records["after_sales_cases"] : row[1] \in CaseId /\ AtRest(row[1])

\* Every check of the matrix has passed when nothing is refused.
LEMMA AllPass ==
    ASSUME NEW a, NEW s, NEW rules, NEW d,
           a.name # "escalate_to_human", Denial(a, s, rules, d) = "none"
    PROVE  /\ s.order \notin {"absent", "no_item", "cancelled", "paid", "shipped"}
           /\ ~BusinessStateConflict(s) /\ DeliveryEstablished(s, d)
           /\ ~ActiveCase(s) /\ ~ReturnedBefore(s)
           /\ a.name # "create_return" =>
                s.stock \notin {"absent", "incompatible", "insufficient"}
<1> DEFINE checks == CaseChecks(a, s, rules, d)
<1>1. \A n \in DOMAIN checks : checks[n].code # "none"
  <2>1. "none" \notin DenyReasons
    BY DEF DenyReasons
  <2>2. QED
    BY CaseCodes, <2>1
<1>2. \A n \in 1..19 : ~checks[n].fails
  <2>1. FirstFailing(checks) = "none"
    BY DEF Denial
  <2>2. DOMAIN checks = 1..19
    BY CaseCodes
  <2> HIDE DEF checks
  <2>3. QED
    BY <1>1, <2>1, <2>2, NoneFailing
<1>3. /\ checks[1].fails = (s.order = "absent") /\ checks[2].fails = (s.order = "no_item")
      /\ checks[3].fails = BusinessStateConflict(s)
      /\ checks[4].fails = (s.order = "cancelled") /\ checks[5].fails = (s.order \in {"paid", "shipped"})
      /\ checks[6].fails = ~DeliveryEstablished(s, d)
      /\ checks[7].fails = ActiveCase(s) /\ checks[8].fails = ReturnedBefore(s)
  BY DEF CaseChecks, Check
<1>4. /\ checks[14].fails = (a.name # "create_return" /\ s.stock = "absent")
      /\ checks[15].fails = (a.name # "create_return" /\ s.stock = "incompatible")
      /\ checks[19].fails = (a.name # "create_return" /\ s.stock = "insufficient")
  BY DEF CaseChecks, Check
<1>5. /\ 1 \in 1..19 /\ 2 \in 1..19 /\ 3 \in 1..19 /\ 4 \in 1..19 /\ 5 \in 1..19 /\ 6 \in 1..19
      /\ 7 \in 1..19 /\ 8 \in 1..19 /\ 14 \in 1..19 /\ 15 \in 1..19 /\ 19 \in 1..19
  OBVIOUS
<1> HIDE DEF checks
<1>6. QED
  BY <1>2, <1>3, <1>4, <1>5

\* A code that is not "none" is that of a failing check.
LEMMA FirstFailingFails ==
    ASSUME NEW checks, DOMAIN checks \subseteq Nat, FirstFailing(checks) # "none"
    PROVE  \E n \in DOMAIN checks : checks[n].fails /\ FirstFailing(checks) = checks[n].code
  BY LeastIndex DEF FirstFailing

\* What is left to refuse once rows, other requests and stock are settled.
LEMMA TimelyDenial ==
    ASSUME NEW a, NEW s, NEW rules, NEW d, a.name # "escalate_to_human",
           s.order \notin {"absent", "no_item", "cancelled", "paid", "shipped"},
           ~BusinessStateConflict(s), DeliveryEstablished(s, d),
           ~ActiveCase(s), ~ReturnedBefore(s), s.otherPendings = {},
           a.name # "create_return" => s.stock \notin {"absent", "incompatible", "insufficient"}
    PROVE  Denial(a, s, rules, d) \in TimeDependentReasons \cup {"none"}
<1> DEFINE checks == CaseChecks(a, s, rules, d)
<1>1. /\ ~checks[1].fails /\ ~checks[2].fails /\ ~checks[3].fails /\ ~checks[4].fails
      /\ ~checks[5].fails /\ ~checks[6].fails /\ ~checks[7].fails /\ ~checks[8].fails
      /\ ~checks[9].fails
  BY DEF CaseChecks, Check
<1>2. ~checks[14].fails /\ ~checks[15].fails /\ ~checks[19].fails
  BY DEF CaseChecks, Check
<1>3. /\ checks[10].code \in TimeDependentReasons /\ checks[11].code \in TimeDependentReasons
      /\ checks[12].code \in TimeDependentReasons /\ checks[13].code \in TimeDependentReasons
      /\ checks[16].code \in TimeDependentReasons /\ checks[17].code \in TimeDependentReasons
      /\ checks[18].code \in TimeDependentReasons
  BY DEF CaseChecks, Check, TimeDependentReasons, WindowClosed
<1>4. DOMAIN checks = 1..19
  BY CaseCodes
<1>5. Denial(a, s, rules, d) = FirstFailing(checks)
  BY DEF Denial
<1> HIDE DEF checks
<1>6. CASE FirstFailing(checks) # "none"
  <2>1. PICK n \in 1..19 : checks[n].fails /\ FirstFailing(checks) = checks[n].code
    BY <1>4, <1>6, FirstFailingFails
  <2>2. n \in {10, 11, 12, 13, 16, 17, 18}
    BY <1>1, <1>2, <2>1
  <2>3. QED
    BY <1>3, <1>5, <2>1, <2>2
<1>7. QED
  BY <1>5, <1>6

\* The gateway does not write what the business systems own, and these only go on.
LEMMA WorldMoves ==
    ASSUME TypeInv, [Next]_vars, NEW i \in Item
    PROVE  /\ order'[i] = order[i] \/ order'[i].version = order[i].version + 1
           /\ parcels'[i] = parcels[i] \/ parcels'[i].version = parcels[i].version + 1
           /\ stock'[i] = stock[i] \/ stock'[i].version = stock[i].version + 1
           /\ day' = day \/ day' = day + 1
<1>1. CASE UNCHANGED <<business, day>>
  BY <1>1 DEF business
<1>2. ASSUME Gateway PROVE UNCHANGED <<business, config>>
  <2>1. ASSUME NEW k \in Key, Start(k) PROVE UNCHANGED <<business, config>>
    BY <2>1 DEF Start, StartReplay, StartDenied, StartPending, StartExecuted, StartFailed, vars
  <2>2. ASSUME NEW w \in Worker, NEW k \in Key, Resume(w, k) PROVE UNCHANGED <<business, config>>
    <3>1. ASSUME NEW decision, RecordDecision(w, k, decision) \/ RepeatDecision(w, k, decision)
          PROVE  UNCHANGED <<business, config>>
      BY <3>1 DEF RecordDecision, RepeatDecision
    <3>2. CASE ExecuteStale(w, k) \/ ExecuteDecided(w, k)
      BY <3>2 DEF ExecuteStale, ExecuteDecided
    <3>3. CASE ExecuteReplay(w, k) \/ ExecuteLost(w, k) \/ ExecuteFailed(w, k)
      BY <3>3 DEF ExecuteReplay, ExecuteLost, ExecuteFailed
    <3>4. QED
      BY <2>2, <3>1, <3>2, <3>3 DEF Resume
  <2>3. ASSUME NEW w \in Worker, Compensate(w) \/ CompensateFails(w)
        PROVE  UNCHANGED <<business, config>>
    BY <2>3 DEF Compensate, CompensateFails
  <2>4. CASE Restart
    BY <2>4 DEF Restart
  <2>5. QED
    BY <1>2, <2>1, <2>2, <2>3, <2>4 DEF Gateway
<1>3. ASSUME NEW j \in Item, OrderChanges(j) \/ ParcelsChange(j) \/ StockChanges(j)
      PROVE  /\ order'[i] = order[i] \/ order'[i].version = order[i].version + 1
             /\ parcels'[i] = parcels[i] \/ parcels'[i].version = parcels[i].version + 1
             /\ stock'[i] = stock[i] \/ stock'[i].version = stock[i].version + 1
             /\ UNCHANGED day
  BY <1>3 DEF OrderChanges, ParcelsChange, StockChanges, TypeInv, TypeOK, config
<1>4. CASE External
  BY <1>1, <1>3, <1>4 DEF External, StaffOpensCase, StaffClosesCase, StaffClosesTicket,
     PolicyChanges, Deploy, DayPasses, config, business
<1>5. QED
  BY <1>1, <1>2, <1>4 DEF Next, vars, config

LEMMA RecordsTyped ==
    ASSUME TypeInv, NEW k \in Key, Row(pending, k), ~IsHandoff(k)
    PROVE  /\ pending[k] \in PendingRows /\ pending[k].snapshot \in Snapshots
           /\ \A table \in {"orders", "logistics", "after_sales_cases"} :
                \A row \in pending[k].snapshot.records[table] : row[2] \in Int
           /\ Intent[k].name # "create_return" =>
                \A row \in pending[k].snapshot.records["inventory"] : row[2] \in Int
<1>1. pending[k] \in PendingRows
  BY DEF Row, TypeInv, TypeOK
<1>2. pending[k].snapshot \in Snapshots
  BY <1>1 DEF PendingRows
<1>3. PICK name \in ActionNames : pending[k].snapshot.records \in [RecordTables(name) -> RecordSets]
  BY <1>2 DEF Snapshots, ActionNames
<1>4. \A table \in RecordTables(Intent[k].name) : pending[k].snapshot.records[table] \in RecordSets
  BY <1>3 DEF TypeInv, RowsAreWellFormed
<1>5. \A set \in RecordSets : \A row \in set : row[2] \in Int
  BY GatewayAssumption DEF RecordSets, Version
<1>6. Intent[k].name \in ActionNames
  BY GatewayAssumption
<1>7. /\ {"orders", "logistics", "after_sales_cases"} \subseteq RecordTables(Intent[k].name)
      /\ Intent[k].name # "create_return" => "inventory" \in RecordTables(Intent[k].name)
  BY <1>6 DEF RecordTables, IsHandoff, ActionNames
<1>8. QED
  BY <1>1, <1>2, <1>4, <1>5, <1>7

\* A case at rest rests for ever.
LEMMA RestStays ==
    ASSUME ReceiptInv, [Next]_vars, NEW c \in CaseId, AtRest(c)
    PROVE  AtRest(c)'
<1>1. ASSUME NEW d \in CaseId, NEW i, OpensCase(d, i) PROVE AtRest(c)'
  BY <1>1 DEF OpensCase, AtRest, Row
<1>2. ASSUME NEW d \in CaseId, ShutsCase(d) PROVE AtRest(c)'
  BY <1>2 DEF ShutsCase, AtRest, Active, Row
<1>3. CASE UNCHANGED cases
  BY <1>3 DEF AtRest, Row
<1>4. QED
  BY <1>1, <1>2, <1>3, CaseSteps DEF CaseId

\* What a snapshot pins down stays pinned down, whatever changes.
LEMMA SettledStays ==
    ASSUME ReceiptInv, [Next]_vars, NEW k \in Key, Row(pending, k), Settled(k),
           pending'[k].snapshot = pending[k].snapshot
    PROVE  Settled(k)'
<1> DEFINE i == Target(k)
<1> DEFINE orders == pending[k].snapshot.records["orders"]
<1> DEFINE logistics == pending[k].snapshot.records["logistics"]
<1> DEFINE inventory == pending[k].snapshot.records["inventory"]
<1> USE DEF ReceiptInv
<1>1. i \in Item
  BY GatewayAssumption DEF Target
<1>2. /\ ~IsHandoff(k)
      /\ Risk[pending[k].snapshot.release][Intent[k].name] = "REQUIRE_APPROVAL"
      /\ NotNewer(orders, order[i].version) /\ NotNewer(logistics, parcels[i].version)
      /\ Current(orders, order[i].version) /\ Current(logistics, parcels[i].version)
           => Deliverable(i)
      /\ Intent[k].name # "create_return" =>
           /\ NotNewer(inventory, stock[i].version)
           /\ Current(inventory, stock[i].version) => Exchangeable(i)
      /\ \A row \in pending[k].snapshot.records["after_sales_cases"] :
           row[1] \in CaseId /\ AtRest(row[1])
  BY DEF Settled
<1>3. /\ \A row \in orders : row[2] \in Int
      /\ \A row \in logistics : row[2] \in Int
      /\ Intent[k].name # "create_return" => \A row \in inventory : row[2] \in Int
  BY <1>2, RecordsTyped
<1>4. /\ order'[i] = order[i] \/ order'[i].version = order[i].version + 1
      /\ parcels'[i] = parcels[i] \/ parcels'[i].version = parcels[i].version + 1
      /\ stock'[i] = stock[i] \/ stock'[i].version = stock[i].version + 1
      /\ day' = day \/ day' = day + 1
  BY <1>1, WorldMoves
<1>5. /\ order[i].version \in Int /\ parcels[i].version \in Int /\ stock[i].version \in Int
      /\ day \in Int /\ parcels[i].rows \in ParcelStates
  BY <1>1, GatewayAssumption DEF TypeInv, TypeOK, Version, Day
<1> HIDE DEF i, orders, logistics, inventory
<1>6. ASSUME NEW table, \A row \in table : row[2] \in Int, NEW old \in Int, NEW new,
             NotNewer(table, old), new = old + 1
      PROVE  NotNewer(table, new) /\ ~Current(table, new)
  BY <1>6 DEF NotNewer, Current
<1>7. /\ NotNewer(orders, order'[i].version)
      /\ Current(orders, order'[i].version) =>
           order'[i] = order[i] /\ Current(orders, order[i].version)
  BY <1>2, <1>3, <1>4, <1>5, <1>6
<1>8. /\ NotNewer(logistics, parcels'[i].version)
      /\ Current(logistics, parcels'[i].version) =>
           parcels'[i] = parcels[i] /\ Current(logistics, parcels[i].version)
  BY <1>2, <1>3, <1>4, <1>5, <1>6
<1>9. Intent[k].name # "create_return" =>
        /\ NotNewer(inventory, stock'[i].version)
        /\ Current(inventory, stock'[i].version) =>
             stock'[i] = stock[i] /\ Current(inventory, stock[i].version)
  BY <1>2, <1>3, <1>4, <1>5, <1>6
<1>10. ASSUME Deliverable(i), order'[i] = order[i], parcels'[i] = parcels[i]
       PROVE  Deliverable(i)'
  <2>1. \A p \in parcels[i].rows : p.at \in Int
    BY <1>5, GatewayAssumption
  <2>2. \A p \in parcels[i].rows : p.at <= day => p.at <= day'
    BY <1>4, <1>5, <2>1
  <2>3. QED
    BY <1>10, <2>2 DEF Deliverable, BusinessStateConflict, ParcelsAre, DeliveryEstablished, i, Target
<1>11. \A row \in pending[k].snapshot.records["after_sales_cases"] :
         row[1] \in CaseId /\ AtRest(row[1])'
  BY <1>2, RestStays
<1>12. QED
  BY <1>2, <1>7, <1>8, <1>9, <1>10, <1>11
     DEF Settled, Exchangeable, i, orders, logistics, inventory, Target, IsHandoff

\* A request that is asked is settled on the rows that the Guard has just read.
LEMMA SettledAtFirst ==
    ASSUME ReceiptInv, NEW k \in Key, StartPending(k)
    PROVE  Settled(k)'
<1> DEFINE i == Target(k)
<1> DEFINE s == CapturedState(k, {})
<1> USE DEF ReceiptInv, TypeInv
<1>1. i \in Item /\ Intent[k].name \in ActionNames
  BY GatewayAssumption DEF Target
<1>2. /\ Risk[release][Intent[k].name] = "REQUIRE_APPROVAL"
      /\ Denial(Intent[k], s, Rulebook[build], day) = "none"
  BY Decisions DEF StartPending
<1>3. ~IsHandoff(k)
  BY <1>2, GatewayAssumption DEF IsHandoff, TypeOK, Release
<1>4. /\ s.order \notin {"absent", "no_item", "cancelled", "paid", "shipped"}
      /\ ~BusinessStateConflict(s) /\ DeliveryEstablished(s, day)
      /\ ~ActiveCase(s) /\ ~ReturnedBefore(s)
      /\ Intent[k].name # "create_return" =>
           s.stock \notin {"absent", "incompatible", "insufficient"}
  <2> HIDE DEF s
  <2>1. QED
    BY <1>2, <1>3, AllPass DEF IsHandoff
<1>5. /\ s.order = order[i].status /\ s.parcels = parcels[i].rows /\ s.stock = stock[i].state
      /\ s.cases = {cases[c] : c \in CasesOf(i)}
  BY DEF CapturedState
<1> HIDE DEF s
<1>6. Deliverable(i)
  BY <1>4, <1>5 DEF Deliverable, BusinessStateConflict, ParcelsAre, DeliveryEstablished
<1>7. parcels[i].rows # {}
  <2>1. s.parcels # {}
    BY <1>4, FS_EmptySet DEF DeliveryEstablished
  <2>2. QED
    BY <1>5, <2>1
<1>8. \A c \in CasesOf(i) : c \in CaseId /\ AtRest(c)
  BY <1>4, <1>5 DEF CasesOf, AtRest, ActiveCase, ReturnedBefore
<1>9. /\ {"orders", "logistics", "after_sales_cases"} \subseteq RecordTables(Intent[k].name)
      /\ Intent[k].name # "create_return" => "inventory" \in RecordTables(Intent[k].name)
  BY <1>1, <1>3 DEF RecordTables, IsHandoff, ActionNames
<1>10. \A table : Reads(k, table)
  BY <1>4, <1>5 DEF Reads, i
<1>11. /\ Records(k)["orders"] = {<<i, order[i].version>>}
       /\ Records(k)["logistics"] = {<<p.no, parcels[i].version>> : p \in parcels[i].rows}
       /\ Records(k)["after_sales_cases"] = {<<c, cases[c].version>> : c \in CasesOf(i)}
  BY <1>9, <1>10 DEF Records, RowsOf
<1>12. Intent[k].name # "create_return" =>
         Records(k)["inventory"] = {<<i, stock[i].version>>} /\ Exchangeable(i)
  BY <1>4, <1>5, <1>9, <1>10 DEF Records, RowsOf, Exchangeable
<1>13. pending'[k].snapshot = CandidateSnapshot(k)
  BY DEF StartPending, TypeOK
<1>14. pending'[k].snapshot.records = Records(k) /\ pending'[k].snapshot.release = release
  BY <1>13 DEF CandidateSnapshot
<1>15. /\ order[i].version \in Int /\ parcels[i].version \in Int /\ stock[i].version \in Int
  BY <1>1, GatewayAssumption DEF TypeOK, Version
<1>16. UNCHANGED <<order, parcels, stock, cases, day>>
  BY DEF StartPending, business, config
<1>17. /\ NotNewer(Records(k)["orders"], order[i].version)
       /\ NotNewer(Records(k)["logistics"], parcels[i].version)
       /\ Intent[k].name # "create_return" => NotNewer(Records(k)["inventory"], stock[i].version)
  <2>1. ASSUME NEW table, NEW version \in Int, table # {}, \A row \in table : row[2] = version
        PROVE  NotNewer(table, version)
    BY <2>1 DEF NotNewer
  <2>2. \A row \in Records(k)["orders"] : row[2] = order[i].version
    BY <1>11
  <2>3. \A row \in Records(k)["logistics"] : row[2] = parcels[i].version
    BY <1>11
  <2>4. Records(k)["orders"] # {} /\ Records(k)["logistics"] # {}
    <3>1. <<i, order[i].version>> \in Records(k)["orders"]
      BY <1>11
    <3>2. PICK p \in parcels[i].rows : TRUE
      BY <1>7
    <3>3. <<p.no, parcels[i].version>> \in Records(k)["logistics"]
      BY <1>11, <3>2
    <3>4. QED
      BY <3>1, <3>3
  <2>5. Intent[k].name # "create_return" =>
          Records(k)["inventory"] # {} /\ \A row \in Records(k)["inventory"] : row[2] = stock[i].version
    <3> SUFFICES ASSUME Intent[k].name # "create_return"
                 PROVE  /\ Records(k)["inventory"] # {}
                        /\ \A row \in Records(k)["inventory"] : row[2] = stock[i].version
      OBVIOUS
    <3>1. Records(k)["inventory"] = {<<i, stock[i].version>>}
      BY <1>12
    <3>2. <<i, stock[i].version>> \in Records(k)["inventory"]
      BY <3>1
    <3>3. \A row \in Records(k)["inventory"] : row = <<i, stock[i].version>>
      BY <3>1
    <3>4. QED
      BY <3>2, <3>3
  <2>6. QED
    BY <1>15, <2>1, <2>2, <2>3, <2>4, <2>5
<1>18. \A row \in Records(k)["after_sales_cases"] : row[1] \in CaseId /\ AtRest(row[1])
  BY <1>8, <1>11
<1> HIDE DEF i
<1>19. Deliverable(i)' /\ (Exchangeable(i) => Exchangeable(i)')
  BY <1>6, <1>16 DEF Deliverable, Exchangeable, i, Target
<1>20. \A row \in Records(k)["after_sales_cases"] : row[1] \in CaseId /\ AtRest(row[1])'
  BY <1>16, <1>18 DEF AtRest, Row
<1>21. QED
  BY <1>2, <1>3, <1>12, <1>14, <1>16, <1>17, <1>19, <1>20
     DEF Settled, i, Target, IsHandoff, Exchangeable

AllSettled == \A k \in Key : Row(pending, k) => Settled(k)

LEMMA SettledStep ==
    ASSUME ReceiptInv, [Next]_vars, AllSettled
    PROVE  AllSettled'
<1> SUFFICES ASSUME NEW k \in Key, Row(pending', k) PROVE Settled(k)'
  BY DEF AllSettled, Row
<1>1. CASE Row(pending, k)
  <2>1. Advances(k)
    BY AdvanceStep
  <2>2. pending'[k].snapshot = pending[k].snapshot
    BY <1>1, <2>1 DEF Advances
  <2>3. QED
    BY <1>1, <2>2, SettledStays DEF AllSettled
<1>2. CASE ~Row(pending, k)
  <2>1. pending'[k] # pending[k]
    BY <1>2 DEF Row
  <2>2. ASSUME NEW m \in Key, StartPending(m) PROVE m = k
    BY <2>1, <2>2 DEF StartPending, ReceiptInv, TypeInv, TypeOK
  <2>3. ASSUME NEW m \in Key, Start(m) PROVE StartPending(m)
    BY <2>1, <2>3 DEF Start, StartReplay, StartDenied, StartExecuted, StartFailed, vars, rows
  <2>4. ASSUME NEW w \in Worker, NEW m \in Key, Resume(w, m) PROVE FALSE
    <3>1. UNCHANGED rows \/ Row(pending, m)
      BY <2>4 DEF Resume, RecordDecision, RepeatDecision, ExecuteReplay, ExecuteStale,
         ExecuteDecided, ExecuteLost, ExecuteFailed, MayExecute, Resuming
    <3>2. m # k /\ pending' # pending
      BY <1>2, <2>1, <3>1 DEF rows
    <3>3. \A n \in Key \ {m} : pending'[n] = pending[n]
      BY <2>4 DEF Resume, RecordDecision, RepeatDecision, ExecuteReplay, ExecuteStale,
         ExecuteDecided, ExecuteLost, ExecuteFailed, Ends, rows, ReceiptInv, TypeInv, TypeOK
    <3>4. QED
      BY <2>1, <3>2, <3>3
  <2>5. ASSUME NEW w \in Worker, Compensate(w) PROVE FALSE
    <3>1. worker[w].key # k \/ UNCHANGED pending
      BY <1>2, <2>5 DEF Compensate
    <3>2. QED
      BY <2>1, <2>5, <3>1 DEF Compensate, ReceiptInv, TypeInv, TypeOK
  <2>6. ~External
    BY <2>1, ExternalKeepsRows DEF ReceiptInv
  <2>7. PICK m \in Key : StartPending(m)
    BY <2>1, <2>3, <2>4, <2>5, <2>6
       DEF Next, Gateway, CompensateFails, Restart, vars, rows
  <2>8. QED
    BY <2>2, <2>7, SettledAtFirst
<1>3. QED
  BY <1>1, <1>2

\* A request whose snapshot still matches is refused for the passing of time alone.
LEMMA MatchedPasses ==
    ASSUME GuardedInv, NEW k \in Key, Row(pending, k), Settled(k), pending[k].status = "APPROVED",
           build # None, StaleReason(pending[k].snapshot, CandidateSnapshot(k)) = "none"
    PROVE  /\ GuardDecision(k, {k}).decision \in {"DENY", "REQUIRE_APPROVAL"}
           /\ GuardDecision(k, {k}).decision = "DENY" =>
                GuardDecision(k, {k}).reason \in TimeDependentReasons
<1> DEFINE i == Target(k)
<1> DEFINE s == CapturedState(k, {k})
<1> USE DEF GuardedInv, ReceiptInv
<1>1. i \in Item /\ Intent[k].name \in ActionNames
  BY GatewayAssumption DEF Target
<1>2. pending[k].snapshot = CandidateSnapshot(k)
  <2>1. pending[k].snapshot \in Snapshots /\ CandidateSnapshot(k) \in Snapshots
    BY SnapshotType DEF TypeInv, TypeOK, PendingRows, Row
  <2>2. DOMAIN pending[k].snapshot.records = DOMAIN CandidateSnapshot(k).records
    BY SnapshotTables DEF TypeInv, RowsAreWellFormed
  <2>3. QED
    BY <2>1, <2>2, SameSnapshot
<1>3. pending[k].snapshot.records = Records(k) /\ pending[k].snapshot.release = release
  BY <1>2 DEF CandidateSnapshot
<1>4. /\ ~IsHandoff(k)
      /\ Risk[release][Intent[k].name] = "REQUIRE_APPROVAL"
      /\ NotNewer(Records(k)["orders"], order[i].version)
      /\ NotNewer(Records(k)["logistics"], parcels[i].version)
      /\ /\ Current(Records(k)["orders"], order[i].version)
         /\ Current(Records(k)["logistics"], parcels[i].version)
         => Deliverable(i)
      /\ Intent[k].name # "create_return" =>
           /\ NotNewer(Records(k)["inventory"], stock[i].version)
           /\ Current(Records(k)["inventory"], stock[i].version) => Exchangeable(i)
      /\ \A row \in Records(k)["after_sales_cases"] : row[1] \in CaseId /\ AtRest(row[1])
  BY <1>3 DEF Settled
<1>5. /\ {"orders", "logistics", "after_sales_cases"} \subseteq RecordTables(Intent[k].name)
      /\ Intent[k].name # "create_return" => "inventory" \in RecordTables(Intent[k].name)
  BY <1>1, <1>4 DEF RecordTables, IsHandoff, ActionNames
<1>6. /\ Current(Records(k)["orders"], order[i].version)
      /\ Current(Records(k)["logistics"], parcels[i].version)
      /\ Intent[k].name # "create_return" => Current(Records(k)["inventory"], stock[i].version)
  BY <1>5 DEF Current, Records, RowsOf
<1>7. Deliverable(i) /\ (Intent[k].name # "create_return" => Exchangeable(i))
  BY <1>4, <1>6
<1>8. ASSUME NEW c \in CasesOf(i) PROVE AtRest(c)
  <2>1. \A table : Reads(k, table)
    BY <1>7 DEF Deliverable, Reads, i
  <2>2. Records(k)["after_sales_cases"] = {<<d, cases[d].version>> : d \in CasesOf(i)}
    BY <1>5, <2>1 DEF Records, RowsOf
  <2>3. <<c, cases[c].version>> \in Records(k)["after_sales_cases"]
    BY <2>2
  <2>4. AtRest(<<c, cases[c].version>>[1])
    BY <1>4, <2>3
  <2>5. QED
    BY <2>4
<1>9. OpenPendings(i) \ {k} = {}
  BY DEF OneOpenRequest, OpenPendings, Open
<1>10. /\ s.order = order[i].status /\ s.parcels = parcels[i].rows /\ s.stock = stock[i].state
       /\ s.cases = {cases[c] : c \in CasesOf(i)} /\ s.otherPendings = OpenPendings(i) \ {k}
  BY DEF CapturedState
<1> HIDE DEF s
<1>11. /\ s.order \notin {"absent", "no_item", "cancelled", "paid", "shipped"}
       /\ ~BusinessStateConflict(s) /\ DeliveryEstablished(s, day)
       /\ Intent[k].name # "create_return" =>
            s.stock \notin {"absent", "incompatible", "insufficient"}
  BY <1>7, <1>10
     DEF Deliverable, Exchangeable, BusinessStateConflict, ParcelsAre, DeliveryEstablished
<1>12. ~ActiveCase(s) /\ ~ReturnedBefore(s) /\ s.otherPendings = {}
  BY <1>8, <1>9, <1>10 DEF ActiveCase, ReturnedBefore, AtRest
<1>13. Denial(Intent[k], s, Rulebook[build], day) \in TimeDependentReasons \cup {"none"}
  BY <1>4, <1>11, <1>12, TimelyDenial DEF IsHandoff
<1>14. QED
  BY <1>4, <1>13 DEF GuardDecision, Decide, s

Covered(k) ==
    Row(pending, k) =>
      /\ pending[k].status = "DENIED" => pending[k].outcome \in TimeDependentReasons
      /\ pending[k].outcome # "guard_decision_changed"

CoveredInv == GuardedInv /\ AllSettled /\ SnapshotCoversTheGuard

LEMMA CoveredStep ==
    ASSUME CoveredInv, [Next]_vars
    PROVE  SnapshotCoversTheGuard'
<1> USE DEF CoveredInv, GuardedInv, ReceiptInv
<1> SUFFICES ASSUME NEW m \in Key, pending'[m] # pending[m] PROVE Covered(m)'
  BY DEF SnapshotCoversTheGuard, Covered, Row
<1>1. ASSUME NEW k \in Key, StartPending(k) PROVE Covered(m)'
  BY <1>1 DEF StartPending, Covered, TypeInv, TypeOK
<1>2. ASSUME NEW w \in Worker, NEW k \in Key, NEW decision \in {"APPROVE", "REJECT"},
             RecordDecision(w, k, decision)
      PROVE  Covered(m)'
  <2>1. m = k /\ pending[k] \in PendingRows
    BY <1>2 DEF RecordDecision, TypeInv, TypeOK, Row
  <2>2. /\ pending'[k].status \in {"APPROVED", "REJECTED"}
        /\ pending'[k].outcome \in {"none", "approval_rejected"}
    BY <1>2, <2>1 DEF RecordDecision, TypeInv, TypeOK, PendingRows
  <2>3. QED
    BY <2>1, <2>2 DEF Covered
<1>3. ASSUME NEW k \in Key, Row(pending, k), pending[k].status = "APPROVED",
             NEW status \in {"EXECUTED", "STALE", "DENIED", "FAILED"},
             NEW outcome \in StaleReasons \cup TimeDependentReasons \cup CodesOf("FAILED") \cup {"none"},
             outcome # "guard_decision_changed",
             status = "DENIED" => outcome \in TimeDependentReasons,
             pending' = [pending EXCEPT ![k].status = status, ![k].outcome = outcome,
                                        ![k].version = @ + 1]
      PROVE  Covered(m)'
  <2>1. m = k /\ pending[k] \in PendingRows
    BY <1>3 DEF TypeInv, TypeOK, Row
  <2>2. pending'[k].status = status /\ pending'[k].outcome = outcome
    BY <1>3, <2>1 DEF TypeInv, TypeOK, PendingRows
  <2>3. QED
    BY <1>3, <2>1, <2>2 DEF Covered
<1>4. ASSUME NEW w \in Worker, NEW k \in Key, ExecuteStale(w, k) PROVE Covered(m)'
  <2> DEFINE reason == StaleReason(pending[k].snapshot, CandidateSnapshot(k))
  <2>1. reason \in {"record_set_changed", "record_version_changed", "policy_changed",
                    "action_policy_changed", "none"}
    BY StaleReasonIn
  <2>2. Row(pending, k) /\ pending[k].status = "APPROVED" /\ Ends(k, "STALE", reason)
    BY <1>4 DEF ExecuteStale, Resuming, MayExecute
  <2> HIDE DEF reason
  <2>3. PICK outcome \in StaleReasons \cup {"none"} : outcome = reason
    BY <2>1 DEF StaleReasons
  <2>4. outcome # "guard_decision_changed" /\ Ends(k, "STALE", outcome)
    BY <2>1, <2>2, <2>3
  <2>5. QED
    BY <1>3, <2>2, <2>4 DEF Ends
<1>5. ASSUME NEW w \in Worker, NEW k \in Key, ExecuteDecided(w, k) PROVE Covered(m)'
  <2> DEFINE guard == GuardDecision(k, {k})
  <2>1. /\ Row(pending, k) /\ pending[k].status = "APPROVED" /\ build # None
        /\ StaleReason(pending[k].snapshot, CandidateSnapshot(k)) = "none"
    BY <1>5 DEF ExecuteDecided, Resuming, MayExecute
  <2>2. /\ guard.decision \in {"DENY", "REQUIRE_APPROVAL"}
        /\ guard.decision = "DENY" => guard.reason \in TimeDependentReasons
    BY <2>1, MatchedPasses DEF AllSettled
  <2>3. CASE guard.decision = "REQUIRE_APPROVAL"
    <3>1. Ends(k, "EXECUTED", "none")
      BY <1>5, <2>3 DEF ExecuteDecided
    <3>2. "none" # "guard_decision_changed" /\ "EXECUTED" # "DENIED"
      OBVIOUS
    <3> HIDE DEF guard
    <3>3. QED
      BY <1>3, <2>1, <3>1, <3>2 DEF Ends
  <2>4. CASE guard.decision = "DENY"
    <3>1. Ends(k, "DENIED", guard.reason)
      BY <1>5, <2>4 DEF ExecuteDecided
    <3>2. "guard_decision_changed" \notin TimeDependentReasons
      BY DEF TimeDependentReasons
    <3>3. PICK outcome \in TimeDependentReasons : Ends(k, "DENIED", outcome)
      BY <2>2, <2>4, <3>1
    <3>4. outcome # "guard_decision_changed"
      BY <3>2
    <3>5. QED
      BY <1>3, <2>1, <3>3, <3>4 DEF Ends
  <2>5. QED
    BY <2>2, <2>3, <2>4
<1>6. ASSUME NEW w \in Worker, Compensate(w) PROVE Covered(m)'
  <2>1. worker[w] \in [at: {"compensate"}, key: Key, version: 1..3, code: CodesOf("FAILED")]
    BY <1>6 DEF Compensate, TypeInv, TypeOK, WorkerStates, Idle
  <2>2. PICK k \in Key : k = worker[w].key
    BY <2>1
  <2>3. "guard_decision_changed" \notin CodesOf("FAILED")
    BY Codes, GatewayAssumption
  <2>4. PICK code \in CodesOf("FAILED") : code = worker[w].code
    BY <2>1
  <2>5. code # "guard_decision_changed"
    BY <2>3
  <2>6. /\ Row(pending, k) /\ pending[k].status = "APPROVED"
        /\ pending' = [pending EXCEPT ![k].status = "FAILED", ![k].outcome = code,
                                      ![k].version = @ + 1]
    BY <1>6, <2>2, <2>4 DEF Compensate
  <2>7. QED
    BY <1>3, <2>5, <2>6
<1>7. ~External
  BY ExternalKeepsRows
<1>8. ASSUME NEW k \in Key, Start(k) PROVE Covered(m)'
  BY <1>1, <1>8 DEF Start, StartReplay, StartDenied, StartExecuted, StartFailed, vars, rows
<1>9. ASSUME NEW w \in Worker, NEW k \in Key, Resume(w, k) PROVE Covered(m)'
  BY <1>2, <1>4, <1>5, <1>9
     DEF Resume, RepeatDecision, ExecuteReplay, ExecuteLost, ExecuteFailed, rows
<1>10. QED
  BY <1>6, <1>7, <1>8, <1>9 DEF Next, Gateway, CompensateFails, Restart, vars, rows

\* Once the stored and the fresh snapshot agree, only the passing of time can refuse an
\* approved request: no refusal about rows, other requests, stock or the risk policy is
\* left to the second decision, because the versions that the snapshot compares pin down
\* every row that the first decision read.
THEOREM SnapshotSuffices == Spec => []SnapshotCoversTheGuard
<1>1. Init => CoveredInv
  <2>1. Init => AllSettled /\ SnapshotCoversTheGuard
    BY DEF Init, AllSettled, SnapshotCoversTheGuard, Row
  <2>2. QED
    BY <2>1, GuardedInitially DEF CoveredInv
<1>2. CoveredInv /\ [Next]_vars => CoveredInv'
  BY GuardedInductive, SettledStep, CoveredStep DEF CoveredInv, GuardedInv
<1>3. CoveredInv => SnapshotCoversTheGuard
  BY DEF CoveredInv
<1>4. QED
  BY <1>1, <1>2, <1>3, PTL DEF Spec
=============================================================================
