---------------------------- MODULE EvaluationProofs ----------------------------
(***************************************************************************)
(* Theorems about SealedHoldout, for any datasets, any number of openings  *)
(* and of edits; and about CaseRunner, for any calls, declared faults,     *)
(* turns and steps, any policy, and any responses of a model.              *)
(***************************************************************************)
EXTENDS SealedHoldout, CaseRunner, FiniteSetTheorems, WellFoundedInduction, TLAPS

Places == {"holdout", "receipt"}
Early  == {"idle", "manifest", "inputs", "receipt", "dataset", "check 1", "place 1"}
Stages == Early \cup {"check 2", "place 2", "verify", "done", "refused", "dead"}
Underway == Stages \ {"idle", "done", "refused", "dead"}

Seals == [dataset: Valid, receipt: Receipts, inputs: {Frozen}]

\* What each variable holds; a receipt that the tool made is of a dataset that met the
\* contract and of the frozen inputs, and so is every seal.
HoldoutTypeInv ==
    /\ outside.receipt \in Receipts \cup {Absent}
    /\ DOMAIN outside = {"dataset", "receipt"}
    /\ repo.seal \in Seals \cup {Absent} /\ repo.history \subseteq Places
    /\ repo = [inputs |-> repo.inputs, clean |-> repo.clean, seal |-> repo.seal, history |-> repo.history]
    /\ DOMAIN opened = Places
    /\ DOMAIN runs = Opener
    /\ openings \subseteq Opener

\* How far a run has come, what it read, and what it placed.
RunAt(run) ==
    /\ run = [at |-> run.at, receipt |-> run.receipt, dataset |-> run.dataset, placed |-> run.placed]
    /\ run.at \in Stages /\ run.placed \subseteq Places
    /\ run.at \in Early => run.placed = {}
    /\ run.at \in Underway \ {"manifest"} => repo.seal # Absent
    /\ run.at \in Underway \ {"manifest", "inputs", "receipt"} => run.receipt = repo.seal.receipt
    /\ run.at \in Underway \ {"manifest", "inputs", "receipt", "dataset"} => run.dataset = repo.seal.dataset

\* Before they met, one run at most was under way, and whoever reported success is done.
AloneInv ==
    "met" \notin marks => \A o, p \in Opener : Runs(runs[o]) /\ Runs(runs[p]) => o = p

SealedInv == \A d \in Places : opened[d] # Absent => repo.seal # Absent /\ opened[d] = Sealed(d)

\* After a success nobody is under way again, and each file is there or in the history.
OnceInv ==
    marks = {} =>
        /\ \A o, p \in openings : o = p
        /\ openings # {} =>
             /\ \A o \in Opener : ~Runs(runs[o])
             /\ \A d \in Places : opened[d] # Absent \/ d \in repo.history

\* What a run that nobody met finds in the destinations.
Finds(run) ==
    /\ run.at \in Early \ {"idle"} => opened["holdout"] = Absent /\ opened["receipt"] = Absent
    /\ run.at \in {"check 2", "place 2"} => opened["holdout"] # Absent /\ opened["receipt"] = Absent
    /\ run.at = "verify" => opened["holdout"] # Absent /\ opened["receipt"] # Absent
    /\ run.at = "refused" /\ run.placed # {} => \A d \in Places : opened[d] # Absent => d \in run.placed

BothInv ==
    "met" \notin marks /\ (\A o \in Opener : runs[o].at # "dead") =>
        /\ \A o \in Opener : Finds(runs[o])
        /\ (\A o \in Opener : ~Runs(runs[o])) => (opened["holdout"] = Absent <=> opened["receipt"] = Absent)

HoldoutInv ==
    /\ HoldoutTypeInv /\ \A o \in Opener : RunAt(runs[o])
    /\ AloneInv /\ SealedInv /\ OnceInv /\ BothInv

-----------------------------------------------------------------------------
(* What people do *)

\* A step that leaves the runs and the destinations alone, and the seal if there is one,
\* keeps what is known of them.
LEMMA PeopleKeep ==
    ASSUME HoldoutInv, HoldoutTypeInv', UNCHANGED <<opened, runs, openings, marks>>,
           repo'.seal = repo.seal \/ repo.seal = Absent, repo.history \subseteq repo'.history
    PROVE  HoldoutInv'
<1> USE DEF HoldoutInv
<1>1. ASSUME NEW o \in Opener PROVE RunAt(runs[o])'
  BY <1>1 DEF RunAt, Underway
<1>2. SealedInv'
  <2>1. ASSUME NEW d \in Places, opened[d] # Absent PROVE repo'.seal # Absent /\ opened[d] = Sealed(d)'
    BY <2>1 DEF SealedInv, Sealed
  <2>2. QED
    BY <2>1 DEF SealedInv
<1>3. AloneInv' /\ BothInv'
  BY DEF AloneInv, BothInv, Runs, Finds
<1>4. OnceInv'
  BY DEF OnceInv, Runs, HoldoutTypeInv
<1>5. QED
  BY <1>1, <1>2, <1>3, <1>4 DEF HoldoutTypeInv

LEMMA WriteFileKeeps ==
    ASSUME HoldoutInv, NEW d \in Dataset, Write(d)
    PROVE  HoldoutInv'
<1>1. HoldoutTypeInv'
  BY DEF HoldoutInv, HoldoutTypeInv, Write
<1>2. QED
  BY <1>1, PeopleKeep DEF Write

LEMMA LoseKeeps ==
    ASSUME HoldoutInv, LoseReceipt
    PROVE  HoldoutInv'
<1>1. HoldoutTypeInv'
  BY DEF HoldoutInv, HoldoutTypeInv, LoseReceipt
<1>2. QED
  BY <1>1, PeopleKeep DEF LoseReceipt

LEMMA BuildKeeps ==
    ASSUME HoldoutInv, NEW bundle, BuildReceipt(bundle)
    PROVE  HoldoutInv'
<1>1. HoldoutTypeInv'
  BY DEF HoldoutInv, HoldoutTypeInv, BuildReceipt, Receipts
<1>2. QED
  BY <1>1, PeopleKeep DEF BuildReceipt

LEMMA RepositoryKeeps ==
    ASSUME HoldoutInv, Seal \/ EditInputs \/ CommitOpened
    PROVE  HoldoutInv'
<1>1. CASE Seal
  <2>1. outside.receipt \in Receipts
    BY <1>1 DEF HoldoutInv, HoldoutTypeInv, Seal
  <2>2. repo'.seal \in Seals
    BY <1>1, <2>1 DEF HoldoutInv, HoldoutTypeInv, Seal, Seals, Receipts
  <2>3. HoldoutTypeInv'
    BY <1>1, <2>2 DEF HoldoutInv, HoldoutTypeInv, Seal
  <2>4. QED
    BY <1>1, <2>3, PeopleKeep DEF Seal, HoldoutInv, HoldoutTypeInv
<1>2. CASE EditInputs
  <2>1. HoldoutTypeInv'
    BY <1>2 DEF HoldoutInv, HoldoutTypeInv, EditInputs
  <2>2. QED
    BY <1>2, <2>1, PeopleKeep DEF EditInputs, HoldoutInv, HoldoutTypeInv
<1>3. CASE CommitOpened
  <2>1. HoldoutTypeInv'
    BY <1>3 DEF HoldoutInv, HoldoutTypeInv, CommitOpened
  <2>2. QED
    BY <1>3, <2>1, PeopleKeep DEF CommitOpened, HoldoutInv, HoldoutTypeInv
<1>4. QED
  BY <1>1, <1>2, <1>3

\* Whoever deletes a file that is not in the history has armed the gate again.
LEMMA DeleteKeeps ==
    ASSUME HoldoutInv, DeleteOpened
    PROVE  HoldoutInv'
<1> USE DEF HoldoutInv, DeleteOpened
<1>1. HoldoutTypeInv' /\ \A d \in Places : opened'[d] = Absent
  BY DEF HoldoutTypeInv
<1>2. \A o \in Opener : RunAt(runs[o])'
  BY DEF RunAt
<1>3. SealedInv'
  BY <1>1 DEF SealedInv
<1>4. AloneInv'
  BY DEF AloneInv, Runs
<1>5. OnceInv'
  <2>1. ASSUME marks' = {}, openings # {}, NEW d \in Places PROVE d \in repo.history
    BY <2>1 DEF OnceInv, HoldoutTypeInv
  <2>2. QED
    BY <2>1 DEF OnceInv, Runs
<1>6. BothInv'
  <2>1. ASSUME NEW o \in Opener PROVE Finds(runs[o])'
    BY <1>1 DEF Finds, Places, Early
  <2>2. QED
    BY <1>1, <2>1 DEF BothInv, Places
<1>7. QED
  BY <1>1, <1>2, <1>3, <1>4, <1>5, <1>6

LEMMA DieKeeps ==
    ASSUME HoldoutInv, NEW o \in Opener, Die(o)
    PROVE  HoldoutInv'
<1> USE DEF HoldoutInv, Die
<1>1. HoldoutTypeInv' /\ runs'[o].at = "dead" /\ \A p \in Opener \ {o} : runs'[p] = runs[p]
  BY DEF HoldoutTypeInv, RunAt
<1>2. runs'[o] = [runs[o] EXCEPT !.at = "dead"]
  BY DEF HoldoutTypeInv
<1>3. RunAt(runs[o])'
  <2>1. RunAt(runs[o])
    OBVIOUS
  <2>2. /\ runs'[o] = [at |-> "dead", receipt |-> runs[o].receipt, dataset |-> runs[o].dataset,
                       placed |-> runs[o].placed]
        /\ runs[o].placed \subseteq Places
    BY <1>2, <2>1 DEF RunAt
  <2>3. PICK d : d = runs'[o]
    OBVIOUS
  <2>4. /\ d.at = "dead" /\ d.placed \subseteq Places
        /\ d = [at |-> d.at, receipt |-> d.receipt, dataset |-> d.dataset, placed |-> d.placed]
    BY <2>2, <2>3
  <2>5. RunAt(d)
    BY <2>4 DEF RunAt, Stages, Early, Underway
  <2>6. RunAt(d)'
    BY <2>5 DEF RunAt
  <2>7. QED
    BY <2>3, <2>6
<1>4. ASSUME NEW p \in Opener \ {o} PROVE RunAt(runs[p])'
  BY <1>1 DEF RunAt
<1>5. \A p \in Opener : Runs(runs'[p]) => Runs(runs[p])
  BY <1>1 DEF Runs
<1>6. AloneInv' /\ OnceInv' /\ BothInv' /\ SealedInv'
  BY <1>1, <1>5 DEF AloneInv, OnceInv, BothInv, SealedInv, Sealed
<1>7. QED
  BY <1>1, <1>3, <1>4, <1>6

-----------------------------------------------------------------------------
(* The opening *)

\* The frame of a move of one run.
LEMMA MoveFrame ==
    ASSUME HoldoutInv, NEW o \in Opener, NEW from, NEW run, Moves(o, from, run), RunAt(run)
    PROVE  /\ runs'[o] = run /\ \A p \in Opener \ {o} : runs'[p] = runs[p]
           /\ DOMAIN runs' = Opener /\ \A p \in Opener : RunAt(runs[p])'
           /\ marks \subseteq marks' /\ AloneInv'
           /\ Runs(run) /\ "met" \notin marks' => \A p \in Opener \ {o} : ~Runs(runs[p])
<1> USE DEF HoldoutInv, Moves
<1>1. runs'[o] = run /\ DOMAIN runs' = Opener /\ \A p \in Opener \ {o} : runs'[p] = runs[p]
  BY DEF HoldoutTypeInv
<1>2. \A p \in Opener : RunAt(runs[p])'
  BY <1>1 DEF RunAt
<1>3. Runs(run) /\ "met" \notin marks' => \A p \in Opener \ {o} : ~Runs(runs[p])
  OBVIOUS
<1>4. AloneInv'
  <2>1. SUFFICES ASSUME "met" \notin marks', NEW p \in Opener, NEW q \in Opener,
                        Runs(runs'[p]), Runs(runs'[q])
                 PROVE  p = q
    BY DEF AloneInv, Runs
  <2>2. "met" \notin marks
    BY <2>1
  <2>3. CASE p = o \/ q = o
    BY <1>1, <1>3, <2>1, <2>3
  <2>4. CASE p # o /\ q # o
    BY <1>1, <2>1, <2>2, <2>4 DEF AloneInv
  <2>5. QED
    BY <2>3, <2>4
<1>5. QED
  BY <1>1, <1>2, <1>3, <1>4

\* A move that writes nothing.
LEMMA ReadKeeps ==
    ASSUME HoldoutInv, NEW o \in Opener, NEW from, NEW run, Moves(o, from, run), RunAt(run),
           UNCHANGED <<opened, openings>>,
           marks = {} /\ openings # {} => ~Runs(run),
           BothInv /\ "met" \notin marks /\ (\A p \in Opener : runs[p].at # "dead") =>
             /\ Finds(run)
             /\ ~Runs(run) /\ (\A p \in Opener \ {o} : ~Runs(runs[p])) =>
                  (opened["holdout"] = Absent <=> opened["receipt"] = Absent),
           runs[o].at # "dead"
    PROVE  HoldoutInv'
<1> USE DEF HoldoutInv
<1>1. /\ runs'[o] = run /\ \A p \in Opener \ {o} : runs'[p] = runs[p]
      /\ DOMAIN runs' = Opener /\ \A p \in Opener : RunAt(runs[p])'
      /\ marks \subseteq marks' /\ AloneInv'
  BY MoveFrame
<1>2. HoldoutTypeInv' /\ SealedInv'
  BY <1>1 DEF HoldoutTypeInv, SealedInv, Sealed, Moves
<1>3. OnceInv'
  <2>1. SUFFICES ASSUME marks' = {} PROVE OnceInv'
    BY DEF OnceInv
  <2>2. marks = {}
    BY <1>1, <2>1
  <2>3. openings # {} => \A p \in Opener : ~Runs(runs'[p])
    BY <1>1, <2>2 DEF OnceInv
  <2>4. QED
    BY <2>2, <2>3 DEF OnceInv, Moves, Runs
<1>4. BothInv'
  <2>1. SUFFICES ASSUME "met" \notin marks', \A p \in Opener : runs'[p].at # "dead"
                 PROVE  /\ \A p \in Opener : Finds(runs'[p])
                        /\ (\A p \in Opener : ~Runs(runs'[p])) =>
                             (opened["holdout"] = Absent <=> opened["receipt"] = Absent)
    BY DEF BothInv, Finds, Runs
  <2>2. "met" \notin marks /\ \A p \in Opener : runs[p].at # "dead"
    BY <1>1, <2>1
  <2>3. QED
    BY <1>1, <2>2 DEF BothInv
<1>5. QED
  BY <1>1, <1>2, <1>3, <1>4

\* A run at another place, with what it had.
At(run, at) == [at |-> at, receipt |-> run.receipt, dataset |-> run.dataset, placed |-> run.placed]

LEMMA GoesIsMove ==
    ASSUME NEW o, NEW from, NEW good \in BOOLEAN, NEW to, Goes(o, from, good, to),
           runs[o] = At(runs[o], runs[o].at)
    PROVE  /\ Moves(o, from, At(runs[o], IF good THEN to ELSE "refused"))
           /\ runs[o].at = from /\ UNCHANGED <<opened, openings>>
<1>1. PICK r : r = runs[o]
  OBVIOUS
<1>2. [r EXCEPT !.at = IF good THEN to ELSE "refused"] = At(r, IF good THEN to ELSE "refused")
  BY <1>1 DEF At
<1>3. Moves(o, from, At(runs[o], IF good THEN to ELSE "refused"))
  BY <1>1, <1>2 DEF Goes
<1>4. QED
  BY <1>3 DEF Goes, Moves

\* The reads up to the placing, and the look at each destination.
LEMMA ChecksKeep ==
    ASSUME HoldoutInv, NEW o \in Opener,
           CheckRepository(o) \/ LoadManifest(o) \/ VerifyInputs(o)
    PROVE  HoldoutInv'
<1> DEFINE r == runs[o]
<1>1. RunAt(r)
  BY DEF HoldoutInv
<1>2. r = At(r, r.at) /\ r.placed \subseteq Places
  BY <1>1 DEF RunAt, At
<1>3. CASE CheckRepository(o)
  <2> DEFINE good == repo.clean /\ IsUnopened
             run  == At(r, IF good THEN "manifest" ELSE "refused")
  <2>1. Moves(o, "idle", run) /\ r.at = "idle" /\ UNCHANGED <<opened, openings>>
    BY <1>2, <1>3, GoesIsMove DEF CheckRepository
  <2>2. r.placed = {}
    BY <1>1, <2>1 DEF RunAt, Early
  <2>3. RunAt(run)
    BY <2>2 DEF At, RunAt, Stages, Early, Underway
  <2>4. marks = {} /\ openings # {} => ~Runs(run)
    <3>1. marks = {} /\ openings # {} => ~IsUnopened
      BY DEF HoldoutInv, OnceInv, IsUnopened, HoldoutTypeInv, Places
    <3>2. QED
      BY <2>2, <3>1 DEF At, Runs
  <2>5. Finds(run)
    BY <2>2 DEF At, Finds, IsUnopened, HoldoutInv, HoldoutTypeInv, Places, Early
  <2>6. BothInv /\ "met" \notin marks /\ (\A p \in Opener : runs[p].at # "dead") =>
          (~Runs(run) /\ (\A p \in Opener \ {o} : ~Runs(runs[p])) =>
             (opened["holdout"] = Absent <=> opened["receipt"] = Absent))
    <3>1. ~Runs(r)
      BY <2>1 DEF Runs
    <3>2. QED
      BY <3>1 DEF BothInv
  <2>7. QED
    BY <2>1, <2>3, <2>4, <2>5, <2>6, ReadKeeps
<1>4. CASE LoadManifest(o)
  <2> DEFINE run == At(r, IF repo.seal # Absent THEN "inputs" ELSE "refused")
  <2>1. Moves(o, "manifest", run) /\ r.at = "manifest" /\ UNCHANGED <<opened, openings>>
    BY <1>2, <1>4, GoesIsMove DEF LoadManifest
  <2>2. r.placed = {} /\ Runs(r)
    BY <1>1, <2>1 DEF RunAt, Early, Runs
  <2>3. RunAt(run)
    BY <2>2 DEF At, RunAt, Stages, Early, Underway
  <2>4. marks = {} => openings = {}
    BY <2>2 DEF HoldoutInv, OnceInv
  <2>5. BothInv /\ "met" \notin marks /\ (\A p \in Opener : runs[p].at # "dead") =>
          opened["holdout"] = Absent /\ opened["receipt"] = Absent
    BY <2>1 DEF BothInv, Finds, Early
  <2>6. opened["holdout"] = Absent /\ opened["receipt"] = Absent => Finds(run)
    BY <2>2 DEF At, Finds
  <2>7. QED
    BY <2>1, <2>3, <2>4, <2>5, <2>6, ReadKeeps
<1>5. CASE VerifyInputs(o)
  <2> DEFINE run == At(r, IF repo.inputs = repo.seal.inputs THEN "receipt" ELSE "refused")
  <2>1. Moves(o, "inputs", run) /\ r.at = "inputs" /\ UNCHANGED <<opened, openings>>
    BY <1>2, <1>5, GoesIsMove DEF VerifyInputs
  <2>2. r.placed = {} /\ Runs(r) /\ repo.seal # Absent
    BY <1>1, <2>1 DEF RunAt, Early, Runs, Underway, Stages
  <2>3. RunAt(run)
    BY <2>2 DEF At, RunAt, Stages, Early, Underway
  <2>4. marks = {} => openings = {}
    BY <2>2 DEF HoldoutInv, OnceInv
  <2>5. BothInv /\ "met" \notin marks /\ (\A p \in Opener : runs[p].at # "dead") =>
          opened["holdout"] = Absent /\ opened["receipt"] = Absent
    BY <2>1 DEF BothInv, Finds, Early
  <2>6. opened["holdout"] = Absent /\ opened["receipt"] = Absent => Finds(run)
    BY <2>2 DEF At, Finds
  <2>7. QED
    BY <2>1, <2>3, <2>4, <2>5, <2>6, ReadKeeps
<1>6. QED
  BY <1>3, <1>4, <1>5

LEMMA AtField ==
    ASSUME NEW r, NEW at, r = At(r, r.at)
    PROVE  [r EXCEPT !.at = at] = At(r, at)
  BY DEF At

\* A record that is read into, and moved on.
LEMMA ReceiptOnto ==
    ASSUME NEW r, NEW at, NEW read, r = At(r, r.at)
    PROVE  [r EXCEPT !.receipt = read, !.at = at]
             = [at |-> at, receipt |-> read, dataset |-> r.dataset, placed |-> r.placed]
<1>1. r = [at |-> r.at, receipt |-> r.receipt, dataset |-> r.dataset, placed |-> r.placed]
  BY DEF At
<1>2. PICK q : q = [r EXCEPT !.receipt = read]
  OBVIOUS
<1>3. /\ q.at = r.at
      /\ q.receipt = read /\ q.dataset = r.dataset /\ q.placed = r.placed
  BY <1>1, <1>2
<1>4. q = [at |-> r.at, receipt |-> read, dataset |-> r.dataset, placed |-> r.placed]
  BY <1>1, <1>2
<1>5. q = At(q, q.at)
  BY <1>3, <1>4 DEF At
<1>6. [q EXCEPT !.at = at] = At(q, at)
  BY <1>5, AtField
<1>7. [r EXCEPT !.receipt = read, !.at = at] = [[r EXCEPT !.receipt = read] EXCEPT !.at = at]
  BY <1>1, SMT
<1>8. QED
  BY <1>2, <1>3, <1>6, <1>7 DEF At

LEMMA DatasetOnto ==
    ASSUME NEW r, NEW at, NEW read, r = At(r, r.at)
    PROVE  [r EXCEPT !.dataset = read, !.at = at]
             = [at |-> at, receipt |-> r.receipt, dataset |-> read, placed |-> r.placed]
<1>1. r = [at |-> r.at, receipt |-> r.receipt, dataset |-> r.dataset, placed |-> r.placed]
  BY DEF At
<1>2. PICK q : q = [r EXCEPT !.dataset = read]
  OBVIOUS
<1>3. /\ q.at = r.at
      /\ q.receipt = r.receipt /\ q.dataset = read /\ q.placed = r.placed
  BY <1>1, <1>2
<1>4. q = [at |-> r.at, receipt |-> r.receipt, dataset |-> read, placed |-> r.placed]
  BY <1>1, <1>2
<1>5. q = At(q, q.at)
  BY <1>3, <1>4 DEF At
<1>6. [q EXCEPT !.at = at] = At(q, at)
  BY <1>5, AtField
<1>7. [r EXCEPT !.dataset = read, !.at = at] = [[r EXCEPT !.dataset = read] EXCEPT !.at = at]
  BY <1>1, SMT
<1>8. QED
  BY <1>2, <1>3, <1>6, <1>7 DEF At

LEMMA PlacedOnto ==
    ASSUME NEW r, NEW at, NEW read, r = At(r, r.at)
    PROVE  [r EXCEPT !.at = at, !.placed = read]
             = [at |-> at, receipt |-> r.receipt, dataset |-> r.dataset, placed |-> read]
<1>1. r = [at |-> r.at, receipt |-> r.receipt, dataset |-> r.dataset, placed |-> r.placed]
  BY DEF At
<1>2. PICK q : q = [r EXCEPT !.at = at]
  OBVIOUS
<1>3. q = At(r, at)
  BY <1>2, AtField
<1>4. q.at = at /\ q.receipt = r.receipt /\ q.dataset = r.dataset
  BY <1>3 DEF At
<1>5. q = [at |-> q.at, receipt |-> q.receipt, dataset |-> q.dataset, placed |-> q.placed]
  BY <1>3 DEF At
<1>6. [q EXCEPT !.placed = read]
        = [at |-> q.at, receipt |-> q.receipt, dataset |-> q.dataset, placed |-> read]
  BY <1>5
<1>7. [r EXCEPT !.at = at, !.placed = read] = [[r EXCEPT !.at = at] EXCEPT !.placed = read]
  BY <1>1, SMT
<1>8. QED
  BY <1>2, <1>4, <1>6, <1>7

LEMMA VerifiesKeep ==
    ASSUME HoldoutInv, NEW o \in Opener, VerifyReceipt(o) \/ VerifyHoldout(o)
    PROVE  HoldoutInv'
<1>1. RunAt(runs[o])
  BY DEF HoldoutInv
<1>2. PICK r : r = runs[o]
  OBVIOUS
<1>3. r = At(r, r.at) /\ r.placed \subseteq Places
  BY <1>1, <1>2 DEF RunAt, At
<1>4. CASE VerifyReceipt(o)
  <2> DEFINE run == [at |-> IF outside.receipt = repo.seal.receipt THEN "dataset" ELSE "refused",
                     receipt |-> outside.receipt, dataset |-> r.dataset, placed |-> r.placed]
  <2>1. PICK s : s = IF outside.receipt = repo.seal.receipt THEN "dataset" ELSE "refused"
    OBVIOUS
  <2>a. PICK w : w = outside.receipt
    OBVIOUS
  <2>b. [r EXCEPT !.receipt = w, !.at = s]
          = [at |-> s, receipt |-> w, dataset |-> r.dataset, placed |-> r.placed]
    BY <1>3, ReceiptOnto, Zenon
  <2>c. Moves(o, "receipt", [r EXCEPT !.receipt = w, !.at = s]) /\ UNCHANGED <<opened, openings>>
    BY <1>2, <1>4, <2>1, <2>a DEF VerifyReceipt
  <2>d. Moves(o, "receipt", run)
    BY <2>1, <2>a, <2>b, <2>c
  <2>2. Moves(o, "receipt", run) /\ r.at = "receipt" /\ UNCHANGED <<opened, openings>>
    BY <1>2, <2>c, <2>d DEF Moves
  <2>3. r.placed = {} /\ Runs(r) /\ repo.seal # Absent
    BY <1>1, <1>2, <2>2 DEF RunAt, Early, Runs, Underway, Stages
  <2>4. RunAt(run)
    BY <2>3 DEF RunAt, Stages, Early, Underway
  <2>5. marks = {} => openings = {}
    BY <1>2, <2>3 DEF HoldoutInv, OnceInv
  <2>6. BothInv /\ "met" \notin marks /\ (\A p \in Opener : runs[p].at # "dead") =>
          opened["holdout"] = Absent /\ opened["receipt"] = Absent
    BY <1>2, <2>2 DEF BothInv, Finds, Early
  <2>7. opened["holdout"] = Absent /\ opened["receipt"] = Absent => Finds(run)
    BY <2>3 DEF Finds
  <2>8. QED
    BY <1>2, <2>2, <2>4, <2>5, <2>6, <2>7, ReadKeeps
<1>5. CASE VerifyHoldout(o)
  <2> DEFINE run == [at |-> IF outside.dataset = repo.seal.dataset /\ outside.dataset \in Valid
                            THEN "check 1" ELSE "refused",
                     receipt |-> r.receipt, dataset |-> outside.dataset, placed |-> r.placed]
  <2>1. PICK s : s = IF outside.dataset = repo.seal.dataset /\ outside.dataset \in Valid
                     THEN "check 1" ELSE "refused"
    OBVIOUS
  <2>a. PICK w : w = outside.dataset
    OBVIOUS
  <2>b. [r EXCEPT !.dataset = w, !.at = s]
          = [at |-> s, receipt |-> r.receipt, dataset |-> w, placed |-> r.placed]
    BY <1>3, DatasetOnto, Zenon
  <2>c. Moves(o, "dataset", [r EXCEPT !.dataset = w, !.at = s]) /\ UNCHANGED <<opened, openings>>
    BY <1>2, <1>5, <2>1, <2>a DEF VerifyHoldout
  <2>d. Moves(o, "dataset", run)
    BY <2>1, <2>a, <2>b, <2>c
  <2>2. Moves(o, "dataset", run) /\ r.at = "dataset" /\ UNCHANGED <<opened, openings>>
    BY <1>2, <2>c, <2>d DEF Moves
  <2>3. r.placed = {} /\ Runs(r) /\ repo.seal # Absent /\ r.receipt = repo.seal.receipt
    BY <1>1, <1>2, <2>2 DEF RunAt, Early, Runs, Underway, Stages
  <2>4. RunAt(run)
    BY <2>3 DEF RunAt, Stages, Early, Underway
  <2>5. marks = {} => openings = {}
    BY <1>2, <2>3 DEF HoldoutInv, OnceInv
  <2>6. BothInv /\ "met" \notin marks /\ (\A p \in Opener : runs[p].at # "dead") =>
          opened["holdout"] = Absent /\ opened["receipt"] = Absent
    BY <1>2, <2>2 DEF BothInv, Finds, Early
  <2>7. opened["holdout"] = Absent /\ opened["receipt"] = Absent => Finds(run)
    BY <2>3 DEF Finds
  <2>8. QED
    BY <1>2, <2>2, <2>4, <2>5, <2>6, <2>7, ReadKeeps
<1>6. QED
  BY <1>4, <1>5

LEMMA LooksKeep ==
    ASSUME HoldoutInv, NEW o \in Opener, NEW n \in 1..2, CheckAbsent(o, n)
    PROVE  HoldoutInv'
<1>1. RunAt(runs[o])
  BY DEF HoldoutInv
<1>2. PICK r : r = runs[o]
  OBVIOUS
<1>3. r = At(r, r.at) /\ r.placed \subseteq Places
  BY <1>1, <1>2 DEF RunAt, At
<1>4. CASE n = 1
  <2> DEFINE run == At(r, IF opened["holdout"] = Absent THEN "place 1" ELSE "refused")
  <2>1. Goes(o, "check 1", opened["holdout"] = Absent, "place 1")
    BY <1>4 DEF CheckAbsent, Destinations
  <2>2. Moves(o, "check 1", run) /\ r.at = "check 1" /\ UNCHANGED <<opened, openings>>
    BY <1>2, <1>3, <2>1, GoesIsMove
  <2>3. /\ r.placed = {} /\ Runs(r) /\ repo.seal # Absent
        /\ r.receipt = repo.seal.receipt /\ r.dataset = repo.seal.dataset
    BY <1>1, <1>2, <2>2 DEF RunAt, Early, Runs, Underway, Stages
  <2>4. RunAt(run)
    BY <2>3 DEF At, RunAt, Stages, Early, Underway
  <2>5. marks = {} => openings = {}
    BY <1>2, <2>3 DEF HoldoutInv, OnceInv
  <2>6. BothInv /\ "met" \notin marks /\ (\A p \in Opener : runs[p].at # "dead") =>
          opened["holdout"] = Absent /\ opened["receipt"] = Absent
    BY <1>2, <2>2 DEF BothInv, Finds, Early
  <2>7. opened["holdout"] = Absent /\ opened["receipt"] = Absent => Finds(run)
    BY <2>3 DEF At, Finds
  <2>8. QED
    BY <1>2, <2>2, <2>4, <2>5, <2>6, <2>7, ReadKeeps
<1>5. CASE n = 2
  <2> DEFINE run == At(r, IF opened["receipt"] = Absent THEN "place 2" ELSE "refused")
  <2>1. Goes(o, "check 2", opened["receipt"] = Absent, "place 2")
    BY <1>5 DEF CheckAbsent, Destinations
  <2>2. Moves(o, "check 2", run) /\ r.at = "check 2" /\ UNCHANGED <<opened, openings>>
    BY <1>2, <1>3, <2>1, GoesIsMove
  <2>3. /\ Runs(r) /\ repo.seal # Absent
        /\ r.receipt = repo.seal.receipt /\ r.dataset = repo.seal.dataset
    BY <1>1, <1>2, <2>2 DEF RunAt, Early, Runs, Underway, Stages
  <2>4. RunAt(run)
    BY <1>3, <2>3 DEF At, RunAt, Stages, Early, Underway
  <2>5. marks = {} => openings = {}
    BY <1>2, <2>3 DEF HoldoutInv, OnceInv
  <2>6. BothInv /\ "met" \notin marks /\ (\A p \in Opener : runs[p].at # "dead") =>
          opened["holdout"] # Absent /\ opened["receipt"] = Absent
    BY <1>2, <2>2 DEF BothInv, Finds
  <2>7. opened["holdout"] # Absent /\ opened["receipt"] = Absent => Finds(run) /\ Runs(run)
    BY DEF At, Finds, Runs, Early
  <2>8. QED
    BY <1>2, <2>2, <2>4, <2>5, <2>6, <2>7, ReadKeeps
<1>6. QED
  BY <1>4, <1>5

\* A move that writes: the run was under way, so that it is the only one until two met.
LEMMA WriteKeeps ==
    ASSUME HoldoutInv, NEW o \in Opener, NEW from, NEW run, Moves(o, from, run), RunAt(run),
           Runs(runs[o]), DOMAIN opened' = Places, SealedInv', openings' \subseteq Opener,
           marks' = {} =>
             /\ \A p, q \in openings' : p = q
             /\ openings' # {} => ~Runs(run) /\ \A d \in Places : opened'[d] # Absent \/ d \in repo.history,
           "met" \notin marks /\ Finds(runs[o]) =>
             /\ Finds(run)'
             /\ ~Runs(run) => (opened'["holdout"] = Absent <=> opened'["receipt"] = Absent)
    PROVE  HoldoutInv'
<1> USE DEF HoldoutInv
<1>1. /\ runs'[o] = run /\ \A p \in Opener \ {o} : runs'[p] = runs[p]
      /\ DOMAIN runs' = Opener /\ \A p \in Opener : RunAt(runs[p])'
      /\ marks \subseteq marks' /\ AloneInv'
  BY MoveFrame
<1>2. HoldoutTypeInv'
  BY <1>1 DEF HoldoutTypeInv, Moves
<1>3. "met" \notin marks' => "met" \notin marks /\ \A p \in Opener \ {o} : ~Runs(runs[p])
  BY <1>1 DEF AloneInv
<1>4. OnceInv'
  <2>1. SUFFICES ASSUME marks' = {} PROVE OnceInv'
    BY DEF OnceInv
  <2>2. openings' # {} => \A p \in Opener : ~Runs(runs'[p])
    BY <1>1, <1>3, <2>1
  <2>3. QED
    BY <2>1, <2>2 DEF OnceInv, Moves, Runs
<1>5. BothInv'
  <2>1. SUFFICES ASSUME "met" \notin marks', \A p \in Opener : runs'[p].at # "dead"
                 PROVE  /\ \A p \in Opener : Finds(runs[p])'
                        /\ (\A p \in Opener : ~Runs(runs'[p])) =>
                             (opened'["holdout"] = Absent <=> opened'["receipt"] = Absent)
    BY DEF BothInv, Runs
  <2>2. "met" \notin marks /\ \A p \in Opener : runs[p].at # "dead"
    BY <1>1, <1>3, <2>1 DEF Runs
  <2>3. Finds(runs[o])
    BY <2>2 DEF BothInv
  <2>4. Finds(run)' /\ (~Runs(run) => (opened'["holdout"] = Absent <=> opened'["receipt"] = Absent))
    BY <2>2, <2>3
  <2>5. ASSUME NEW p \in Opener \ {o} PROVE Finds(runs[p])'
    <3>1. ~Runs(runs'[p]) /\ runs'[p].at # "dead"
      BY <1>1, <1>3, <2>1
    <3>2. PICK q : q = runs'[p]
      OBVIOUS
    <3>3. Finds(q)'
      BY <3>1, <3>2 DEF Finds, Runs, Early
    <3>4. QED
      BY <3>2, <3>3 DEF Finds
  <2>6. Finds(runs[o])'
    BY <1>1, <2>4 DEF Finds
  <2>7. QED
    BY <1>1, <2>4, <2>5, <2>6
<1>6. QED
  BY <1>1, <1>2, <1>4, <1>5

\* What was sealed is there.
LEMMA SealIsThere ==
    ASSUME HoldoutTypeInv, repo.seal # Absent, NEW d \in Places
    PROVE  Sealed(d) # Absent
  BY HoldoutAssumption DEF HoldoutTypeInv, Seals, Sealed, Places

LEMMA PlaceKeeps ==
    ASSUME HoldoutInv, NEW o \in Opener, NEW n \in 1..2, Place(o, n)
    PROVE  HoldoutInv'
<1>1. RunAt(runs[o]) /\ HoldoutTypeInv
  BY DEF HoldoutInv
<1>2. PICK r : r = runs[o]
  OBVIOUS
<1>3. r = At(r, r.at) /\ r.placed \subseteq Places
  BY <1>1, <1>2 DEF RunAt, At
<1>4. CASE n = 1
  <2> DEFINE run == [at |-> "check 2", receipt |-> r.receipt, dataset |-> r.dataset,
                     placed |-> r.placed \cup {"holdout"}]
  <2>1. PICK w : w = r.placed \cup {"holdout"}
    OBVIOUS
  <2>2. [r EXCEPT !.at = "check 2", !.placed = w]
          = [at |-> "check 2", receipt |-> r.receipt, dataset |-> r.dataset, placed |-> w]
    BY <1>3, PlacedOnto, Zenon
  <2>3. /\ Moves(o, "place 1", [r EXCEPT !.at = "check 2", !.placed = w])
        /\ opened' = [opened EXCEPT !["holdout"] = r.dataset] /\ UNCHANGED openings
    BY <1>2, <1>4, <2>1 DEF Place, Destinations, Bytes
  <2>4. Moves(o, "place 1", run)
    BY <2>1, <2>2, <2>3
  <2>5. r.at = "place 1" /\ UNCHANGED repo
    BY <1>2, <2>4 DEF Moves
  <2>6. /\ Runs(r) /\ repo.seal # Absent /\ r.placed = {}
        /\ r.receipt = repo.seal.receipt /\ r.dataset = repo.seal.dataset
    BY <1>1, <1>2, <2>5 DEF RunAt, Early, Runs, Underway, Stages
  <2>7. RunAt(run)
    BY <1>3, <2>6 DEF RunAt, Stages, Early, Underway, Places
  <2>8. /\ DOMAIN opened' = Places /\ opened'["holdout"] = repo.seal.dataset
        /\ opened'["receipt"] = opened["receipt"]
    BY <1>1, <2>3, <2>6 DEF HoldoutTypeInv, Places
  <2>9. SealedInv'
    BY <2>5, <2>6, <2>8 DEF HoldoutInv, SealedInv, Sealed, Places
  <2>10. marks = {} => openings' = {}
    BY <1>2, <2>3, <2>6 DEF HoldoutInv, OnceInv
  <2>11. repo.seal.dataset # Absent
    BY <1>1, <2>6, SealIsThere DEF Sealed, Places
  <2>12. Finds(r) => Finds(run)' /\ Runs(run)
    BY <2>5, <2>8, <2>11 DEF Finds, Runs, Early
  <2>13. openings' \subseteq Opener /\ (marks' = {} => openings' = {})
    BY <1>1, <2>3, <2>4, <2>10 DEF HoldoutTypeInv, Moves
  <2>14. QED
    BY <1>2, <2>4, <2>6, <2>7, <2>8, <2>9, <2>12, <2>13, WriteKeeps
<1>5. CASE n = 2
  <2> DEFINE run == [at |-> "verify", receipt |-> r.receipt, dataset |-> r.dataset,
                     placed |-> r.placed \cup {"receipt"}]
  <2>1. PICK w : w = r.placed \cup {"receipt"}
    OBVIOUS
  <2>2. [r EXCEPT !.at = "verify", !.placed = w]
          = [at |-> "verify", receipt |-> r.receipt, dataset |-> r.dataset, placed |-> w]
    BY <1>3, PlacedOnto, Zenon
  <2>3. /\ Moves(o, "place 2", [r EXCEPT !.at = "verify", !.placed = w])
        /\ opened' = [opened EXCEPT !["receipt"] = r.receipt] /\ UNCHANGED openings
    BY <1>2, <1>5, <2>1 DEF Place, Destinations, Bytes
  <2>4. Moves(o, "place 2", run)
    BY <2>1, <2>2, <2>3
  <2>5. r.at = "place 2" /\ UNCHANGED repo
    BY <1>2, <2>4 DEF Moves
  <2>6. /\ Runs(r) /\ repo.seal # Absent
        /\ r.receipt = repo.seal.receipt /\ r.dataset = repo.seal.dataset
    BY <1>1, <1>2, <2>5 DEF RunAt, Early, Runs, Underway, Stages
  <2>7. RunAt(run)
    BY <1>3, <2>6 DEF RunAt, Stages, Early, Underway, Places
  <2>8. /\ DOMAIN opened' = Places /\ opened'["receipt"] = repo.seal.receipt
        /\ opened'["holdout"] = opened["holdout"]
    BY <1>1, <2>3, <2>6 DEF HoldoutTypeInv, Places
  <2>9. SealedInv'
    BY <2>5, <2>6, <2>8 DEF HoldoutInv, SealedInv, Sealed, Places
  <2>10. marks = {} => openings' = {}
    BY <1>2, <2>3, <2>6 DEF HoldoutInv, OnceInv
  <2>11. repo.seal.receipt # Absent
    BY <1>1, <2>6, SealIsThere DEF Sealed, Places
  <2>12. Finds(r) => Finds(run)' /\ Runs(run)
    BY <2>5, <2>8, <2>11 DEF Finds, Runs, Early
  <2>13. openings' \subseteq Opener /\ (marks' = {} => openings' = {})
    BY <1>1, <2>3, <2>4, <2>10 DEF HoldoutTypeInv, Moves
  <2>14. QED
    BY <1>2, <2>4, <2>6, <2>7, <2>8, <2>9, <2>12, <2>13, WriteKeeps
<1>6. QED
  BY <1>4, <1>5

\* A run that finds both files as they were sealed reports success, and none did before it.
LEMMA ConfirmKeeps ==
    ASSUME HoldoutInv, NEW o \in Opener, Confirm(o)
    PROVE  HoldoutInv'
<1> DEFINE good == \A d \in DOMAIN opened : opened[d] = Sealed(d)
<1>1. RunAt(runs[o]) /\ HoldoutTypeInv
  BY DEF HoldoutInv
<1>2. PICK r : r = runs[o]
  OBVIOUS
<1>3. r = At(r, r.at) /\ r.placed \subseteq Places
  BY <1>1, <1>2 DEF RunAt, At
<1>4. PICK s : s = IF good THEN "done" ELSE "refused"
  OBVIOUS
<1>5. [r EXCEPT !.at = s] = At(r, s)
  BY <1>3, AtField
<1>6. Moves(o, "verify", [r EXCEPT !.at = s]) /\ UNCHANGED opened
  BY <1>2, <1>4 DEF Confirm
<1>7. Moves(o, "verify", At(r, s))
  BY <1>5, <1>6
<1>8. openings' = IF good THEN openings \cup {o} ELSE openings
  BY DEF Confirm
<1>9. r.at = "verify" /\ UNCHANGED repo /\ marks \subseteq marks'
  BY <1>2, <1>7 DEF Moves
<1>10. Runs(r) /\ repo.seal # Absent
  BY <1>1, <1>2, <1>9 DEF RunAt, Early, Runs, Underway, Stages
<1>11. RunAt(At(r, s))
  BY <1>3, <1>4 DEF RunAt, At, Stages, Early, Underway, Places
<1>12. DOMAIN opened' = Places /\ SealedInv'
  BY <1>1, <1>6, <1>9 DEF HoldoutInv, HoldoutTypeInv, SealedInv, Sealed
<1>13. marks = {} => openings = {}
  BY <1>2, <1>10 DEF HoldoutInv, OnceInv
<1>14. CASE good
  <2>1. s = "done" /\ openings' = openings \cup {o}
    BY <1>4, <1>8, <1>14
  <2>2. \A d \in Places : opened'[d] # Absent
    BY <1>1, <1>6, <1>10, <1>14, SealIsThere DEF HoldoutTypeInv
  <2>3. Finds(At(r, s))' /\ ~Runs(At(r, s)) /\ opened'["holdout"] # Absent /\ opened'["receipt"] # Absent
    BY <2>1, <2>2 DEF Finds, Runs, At, Early, Places
  <2>4. marks' = {} => openings' = {o}
    BY <1>9, <1>13, <2>1
  <2>5. openings' \subseteq Opener
    BY <1>1, <2>1 DEF HoldoutTypeInv
  <2>6. QED
    BY <1>2, <1>7, <1>10, <1>11, <1>12, <2>2, <2>3, <2>4, <2>5, WriteKeeps
<1>15. CASE ~good
  <2>1. s = "refused" /\ openings' = openings
    BY <1>4, <1>8, <1>15
  <2>2. ~Finds(r)
    BY <1>1, <1>9, <1>15 DEF Finds, HoldoutInv, SealedInv, HoldoutTypeInv, Places
  <2>3. (marks' = {} => openings' = {}) /\ openings' \subseteq Opener
    BY <1>1, <1>9, <1>13, <2>1 DEF HoldoutTypeInv
  <2>4. QED
    BY <1>2, <1>7, <1>10, <1>11, <1>12, <2>2, <2>3, WriteKeeps
<1>16. QED
  BY <1>14, <1>15

\* A refused run that nobody met takes everything away that is there.
LEMMA CleanUpKeeps ==
    ASSUME HoldoutInv, NEW o \in Opener, CleanUp(o)
    PROVE  HoldoutInv'
<1>1. RunAt(runs[o]) /\ HoldoutTypeInv
  BY DEF HoldoutInv
<1>2. PICK r : r = runs[o]
  OBVIOUS
<1> DEFINE run == [at |-> r.at, receipt |-> r.receipt, dataset |-> r.dataset, placed |-> {}]
<1>3. r = [at |-> r.at, receipt |-> r.receipt, dataset |-> r.dataset, placed |-> r.placed]
  BY <1>1, <1>2 DEF RunAt
<1>4. [r EXCEPT !.placed = {}] = run
  BY <1>3
<1>5. Moves(o, "refused", run)
  BY <1>2, <1>4 DEF CleanUp
<1>6. /\ r.placed # {} /\ UNCHANGED openings
      /\ opened' = [d \in DOMAIN opened |-> IF d \in r.placed THEN Absent ELSE opened[d]]
  BY <1>2 DEF CleanUp
<1>7. r.at = "refused" /\ UNCHANGED repo /\ marks \subseteq marks'
  BY <1>2, <1>5 DEF Moves
<1>8. Runs(r) /\ ~Runs(run)
  BY <1>6, <1>7 DEF Runs
<1>9. RunAt(run)
  BY <1>7 DEF RunAt, Stages, Early, Underway
<1>10. DOMAIN opened' = Places /\ \A d \in Places : opened'[d] # Absent => opened'[d] = opened[d] /\ d \notin r.placed
  BY <1>1, <1>6 DEF HoldoutTypeInv
<1>11. SealedInv'
  BY <1>7, <1>10 DEF HoldoutInv, SealedInv, Sealed
<1>12. marks = {} => openings = {}
  BY <1>2, <1>8 DEF HoldoutInv, OnceInv
<1>13. Finds(r) => Finds(run)' /\ opened'["holdout"] = Absent /\ opened'["receipt"] = Absent
  BY <1>6, <1>7, <1>10 DEF Finds, Early, Places
<1>14. (marks' = {} => openings' = {}) /\ openings' \subseteq Opener
  BY <1>1, <1>6, <1>7, <1>12 DEF HoldoutTypeInv
<1>15. QED
  BY <1>2, <1>5, <1>8, <1>9, <1>10, <1>11, <1>13, <1>14, WriteKeeps

-----------------------------------------------------------------------------
LEMMA HoldoutStarts == HoldoutInit => HoldoutInv
<1>1. SUFFICES ASSUME HoldoutInit PROVE HoldoutInv
  OBVIOUS
<1>2. HoldoutTypeInv
  BY <1>1 DEF HoldoutInit, HoldoutTypeInv, Places
<1>3. \A o \in Opener : runs[o] = Idle
  BY <1>1 DEF HoldoutInit
<1>4. RunAt(Idle)
  BY DEF RunAt, Idle, Stages, Early, Underway
<1>5. ~Runs(Idle) /\ Finds(Idle)
  BY DEF Runs, Finds, Idle, Early
<1>6. SealedInv /\ AloneInv /\ OnceInv /\ BothInv
  BY <1>1, <1>3, <1>5 DEF HoldoutInit, SealedInv, AloneInv, OnceInv, BothInv, Places
<1>7. QED
  BY <1>2, <1>3, <1>4, <1>6 DEF HoldoutInv

LEMMA HoldoutStep == HoldoutInv /\ [HoldoutNext]_holdoutVars => HoldoutInv'
<1>1. SUFFICES ASSUME HoldoutInv, [HoldoutNext]_holdoutVars PROVE HoldoutInv'
  OBVIOUS
<1>2. CASE UNCHANGED holdoutVars
  <2>1. HoldoutTypeInv'
    BY <1>1, <1>2 DEF HoldoutInv, HoldoutTypeInv, holdoutVars
  <2>2. QED
    BY <1>1, <1>2, <2>1, PeopleKeep DEF HoldoutInv, HoldoutTypeInv, holdoutVars
<1>3. ASSUME NEW d \in Dataset, Write(d) PROVE HoldoutInv'
  BY <1>1, <1>3, WriteFileKeeps
<1>4. ASSUME NEW bundle \in {Frozen, Frozen + 1}, BuildReceipt(bundle) PROVE HoldoutInv'
  BY <1>1, <1>4, BuildKeeps
<1>5. CASE LoseReceipt
  BY <1>1, <1>5, LoseKeeps
<1>6. CASE Seal \/ EditInputs \/ CommitOpened
  BY <1>1, <1>6, RepositoryKeeps
<1>7. CASE DeleteOpened
  BY <1>1, <1>7, DeleteKeeps
<1>8. ASSUME NEW o \in Opener, CheckRepository(o) \/ LoadManifest(o) \/ VerifyInputs(o) PROVE HoldoutInv'
  BY <1>1, <1>8, ChecksKeep
<1>9. ASSUME NEW o \in Opener, VerifyReceipt(o) \/ VerifyHoldout(o) PROVE HoldoutInv'
  BY <1>1, <1>9, VerifiesKeep
<1>10. ASSUME NEW o \in Opener, NEW n \in 1..2, CheckAbsent(o, n) \/ Place(o, n) PROVE HoldoutInv'
  BY <1>1, <1>10, LooksKeep, PlaceKeeps
<1>11. ASSUME NEW o \in Opener, Confirm(o) \/ CleanUp(o) \/ Die(o) PROVE HoldoutInv'
  BY <1>1, <1>11, ConfirmKeeps, CleanUpKeeps, DieKeeps
<1>12. QED
  BY <1>1, <1>2, <1>3, <1>4, <1>5, <1>6, <1>7, <1>8, <1>9, <1>10, <1>11 DEF HoldoutNext

\* One success at most, as long as nothing was deleted uncommitted and no two runs met.
LEMMA OneOpening ==
    ASSUME HoldoutInv, marks = {}
    PROVE  Cardinality(openings) <= 1
<1>1. IsFiniteSet(openings) /\ \A o, p \in openings : o = p
  BY HoldoutAssumption, FS_Subset DEF HoldoutInv, HoldoutTypeInv, OnceInv
<1>2. CASE openings = {}
  BY <1>2, FS_EmptySet
<1>3. CASE openings # {}
  <2>1. PICK o : o \in openings
    BY <1>3
  <2>2. openings = {o}
    BY <1>1, <2>1
  <2>3. QED
    BY <2>2, FS_Singleton
<1>4. QED
  BY <1>2, <1>3

LEMMA InvOpensOnce == HoldoutInv => OpensOnce
<1>1. SUFFICES ASSUME HoldoutInv PROVE OpensOnce
  OBVIOUS
<1>2. HoldoutTypeInv /\ SealedInv /\ BothInv
  BY <1>1 DEF HoldoutInv
<1>3. \A d \in DOMAIN opened : opened[d] # Absent => repo.seal # Absent /\ opened[d] = Sealed(d)
  BY <1>2 DEF HoldoutTypeInv, SealedInv
<1>4. repo.seal # Absent => repo.seal.dataset \in Valid /\ repo.seal.inputs = Frozen
  BY <1>2 DEF HoldoutTypeInv, Seals
<1>5. Cardinality(openings) > 1 => marks # {}
  <2>1. openings \subseteq Opener /\ IsFiniteSet(openings) /\ Cardinality(openings) \in Nat
    BY <1>2, HoldoutAssumption, FS_Subset, FS_CardinalityType DEF HoldoutTypeInv
  <2>2. QED
    BY <1>1, <2>1, OneOpening
<1>6. "met" \notin marks /\ (\A o \in Opener : ~Runs(runs[o]) /\ runs[o].at # "dead") =>
        (opened["holdout"] = Absent <=> opened["receipt"] = Absent)
  BY <1>2 DEF BothInv
<1>7. QED
  BY <1>3, <1>4, <1>5, <1>6 DEF OpensOnce

\* What stands in the repository as the opened holdout and its receipt is what was sealed,
\* a dataset that met its contract against the frozen inputs; a second opening takes
\* somebody who deletes the files uncommitted or two runs at once; and unless a run died or
\* two met both files are there or neither: whatever people write, edit and delete between
\* any two steps of src/tools/unseal_v2_stage6_holdout.py, for any number of runs of it.
THEOREM HoldoutOpensOnce == HoldoutSpec => []OpensOnce
<1>1. HoldoutSpec => []HoldoutInv
  BY HoldoutStarts, HoldoutStep, PTL DEF HoldoutSpec
<1>2. QED
  BY <1>1, InvOpensOnce, PTL

-----------------------------------------------------------------------------
(* A case-run: the invariant, under any policy *)

Entries == [id : Nat \X Nat, call : Call, fault : Nat \cup {None}]
Observations ==
    [sequence : Nat, step : Nat, turn : Nat, id : Nat \X Nat, call : Call, status : HandlerStatus \cup {"malformed"}]
Clarifications == [sequence : Nat, step : Nat, slots : SUBSET Slot, turn : Nat \cup {None}]

\* What each variable holds; the counters are no further than the step.
TypeInv ==
    /\ plan \in Plans /\ counts \in [DOMAIN plan -> Nat] /\ stopped \in BOOLEAN
    /\ ledger \in Seq(Entries) /\ obs \in Seq(Observations) /\ clar \in Seq(Clarifications)
    /\ delivered \in Seq(Nat) /\ waiting \subseteq DOMAIN Turns
    /\ step \in 0 .. MaxSteps /\ sequence \in 0 .. step
    /\ \A i \in DOMAIN plan : counts[i] <= step
    /\ \A k \in DOMAIN ledger : ledger[k].fault \in DOMAIN plan \cup {None}
    /\ \A k \in DOMAIN obs : obs[k].step \in 1 .. step /\ obs[k].sequence <= sequence
    /\ \A k \in DOMAIN clar : /\ clar[k].step \in 1 .. step /\ clar[k].sequence <= sequence
                              /\ clar[k].turn \in DOMAIN Turns \cup {None}
    /\ ended.how \in {"running", "finished", "unanswered_clarification", "max_steps_exceeded", "raised"}

\* The two books have the same calls, numbered as they were made.
LedgerInv ==
    /\ Len(ledger) = Len(obs)
    /\ \A k \in DOMAIN obs :
         /\ obs[k].id = <<obs[k].turn, k>> /\ ledger[k].id = obs[k].id /\ ledger[k].call = obs[k].call
         /\ obs[k].status = "malformed" <=> ledger[k].fault # None /\ plan[ledger[k].fault].mode = "malformed"

\* The calls that match a declaration, up to the k-th.
Struck(i, k) == {j \in 1 .. k : ledger[j].call \in plan[i].match}

CountInv == \A i \in DOMAIN plan : counts[i] = Cardinality(Struck(i, Len(ledger)))

\* Each clarification delivered the next turn; one that none answers is the last.
DeliveredInv ==
    /\ Len(delivered) \in 1 .. Len(clar) + 1 /\ delivered[1] = 0
    /\ \A k \in DOMAIN clar :
         \/ /\ clar[k].turn # None /\ clar[k].slots \subseteq Turns[clar[k].turn]
            /\ k + 1 \in DOMAIN delivered /\ delivered[k + 1] = clar[k].turn
         \/ clar[k].turn = None /\ k = Len(delivered) /\ ended.how = "unanswered_clarification"
    /\ IsInjective(delivered)
    /\ \A k \in DOMAIN delivered : delivered[k] \in {0} \cup (DOMAIN Turns \ waiting)

CaseInv == TypeInv /\ StepsAddUp /\ LedgerInv /\ CountInv /\ FaultsStrikeOnTheirCall /\ DeliveredInv /\ CallsFollowTheirMessage

-----------------------------------------------------------------------------
(* A case-run: sequences and sets of numbers *)

LEMMA Appended ==
    ASSUME NEW S, NEW s \in Seq(S), NEW e \in S
    PROVE  /\ Append(s, e) \in Seq(S) /\ Len(Append(s, e)) = Len(s) + 1 /\ Len(s) \in Nat
           /\ DOMAIN s = 1 .. Len(s) /\ DOMAIN Append(s, e) = DOMAIN s \cup {Len(s) + 1} /\ Len(s) + 1 \notin DOMAIN s
           /\ \A k \in DOMAIN s : Append(s, e)[k] = s[k] /\ s[k] \in S
           /\ Append(s, e)[Len(s) + 1] = e
<1>1. /\ Append(s, e) \in Seq(S) /\ Len(Append(s, e)) = Len(s) + 1 /\ Len(s) \in Nat
      /\ DOMAIN s = 1 .. Len(s) /\ DOMAIN Append(s, e) = 1 .. Len(s) + 1
      /\ \A k \in 1 .. Len(s) : Append(s, e)[k] = s[k] /\ s[k] \in S
      /\ Append(s, e)[Len(s) + 1] = e
  OBVIOUS
<1>2. 1 .. Len(s) + 1 = (1 .. Len(s)) \cup {Len(s) + 1} /\ Len(s) + 1 \notin 1 .. Len(s)
  BY <1>1
<1>3. QED
  BY <1>1, <1>2

\* A set of numbers that is not empty has a least one, and Min is it.
LEMMA LeastIn == ASSUME NEW S \in SUBSET Nat, S # {} PROVE \E m \in S : \A x \in S : m <= x
<1>1. \A x, y \in Nat : y < x => <<y, x>> \in OpToRel(<, Nat)
  BY DEF OpToRel
<1>2. PICK R : IsWellFoundedOn(R, Nat) /\ \A x, y \in Nat : y < x => <<y, x>> \in R
  BY <1>1, NatLessThanWellFounded, Zenon
<1>3. PICK m \in S : \A x \in S : ~(<<x, m>> \in R)
  BY <1>2, WFMin
<1>4. ASSUME NEW x \in S PROVE m <= x
  <2>1. m \in Nat /\ x \in Nat
    OBVIOUS
  <2>2. x < m => <<x, m>> \in R
    BY <1>2, <2>1, Zenon
  <2>3. ~(x < m)
    BY <1>3, <2>2, Zenon
  <2>4. QED
    BY <2>1, <2>3
<1>5. QED
  BY <1>4

LEMMA MinIsIn == ASSUME NEW S \in SUBSET Nat, S # {} PROVE Min(S) \in S
BY LeastIn DEF Min

\* The first numbers of a set, with one more looked at.
LEMMA OneMore ==
    ASSUME NEW S, IsFiniteSet(S), NEW n, n \notin S, NEW T, NEW more, T = IF more THEN S \cup {n} ELSE S
    PROVE  IsFiniteSet(T) /\ Cardinality(S) \in Nat /\ Cardinality(T) = Cardinality(S) + (IF more THEN 1 ELSE 0)
<1>1. Cardinality(S) \in Nat /\ IsFiniteSet(S \cup {n}) /\ Cardinality(S \cup {n}) = Cardinality(S) + 1
  BY FS_CardinalityType, FS_AddElement
<1>2. QED
  BY <1>1

LEMMA UpToIsFinite == ASSUME NEW n \in Nat, NEW S, S \subseteq 1 .. n PROVE IsFiniteSet(S) /\ Cardinality(S) \in Nat
<1>1. IsFiniteSet(1 .. n)
  BY FS_Interval
<1>2. QED
  BY <1>1, FS_Subset, FS_CardinalityType

LEMMA PlanTyped ==
    ASSUME plan \in Plans
    PROVE  /\ DOMAIN plan \subseteq Nat /\ None \notin DOMAIN plan
           /\ \A i \in DOMAIN plan : plan[i] \in Fault
<1>1. plan \in Seq(Fault)
  BY CaseAssumption
<1>2. Len(plan) \in Nat /\ DOMAIN plan = 1 .. Len(plan) /\ \A i \in 1 .. Len(plan) : plan[i] \in Fault
  BY <1>1
<1>3. QED
  BY <1>2, CaseAssumption

LEMMA CountTo == ASSUME NEW n \in Nat PROVE Cardinality(1 .. n) = n
<1>1. 1 \in Int /\ n \in Int /\ (1 > n <=> n = 0)
  OBVIOUS
<1>2. Cardinality(1 .. n) = IF 1 > n THEN 0 ELSE n - 1 + 1
  BY <1>1, FS_Interval
<1>3. QED
  BY <1>2

LEMMA Typed ==
    ASSUME TypeInv
    PROVE  /\ MaxSteps \in Nat /\ step \in Nat /\ sequence \in Nat /\ sequence <= step /\ step <= MaxSteps
           /\ Len(obs) \in Nat /\ DOMAIN obs = 1 .. Len(obs) /\ Len(clar) \in Nat /\ DOMAIN clar = 1 .. Len(clar)
           /\ Len(delivered) \in Nat /\ DOMAIN delivered = 1 .. Len(delivered)
           /\ \A k \in DOMAIN obs : /\ obs[k].step \in 1 .. step
                                     /\ obs[k].sequence \in Nat /\ obs[k].sequence <= sequence
           /\ \A k \in DOMAIN clar : /\ clar[k].step \in 1 .. step /\ clar[k].turn \in DOMAIN Turns \cup {None}
                                      /\ clar[k].sequence \in Nat /\ clar[k].sequence <= sequence
<1>1. MaxSteps \in Nat /\ step \in 0 .. MaxSteps /\ sequence \in 0 .. step
  BY CaseAssumption DEF TypeInv
<1>2. obs \in Seq(Observations) /\ clar \in Seq(Clarifications) /\ delivered \in Seq(Nat)
  BY DEF TypeInv
<1>3. /\ Len(obs) \in Nat /\ DOMAIN obs = 1 .. Len(obs) /\ \A k \in 1 .. Len(obs) : obs[k] \in Observations
      /\ Len(clar) \in Nat /\ DOMAIN clar = 1 .. Len(clar) /\ \A k \in 1 .. Len(clar) : clar[k] \in Clarifications
      /\ Len(delivered) \in Nat /\ DOMAIN delivered = 1 .. Len(delivered)
  BY <1>2
<1>4. \A k \in DOMAIN obs : obs[k].sequence \in Nat
  BY <1>3 DEF Observations
<1>5. \A k \in DOMAIN clar : clar[k].sequence \in Nat
  BY <1>3 DEF Clarifications
<1>6. /\ \A k \in DOMAIN obs : obs[k].step \in 1 .. step /\ obs[k].sequence <= sequence
      /\ \A k \in DOMAIN clar : /\ clar[k].step \in 1 .. step /\ clar[k].sequence <= sequence
                                 /\ clar[k].turn \in DOMAIN Turns \cup {None}
  BY DEF TypeInv
<1>7. QED
  BY <1>1, <1>3, <1>4, <1>5, <1>6

-----------------------------------------------------------------------------
(* A case-run: each step keeps the invariant *)

\* A step that makes no call.
LEMMA BooksStay ==
    ASSUME LedgerInv, CountInv, FaultsStrikeOnTheirCall, plan' = plan, counts' = counts, ledger' = ledger, obs' = obs
    PROVE  LedgerInv' /\ CountInv' /\ FaultsStrikeOnTheirCall'
<1>1. LedgerInv'
  BY DEF LedgerInv
<1>2. CountInv'
  BY DEF CountInv, Struck
<1>3. FaultsStrikeOnTheirCall'
  BY DEF FaultsStrikeOnTheirCall
<1>4. QED
  BY <1>1, <1>2, <1>3

LEMMA CaseStarts == ASSUME Init PROVE CaseInv
<1>1. /\ plan \in Plans /\ counts = [i \in DOMAIN plan |-> 0] /\ ledger = <<>> /\ stopped = FALSE
      /\ step = 0 /\ delivered = <<0>> /\ waiting = DOMAIN Turns /\ obs = <<>> /\ clar = <<>> /\ sequence = 0
      /\ ended.how = "running"
  BY DEF Init
<1>2. TypeInv
  <2>1. counts \in [DOMAIN plan -> Nat] /\ \A i \in DOMAIN plan : counts[i] <= step
    BY <1>1
  <2>2. step \in 0 .. MaxSteps /\ sequence \in 0 .. step
    BY <1>1, CaseAssumption
  <2>3. /\ ledger \in Seq(Entries) /\ obs \in Seq(Observations) /\ clar \in Seq(Clarifications)
        /\ delivered \in Seq(Nat) /\ DOMAIN ledger = {} /\ DOMAIN obs = {} /\ DOMAIN clar = {}
    BY <1>1
  <2>4. QED
    BY <1>1, <2>1, <2>2, <2>3 DEF TypeInv
<1>3. StepsAddUp /\ LedgerInv /\ FaultsStrikeOnTheirCall /\ CallsFollowTheirMessage
  BY <1>1 DEF StepsAddUp, LedgerInv, FaultsStrikeOnTheirCall, CallsFollowTheirMessage
<1>4. CountInv
  <2>1. \A i \in DOMAIN plan : Struck(i, Len(ledger)) = {}
    BY <1>1 DEF Struck
  <2>2. QED
    BY <1>1, <2>1, FS_EmptySet DEF CountInv
<1>5. DeliveredInv
  <2>1. DOMAIN delivered = {1} /\ delivered[1] = 0 /\ Len(delivered) = 1
    BY <1>1
  <2>2. QED
    BY <1>1, <2>1 DEF DeliveredInv, IsInjective
<1>6. QED
  BY <1>2, <1>3, <1>4, <1>5 DEF CaseInv

\* While a run is going, every clarification was answered.
LEMMA AllAnswered ==
    ASSUME TypeInv, DeliveredInv, ended.how = "running"
    PROVE  Len(delivered) = Len(clar) + 1
<1>1. Len(clar) \in Nat /\ DOMAIN clar = 1 .. Len(clar) /\ Len(delivered) \in Nat /\ DOMAIN delivered = 1 .. Len(delivered)
  BY DEF TypeInv
<1>2. Len(delivered) <= Len(clar) + 1 /\ Len(delivered) >= 1
  BY <1>1 DEF DeliveredInv
<1>3. \A k \in DOMAIN clar : k + 1 \in DOMAIN delivered
  BY DEF DeliveredInv
<1>4. CASE Len(clar) = 0
  BY <1>4, <1>2, <1>1
<1>5. CASE Len(clar) # 0
  <2>1. Len(clar) \in DOMAIN clar
    BY <1>5, <1>1
  <2>2. Len(clar) + 1 \in 1 .. Len(delivered)
    BY <2>1, <1>1, <1>3
  <2>3. Len(clar) + 1 <= Len(delivered)
    BY <2>2, <1>1
  <2>4. PICK m \in Nat, n \in Nat : m = Len(clar) /\ n = Len(delivered)
    BY <1>1
  <2>5. n <= m + 1 /\ m + 1 <= n
    BY <2>3, <2>4, <1>2
  <2>6. n = m + 1
    BY <2>5
  <2>7. QED
    BY <2>4, <2>6
<1>6. QED
  BY <1>4, <1>5

\* How many calls match, when one more is made.
LEMMA StruckByOneMore ==
    ASSUME TypeInv, NEW e \in Entries, ledger' = Append(ledger, e), plan' = plan, NEW i \in DOMAIN plan,
           NEW n, n = Len(ledger) + 1
    PROVE  /\ \A k \in DOMAIN ledger : Struck(i, k)' = Struck(i, k)
           /\ IsFiniteSet(Struck(i, Len(ledger))) /\ Cardinality(Struck(i, Len(ledger))) \in Nat
           /\ Cardinality(Struck(i, n)') =
                Cardinality(Struck(i, Len(ledger))) + (IF e.call \in plan[i].match THEN 1 ELSE 0)
<1>1. /\ ledger \in Seq(Entries) /\ Len(ledger) \in Nat /\ DOMAIN ledger = 1 .. Len(ledger)
      /\ \A k \in DOMAIN ledger : ledger'[k] = ledger[k]
      /\ ledger'[Len(ledger) + 1] = e
  BY Appended DEF TypeInv
<1>2. ASSUME NEW k \in DOMAIN ledger PROVE Struck(i, k)' = Struck(i, k)
  <2>1. \A j \in 1 .. k : j \in DOMAIN ledger
    BY <1>1
  <2>2. QED
    BY <1>1, <2>1 DEF Struck
<1>3. PICK S : S = Struck(i, Len(ledger))
  OBVIOUS
<1>4. IsFiniteSet(S) /\ Cardinality(S) \in Nat /\ Len(ledger) + 1 \notin S
  BY <1>1, <1>3, UpToIsFinite DEF Struck
<1>5. PICK T : T = {j \in 1 .. Len(ledger) + 1 : ledger'[j].call \in plan[i].match}
  OBVIOUS
<1>6. 1 .. Len(ledger) + 1 = (1 .. Len(ledger)) \cup {Len(ledger) + 1}
  BY <1>1
<1>7. T = IF e.call \in plan[i].match THEN S \cup {Len(ledger) + 1} ELSE S
  BY <1>1, <1>3, <1>5, <1>6 DEF Struck
<1>8. Struck(i, n)' = T
  BY <1>5 DEF Struck
<1>9. Cardinality(T) = Cardinality(S) + (IF e.call \in plan[i].match THEN 1 ELSE 0)
  BY <1>4, <1>7, OneMore
<1>10. QED
  BY <1>2, <1>3, <1>4, <1>8, <1>9

\* A call that went through, to its handler or to the fault that is due.
LEMMA ObserveKeeps ==
    ASSUME CaseInv, CanStep, step' = step + 1, NEW c \in Call, NEW fault, NEW status, Observe(step + 1, c, fault, status),
           \/ Due(c) = {} /\ fault = None /\ status \in HandlerStatus
           \/ Due(c) = {fault} /\ status = Outcomes[plan[fault].mode]
    PROVE  CaseInv'
<1>1. /\ TypeInv /\ StepsAddUp /\ LedgerInv /\ CountInv /\ FaultsStrikeOnTheirCall /\ DeliveredInv /\ CallsFollowTheirMessage
      /\ ended.how = "running" /\ step < MaxSteps
  BY DEF CaseInv, CanStep, Running
<1>2. PICK n : n = Len(obs) + 1
  OBVIOUS
<1>3. PICK e : e = Entry(<<Len(delivered), n>>, c, fault)
  OBVIOUS
<1>4. PICK o : o = [sequence |-> sequence + 1, step |-> step + 1, turn |-> Len(delivered),
                    id |-> <<Len(delivered), n>>, call |-> c, status |-> status]
  OBVIOUS
<1>5. /\ counts' = Counted(c) /\ ledger' = Append(ledger, e) /\ obs' = Append(obs, o) /\ sequence' = sequence + 1
      /\ UNCHANGED <<plan, stopped, delivered, waiting, clar, ended>>
  BY <1>2, <1>3, <1>4 DEF Observe, Observation, ObservationId
<1>6. /\ DOMAIN plan \subseteq Nat /\ None \notin DOMAIN plan
      /\ \A i \in DOMAIN plan : plan[i].mode \in {"error", "timeout", "malformed"} /\ plan[i].on_call \in Nat
  BY <1>1, PlanTyped DEF TypeInv, Fault, Outcomes
<1>7. Len(delivered) \in Nat /\ Len(obs) \in Nat /\ n \in Nat
  BY <1>1, <1>2 DEF TypeInv
<1>8. /\ fault \in DOMAIN plan \cup {None}
      /\ fault # None => Due(c) = {fault} /\ status = Outcomes[plan[fault].mode]
      /\ fault = None => Due(c) = {} /\ status \in HandlerStatus
  BY <1>6 DEF Due, Matched
<1>9. status \in HandlerStatus \cup {"malformed"} /\ (status = "malformed" <=> fault # None /\ plan[fault].mode = "malformed")
  <2>1. CASE fault = None
    BY <2>1, <1>8 DEF HandlerStatus
  <2>2. CASE fault # None
    BY <2>2, <1>6, <1>8 DEF HandlerStatus, Outcomes
  <2>3. QED
    BY <2>1, <2>2
<1>10. e \in Entries /\ e.id = <<Len(delivered), n>> /\ e.call = c /\ e.fault = fault
  BY <1>3, <1>6, <1>7, <1>8 DEF Entry, Entries
<1>11. /\ o \in Observations /\ o.turn = Len(delivered) /\ o.id = <<Len(delivered), n>> /\ o.call = c /\ o.status = status
       /\ o.step = step + 1 /\ o.sequence = sequence + 1
  BY <1>1, <1>4, <1>7, <1>9 DEF Observations, TypeInv
<1>12. /\ obs' \in Seq(Observations) /\ Len(obs') = n /\ DOMAIN obs' = DOMAIN obs \cup {n} /\ n \notin DOMAIN obs
       /\ \A k \in DOMAIN obs : obs'[k] = obs[k]
       /\ obs'[n] = o /\ DOMAIN obs = 1 .. Len(obs)
  BY <1>1, <1>2, <1>5, <1>11, Appended DEF TypeInv
<1>13. Len(ledger) = Len(obs)
  BY <1>1 DEF LedgerInv
<1>14. /\ ledger' \in Seq(Entries) /\ Len(ledger') = n /\ DOMAIN ledger' = DOMAIN ledger \cup {n} /\ DOMAIN ledger = DOMAIN obs
       /\ \A k \in DOMAIN ledger : ledger'[k] = ledger[k]
       /\ ledger'[n] = e
  BY <1>1, <1>2, <1>5, <1>10, <1>12, <1>13, Appended DEF TypeInv
<1>15. \A i \in DOMAIN plan : counts'[i] = counts[i] + (IF c \in plan[i].match THEN 1 ELSE 0) /\ counts[i] \in Nat
  BY <1>1, <1>5 DEF Counted, Matched, TypeInv
<1>16. TypeInv'
  <2>1. counts' \in [DOMAIN plan -> Nat] /\ \A i \in DOMAIN plan : counts'[i] <= step + 1
    <3>1. step \in Nat /\ \A i \in DOMAIN plan : counts[i] <= step
      BY <1>1, CaseAssumption DEF TypeInv
    <3>2. counts' = [i \in DOMAIN plan |-> counts[i] + IF i \in Matched(c) THEN 1 ELSE 0]
      BY <1>5 DEF Counted
    <3>3. QED
      BY <3>1, <3>2, <1>15
  <2>2. step + 1 \in 0 .. MaxSteps /\ sequence + 1 \in 0 .. step + 1 /\ step \in Nat /\ sequence \in Nat
    BY <1>1, CaseAssumption DEF TypeInv
  <2>3. \A k \in DOMAIN obs' : obs'[k].step \in 1 .. step + 1 /\ obs'[k].sequence <= sequence + 1
    <3>1. \A k \in DOMAIN obs : obs[k].step \in 1 .. step /\ obs[k].sequence <= sequence /\ obs[k].sequence \in Nat
      BY <1>1, Typed
    <3>2. QED
      BY <3>1, <2>2, <1>11, <1>12
  <2>4. \A k \in DOMAIN clar : /\ clar[k].step \in 1 .. step + 1 /\ clar[k].sequence <= sequence + 1
                               /\ clar[k].turn \in DOMAIN Turns \cup {None}
    <3>1. \A k \in DOMAIN clar : clar[k].sequence \in Nat
      BY <1>1, Typed
    <3>2. QED
      BY <3>1, <2>2, <1>1 DEF TypeInv
  <2>5. \A k \in DOMAIN ledger' : ledger'[k].fault \in DOMAIN plan \cup {None}
    BY <1>1, <1>8, <1>10, <1>14 DEF TypeInv
  <2>6. QED
    BY <1>1, <1>5, <1>12, <1>14, <2>1, <2>2, <2>3, <2>4, <2>5 DEF TypeInv
<1>17. StepsAddUp'
  <2>1. step = Len(obs) + Len(clar) /\ Len(clar) \in Nat
    <3>1. Len(clar) \in Nat
      BY <1>1, Typed
    <3>2. QED
      BY <3>1, <1>1, <1>7 DEF StepsAddUp
  <2>2. step' = Len(obs') + Len(clar') /\ ended'.how = "running"
    BY <2>1, <1>1, <1>2, <1>5, <1>7, <1>12
  <2>3. step' = Len(obs') + Len(clar') + 0
    BY <2>1, <2>2, <1>5, <1>7, <1>12, <1>2
  <2>4. QED
    BY <2>2, <2>3 DEF StepsAddUp
<1>18. LedgerInv'
  <2>1. Len(ledger') = Len(obs')
    BY <1>12, <1>14
  <2>2. ASSUME NEW k \in DOMAIN obs'
        PROVE  /\ obs'[k].id = <<obs'[k].turn, k>> /\ ledger'[k].id = obs'[k].id /\ ledger'[k].call = obs'[k].call
               /\ obs'[k].status = "malformed" <=> ledger'[k].fault # None /\ plan[ledger'[k].fault].mode = "malformed"
    <3>1. CASE k \in DOMAIN obs
      BY <3>1, <1>1, <1>12, <1>14 DEF LedgerInv
    <3>2. CASE k = n
      BY <3>2, <1>9, <1>10, <1>11, <1>12, <1>14
    <3>3. QED
      BY <3>1, <3>2, <1>12
  <2>3. QED
    BY <2>1, <2>2, <1>5 DEF LedgerInv
<1>19. \A i \in DOMAIN plan :
         /\ \A k \in DOMAIN ledger : Struck(i, k)' = Struck(i, k)
         /\ Cardinality(Struck(i, n)') = counts'[i]
  <2>1. SUFFICES ASSUME NEW i \in DOMAIN plan
                 PROVE  /\ \A k \in DOMAIN ledger : Struck(i, k)' = Struck(i, k)
                        /\ Cardinality(Struck(i, n)') = counts'[i]
    OBVIOUS
  <2>2. /\ \A k \in DOMAIN ledger : Struck(i, k)' = Struck(i, k)
        /\ Cardinality(Struck(i, n)') =
             Cardinality(Struck(i, Len(ledger))) + (IF e.call \in plan[i].match THEN 1 ELSE 0)
    BY <1>1, <1>2, <1>5, <1>10, <1>13, StruckByOneMore
  <2>3. Cardinality(Struck(i, Len(ledger))) = counts[i]
    BY <1>1 DEF CountInv
  <2>4. QED
    BY <2>2, <2>3, <1>2, <1>10, <1>13, <1>15
<1>20. CountInv'
  BY <1>5, <1>14, <1>19 DEF CountInv
<1>21. FaultsStrikeOnTheirCall'
  <2>1. SUFFICES ASSUME NEW i \in DOMAIN plan, NEW k \in DOMAIN ledger'
                 PROVE  ledger'[k].fault = i <=> /\ ledger'[k].call \in plan[i].match
                                                 /\ plan[i].on_call = Cardinality(Struck(i, k)')
    BY <1>5 DEF FaultsStrikeOnTheirCall, Struck
  <2>2. CASE k \in DOMAIN ledger
    <3>1. ledger[k].fault = i <=> ledger[k].call \in plan[i].match /\ plan[i].on_call = Cardinality(Struck(i, k))
      BY <2>2, <1>1 DEF FaultsStrikeOnTheirCall, Struck
    <3>2. QED
      BY <2>2, <3>1, <1>14, <1>19
  <2>3. CASE k = n
    <3>1. ledger'[k].fault = fault /\ ledger'[k].call = c
      BY <2>3, <1>10, <1>14
    <3>2. i \in Due(c) <=> c \in plan[i].match /\ counts[i] + 1 = plan[i].on_call
      BY DEF Due, Matched
    <3>3. fault = i <=> i \in Due(c)
      BY <1>6, <1>8
    <3>4. c \in plan[i].match => Cardinality(Struck(i, k)') = counts[i] + 1
      BY <2>3, <1>15, <1>19
    <3>5. QED
      BY <3>1, <3>2, <3>3, <3>4
  <2>4. QED
    BY <2>2, <2>3, <1>14
<1>22. DeliveredInv'
  BY <1>1, <1>5 DEF DeliveredInv
<1>23. CallsFollowTheirMessage'
  <2>1. ASSUME NEW k \in DOMAIN obs'
        PROVE  obs'[k].turn = 1 + Cardinality({j \in DOMAIN clar : clar[j].turn # None /\ clar[j].sequence < obs'[k].sequence})
    <3>1. CASE k \in DOMAIN obs
      BY <3>1, <1>1, <1>12 DEF CallsFollowTheirMessage
    <3>2. CASE k = n
      <4>1. PICK m : m = obs'[k].sequence
        OBVIOUS
      <4>2. m = sequence + 1 /\ obs'[k].turn = Len(delivered)
        BY <3>2, <4>1, <1>11, <1>12
      <4>3. {j \in DOMAIN clar : clar[j].turn # None /\ clar[j].sequence < m} = 1 .. Len(clar)
        <5>1. \A j \in DOMAIN clar : clar[j].turn # None
          BY <1>1 DEF DeliveredInv
        <5>2. \A j \in DOMAIN clar : clar[j].sequence < m
          BY <4>2, <1>1, Typed
        <5>3. DOMAIN clar = 1 .. Len(clar)
          BY <1>1, Typed
        <5>4. QED
          BY <5>1, <5>2, <5>3
      <4>4. Len(delivered) = Len(clar) + 1 /\ Len(clar) \in Nat
        BY <1>1, AllAnswered, Typed
      <4>5. Cardinality({j \in DOMAIN clar : clar[j].turn # None /\ clar[j].sequence < m}) = Len(clar)
        BY <4>3, <4>4, CountTo
      <4>6. obs'[k].turn = 1 + Cardinality({j \in DOMAIN clar : clar[j].turn # None /\ clar[j].sequence < m})
        BY <4>2, <4>4, <4>5
      <4>7. QED
        BY <4>1, <4>6
    <3>3. QED
      BY <3>1, <3>2, <1>12
  <2>2. QED
    BY <2>1, <1>5 DEF CallsFollowTheirMessage
<1>24. QED
  BY <1>16, <1>17, <1>18, <1>20, <1>21, <1>22, <1>23 DEF CaseInv

\* A step that adds nothing to the books.
LEMMA QuietKeeps ==
    ASSUME CaseInv, Running, UNCHANGED <<plan, counts, ledger, delivered, waiting, obs, clar, sequence>>,
           stopped' \in BOOLEAN, step' \in {step, step + 1}, step' <= MaxSteps,
           \/ ended'.how = "finished" /\ step' = step + 1
           \/ ended'.how = "max_steps_exceeded" /\ step' = step
           \/ ended'.how = "raised"
    PROVE  CaseInv'
<1>1. /\ TypeInv /\ StepsAddUp /\ LedgerInv /\ CountInv /\ FaultsStrikeOnTheirCall /\ DeliveredInv /\ CallsFollowTheirMessage
      /\ ended.how = "running"
  BY DEF CaseInv, Running
<1>2. step \in Nat /\ sequence \in Nat /\ sequence <= step /\ step' \in 0 .. MaxSteps /\ sequence \in 0 .. step'
  BY <1>1, CaseAssumption DEF TypeInv
<1>3. TypeInv'
  <2>1. counts \in [DOMAIN plan -> Nat] /\ \A i \in DOMAIN plan : counts[i] <= step'
    BY <1>1, <1>2 DEF TypeInv
  <2>2. \A k \in DOMAIN obs : obs[k].step \in 1 .. step' /\ obs[k].sequence <= sequence
    BY <1>1, <1>2 DEF TypeInv
  <2>3. \A k \in DOMAIN clar : /\ clar[k].step \in 1 .. step' /\ clar[k].sequence <= sequence
                               /\ clar[k].turn \in DOMAIN Turns \cup {None}
    BY <1>1, <1>2 DEF TypeInv
  <2>4. QED
    BY <1>1, <1>2, <2>1, <2>2, <2>3 DEF TypeInv
<1>4. StepsAddUp'
  <2>1. step = Len(obs) + Len(clar) /\ Len(clar) \in Nat /\ Len(obs) \in Nat
    <3>1. Len(clar) \in Nat /\ Len(obs) \in Nat
      BY <1>1, Typed
    <3>2. QED
      BY <3>1, <1>1 DEF StepsAddUp
  <2>2. QED
    BY <2>1, <1>2 DEF StepsAddUp
<1>5. LedgerInv' /\ CountInv' /\ FaultsStrikeOnTheirCall' /\ CallsFollowTheirMessage'
  <2>1. LedgerInv' /\ CountInv' /\ FaultsStrikeOnTheirCall'
    BY <1>1, BooksStay
  <2>2. CallsFollowTheirMessage'
    BY <1>1 DEF CallsFollowTheirMessage
  <2>3. QED
    BY <2>1, <2>2
<1>6. DeliveredInv'
  BY <1>1 DEF DeliveredInv
<1>7. QED
  BY <1>3, <1>4, <1>5, <1>6 DEF CaseInv

\* A clarification, answered by a turn or by none.
LEMMA AskedKeeps ==
    ASSUME CaseInv, CanStep, step' = step + 1, NEW slots \in SUBSET Slot, NEW t, Asked(step + 1, slots, t),
           \/ /\ t \in Answering(slots) /\ waiting' = waiting \ {t} /\ delivered' = Append(delivered, t)
              /\ UNCHANGED ended
           \/ t = None /\ End("unanswered_clarification", None) /\ UNCHANGED <<waiting, delivered>>
    PROVE  CaseInv'
<1>1. /\ TypeInv /\ StepsAddUp /\ LedgerInv /\ CountInv /\ FaultsStrikeOnTheirCall /\ DeliveredInv /\ CallsFollowTheirMessage
      /\ ended.how = "running" /\ step < MaxSteps
  BY DEF CaseInv, CanStep, Running
<1>2. PICK n : n = Len(clar) + 1
  OBVIOUS
<1>3. PICK r : r = [sequence |-> sequence + 1, step |-> step + 1, slots |-> slots, turn |-> t]
  OBVIOUS
<1>4. clar' = Append(clar, r) /\ sequence' = sequence + 1 /\ UNCHANGED <<plan, counts, ledger, stopped, obs>>
  BY <1>3 DEF Asked, gateway
<1>5. /\ Len(Turns) \in Nat /\ DOMAIN Turns = 1 .. Len(Turns) /\ DOMAIN Turns \subseteq Nat /\ None \notin Nat
      /\ 0 \notin DOMAIN Turns
  BY CaseAssumption
<1>6. /\ step \in Nat /\ sequence \in Nat /\ sequence <= step /\ step + 1 \in 0 .. MaxSteps /\ sequence + 1 \in 0 .. step + 1
  BY <1>1, CaseAssumption DEF TypeInv
<1>7. t \in Answering(slots) => t \in waiting /\ t \in DOMAIN Turns /\ slots \subseteq Turns[t] /\ t # None
  BY <1>1, <1>5 DEF Answering, TypeInv
<1>8. r \in Clarifications /\ r.turn = t /\ r.slots = slots /\ r.step = step + 1 /\ r.sequence = sequence + 1
      /\ t \in DOMAIN Turns \cup {None}
  BY <1>3, <1>5, <1>6, <1>7 DEF Clarifications
<1>9. /\ clar' \in Seq(Clarifications) /\ Len(clar') = n /\ DOMAIN clar' = DOMAIN clar \cup {n} /\ n \notin DOMAIN clar
      /\ \A k \in DOMAIN clar : clar'[k] = clar[k]
      /\ clar'[n] = r /\ DOMAIN clar = 1 .. Len(clar) /\ Len(clar) \in Nat
  BY <1>1, <1>2, <1>4, <1>8, Appended DEF TypeInv
<1>10. /\ delivered \in Seq(Nat) /\ Len(delivered) = n /\ n \in Nat /\ DOMAIN delivered = 1 .. n
  BY <1>1, <1>2, <1>9, AllAnswered DEF TypeInv
<1>11. TypeInv'
  <2>1. waiting' \subseteq DOMAIN Turns /\ delivered' \in Seq(Nat)
    <3>1. waiting \subseteq DOMAIN Turns
      BY <1>1 DEF TypeInv
    <3>2. CASE t \in Answering(slots) /\ waiting' = waiting \ {t} /\ delivered' = Append(delivered, t)
      <4>1. t \in Nat
        BY <3>2, <1>5, <1>7
      <4>2. delivered' \in Seq(Nat)
        BY <3>2, <4>1, <1>10, Appended
      <4>3. QED
        BY <3>1, <3>2, <4>2
    <3>3. CASE UNCHANGED <<waiting, delivered>>
      BY <3>1, <3>3, <1>10
    <3>4. QED
      BY <3>2, <3>3
  <2>2. \A k \in DOMAIN clar' : /\ clar'[k].step \in 1 .. step + 1 /\ clar'[k].sequence <= sequence + 1
                                /\ clar'[k].turn \in DOMAIN Turns \cup {None}
    <3>1. \A k \in DOMAIN clar : /\ clar[k].step \in 1 .. step /\ clar[k].sequence <= sequence /\ clar[k].sequence \in Nat
                                 /\ clar[k].turn \in DOMAIN Turns \cup {None}
      BY <1>1, Typed
    <3>2. QED
      BY <3>1, <1>6, <1>8, <1>9
  <2>3. \A k \in DOMAIN obs : obs[k].step \in 1 .. step + 1 /\ obs[k].sequence <= sequence + 1
    <3>1. \A k \in DOMAIN obs : obs[k].step \in 1 .. step /\ obs[k].sequence <= sequence /\ obs[k].sequence \in Nat
      BY <1>1, Typed
    <3>2. QED
      BY <3>1, <1>6
  <2>4. \A i \in DOMAIN plan : counts[i] <= step + 1
    <3>1. \A i \in DOMAIN plan : counts[i] <= step /\ counts[i] \in Nat
      BY <1>1 DEF TypeInv
    <3>2. QED
      BY <3>1, <1>6
  <2>5. ended'.how \in {"running", "unanswered_clarification"}
    BY <1>1 DEF End
  <2>6. QED
    BY <1>1, <1>4, <1>6, <1>9, <2>1, <2>2, <2>3, <2>4, <2>5 DEF TypeInv
<1>12. StepsAddUp'
  <2>1. step = Len(obs) + Len(clar) /\ Len(obs) \in Nat
    BY <1>1 DEF StepsAddUp, TypeInv
  <2>2. ended'.how \in {"running", "unanswered_clarification"}
    BY <1>1 DEF End
  <2>3. QED
    BY <1>2, <1>4, <1>6, <1>9, <2>1, <2>2 DEF StepsAddUp
<1>13. LedgerInv' /\ CountInv' /\ FaultsStrikeOnTheirCall'
  BY <1>1, <1>4, BooksStay
<1>14. DeliveredInv'
  <2>1. \A k \in DOMAIN clar : /\ clar[k].turn # None /\ clar[k].slots \subseteq Turns[clar[k].turn]
                               /\ k + 1 \in DOMAIN delivered /\ delivered[k + 1] = clar[k].turn
    BY <1>1 DEF DeliveredInv
  <2>2. CASE t \in Answering(slots) /\ waiting' = waiting \ {t} /\ delivered' = Append(delivered, t) /\ UNCHANGED ended
    <3>1. /\ Len(delivered') = n + 1 /\ DOMAIN delivered' = DOMAIN delivered \cup {n + 1} /\ n + 1 \notin DOMAIN delivered
          /\ \A k \in DOMAIN delivered : delivered'[k] = delivered[k]
          /\ delivered'[n + 1] = t
      BY <2>2, <1>5, <1>7, <1>10, Appended
    <3>2. \A k \in DOMAIN clar' : /\ clar'[k].turn # None /\ clar'[k].slots \subseteq Turns[clar'[k].turn]
                                  /\ k + 1 \in DOMAIN delivered' /\ delivered'[k + 1] = clar'[k].turn
      <4>1. ASSUME NEW k \in DOMAIN clar
            PROVE  /\ clar'[k].turn # None /\ clar'[k].slots \subseteq Turns[clar'[k].turn]
                   /\ k + 1 \in DOMAIN delivered' /\ delivered'[k + 1] = clar'[k].turn
        BY <4>1, <2>1, <3>1, <1>9
      <4>2. /\ clar'[n].turn # None /\ clar'[n].slots \subseteq Turns[clar'[n].turn]
            /\ n + 1 \in DOMAIN delivered' /\ delivered'[n + 1] = clar'[n].turn
        BY <2>2, <1>7, <1>8, <1>9, <3>1
      <4>3. QED
        BY <4>1, <4>2, <1>9
    <3>3. Len(delivered') \in 1 .. Len(clar') + 1 /\ delivered'[1] = 0
      <4>1. 1 \in DOMAIN delivered /\ delivered[1] = 0
        BY <1>1, <1>9, <1>10, <1>2 DEF DeliveredInv
      <4>2. QED
        BY <4>1, <3>1, <1>9, <1>10
    <3>4. \A k \in DOMAIN delivered : delivered[k] \in {0} \cup (DOMAIN Turns \ waiting) /\ delivered[k] # t
      BY <2>2, <1>1, <1>5, <1>7 DEF DeliveredInv
    <3>5. IsInjective(delivered')
      <4>1. \A j, k \in DOMAIN delivered : delivered[j] = delivered[k] => j = k
        BY <1>1 DEF DeliveredInv, IsInjective
      <4>2. QED
        BY <4>1, <3>1, <3>4 DEF IsInjective
    <3>6. \A k \in DOMAIN delivered' : delivered'[k] \in {0} \cup (DOMAIN Turns \ waiting')
      BY <2>2, <1>7, <3>1, <3>4
    <3>7. QED
      BY <3>2, <3>3, <3>5, <3>6 DEF DeliveredInv
  <2>3. CASE t = None /\ End("unanswered_clarification", None) /\ UNCHANGED <<waiting, delivered>>
    <3>1. ended'.how = "unanswered_clarification"
      BY <2>3 DEF End
    <3>2. \A k \in DOMAIN clar' :
            \/ /\ clar'[k].turn # None /\ clar'[k].slots \subseteq Turns[clar'[k].turn]
               /\ k + 1 \in DOMAIN delivered /\ delivered[k + 1] = clar'[k].turn
            \/ clar'[k].turn = None /\ k = Len(delivered)
      BY <2>1, <2>3, <1>8, <1>9, <1>10
    <3>3. Len(delivered) \in 1 .. Len(clar') + 1
      BY <1>2, <1>9, <1>10
    <3>4. QED
      BY <2>3, <3>1, <3>2, <3>3, <1>1 DEF DeliveredInv
  <2>4. QED
    BY <2>2, <2>3
<1>15. CallsFollowTheirMessage'
  <2>1. ASSUME NEW k \in DOMAIN obs
        PROVE  {j \in DOMAIN clar' : clar'[j].turn # None /\ clar'[j].sequence < obs[k].sequence} =
                 {j \in DOMAIN clar : clar[j].turn # None /\ clar[j].sequence < obs[k].sequence}
    <3>1. obs[k].sequence \in Nat /\ obs[k].sequence <= sequence
      BY <1>1, Typed
    <3>2. ~(clar'[n].sequence < obs[k].sequence)
      BY <3>1, <1>6, <1>8, <1>9
    <3>3. QED
      BY <3>2, <1>9
  <2>2. QED
    BY <2>1, <1>1, <1>4 DEF CallsFollowTheirMessage
<1>16. QED
  BY <1>11, <1>12, <1>13, <1>14, <1>15 DEF CaseInv

\* What the runner makes of an action.
LEMMA PerformKeeps ==
    ASSUME CaseInv, CanStep, NEW a \in Action, Perform(step + 1, a)
    PROVE  CaseInv'
<1>1. /\ TypeInv /\ Running /\ step' = step + 1 /\ step \in Nat /\ step < MaxSteps /\ step + 1 <= MaxSteps
  BY CaseAssumption DEF CaseInv, TypeInv, CanStep, Perform
<1>2. CASE a.kind = "call" /\ CallTool(step + 1, a.says)
  <2>1. CASE Delegate(step + 1, a.says)
    <3>1. PICK status \in HandlerStatus : Observe(step + 1, a.says, None, status)
      BY <2>1 DEF Delegate
    <3>2. a.says \in Call /\ Due(a.says) = {}
      BY <2>1 DEF Delegate
    <3>3. QED
      BY <1>1, <3>1, <3>2, ObserveKeeps
  <2>2. CASE Inject(step + 1, a.says)
    <3>1. PICK i \in Due(a.says) : Due(a.says) = {i} /\ Observe(step + 1, a.says, i, Outcomes[plan[i].mode])
      BY <2>2 DEF Inject
    <3>2. a.says \in Call
      BY <2>2 DEF Inject
    <3>3. QED
      BY <1>1, <3>1, <3>2, ObserveKeeps
  <2>3. CASE Reject(a.says)
    <3>1. stopped' \in BOOLEAN /\ ended'.how = "raised"
      BY <2>3, <1>1 DEF Reject, End, TypeInv
    <3>2. UNCHANGED <<plan, counts, ledger, delivered, waiting, obs, clar, sequence>>
      BY <2>3 DEF Reject
    <3>3. QED
      BY <1>1, <3>1, <3>2, QuietKeeps
  <2>4. QED
    BY <1>2, <2>1, <2>2, <2>3 DEF CallTool
<1>3. CASE a.kind = "clarify" /\ Clarify(step + 1, a.says)
  <2>1. a.says \in SUBSET Slot
    BY <1>3 DEF Action
  <2>2. CASE Answering(a.says) # {}
    <3>1. PICK t : t = Min(Answering(a.says))
      OBVIOUS
    <3>2. t \in Answering(a.says)
      <4>1. Answering(a.says) \subseteq Nat
        BY <1>1, CaseAssumption DEF Answering, TypeInv
      <4>2. QED
        BY <2>2, <3>1, <4>1, MinIsIn
    <3>3. /\ waiting' = waiting \ {t} /\ delivered' = Append(delivered, t) /\ Asked(step + 1, a.says, t)
          /\ UNCHANGED ended
      BY <1>3, <2>2, <3>1 DEF Clarify
    <3>4. QED
      BY <1>1, <2>1, <3>2, <3>3, AskedKeeps
  <2>3. CASE Answering(a.says) = {}
    <3>1. /\ End("unanswered_clarification", None) /\ Asked(step + 1, a.says, None)
          /\ UNCHANGED <<waiting, delivered>>
      BY <1>3, <2>3 DEF Clarify
    <3>2. QED
      BY <1>1, <2>1, <3>1, AskedKeeps
  <2>4. QED
    BY <2>2, <2>3
<1>4. CASE a.kind = "finish" /\ Finish(a.says)
  <2>1. stopped' \in BOOLEAN /\ ended'.how = "finished"
    BY <1>1, <1>4 DEF Finish, End, TypeInv, gateway
  <2>2. UNCHANGED <<plan, counts, ledger, delivered, waiting, obs, clar, sequence>>
    BY <1>4 DEF Finish, gateway
  <2>3. QED
    BY <1>1, <2>1, <2>2, QuietKeeps
<1>5. QED
  BY <1>2, <1>3, <1>4 DEF Perform

\* A policy that raises, and a run that used its steps.
LEMMA EndKeeps == ASSUME CaseInv, PolicyRaises \/ OutOfSteps PROVE CaseInv'
<1>1. TypeInv /\ step \in Nat /\ Running
  BY CaseAssumption DEF CaseInv, TypeInv, PolicyRaises, OutOfSteps, CanStep
<1>2. CASE PolicyRaises
  <2>1. /\ stopped' \in BOOLEAN /\ ended'.how = "raised" /\ step' = step + 1 /\ step' <= MaxSteps
        /\ UNCHANGED <<plan, counts, ledger, delivered, waiting, obs, clar, sequence>>
    BY <1>1, <1>2, CaseAssumption DEF PolicyRaises, End, TypeInv, gateway, CanStep
  <2>2. QED
    BY <1>1, <2>1, QuietKeeps
<1>3. CASE OutOfSteps
  <2>1. /\ stopped' \in BOOLEAN /\ ended'.how = "max_steps_exceeded" /\ step' = step /\ step' <= MaxSteps
        /\ UNCHANGED <<plan, counts, ledger, delivered, waiting, obs, clar, sequence>>
    BY <1>1, <1>3, CaseAssumption DEF OutOfSteps, End, TypeInv, gateway
  <2>2. QED
    BY <1>1, <2>1, QuietKeeps
<1>4. QED
  BY <1>2, <1>3

LEMMA CaseStep == ASSUME CaseInv, [Next]_vars PROVE CaseInv'
<1>1. CASE Decide
  BY <1>1, PerformKeeps DEF Decide
<1>2. CASE PolicyRaises \/ OutOfSteps
  BY <1>2, EndKeeps
<1>3. CASE UNCHANGED vars
  <2>1. /\ TypeInv /\ StepsAddUp /\ LedgerInv /\ CountInv /\ FaultsStrikeOnTheirCall /\ DeliveredInv
        /\ CallsFollowTheirMessage
    BY DEF CaseInv
  <2>2. UNCHANGED <<plan, counts, ledger, stopped, step, delivered, waiting, obs, clar, sequence, ended>>
    BY <1>3 DEF vars, gateway, runner
  <2>3. TypeInv' /\ StepsAddUp'
    BY <2>1, <2>2 DEF TypeInv, StepsAddUp
  <2>4. LedgerInv' /\ CountInv' /\ FaultsStrikeOnTheirCall'
    BY <2>1, <2>2, BooksStay
  <2>5. DeliveredInv' /\ CallsFollowTheirMessage'
    BY <2>1, <2>2 DEF DeliveredInv, CallsFollowTheirMessage
  <2>6. QED
    BY <2>3, <2>4, <2>5 DEF CaseInv
<1>4. QED
  BY <1>1, <1>2, <1>3 DEF Next

\* The properties of the record follow.
LEMMA RecordFollows == ASSUME CaseInv PROVE RecordIsSound
<1>1. TypeInv /\ StepsAddUp /\ LedgerInv /\ FaultsStrikeOnTheirCall /\ DeliveredInv /\ CallsFollowTheirMessage
  BY DEF CaseInv
<1>2. LedgerMatchesObservations
  <2>1. \A j, k \in DOMAIN obs : obs[j].id = obs[k].id => j = k
    BY <1>1 DEF LedgerInv
  <2>2. QED
    BY <1>1, <2>1 DEF LedgerMatchesObservations, LedgerInv
<1>3. TurnsAreAnswered
  <2>1. PICK n : n = Len(delivered) - 1
    OBVIOUS
  <2>2. /\ n \in Nat /\ Len(delivered) = 1 + n /\ n <= Len(clar) /\ Len(clar) \in Nat /\ DOMAIN clar = 1 .. Len(clar)
        /\ DOMAIN delivered = 1 .. 1 + n
    BY <2>1, <1>1 DEF TypeInv, DeliveredInv
  <2>3. Answered = 1 .. n
    <3>1. ASSUME NEW k \in Answered PROVE k \in 1 .. n
      BY <3>1, <1>1, <2>2 DEF Answered, DeliveredInv
    <3>2. ASSUME NEW k \in 1 .. n PROVE k \in Answered
      BY <3>2, <1>1, <2>2 DEF Answered, DeliveredInv
    <3>3. QED
      BY <3>1, <3>2
  <2>4. Cardinality(Answered) = n
    BY <2>2, <2>3, FS_Interval
  <2>5. ASSUME NEW k \in Answered PROVE delivered[1 + Cardinality({j \in Answered : j <= k})] = clar[k].turn
    <3>1. {j \in Answered : j <= k} = 1 .. k /\ k \in Nat
      BY <2>2, <2>3
    <3>2. Cardinality(1 .. k) = k
      BY <3>1, FS_Interval
    <3>3. delivered[k + 1] = clar[k].turn /\ 1 + k = k + 1
      BY <1>1, <3>1 DEF DeliveredInv, Answered
    <3>4. QED
      BY <3>1, <3>2, <3>3
  <2>6. delivered[1] = 0 /\ IsInjective(delivered) /\ \A k \in Answered : clar[k].slots \subseteq Turns[clar[k].turn]
    BY <1>1 DEF DeliveredInv, Answered
  <2>7. QED
    BY <2>2, <2>4, <2>5, <2>6 DEF TurnsAreAnswered
<1>4. QED
  BY <1>1, <1>2, <1>3 DEF RecordIsSound

-----------------------------------------------------------------------------
(* The tool loop: the invariant *)

\* How often a call stands in a queue.
Queued(q, c) == {k \in DOMAIN q : q[k] = c}

LoopTypeInv ==
    /\ formal \in BOOLEAN /\ ids \in BOOLEAN /\ pending \in Seq(Call) /\ DOMAIN native \subseteq 1 .. MaxSteps
    /\ broke \in {"nothing", "provider", "protocol"}

\* What waits leaves the model a step.
RoomInv == (ended.how = "running" => step + Len(pending) < MaxSteps) /\ ended.how # "max_steps_exceeded"

\* Every call has an envelope, and the envelopes are of the calls that were made and
\* of those that wait, each at the step where it will be made.
NativeInv ==
    /\ \A k \in DOMAIN obs : Matches(obs[k].step, obs[k])
    /\ ended.how # "raised" =>
         /\ DOMAIN native = {obs[k].step : k \in DOMAIN obs} \cup (step + 1 .. step + Len(pending))
         /\ \A i \in 1 .. Len(pending) : native[step + i].call = pending[i]

\* The calls that wait are allowed for.
CapInv == \A c \in Call : Attempts(c) + Cardinality(Queued(pending, c)) <= RetryCap

LoopInv == CaseInv /\ LoopTypeInv /\ RoomInv /\ NativeInv /\ CapInv

-----------------------------------------------------------------------------
(* The tool loop: queues and responses *)

LEMMA ShiftedByOne ==
    ASSUME NEW A \in SUBSET Nat, IsFiniteSet(A)
    PROVE  IsFiniteSet({x + 1 : x \in A}) /\ Cardinality({x + 1 : x \in A}) = Cardinality(A)
<1>1. PICK B : B = {x + 1 : x \in A}
  OBVIOUS
<1>2. PICK f : f = [x \in A |-> x + 1]
  OBVIOUS
<1>3. f \in Bijection(A, B)
  <2>1. f \in [A -> B] /\ \A x, y \in A : f[x] = f[y] => x = y
    BY <1>1, <1>2
  <2>2. \A y \in B : \E x \in A : f[x] = y
    BY <1>1, <1>2
  <2>3. QED
    BY <2>1, <2>2 DEF Bijection, Injection, Surjection, IsInjective
<1>4. ExistsBijection(A, B)
  BY <1>3 DEF ExistsBijection
<1>5. QED
  BY <1>1, <1>4, FS_Bijection

\* Without its first call, a queue has that one less.
LEMMA QueuedInTail ==
    ASSUME NEW q \in Seq(Call), q # <<>>
    PROVE  /\ q[1] \in Call /\ Head(q) = q[1]
           /\ Tail(q) \in Seq(Call) /\ Len(Tail(q)) = Len(q) - 1 /\ Len(q) \in Nat \ {0}
           /\ \A i \in 1 .. Len(q) - 1 : Tail(q)[i] = q[i + 1]
           /\ \A c \in Call : /\ Cardinality(Queued(Tail(q), c)) \in Nat /\ Cardinality(Queued(q, c)) \in Nat
                              /\ Cardinality(Queued(q, c)) =
                                   Cardinality(Queued(Tail(q), c)) + (IF q[1] = c THEN 1 ELSE 0)
<1>1. /\ q[1] \in Call /\ Head(q) = q[1] /\ Len(q) \in Nat \ {0} /\ DOMAIN q = 1 .. Len(q)
      /\ Tail(q) \in Seq(Call) /\ Len(Tail(q)) = Len(q) - 1 /\ DOMAIN Tail(q) = 1 .. Len(q) - 1
      /\ \A i \in 1 .. Len(q) - 1 : Tail(q)[i] = q[i + 1]
  OBVIOUS
<1>2. ASSUME NEW c \in Call
      PROVE  /\ Cardinality(Queued(Tail(q), c)) \in Nat /\ Cardinality(Queued(q, c)) \in Nat
             /\ Cardinality(Queued(q, c)) = Cardinality(Queued(Tail(q), c)) + (IF q[1] = c THEN 1 ELSE 0)
  <2>1. PICK A : A = Queued(Tail(q), c)
    OBVIOUS
  <2>2. PICK B : B = {x + 1 : x \in A}
    OBVIOUS
  <2>3. A \subseteq 1 .. Len(q) - 1 /\ Len(q) - 1 \in Nat /\ A \subseteq Nat
    BY <1>1, <2>1 DEF Queued
  <2>4. IsFiniteSet(A) /\ Cardinality(A) \in Nat /\ IsFiniteSet(B) /\ Cardinality(B) = Cardinality(A)
    BY <2>2, <2>3, UpToIsFinite, ShiftedByOne
  <2>5. 1 \notin B
    BY <2>2, <2>3
  <2>6. ASSUME NEW k \in DOMAIN q, q[k] = c, k # 1 PROVE k \in B
    <3>1. k - 1 \in 1 .. Len(q) - 1 /\ k = (k - 1) + 1 /\ Tail(q)[k - 1] = q[k]
      BY <1>1, <2>6
    <3>2. k - 1 \in A
      BY <1>1, <2>1, <2>6, <3>1 DEF Queued
    <3>3. QED
      BY <2>2, <3>1, <3>2
  <2>7. ASSUME NEW k \in B PROVE k \in DOMAIN q /\ q[k] = c
    <3>1. PICK x \in A : k = x + 1
      BY <2>2, <2>7
    <3>2. x \in 1 .. Len(q) - 1 /\ Tail(q)[x] = c
      BY <1>1, <2>1, <3>1 DEF Queued
    <3>3. QED
      BY <1>1, <3>1, <3>2
  <2>8. Queued(q, c) = IF q[1] = c THEN B \cup {1} ELSE B
    <3>1. 1 \in DOMAIN q
      BY <1>1
    <3>2. QED
      BY <2>6, <2>7, <3>1 DEF Queued
  <2>9. /\ Cardinality(Queued(q, c)) = Cardinality(B) + (IF q[1] = c THEN 1 ELSE 0)
        /\ Cardinality(B) \in Nat
    BY <2>4, <2>5, <2>8, OneMore
  <2>10. QED
    BY <2>1, <2>4, <2>9
<1>3. QED
  BY <1>1, <1>2

\* What an accepted response may be.
LEMMA AcceptedIs ==
    ASSUME NEW n \in Nat, n <= MaxSteps, NEW r \in Responses, Diagnosis(n, r) = "nothing"
    PROVE  /\ r # <<>> /\ Len(r) \in Nat \ {0} /\ DOMAIN r = 1 .. Len(r)
           /\ \/ /\ \A k \in DOMAIN r : r[k].fn = "tool" /\ r[k].says \in Call /\ CallFault(r, k) = "nothing"
                 /\ Len(r) <= MaxSteps - n
              \/ r[1].fn = "ask_user" /\ r[1].says \in SUBSET Slot \ {{}} /\ n < MaxSteps
              \/ r[1].fn = "finish" /\ r[1].says \in Disposition
<1>1. r \in Seq(Native)
  BY LoopAssumption
<1>2. r # <<>>
  <2>1. ASSUME r = <<>> PROVE Diagnosis(n, r) = "no_tool_call"
    <3>1. Len(r) = 0 /\ DOMAIN r = {}
      BY <2>1
    <3>2. Names(r) = {}
      BY <3>1 DEF Names
    <3>3. QED
      BY <2>1, <3>1, <3>2 DEF Diagnosis
  <2>2. QED
    BY <2>1
<1>3. Len(r) \in Nat \ {0} /\ DOMAIN r = 1 .. Len(r) /\ 1 \in DOMAIN r /\ \A k \in DOMAIN r : r[k] \in Native
  BY <1>1, <1>2
<1>4. \A k \in DOMAIN r : /\ r[k].fn \in {"tool", "ask_user", "finish", "unknown"}
                          /\ r[k].fn = "tool" => r[k].says \in Call
                          /\ r[k].fn = "ask_user" => r[k].says \in SUBSET Slot \ {{}}
                          /\ r[k].fn = "finish" => r[k].says \in Disposition
  BY <1>3 DEF Native
<1>5. "unknown" \notin Names(r)
  BY <1>2 DEF Diagnosis
<1>6. Names(r) = {"tool"} \/ (Len(r) = 1 /\ "unknown" \notin Names(r))
  <2>1. CASE Len(r) = 1
    BY <2>1, <1>5
  <2>2. CASE Len(r) > 1
    BY <2>2, <1>2, <1>5 DEF Diagnosis
  <2>3. QED
    BY <2>1, <2>2, <1>3
<1>7. /\ Names(r) \subseteq Offered(n)
      /\ Names(r) = {"tool"} => Len(r) <= BatchRoom(n) /\ BatchFault(r) = "nothing"
  <2>1. ~(Len(r) > 1 /\ "unknown" \notin Names(r) /\ Names(r) # {"tool"})
    BY <1>3, <1>6
  <2>2. Diagnosis(n, r) =
          IF ~ Names(r) \subseteq Offered(n) THEN "function_not_offered"
          ELSE IF Names(r) = {"tool"} THEN IF Len(r) > BatchRoom(n) THEN "batch_exceeds_step_budget" ELSE BatchFault(r)
          ELSE IF r[1].fit = "invalid" THEN IF r[1].fn = "ask_user" THEN "invalid_ask_user_slots" ELSE "invalid_finish_disposition"
          ELSE "nothing"
    BY <1>2, <1>5, <1>6, <2>1 DEF Diagnosis
  <2>3. BatchRoom(n) = MaxSteps - n
    BY CaseAssumption DEF BatchRoom, Remaining
  <2>4. QED
    BY <2>2, <2>3, <1>3, CaseAssumption
<1>8. Remaining(n) = MaxSteps - n + 1 /\ BatchRoom(n) = MaxSteps - n /\ MaxSteps \in Nat
  BY CaseAssumption DEF BatchRoom, Remaining
<1>9. r[1].fn # "finish" => n < MaxSteps
  <2>1. r[1].fn \in Names(r)
    BY <1>3 DEF Names
  <2>2. QED
    BY <2>1, <1>4, <1>5, <1>7, <1>8, <1>3 DEF Offered
<1>10. CASE Names(r) = {"tool"}
  <2>1. \A k \in DOMAIN r : r[k].fn = "tool"
    BY <1>10 DEF Names
  <2>2. \A k \in DOMAIN r : CallFault(r, k) = "nothing"
    <3>1. PICK faulty : faulty = {k \in DOMAIN r : CallFault(r, k) # "nothing"}
      OBVIOUS
    <3>2. faulty = {} \/ CallFault(r, Min(faulty)) = "nothing"
      BY <1>7, <1>10, <3>1 DEF BatchFault
    <3>3. faulty # {} => Min(faulty) \in faulty
      <4>1. faulty \in SUBSET Nat
        BY <1>3, <3>1
      <4>2. QED
        BY <4>1, MinIsIn
    <3>4. QED
      BY <3>1, <3>2, <3>3
  <2>3. QED
    BY <1>2, <1>3, <1>4, <1>7, <1>8, <1>10, <2>1, <2>2
<1>11. CASE Names(r) # {"tool"}
  <2>1. Len(r) = 1 /\ DOMAIN r = {1}
    BY <1>3, <1>6, <1>11
  <2>2. r[1].fn # "unknown" /\ r[1].fn # "tool"
    BY <1>5, <1>11, <2>1 DEF Names
  <2>3. QED
    BY <1>2, <1>3, <1>4, <1>9, <2>1, <2>2
<1>12. QED
  BY <1>10, <1>11

\* A batch that was accepted is allowed for.
LEMMA BatchIsAllowed ==
    ASSUME TypeInv, NEW r, Len(r) \in Nat \ {0}, DOMAIN r = 1 .. Len(r),
           \A k \in DOMAIN r : r[k].fn = "tool" /\ r[k].says \in Call /\ CallFault(r, k) = "nothing",
           NEW q, q = [k \in DOMAIN r |-> r[k].says], NEW c \in Call, Attempts(c) <= RetryCap
    PROVE  Attempts(c) + Cardinality(Queued(q, c)) <= RetryCap
<1>1. PICK S : S = {k \in DOMAIN r : r[k].says = c}
  OBVIOUS
<1>2. Queued(q, c) = S /\ S \subseteq 1 .. Len(r)
  BY <1>1 DEF Queued
<1>3. Attempts(c) \in Nat /\ RetryCap \in Nat
  <2>1. Len(obs) \in Nat /\ DOMAIN obs = 1 .. Len(obs)
    BY DEF TypeInv
  <2>2. {k \in DOMAIN obs : obs[k].call = c} \subseteq 1 .. Len(obs)
    BY <2>1
  <2>3. QED
    BY <2>1, <2>2, UpToIsFinite, LoopAssumption DEF Attempts
<1>4. CASE S = {}
  <2>1. Cardinality(S) = 0
    BY <1>4, FS_EmptySet
  <2>2. QED
    BY <1>2, <1>3, <2>1
<1>5. CASE S # {}
  <2>1. PICK m \in S : \A k \in S : k <= m
    <3>1. PICK D : D = {Len(r) - k : k \in S}
      OBVIOUS
    <3>2. D \in SUBSET Nat /\ D # {}
      <4>1. \A k \in S : Len(r) - k \in Nat
        BY <1>2
      <4>2. QED
        BY <1>5, <3>1, <4>1
    <3>3. PICK d \in D : \A x \in D : d <= x
      BY <3>2, LeastIn
    <3>4. PICK m \in S : d = Len(r) - m
      BY <3>1
    <3>5. ASSUME NEW k \in S PROVE k <= m
      <4>1. Len(r) - k \in D /\ k \in Nat /\ m \in Nat
        BY <1>2, <3>1, <3>5
      <4>2. Len(r) - m <= Len(r) - k
        BY <3>3, <3>4, <4>1
      <4>3. QED
        BY <4>1, <4>2
    <3>6. QED
      BY <3>5
  <2>2. m \in DOMAIN r /\ m \in Nat /\ r[m].says = c /\ m - 1 \in Nat
    BY <1>1, <1>2, <2>1
  <2>3. PICK E : E = {j \in 1 .. m - 1 : r[j].says = r[m].says}
    OBVIOUS
  <2>4. IsFiniteSet(E) /\ Cardinality(E) \in Nat /\ m \notin E
    <3>1. E \subseteq 1 .. m - 1 /\ m \notin 1 .. m - 1
      BY <2>2, <2>3
    <3>2. IsFiniteSet(E) /\ Cardinality(E) \in Nat
      BY <2>2, <3>1, UpToIsFinite
    <3>3. QED
      BY <3>1, <3>2
  <2>5. S = E \cup {m}
    <3>1. ASSUME NEW k \in S PROVE k \in E \cup {m}
      BY <1>1, <1>2, <2>1, <2>2, <2>3, <3>1
    <3>2. ASSUME NEW k \in E PROVE k \in S
      BY <1>1, <2>2, <2>3, <3>2
    <3>3. QED
      BY <2>1, <3>1, <3>2
  <2>6. Cardinality(S) = Cardinality(E) + 1
    BY <2>4, <2>5, FS_AddElement
  <2>7. Attempts(c) + Cardinality(E) < RetryCap
    <3>1. CallFault(r, m) = "nothing" /\ Earlier(r, m) = Cardinality(E)
      BY <2>2, <2>3 DEF Earlier
    <3>2. ~(Attempts(c) + Earlier(r, m) >= RetryCap)
      BY <2>2, <3>1 DEF CallFault
    <3>3. QED
      BY <1>3, <2>4, <3>1, <3>2
  <2>8. QED
    BY <1>2, <1>3, <2>4, <2>6, <2>7
<1>6. QED
  BY <1>4, <1>5

-----------------------------------------------------------------------------
(* The tool loop: each step keeps the invariant *)

\* A call is observed at its step, or ends the run.
LEMMA CallDoes ==
    ASSUME CaseInv, CanStep, NEW c \in Call, Perform(step + 1, [kind |-> "call", says |-> c])
    PROVE  /\ CaseInv' /\ step' = step + 1 /\ step \in Nat /\ step + 1 <= MaxSteps
           /\ \/ /\ UNCHANGED ended
                 /\ \E o \in Observations : obs' = Append(obs, o) /\ o.step = step + 1 /\ o.call = c
              \/ ended'.how = "raised" /\ UNCHANGED obs
<1>1. PICK a : a = [kind |-> "call", says |-> c]
  OBVIOUS
<1>2. a \in Action /\ a.kind = "call" /\ a.says = c
  BY <1>1 DEF Action
<1>3. CaseInv'
  BY <1>1, <1>2, PerformKeeps
<1>4. step' = step + 1 /\ CallTool(step + 1, c)
  BY <1>1, <1>2 DEF Perform
<1>5. TypeInv /\ TypeInv' /\ step \in Nat /\ step + 1 <= MaxSteps
  <2>1. TypeInv /\ TypeInv' /\ step < MaxSteps
    BY <1>3 DEF CaseInv, CanStep
  <2>2. step \in Nat /\ MaxSteps \in Nat
    BY <2>1, Typed
  <2>3. QED
    BY <2>1, <2>2
<1>6. ASSUME NEW fault, NEW status, Observe(step + 1, c, fault, status)
      PROVE  UNCHANGED ended /\ \E o \in Observations : obs' = Append(obs, o) /\ o.step = step + 1 /\ o.call = c
  <2>1. PICK o : o = [sequence |-> sequence + 1, step |-> step + 1, turn |-> Len(delivered),
                      id |-> <<Len(delivered), Len(obs) + 1>>, call |-> c, status |-> status]
    OBVIOUS
  <2>2. obs' = Append(obs, o) /\ UNCHANGED ended
    BY <1>6, <2>1 DEF Observe, Observation, ObservationId
  <2>3. o \in Observations
    <3>1. obs' \in Seq(Observations) /\ Len(obs) \in Nat
      BY <1>5 DEF TypeInv
    <3>2. obs \in Seq(Observations)
      BY <1>5 DEF TypeInv
    <3>3. Len(obs') = Len(obs) + 1 /\ obs'[Len(obs) + 1] = o
      BY <2>2, <3>2
    <3>4. Len(obs) + 1 \in 1 .. Len(obs')
      BY <3>1, <3>3
    <3>5. QED
      BY <3>1, <3>3, <3>4
  <2>4. o.step = step + 1 /\ o.call = c
    BY <2>1
  <2>5. QED
    BY <2>2, <2>3, <2>4
<1>7. CASE Reject(c)
  BY <1>7, <1>3, <1>4, <1>5 DEF Reject, End
<1>8. CASE Delegate(step + 1, c) \/ Inject(step + 1, c)
  BY <1>8, <1>3, <1>4, <1>5, <1>6 DEF Delegate, Inject
<1>9. QED
  BY <1>4, <1>7, <1>8 DEF CallTool

\* A clarification and an end observe nothing.
LEMMA OthersDo ==
    ASSUME CaseInv, CanStep, NEW a \in Action, a.kind # "call", Perform(step + 1, a)
    PROVE  /\ CaseInv' /\ step' = step + 1 /\ UNCHANGED obs /\ step \in Nat
           /\ \/ a.kind = "clarify" /\ ended'.how \in {"running", "unanswered_clarification"}
              \/ a.kind = "finish" /\ ended'.how = "finished"
<1>1. CaseInv' /\ step' = step + 1 /\ step \in Nat
  <2>1. CaseInv' /\ TypeInv
    BY PerformKeeps DEF CaseInv
  <2>2. step' = step + 1
    BY DEF Perform
  <2>3. QED
    BY <2>1, <2>2, Typed
<1>2. CASE a.kind = "clarify" /\ Clarify(step + 1, a.says)
  <2>1. ended.how = "running"
    BY DEF CanStep, Running
  <2>2. QED
    BY <1>1, <1>2, <2>1 DEF Clarify, Asked, End
<1>3. CASE a.kind = "finish" /\ Finish(a.says)
  BY <1>1, <1>3 DEF Finish, End
<1>4. QED
  BY <1>2, <1>3 DEF Perform

LEMMA AttemptsIsNat == ASSUME TypeInv, NEW c PROVE Attempts(c) \in Nat
<1>1. Len(obs) \in Nat /\ DOMAIN obs = 1 .. Len(obs)
  BY DEF TypeInv
<1>2. {k \in DOMAIN obs : obs[k].call = c} \subseteq 1 .. Len(obs)
  BY <1>1
<1>3. QED
  BY <1>1, <1>2, UpToIsFinite DEF Attempts

\* One more attempt.
LEMMA AttemptsOneMore ==
    ASSUME TypeInv, NEW o \in Observations, obs' = Append(obs, o), NEW c \in Call
    PROVE  /\ Attempts(c) \in Nat
           /\ Attempts(c)' = Attempts(c) + (IF o.call = c THEN 1 ELSE 0)
<1>1. /\ Len(obs) \in Nat /\ DOMAIN obs = 1 .. Len(obs) /\ DOMAIN obs' = DOMAIN obs \cup {Len(obs) + 1}
      /\ Len(obs) + 1 \notin DOMAIN obs
      /\ \A k \in DOMAIN obs : obs'[k] = obs[k]
      /\ obs'[Len(obs) + 1] = o
  BY Appended DEF TypeInv
<1>2. PICK S : S = {k \in DOMAIN obs : obs[k].call = c}
  OBVIOUS
<1>3. PICK T : T = {k \in DOMAIN obs' : obs'[k].call = c}
  OBVIOUS
<1>4. IsFiniteSet(S) /\ Cardinality(S) \in Nat /\ Len(obs) + 1 \notin S
  <2>1. S \subseteq 1 .. Len(obs)
    BY <1>1, <1>2
  <2>2. QED
    BY <1>1, <2>1, UpToIsFinite
<1>5. T = IF o.call = c THEN S \cup {Len(obs) + 1} ELSE S
  BY <1>1, <1>2, <1>3
<1>6. Cardinality(T) = Cardinality(S) + (IF o.call = c THEN 1 ELSE 0)
  BY <1>4, <1>5, OneMore
<1>7. Attempts(c) = Cardinality(S) /\ Attempts(c)' = Cardinality(T)
  BY <1>2, <1>3 DEF Attempts
<1>8. QED
  BY <1>4, <1>6, <1>7

\* The first call of a queue that is allowed for is made: q waits at this step, or is what
\* the model just answered.
LEMMA CallKeeps ==
    ASSUME LoopInv, CanStep, NEW q \in Seq(Call), q # <<>>, Perform(step + 1, [kind |-> "call", says |-> q[1]]),
           pending' = Tail(q), formal' \in BOOLEAN, ids' \in BOOLEAN, broke' = broke,
           step + Len(q) < MaxSteps,
           DOMAIN native' = {obs[k].step : k \in DOMAIN obs} \cup (step + 1 .. step + Len(q)),
           \A s \in DOMAIN native : s \in DOMAIN native' /\ native'[s] = native[s],
           \A i \in 1 .. Len(q) : native'[step + i].call = q[i],
           \A c \in Call : Attempts(c) + Cardinality(Queued(q, c)) <= RetryCap
    PROVE  LoopInv'
<1>1. CaseInv /\ LoopTypeInv /\ RoomInv /\ NativeInv /\ TypeInv /\ ended.how = "running"
  BY DEF LoopInv, CaseInv, CanStep, Running
<1>2. /\ q[1] \in Call /\ Tail(q) \in Seq(Call) /\ Len(Tail(q)) = Len(q) - 1 /\ Len(q) \in Nat \ {0}
      /\ \A i \in 1 .. Len(q) - 1 : Tail(q)[i] = q[i + 1]
      /\ \A c \in Call : /\ Cardinality(Queued(Tail(q), c)) \in Nat /\ Cardinality(Queued(q, c)) \in Nat
                         /\ Cardinality(Queued(q, c)) = Cardinality(Queued(Tail(q), c)) + (IF q[1] = c THEN 1 ELSE 0)
  BY QueuedInTail
<1>3. /\ CaseInv' /\ step' = step + 1 /\ step \in Nat /\ step + 1 <= MaxSteps
      /\ \/ /\ UNCHANGED ended
            /\ \E o \in Observations : obs' = Append(obs, o) /\ o.step = step + 1 /\ o.call = q[1]
         \/ ended'.how = "raised" /\ UNCHANGED obs
  BY <1>1, <1>2, CallDoes
<1>4. \A k \in DOMAIN obs : obs[k].step \in 1 .. step
  BY <1>1 DEF TypeInv
<1>5. MaxSteps \in Nat /\ RetryCap \in Nat
  BY CaseAssumption, LoopAssumption
<1>6. LoopTypeInv'
  <2>1. DOMAIN native' \subseteq 1 .. MaxSteps
    BY <1>2, <1>3, <1>4, <1>5
  <2>2. QED
    BY <1>1, <1>2, <2>1 DEF LoopTypeInv
<1>7. RoomInv'
  BY <1>1, <1>2, <1>3, <1>5 DEF RoomInv
<1>8. CASE UNCHANGED ended /\ \E o \in Observations : obs' = Append(obs, o) /\ o.step = step + 1 /\ o.call = q[1]
  <2>1. PICK o \in Observations : obs' = Append(obs, o) /\ o.step = step + 1 /\ o.call = q[1]
    BY <1>8
  <2>2. PICK n : n = Len(obs) + 1
    OBVIOUS
  <2>3. /\ DOMAIN obs' = DOMAIN obs \cup {n} /\ obs'[n] = o
        /\ \A k \in DOMAIN obs : obs'[k] = obs[k]
    BY <1>1, <2>1, <2>2, Appended DEF TypeInv
  <2>4. step + 1 \in DOMAIN native' /\ native'[step + 1].call = q[1]
    <3>1. 1 \in 1 .. Len(q) /\ step + 1 \in step + 1 .. step + Len(q)
      BY <1>2, <1>3
    <3>2. QED
      BY <3>1
  <2>5. \A k \in DOMAIN obs' : obs'[k].step \in DOMAIN native' /\ native'[obs'[k].step].call = obs'[k].call
    <3>1. ASSUME NEW k \in DOMAIN obs PROVE obs'[k].step \in DOMAIN native' /\ native'[obs'[k].step].call = obs'[k].call
      BY <1>1, <2>3, <3>1 DEF NativeInv, Matches
    <3>2. obs'[n].step \in DOMAIN native' /\ native'[obs'[n].step].call = obs'[n].call
      BY <2>1, <2>3, <2>4
    <3>3. QED
      BY <2>3, <3>1, <3>2
  <2>6. DOMAIN native' = {obs'[k].step : k \in DOMAIN obs'} \cup (step' + 1 .. step' + Len(pending'))
    <3>1. {obs'[k].step : k \in DOMAIN obs'} = {obs[k].step : k \in DOMAIN obs} \cup {step + 1}
      BY <2>1, <2>3
    <3>2. step + 1 .. step + Len(q) = {step + 1} \cup (step' + 1 .. step' + Len(pending'))
      BY <1>2, <1>3
    <3>3. QED
      BY <3>1, <3>2
  <2>7. \A i \in 1 .. Len(pending') : native'[step' + i].call = pending'[i]
    <3>1. ASSUME NEW i \in 1 .. Len(q) - 1 PROVE native'[step' + i].call = Tail(q)[i]
      <4>1. i + 1 \in 1 .. Len(q) /\ step' + i = step + (i + 1)
        BY <1>2, <1>3
      <4>2. QED
        BY <1>2, <4>1
    <3>2. QED
      BY <1>2, <3>1
  <2>8. NativeInv'
    BY <2>5, <2>6, <2>7 DEF NativeInv, Matches
  <2>9. CapInv'
    <3>1. ASSUME NEW c \in Call PROVE Attempts(c)' + Cardinality(Queued(Tail(q), c)) <= RetryCap
      <4>1. Attempts(c) \in Nat /\ Attempts(c)' = Attempts(c) + (IF q[1] = c THEN 1 ELSE 0)
        BY <1>1, <2>1, AttemptsOneMore
      <4>2. Attempts(c) + Cardinality(Queued(q, c)) <= RetryCap
        OBVIOUS
      <4>3. QED
        BY <1>2, <1>5, <4>1, <4>2
    <3>2. QED
      BY <3>1 DEF CapInv, Queued
  <2>10. QED
    BY <1>3, <1>6, <1>7, <2>8, <2>9 DEF LoopInv
<1>9. CASE ended'.how = "raised" /\ UNCHANGED obs
  <2>1. NativeInv'
    <3>1. \A k \in DOMAIN obs : obs[k].step \in DOMAIN native' /\ native'[obs[k].step].call = obs[k].call
      BY <1>1 DEF NativeInv, Matches
    <3>2. QED
      BY <1>9, <3>1 DEF NativeInv, Matches
  <2>2. CapInv'
    <3>1. ASSUME NEW c \in Call PROVE Attempts(c)' + Cardinality(Queued(Tail(q), c)) <= RetryCap
      <4>1. Attempts(c) \in Nat /\ Attempts(c)' = Attempts(c)
        BY <1>1, <1>9, AttemptsIsNat DEF Attempts
      <4>2. Attempts(c) + Cardinality(Queued(q, c)) <= RetryCap
        OBVIOUS
      <4>3. QED
        BY <1>2, <1>5, <4>1, <4>2
    <3>2. QED
      BY <3>1 DEF CapInv, Queued
  <2>3. QED
    BY <1>3, <1>6, <1>7, <2>1, <2>2 DEF LoopInv
<1>10. QED
  BY <1>3, <1>8, <1>9

\* A clarification, an end or a refusal, when nothing waits.
LEMMA OtherKeeps ==
    ASSUME LoopInv, CanStep, pending = <<>>, NEW a \in Action, a.kind # "call", Perform(step + 1, a),
           a.kind = "clarify" => step + 1 < MaxSteps, UNCHANGED <<native, pending, formal, ids, broke>>
    PROVE  LoopInv'
<1>1. CaseInv /\ LoopTypeInv /\ RoomInv /\ NativeInv /\ CapInv /\ ended.how = "running"
  BY DEF LoopInv, CanStep, Running
<1>2. /\ CaseInv' /\ step' = step + 1 /\ UNCHANGED obs /\ step \in Nat
      /\ \/ a.kind = "clarify" /\ ended'.how \in {"running", "unanswered_clarification"}
         \/ a.kind = "finish" /\ ended'.how = "finished"
  BY <1>1, OthersDo
<1>3. Len(pending) = 0 /\ step + 1 .. step + Len(pending) = {} /\ step' + 1 .. step' + Len(pending') = {}
  BY <1>2
<1>4. LoopTypeInv' /\ CapInv'
  BY <1>1, <1>2 DEF LoopTypeInv, CapInv, Attempts, Queued
<1>5. RoomInv'
  BY <1>1, <1>2, <1>3 DEF RoomInv
<1>6. NativeInv'
  BY <1>1, <1>2, <1>3 DEF NativeInv, Matches
<1>7. QED
  BY <1>2, <1>4, <1>5, <1>6 DEF LoopInv

LEMMA DrainKeeps == ASSUME LoopInv, Drain PROVE LoopInv'
<1>1. CaseInv /\ LoopTypeInv /\ RoomInv /\ NativeInv /\ CapInv /\ ended.how = "running" /\ CanStep
  BY DEF LoopInv, Drain, CanStep, Running
<1>2. /\ pending # <<>> /\ Perform(step + 1, [kind |-> "call", says |-> Head(pending)]) /\ pending' = Tail(pending)
      /\ UNCHANGED <<formal, ids, native, broke>>
  BY DEF Drain, Issue
<1>3. pending \in Seq(Call) /\ Head(pending) = pending[1]
  BY <1>1, <1>2 DEF LoopTypeInv
<1>4. Perform(step + 1, [kind |-> "call", says |-> pending[1]])
  BY <1>2, <1>3
<1>5. /\ DOMAIN native = {obs[k].step : k \in DOMAIN obs} \cup (step + 1 .. step + Len(pending))
      /\ \A i \in 1 .. Len(pending) : native[step + i].call = pending[i]
  BY <1>1 DEF NativeInv
<1>6. step + Len(pending) < MaxSteps
  BY <1>1 DEF RoomInv
<1>7. formal' \in BOOLEAN /\ ids' \in BOOLEAN
  BY <1>1, <1>2 DEF LoopTypeInv
<1>8. \A c \in Call : Attempts(c) + Cardinality(Queued(pending, c)) <= RetryCap
  BY <1>1 DEF CapInv
<1>9. QED
  BY <1>1, <1>2, <1>3, <1>4, <1>5, <1>6, <1>7, <1>8, CallKeeps

\* An accepted batch: its envelopes are kept and its first call is made.
LEMMA BatchKeeps ==
    ASSUME LoopInv, CanStep, pending = <<>>, NEW r \in Responses,
           Len(r) \in Nat \ {0}, DOMAIN r = 1 .. Len(r), Len(r) <= MaxSteps - (step + 1),
           \A k \in DOMAIN r : r[k].fn = "tool" /\ r[k].says \in Call /\ CallFault(r, k) = "nothing",
           Perform(step + 1, Translated(r)), native' = Remembered(step + 1, r),
           pending' = Tail([k \in DOMAIN r |-> r[k].says]), UNCHANGED <<formal, ids, broke>>
    PROVE  LoopInv'
<1>1. CaseInv /\ LoopTypeInv /\ RoomInv /\ NativeInv /\ CapInv /\ TypeInv /\ ended.how = "running"
  BY DEF LoopInv, CaseInv, CanStep, Running
<1>2. PICK q : q = [k \in DOMAIN r |-> r[k].says]
  OBVIOUS
<1>3. /\ q \in Seq(Call) /\ Len(q) = Len(r) /\ q # <<>> /\ q[1] = r[1].says
      /\ \A k \in 1 .. Len(r) : q[k] = r[k].says
  <2>1. q \in [1 .. Len(r) -> Call] /\ \A k \in 1 .. Len(r) : q[k] = r[k].says
    BY <1>2
  <2>2. q \in Seq(Call) /\ Len(q) = Len(r)
    BY <2>1
  <2>3. q # <<>> /\ 1 \in 1 .. Len(r)
    BY <2>2
  <2>4. QED
    BY <2>1, <2>2, <2>3
<1>4. Translated(r) = [kind |-> "call", says |-> q[1]]
  BY <1>3 DEF Translated
<1>5. step \in Nat /\ MaxSteps \in Nat /\ step + Len(q) < MaxSteps
  BY <1>1, <1>3, CaseAssumption DEF TypeInv
<1>6. DOMAIN native = {obs[k].step : k \in DOMAIN obs}
  <2>1. step + 1 .. step + Len(pending) = {}
    BY <1>5
  <2>2. QED
    BY <1>1, <2>1 DEF NativeInv
<1>7. \A s \in DOMAIN native : s \in 1 .. step
  BY <1>1, <1>6 DEF TypeInv
<1>8. /\ DOMAIN native' = DOMAIN native \cup (step + 1 .. step + Len(q))
      /\ \A s \in DOMAIN native : native'[s] = native[s]
      /\ \A s \in step + 1 .. step + Len(q) : s \notin DOMAIN native => native'[s] = Envelope(step + 1, r, s - step)
  <2>1. step + 1 + Len(r) - 1 = step + Len(q)
    BY <1>3, <1>5
  <2>2. \A s \in step + 1 .. step + Len(q) : s - (step + 1) + 1 = s - step
    BY <1>3, <1>5
  <2>3. native' = [s \in DOMAIN native \cup (step + 1 .. step + Len(q)) |->
                     IF s \in DOMAIN native THEN native[s] ELSE Envelope(step + 1, r, s - (step + 1) + 1)]
    BY <2>1 DEF Remembered
  <2>4. QED
    BY <2>2, <2>3
<1>9. \A i \in 1 .. Len(q) : native'[step + i].call = q[i]
  <2>1. SUFFICES ASSUME NEW i \in 1 .. Len(q) PROVE native'[step + i].call = q[i]
    OBVIOUS
  <2>2. step + i \in step + 1 .. step + Len(q) /\ step + i \notin DOMAIN native /\ (step + i) - step = i
    BY <1>3, <1>5, <1>7
  <2>3. native'[step + i] = Envelope(step + 1, r, i)
    BY <1>8, <2>2
  <2>4. QED
    BY <1>3, <2>3 DEF Envelope
<1>10. \A c \in Call : Attempts(c) + Cardinality(Queued(q, c)) <= RetryCap
  <2>1. ASSUME NEW c \in Call PROVE Attempts(c) <= RetryCap
    <3>1. Queued(pending, c) = {}
      BY DEF Queued
    <3>2. Cardinality(Queued(pending, c)) = 0
      BY <3>1, FS_EmptySet
    <3>3. Attempts(c) + 0 <= RetryCap /\ Attempts(c) \in Nat
      BY <1>1, <3>2, AttemptsIsNat DEF CapInv
    <3>4. QED
      BY <3>3
  <2>2. QED
    BY <1>1, <1>2, <2>1, BatchIsAllowed
<1>11. formal' \in BOOLEAN /\ ids' \in BOOLEAN
  BY <1>1 DEF LoopTypeInv
<1>12. pending' = Tail(q)
  BY <1>2
<1>13. Perform(step + 1, [kind |-> "call", says |-> q[1]])
  BY <1>4
<1>14. QED
  BY <1>3, <1>5, <1>6, <1>8, <1>9, <1>10, <1>11, <1>12, <1>13, CallKeeps

LEMMA AskModelKeeps == ASSUME LoopInv, AskModel PROVE LoopInv'
<1>1. /\ CanStep /\ pending = <<>> /\ UNCHANGED <<formal, ids, broke>> /\ step \in Nat /\ step + 1 <= MaxSteps /\ MaxSteps \in Nat
      /\ ended.how = "running"
  BY CaseAssumption DEF AskModel, LoopInv, CaseInv, TypeInv, CanStep, Running
<1>2. PICK r \in Responses : Accept(step + 1, r) \/ Decline(step + 1, r)
  BY DEF AskModel
<1>3. CASE Decline(step + 1, r)
  <2>1. PICK a : a = [kind |-> "finish", says |-> Refuse]
    OBVIOUS
  <2>2. a \in Action /\ a.kind = "finish" /\ Perform(step + 1, a) /\ UNCHANGED <<native, pending>>
    BY <1>3, <2>1, LoopAssumption DEF Decline, Action
  <2>3. QED
    BY <1>1, <2>2, OtherKeeps
<1>4. CASE Accept(step + 1, r)
  <2>1. /\ r # <<>> /\ Len(r) \in Nat \ {0} /\ DOMAIN r = 1 .. Len(r)
        /\ \/ /\ \A k \in DOMAIN r : r[k].fn = "tool" /\ r[k].says \in Call /\ CallFault(r, k) = "nothing"
              /\ Len(r) <= MaxSteps - (step + 1)
           \/ r[1].fn = "ask_user" /\ r[1].says \in SUBSET Slot \ {{}} /\ step + 1 < MaxSteps
           \/ r[1].fn = "finish" /\ r[1].says \in Disposition
    BY <1>1, <1>4, AcceptedIs DEF Accept
  <2>2. CASE /\ \A k \in DOMAIN r : r[k].fn = "tool" /\ r[k].says \in Call /\ CallFault(r, k) = "nothing"
             /\ Len(r) <= MaxSteps - (step + 1)
    <3>1. r[1].fn = "tool"
      BY <2>1, <2>2
    <3>2. /\ Perform(step + 1, Translated(r)) /\ native' = Remembered(step + 1, r)
          /\ pending' = Tail([k \in DOMAIN r |-> r[k].says])
      BY <1>4, <3>1 DEF Accept
    <3>3. QED
      BY <1>1, <2>1, <2>2, <3>2, BatchKeeps
  <2>3. CASE r[1].fn = "ask_user" /\ r[1].says \in SUBSET Slot \ {{}} /\ step + 1 < MaxSteps
    <3>1. PICK a : a = Translated(r)
      OBVIOUS
    <3>2. a.kind = "clarify" /\ a \in Action
      BY <2>3, <3>1 DEF Translated, Action
    <3>3. Perform(step + 1, a) /\ UNCHANGED <<native, pending>>
      BY <1>4, <2>3, <3>1 DEF Accept
    <3>4. QED
      BY <1>1, <2>3, <3>2, <3>3, OtherKeeps
  <2>4. CASE r[1].fn = "finish" /\ r[1].says \in Disposition
    <3>1. PICK a : a = Translated(r)
      OBVIOUS
    <3>2. a.kind = "finish" /\ a \in Action
      BY <2>4, <3>1 DEF Translated, Action
    <3>3. Perform(step + 1, a) /\ UNCHANGED <<native, pending>>
      BY <1>4, <2>4, <3>1 DEF Accept
    <3>4. QED
      BY <1>1, <3>2, <3>3, OtherKeeps
  <2>5. QED
    BY <2>1, <2>2, <2>3, <2>4
<1>5. QED
  BY <1>2, <1>3, <1>4

LEMMA BreakKeeps == ASSUME LoopInv, NEW why \in {"provider", "protocol"}, Break(why) PROVE LoopInv'
<1>1. CaseInv /\ LoopTypeInv /\ RoomInv /\ NativeInv /\ CapInv
  BY DEF LoopInv
<1>2. PolicyRaises /\ broke' = why /\ UNCHANGED <<formal, ids, native, pending, decisions>>
  BY DEF Break
<1>3. CaseInv' /\ ended'.how = "raised" /\ UNCHANGED obs
  BY <1>1, <1>2, EndKeeps DEF PolicyRaises, End
<1>4. LoopTypeInv' /\ CapInv' /\ RoomInv' /\ NativeInv'
  BY <1>1, <1>2, <1>3 DEF LoopTypeInv, CapInv, Attempts, Queued, RoomInv, NativeInv, Matches
<1>5. QED
  BY <1>3, <1>4 DEF LoopInv

LEMMA LoopStarts == ASSUME LoopInit PROVE LoopInv
<1>1. CaseInv /\ obs = <<>> /\ step = 0 /\ ended.how = "running" /\ native = <<>> /\ pending = <<>>
  BY CaseStarts DEF LoopInit, Init
<1>2. LoopTypeInv
  BY <1>1 DEF LoopTypeInv, LoopInit
<1>3. RoomInv
  BY <1>1, CaseAssumption DEF RoomInv
<1>4. NativeInv
  BY <1>1 DEF NativeInv
<1>5. CapInv
  <2>1. ASSUME NEW c \in Call PROVE Attempts(c) + Cardinality(Queued(pending, c)) <= RetryCap
    <3>1. {k \in DOMAIN obs : obs[k].call = c} = {} /\ Queued(pending, c) = {}
      BY <1>1 DEF Queued
    <3>2. Attempts(c) = 0 /\ Cardinality(Queued(pending, c)) = 0
      BY <3>1, FS_EmptySet DEF Attempts
    <3>3. QED
      BY <3>2, LoopAssumption
  <2>2. QED
    BY <2>1 DEF CapInv
<1>6. QED
  BY <1>1, <1>2, <1>3, <1>4, <1>5 DEF LoopInv

LEMMA LoopStepKeeps == ASSUME LoopInv, [LoopNext]_loopVars PROVE LoopInv'
<1>1. CASE Drain \/ AskModel
  BY <1>1, DrainKeeps, AskModelKeeps
<1>2. CASE ProviderFails \/ CannotReplay
  BY <1>2, BreakKeeps DEF ProviderFails, CannotReplay
<1>3. CASE OutOfSteps
  <2>1. /\ ended.how = "running" /\ step = MaxSteps /\ step + Len(pending) < MaxSteps /\ pending \in Seq(Call)
    BY <1>3 DEF OutOfSteps, Running, LoopInv, RoomInv, LoopTypeInv
  <2>2. QED
    BY <2>1, CaseAssumption
<1>4. CASE UNCHANGED loopVars
  <2>1. UNCHANGED vars /\ UNCHANGED <<formal, ids, native, pending, broke>>
    BY <1>4 DEF loopVars, policy
  <2>2. CaseInv'
    BY <2>1, CaseStep DEF LoopInv
  <2>3. UNCHANGED <<step, obs, ended>>
    BY <2>1 DEF vars, runner
  <2>4. LoopTypeInv' /\ CapInv' /\ RoomInv' /\ NativeInv'
    BY <2>1, <2>3 DEF LoopInv, LoopTypeInv, CapInv, Attempts, Queued, RoomInv, NativeInv, Matches
  <2>5. QED
    BY <2>2, <2>4 DEF LoopInv
<1>5. QED
  BY <1>1, <1>2, <1>3, <1>4 DEF LoopNext, LoopStep

-----------------------------------------------------------------------------
(* Case-runs: the theorems *)

\* RecordSound: whatever the policy does and whatever faults are declared, the books of the
\* runner and of its gateway agree and add up, a fault strikes at its own call and once,
\* and the conditional turns are delivered once each, to the clarifications they answer.
THEOREM RecordSound == Spec => []RecordIsSound
<1>1. Init => CaseInv
  BY CaseStarts
<1>2. CaseInv /\ [Next]_vars => CaseInv'
  BY CaseStep
<1>3. CaseInv => RecordIsSound
  BY RecordFollows
<1>4. QED
  BY <1>1, <1>2, <1>3, PTL DEF Spec

\* BatchesKept: a model that answers with any sequence of native calls cannot use up its
\* steps without a disposition, its batches run whole at the steps and with the calls
\* that it made, no call is attempted more often than the cap, and the record is sound.
THEOREM BatchesKept == LoopSpec => [](NeverRunsOut /\ BatchesRunWhole /\ RetriesAreCapped /\ RecordIsSound)
<1>1. LoopInit => LoopInv
  BY LoopStarts
<1>2. LoopInv /\ [LoopNext]_loopVars => LoopInv'
  BY LoopStepKeeps
<1>3. ASSUME LoopInv PROVE NeverRunsOut /\ BatchesRunWhole /\ RetriesAreCapped /\ RecordIsSound
  <2>1. CaseInv /\ LoopTypeInv /\ RoomInv /\ NativeInv /\ CapInv /\ TypeInv
    BY <1>3 DEF LoopInv, CaseInv
  <2>2. NeverRunsOut
    BY <2>1 DEF NeverRunsOut, RoomInv
  <2>3. BatchesRunWhole
    <3>1. pending = <<>> => step + 1 .. step + Len(pending) = {}
      BY <2>1, CaseAssumption DEF TypeInv
    <3>2. QED
      BY <2>1, <3>1 DEF BatchesRunWhole, NativeInv
  <2>4. RetriesAreCapped
    <3>1. ASSUME NEW c \in Call PROVE Attempts(c) <= RetryCap
      <4>1. Attempts(c) \in Nat /\ Cardinality(Queued(pending, c)) \in Nat
        <5>1. Len(pending) \in Nat /\ Queued(pending, c) \subseteq 1 .. Len(pending)
          BY <2>1 DEF LoopTypeInv, Queued
        <5>2. QED
          BY <2>1, <5>1, AttemptsIsNat, UpToIsFinite
      <4>2. Attempts(c) + Cardinality(Queued(pending, c)) <= RetryCap
        BY <2>1 DEF CapInv
      <4>3. QED
        BY <4>1, <4>2, LoopAssumption
    <3>2. QED
      BY <3>1 DEF RetriesAreCapped
  <2>5. QED
    BY <2>1, <2>2, <2>3, <2>4, RecordFollows
<1>4. QED
  BY <1>1, <1>2, <1>3, PTL DEF LoopSpec
================================================================================
