----------------------------- MODULE SealedHoldout -----------------------------
(***************************************************************************)
(* A holdout that its author writes against frozen inputs, seals and lets  *)
(* be opened once: the receipt (src/eval/v2/stage6_dataset_receipt.py) and  *)
(* the opening (src/tools/unseal_v2_stage6_holdout.py), with people who     *)
(* edit, commit and delete files in between and an opening that dies.  A   *)
(* file is its bytes, a hash is the file it was taken of.                   *)
(***************************************************************************)
EXTENDS Naturals, Sequences, FiniteSets

CONSTANTS
    Opener,         \* runs of the opening tool
    Dataset,        \* bytes of a dataset
    Valid,          \* those that meet the case contract and the plan
    Frozen,         \* the version of the inputs that the bundle was exported of
    MaxEdits,       \* bounds what people do
    Absent          \* no file

Destinations == <<"holdout", "receipt">>

\* The receipt of a dataset that met the contract.
Receipts == [dataset: Valid, inputs: {Frozen}]

\* A file that is not there is none.
ASSUME HoldoutAssumption ==
    /\ IsFiniteSet(Opener) /\ Frozen \in Nat
    /\ Absent \notin Valid \cup Receipts

VARIABLES
    outside,    \* the author's files: dataset, receipt
    repo,       \* inputs, clean, seal (the manifest), pinned, history
    opened,     \* the two destinations
    runs,       \* where each opener is, and what it read
    openings,   \* openers that reported success
    edits,
    marks       \* what happened: "rearmed", an opened file was deleted uncommitted; "met", two
                \* runs were under way together

holdoutVars == <<outside, repo, opened, runs, openings, edits, marks>>

Idle == [at |-> "idle", receipt |-> Absent, dataset |-> Absent, placed |-> {}]

HoldoutInit ==
    /\ outside = [dataset |-> Absent, receipt |-> Absent]
    /\ repo = [inputs |-> Frozen, clean |-> TRUE, seal |-> Absent, history |-> {}]
    /\ opened = [d \in {"holdout", "receipt"} |-> Absent]
    /\ runs = [o \in Opener |-> Idle]
    /\ openings = {}
    /\ edits = 0
    /\ marks = {}

-----------------------------------------------------------------------------
(* People: each edit counts.                                                 *)

Person == edits < MaxEdits /\ edits' = edits + 1

Write(d) ==
    /\ Person
    /\ outside' = [outside EXCEPT !.dataset = d]
    /\ UNCHANGED <<repo, opened, runs, openings, marks>>

\* The receipt is made of the bytes it was given, in the bundle of the expected digest.
BuildReceipt(bundle) ==
    /\ Person
    /\ outside.receipt = Absent
    /\ bundle = Frozen
    /\ outside.dataset \in Valid
    /\ outside' = [outside EXCEPT !.receipt = [dataset |-> outside.dataset, inputs |-> bundle]]
    /\ UNCHANGED <<repo, opened, runs, openings, marks>>

LoseReceipt ==
    /\ Person
    /\ outside.receipt # Absent
    /\ outside' = [outside EXCEPT !.receipt = Absent]
    /\ UNCHANGED <<repo, opened, runs, openings, marks>>

\* Committed with the hashes that the tool pins; nothing else is ever accepted.
Seal ==
    /\ repo.seal = Absent /\ outside.receipt # Absent
    /\ repo' = [repo EXCEPT !.seal = [dataset |-> outside.receipt.dataset, receipt |-> outside.receipt,
                                      inputs |-> outside.receipt.inputs]]
    /\ UNCHANGED <<outside, opened, runs, openings, edits, marks>>

EditInputs ==
    /\ Person
    /\ \E v \in {Frozen, Frozen + 1}, clean \in BOOLEAN :
        repo' = [repo EXCEPT !.inputs = v, !.clean = clean]
    /\ UNCHANGED <<outside, opened, runs, openings, marks>>

CommitOpened ==
    /\ Person
    /\ repo' = [repo EXCEPT !.history = repo.history \cup {d \in DOMAIN opened : opened[d] # Absent}]
    /\ UNCHANGED <<outside, opened, runs, openings, marks>>

DeleteOpened ==
    /\ Person
    /\ \A o \in Opener : runs[o].at \in {"idle", "done", "refused", "dead"}
    /\ opened' = [d \in DOMAIN opened |-> Absent]
    /\ marks' = marks \cup {m \in {"rearmed"} : \E d \in DOMAIN opened : opened[d] # Absent /\ d \notin repo.history}
    /\ UNCHANGED <<outside, repo, runs, openings>>

-----------------------------------------------------------------------------
(* The opening, one read or write of the disk at a time.                     *)

Runs(run) ==
    \/ run.at \notin {"idle", "done", "refused", "dead"}
    \/ run.at = "refused" /\ run.placed # {}

Moves(o, from, run) ==
    /\ runs[o].at = from
    /\ runs' = [runs EXCEPT ![o] = run]
    /\ marks' = marks \cup {m \in {"met"} : Runs(run) /\ \E p \in Opener \ {o} : Runs(runs[p])}
    /\ UNCHANGED <<outside, repo, edits>>

Goes(o, from, good, to) ==
    /\ Moves(o, from, [runs[o] EXCEPT !.at = IF good THEN to ELSE "refused"])
    /\ UNCHANGED <<opened, openings>>

\* Untracked files make the tree unclean too.
IsUnopened == \A d \in DOMAIN opened : opened[d] = Absent /\ d \notin repo.history

\* Seeded fault: only the files are looked for.
CheckFiles(o) == Goes(o, "idle", repo.clean /\ \A d \in DOMAIN opened : opened[d] = Absent, "manifest")

CheckRepository(o) == Goes(o, "idle", repo.clean /\ IsUnopened, "manifest")
LoadManifest(o)    == Goes(o, "manifest", repo.seal # Absent, "inputs")
VerifyInputs(o)    == Goes(o, "inputs", repo.inputs = repo.seal.inputs, "receipt")

VerifyReceipt(o) ==
    /\ Moves(o, "receipt", [runs[o] EXCEPT !.receipt = outside.receipt,
                               !.at = IF outside.receipt = repo.seal.receipt THEN "dataset" ELSE "refused"])
    /\ UNCHANGED <<opened, openings>>

\* Seeded fault: the file is hashed, and read again to be written.
VerifyThenRead(o) ==
    \/ /\ Goes(o, "dataset", outside.dataset = repo.seal.dataset, "again")
    \/ /\ Moves(o, "again", [runs[o] EXCEPT !.dataset = outside.dataset, !.at = "check 1"])
       /\ UNCHANGED <<opened, openings>>

VerifyHoldout(o) ==
    /\ Moves(o, "dataset", [runs[o] EXCEPT !.dataset = outside.dataset,
                               !.at = IF outside.dataset = repo.seal.dataset /\ outside.dataset \in Valid
                                      THEN "check 1" ELSE "refused"])
    /\ UNCHANGED <<opened, openings>>

Bytes(o, d) == IF d = "holdout" THEN runs[o].dataset ELSE runs[o].receipt

\* Staged beside the destinations, each is looked for and then put in its place.
CheckAbsent(o, n) ==
    Goes(o, <<"check 1", "check 2">>[n], opened[Destinations[n]] = Absent, <<"place 1", "place 2">>[n])

Place(o, n) ==
    LET d == Destinations[n]
    IN  /\ Moves(o, <<"place 1", "place 2">>[n],
                 [runs[o] EXCEPT !.at = <<"check 2", "verify">>[n], !.placed = runs[o].placed \cup {d}])
        /\ opened' = [opened EXCEPT ![d] = Bytes(o, d)]
        /\ UNCHANGED openings

Sealed(d) == IF d = "holdout" THEN repo.seal.dataset ELSE repo.seal.receipt

Confirm(o) ==
    LET good == \A d \in DOMAIN opened : opened[d] = Sealed(d)
    IN  /\ Moves(o, "verify", [runs[o] EXCEPT !.at = IF good THEN "done" ELSE "refused"])
        /\ openings' = IF good THEN openings \cup {o} ELSE openings
        /\ UNCHANGED opened

\* What a refused run placed it takes away again.
CleanUp(o) ==
    /\ runs[o].placed # {}
    /\ Moves(o, "refused", [runs[o] EXCEPT !.placed = {}])
    /\ opened' = [d \in DOMAIN opened |-> IF d \in runs[o].placed THEN Absent ELSE opened[d]]
    /\ UNCHANGED openings

Die(o) ==
    /\ runs[o].at \notin {"idle", "done", "dead"}
    /\ edits < MaxEdits /\ edits' = edits + 1
    /\ runs' = [runs EXCEPT ![o].at = "dead"]
    /\ UNCHANGED <<outside, repo, opened, openings, marks>>

HoldoutNext ==
    \/ \E d \in Dataset : Write(d)
    \/ \E bundle \in {Frozen, Frozen + 1} : BuildReceipt(bundle)
    \/ LoseReceipt \/ Seal \/ EditInputs \/ CommitOpened \/ DeleteOpened
    \/ \E o \in Opener :
        \/ CheckRepository(o) \/ LoadManifest(o) \/ VerifyInputs(o) \/ VerifyReceipt(o) \/ VerifyHoldout(o)
        \/ \E n \in 1..2 : CheckAbsent(o, n) \/ Place(o, n)
        \/ Confirm(o) \/ CleanUp(o) \/ Die(o)

HoldoutSpec == HoldoutInit /\ [][HoldoutNext]_holdoutVars

-----------------------------------------------------------------------------
\* What stands in a destination is what was sealed, and the sealed dataset is one that
\* met the contract against the inputs it was frozen with; once it is in the history of
\* the repository no run opens it again; and when no run is under way both are there or
\* neither, unless one died or two were under way together.
OpensOnce ==
    /\ \A d \in DOMAIN opened : opened[d] # Absent => repo.seal # Absent /\ opened[d] = Sealed(d)
    /\ repo.seal # Absent => repo.seal.dataset \in Valid /\ repo.seal.inputs = Frozen
    /\ Cardinality(openings) > 1 => marks # {}
    /\ "met" \notin marks /\ (\A o \in Opener : ~Runs(runs[o]) /\ runs[o].at # "dead") =>
          (opened["holdout"] = Absent <=> opened["receipt"] = Absent)
=============================================================================
