---------------------------- MODULE WikiRepository ----------------------------
(***************************************************************************)
(* The wiki's repository (wiki_maintenance/repository.py): document        *)
(* snapshots and builds that are written once, and the two files that      *)
(* change, manifest.json with the status of every build and current.json   *)
(* with the live one.                                                      *)
(*                                                                         *)
(* Each file is replaced in one step, a call writes several of them, and   *)
(* the process may die or a write fail in between.  A call keeps the       *)
(* manifest that it read at its start and writes that one back, through    *)
(* the one manifest.json.tmp that all callers share.                       *)
(***************************************************************************)
EXTENDS Naturals

CONSTANTS
    Caller,    \* who calls the repository
    Doc,       \* document ids
    Content,   \* what a document may say
    Short,     \* the version, a short digest, of each content
    MaxBuild,  \* bound: how many builds are created
    Faults,    \* the kinds of failure that happen
    MaxFaults, \* bound: how many of them
    None       \* no build, no file, no call

Build == 1..MaxBuild
Version == {Short[c] : c \in Content}

ASSUME RepositoryAssumption ==
    /\ MaxBuild \in Nat /\ MaxFaults \in Nat
    /\ DOMAIN Short = Content

VARIABLES
    snapshots, \* documents/<document>/<version>.json: the content saved there
    builds,    \* builds/<build>.json: the versions a build was compiled from
    manifest,  \* manifest.json: the status of each recorded build
    temp,      \* manifest.json.tmp
    current,   \* current.json: the live build
    call,      \* what each caller is in the middle of
    wasLive,   \* history: the builds that current.json ever named
    faults     \* history: the failures so far

files == <<snapshots, builds, manifest, temp, current>>
repositoryVars == <<files, call, wasLive, faults>>

Status == {"draft", "published", "archived", "failed"}
Records == [Build -> Status \cup {None}]
Citations == [Doc -> Version \cup {None}]

\* What a caller is in the middle of: a manifest in hand, and how far it has come.
Calls == [op: {"create", "fail", "switch", "retract"},
          at: {"load", "save", "replace", "pointer", "done", "failed"},
          build: Build \cup {None}, records: Records]

\* None is none of the values it stands beside.
ASSUME NothingAssumption ==
    /\ None \notin Build /\ None \notin Content /\ None \notin Version /\ None \notin Status
    /\ None \notin Citations /\ None \notin Records /\ None \notin Calls

Fails(kind) == kind \in Faults /\ faults < MaxFaults /\ faults' = faults + 1

Recorded(records) == {b \in Build : records[b] # None}
Written == {b \in Build : builds[b] # None}

IsNextId(b) == \A used \in Recorded(manifest) \cup Written : used < b

\* One past the highest id, as far as the bound goes.
NextIds == {b \in Build : IsNextId(b) /\ \A c \in Build : IsNextId(c) => b <= c}

RepositoryInit ==
    /\ snapshots = [d \in Doc |-> [v \in Version |-> None]]
    /\ builds = [b \in Build |-> None]
    /\ manifest = [b \in Build |-> None]
    /\ temp = None /\ current = None
    /\ call = [p \in Caller |-> None]
    /\ wasLive = {}
    /\ faults = 0

-----------------------------------------------------------------------------
(* Document snapshots *)

Accepts(d, c) == snapshots[d][Short[c]] \in {None, c}

\* An existing snapshot of the same content stands; one of another content under the
\* same short version is a conflict that is refused (~Accepts).
SaveSnapshot(d, c) ==
    /\ Accepts(d, c)
    /\ snapshots' = [snapshots EXCEPT ![d][Short[c]] = c]
    /\ UNCHANGED <<builds, manifest, temp, current, call, wasLive, faults>>

Resolvable(docs) == \A d \in Doc : docs[d] # None => snapshots[d][docs[d]] # None

-----------------------------------------------------------------------------
(* Calls *)

Called(p, c) == call' = [call EXCEPT ![p] = c]

Saving(op, b, records) == [op |-> op, at |-> "save", build |-> b, records |-> records]

\* create_build: everything is checked before the build file is written.
CreateBuild(p, docs, base) ==
    /\ call[p] = None
    /\ base # None => manifest[base] # None
    /\ Resolvable(docs)
    /\ \E b \in NextIds :
         /\ builds' = [builds EXCEPT ![b] = docs]
         /\ Called(p, Saving("create", b, [manifest EXCEPT ![b] = "draft"]))
    /\ UNCHANGED <<snapshots, manifest, temp, current, wasLive, faults>>

\* Seeded fault: mark_failed does not ask which build is live.
MarkAnyFailed(p, b) ==
    /\ call[p] = None
    /\ manifest[b] # None
    /\ Called(p, Saving("fail", b, [manifest EXCEPT ![b] = "failed"]))
    /\ UNCHANGED <<files, wasLive, faults>>

MarkFailed(p, b) ==
    /\ call[p] = None
    /\ manifest[b] # None
    /\ b # current
    /\ Called(p, Saving("fail", b, [manifest EXCEPT ![b] = "failed"]))
    /\ UNCHANGED <<files, wasLive, faults>>

\* Seeded fault: the build that was live stays published.
SwitchedBeside(b) == [manifest EXCEPT ![b] = "published"]

Switched(b) ==
    [other \in Build |-> IF other = b THEN "published"
                        ELSE IF manifest[other] = "published" THEN "archived"
                        ELSE manifest[other]]

Publishable(b, targets) ==
    /\ manifest[b] \in targets
    /\ manifest[b] # "failed"
    /\ builds[b] # None

\* _switch_current: publish takes any build, rollback an archived one.
Switch(p, b, targets) ==
    /\ call[p] = None
    /\ Publishable(b, targets)
    /\ Called(p, Saving("switch", b, Switched(b)))
    /\ UNCHANGED <<files, wasLive, faults>>

\* rollback asks for a build that is archived.
Publish(p, b) == Switch(p, b, Status)
Rollback(p, b) == Switch(p, b, {"archived"})

\* _write_json_atomically(manifest): the temporary file, then its replacement.
WriteManifest(p) ==
    /\ call[p] # None /\ call[p].at = "save"
    /\ temp' = call[p].records
    /\ Called(p, [call[p] EXCEPT !.at = "replace"])
    /\ UNCHANGED <<snapshots, builds, manifest, current, wasLive, faults>>

\* What the temporary file holds by now may be another caller's.
ReplaceManifest(p) ==
    /\ call[p] # None /\ call[p].at = "replace" /\ temp # None
    /\ manifest' = temp /\ temp' = None
    /\ Called(p, [call[p] EXCEPT !.at = IF call[p].op = "switch" THEN "pointer" ELSE "done"])
    /\ UNCHANGED <<snapshots, builds, current, wasLive, faults>>

\* Another caller has moved it away.
ReplaceFails(p) ==
    /\ call[p] # None /\ call[p].at = "replace" /\ temp = None
    /\ Called(p, [call[p] EXCEPT !.at = "failed"])
    /\ UNCHANGED <<files, wasLive, faults>>

MovePointer(p) ==
    /\ call[p] # None /\ call[p].at = "pointer"
    /\ current' = call[p].build
    /\ wasLive' = wasLive \cup {current'}
    /\ Called(p, [call[p] EXCEPT !.at = "done"])
    /\ UNCHANGED <<snapshots, builds, manifest, temp, faults>>

\* retract_current: the pointer goes first.
Retract(p) ==
    /\ call[p] = None
    /\ current' = None
    /\ Called(p, [op |-> "retract", at |-> "load", build |-> current, records |-> manifest])
    /\ UNCHANGED <<snapshots, builds, manifest, temp, wasLive, faults>>

RetractedApart ==
    [b \in Build |-> IF manifest[b] = "published" THEN "retracted" ELSE manifest[b]]

Retracted ==
    [b \in Build |-> IF manifest[b] = "published" THEN "archived" ELSE manifest[b]]

\* Nothing is written when no build is published.
LoadRetracted(p) ==
    /\ call[p] # None /\ call[p].at = "load"
    /\ Called(p, [call[p] EXCEPT !.records = Retracted,
                                 !.at = IF Retracted = manifest THEN "done" ELSE "save"])
    /\ UNCHANGED <<files, wasLive, faults>>

WriteFails(p) ==
    /\ call[p] # None /\ call[p].at \in {"save", "replace", "pointer"}
    /\ Fails("write")
    /\ Called(p, [call[p] EXCEPT !.at = "failed"])
    /\ UNCHANGED <<files, wasLive>>

Ended(p) == call[p] # None /\ call[p].at \in {"done", "failed"}

Return(p) ==
    /\ Ended(p)
    /\ Called(p, None)
    /\ UNCHANGED <<files, wasLive, faults>>

\* One step of a call that has begun and whose temporary file nobody else moves.
OwnStep(p) == WriteManifest(p) \/ ReplaceManifest(p) \/ MovePointer(p) \/ LoadRetracted(p)

CallStep(p) == OwnStep(p) \/ ReplaceFails(p)

RepositoryCrash ==
    /\ Fails("crash")
    /\ call' = [p \in Caller |-> None]
    /\ UNCHANGED <<files, wasLive>>

-----------------------------------------------------------------------------
\* The repository with its documented caller: one at a time, any operation.
Quiet == \A p \in Caller : call[p] = None

Operation(p) ==
    \/ \E docs \in Citations, base \in Build \cup {None} : CreateBuild(p, docs, base)
    \/ \E b \in Build : MarkFailed(p, b) \/ Publish(p, b) \/ Rollback(p, b)
    \/ Retract(p)

RepositoryNext ==
    \/ \E p \in Caller : Quiet /\ Operation(p)
    \/ \E d \in Doc, c \in Content : Quiet /\ SaveSnapshot(d, c)
    \/ \E p \in Caller : OwnStep(p) \/ WriteFails(p) \/ Return(p)
    \/ RepositoryCrash

RepositorySpec == RepositoryInit /\ [][RepositoryNext]_repositoryVars

-----------------------------------------------------------------------------
(* Properties *)

\* TYPE: what the files and the calls hold.
RepositoryTypeOK ==
    /\ snapshots \in [Doc -> [Version -> Content \cup {None}]]
    /\ builds \in [Build -> Citations \cup {None}]
    /\ manifest \in Records
    /\ temp \in Records \cup {None}
    /\ current \in Build \cup {None}
    /\ call \in [Caller -> Calls \cup {None}]
    /\ wasLive \subseteq Build
    /\ faults \in 0..MaxFaults

\* LiveIsLoadable: whatever was interrupted, current.json names a build whose file is
\* there, that is recorded and not marked failed, and whose documents can be read.
LiveIsLoadable ==
    current # None =>
        /\ builds[current] # None /\ Resolvable(builds[current])
        /\ manifest[current] \in {"published", "archived"}

\* PublishedIsLive: at most one build is called published, whichever of the two files
\* an interrupted switch or retraction has reached; with one caller, and if nothing was
\* interrupted, the manifest and the pointer agree.
PublishedIsLive ==
    /\ \A a, b \in Build : manifest[a] = "published" /\ manifest[b] = "published" => a = b
    /\ Quiet /\ faults = 0 => \A b \in Build : manifest[b] = "published" <=> current = b

\* RollbackTargetsWereLive: what rollback's comment says: it returns to a build that
\* was live before (it does not hold).
RollbackTargetsWereLive ==
    Quiet => \A b \in Build : Publishable(b, {"archived"}) => b \in wasLive

\* What readers are promised: builds that are complete before they can be live, and
\* that never change.
Promise == INSTANCE PublishedWiki WITH
    catalog <- builds, live <- current, failed <- {b \in Build : manifest[b] = "failed"}

\* KeepsItsPromise: the files and calls implement that promise.
KeepsItsPromise == Promise!Spec
=============================================================================
