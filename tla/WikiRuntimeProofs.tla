-------------------------- MODULE WikiRuntimeProofs --------------------------
(***************************************************************************)
(* Theorems about WikiRepository with one caller at a time, for any number *)
(* of documents, contents, builds, failures and callers: what current.json *)
(* names can be read, manifest and pointer agree, and readers get what     *)
(* PublishedWiki promises them.                                            *)
(*                                                                         *)
(* Theorems about WikiRuntime, for any documents, uploads, failures and    *)
(* requests: no upload and no retirement undoes another's (IndexCorrect);  *)
(* the wiki that is live was neither cleared nor left by a failed job      *)
(* (LiveCorrect); what it superseded has left the index, and the cache     *)
(* holds the pages of the build that it names (StoresCorrect).             *)
(***************************************************************************)
EXTENDS WikiRuntime, TLAPS

Busy(p) == call[p] # None
Writing(p) == Busy(p) /\ call[p].at \in {"save", "replace"}

OnePublished(records) ==
    \A a, b \in Build : records[a] = "published" /\ records[b] = "published" => a = b

Agrees(records, live) == \A b \in Build : records[b] = "published" <=> live = b

-----------------------------------------------------------------------------
(* The repository, with one caller at a time: the inductive invariant *)

\* Only one call is under way.
Alone == \A p, q \in Caller : Busy(p) /\ Busy(q) => p = q

\* A recorded build has its file, and a build that has one cites what is there.
Complete ==
    /\ \A b \in Build : manifest[b] # None => builds[b] # None
    /\ \A b \in Build : builds[b] # None => Resolvable(builds[b])

\* The live build is there and its status is none that a live one may not have.
LiveIsSound ==
    current # None => builds[current] # None /\ manifest[current] \in {"published", "archived"}

\* The manifest that a call is going to write keeps all that.
HandsAreSound ==
    \A p \in Caller : Writing(p) =>
        /\ OnePublished(call[p].records)
        /\ current # None => call[p].records[current] \in {"published", "archived"}
        /\ \A b \in Build : call[p].records[b] # None => builds[b] # None
        /\ \A b \in Build : call[p].records[b] = "failed" =>
             manifest[b] = "failed" \/ (call[p].op = "fail" /\ b = call[p].build)
        /\ \A b \in Build : manifest[b] = "failed" => call[p].records[b] = "failed"
        /\ call[p].op = "fail" => call[p].build \in Build \ {current} /\ call[p].records[call[p].build] = "failed"
        /\ call[p].op = "switch" => call[p].build \in Build /\ call[p].records[call[p].build] = "published"
        /\ call[p].at = "replace" => temp = call[p].records

\* A pointer is moved to a build that the manifest calls published.
PointersAreSound ==
    \A p \in Caller : Busy(p) /\ call[p].at = "pointer" =>
        /\ call[p].op = "switch"
        /\ call[p].build \in Build /\ builds[call[p].build] # None
        /\ manifest[call[p].build] = "published"

\* A retraction has taken the pointer away first.
RetractsAreSound ==
    \A p \in Caller : Busy(p) =>
        /\ call[p].op = "retract" => current = None
        /\ call[p].at = "load" => call[p].op = "retract"

\* Without failures, where manifest and pointer agree and what will make them agree.
InStep ==
    faults = 0 =>
        /\ Quiet => Agrees(manifest, current)
        /\ \A p \in Caller : Busy(p) =>
             /\ call[p].at # "failed"
             /\ call[p].at = "done" => Agrees(manifest, current)
             /\ call[p].at = "pointer" => Agrees(manifest, call[p].build)
             /\ Writing(p) =>
                  Agrees(call[p].records, IF call[p].op = "switch" THEN call[p].build ELSE current)

RepositoryInv ==
    /\ RepositoryTypeOK
    /\ Alone /\ Complete /\ LiveIsSound
    /\ HandsAreSound /\ PointersAreSound /\ RetractsAreSound
    /\ OnePublished(manifest) /\ InStep

-----------------------------------------------------------------------------
(* Calls *)

\* Where nobody else is busy, a step of p leaves p alone with what it has in hand.
LEMMA OnlyCall ==
    ASSUME RepositoryTypeOK, Alone, NEW p \in Caller, Quiet \/ Busy(p),
           NEW c, Called(p, c)
    PROVE  /\ call'[p] = c
           /\ \A q \in Caller : q # p => call'[q] = None
           /\ Alone'
BY DEF RepositoryTypeOK, Alone, Quiet, Busy, Called

\* A call that is under way has one of the shapes of Calls.
LEMMA BusyCalls ==
    ASSUME RepositoryTypeOK, NEW p \in Caller, Busy(p)
    PROVE  /\ call[p] \in Calls
           /\ call[p].records \in Records
           /\ call[p].build \in Build \cup {None}
BY DEF RepositoryTypeOK, Busy, Calls

LEMMA SavingType ==
    ASSUME NEW op \in {"create", "fail", "switch"}, NEW b \in Build, NEW records \in Records
    PROVE  /\ Saving(op, b, records) \in Calls
           /\ Saving(op, b, records) # None
BY NothingAssumption DEF Saving, Calls

\* The id of a new build is used by no build file and no record.
LEMMA NextIdIsNew ==
    ASSUME RepositoryTypeOK, NEW b \in NextIds
    PROVE  b \in Build /\ builds[b] = None /\ manifest[b] = None
<1>1. b \in Build /\ IsNextId(b)
  BY DEF NextIds
<1>2. ~(b < b)
  BY <1>1, RepositoryAssumption DEF Build
<1>3. b \notin Recorded(manifest) /\ b \notin Written
  BY <1>1, <1>2 DEF IsNextId
<1>4. QED
  BY <1>1, <1>3 DEF Recorded, Written

LEMMA FaultCounts ==
    ASSUME RepositoryTypeOK, NEW kind, Fails(kind)
    PROVE  faults' \in 0..MaxFaults /\ faults' # 0
BY RepositoryAssumption DEF RepositoryTypeOK, Fails

\* What is resolvable stays resolvable as snapshots are added.
LEMMA ResolvableStays ==
    ASSUME NEW docs, Resolvable(docs), \A d \in Doc : docs[d] # None => snapshots'[d][docs[d]] # None
    PROVE  Resolvable(docs)'
BY DEF Resolvable

-----------------------------------------------------------------------------
(* Each operation begins where no call is under way and keeps the invariant. *)

LEMMA SaveSnapshotStep ==
    ASSUME RepositoryInv, NEW d \in Doc, NEW c \in Content, SaveSnapshot(d, c)
    PROVE  RepositoryInv'
<1>1. Short[c] \in Version
  BY DEF Version
<1>2. RepositoryTypeOK'
  BY <1>1 DEF RepositoryInv, RepositoryTypeOK, SaveSnapshot
<1>3. \A e \in Doc, v \in Version : snapshots[e][v] # None => snapshots'[e][v] # None
  <2>1. c # None
    BY NothingAssumption
  <2>2. snapshots' = [snapshots EXCEPT ![d][Short[c]] = c] /\ snapshots \in [Doc -> [Version -> Content \cup {None}]]
    BY DEF SaveSnapshot, RepositoryInv, RepositoryTypeOK
  <2>3. QED
    BY <1>1, <2>1, <2>2
<1>4. Complete'
  <2>1. ASSUME NEW b \in Build, builds[b] # None PROVE Resolvable(builds[b])'
    <3>1. builds[b] \in Citations
      BY <2>1 DEF RepositoryInv, RepositoryTypeOK
    <3>2. \A e \in Doc : builds[b][e] # None => snapshots[e][builds[b][e]] # None
      BY <2>1 DEF RepositoryInv, Complete, Resolvable
    <3>3. \A e \in Doc : builds[b][e] # None => builds[b][e] \in Version
      BY <3>1 DEF Citations
    <3>4. builds' = builds
      BY DEF SaveSnapshot
    <3>5. QED
      BY <1>3, <3>2, <3>3, <3>4 DEF Resolvable
  <2>2. builds' = builds /\ manifest' = manifest
    BY DEF SaveSnapshot
  <2>3. QED
    BY <2>1, <2>2 DEF RepositoryInv, Complete
<1>5. QED
  BY <1>2, <1>4 DEF RepositoryInv, SaveSnapshot, Alone, Busy, LiveIsSound, HandsAreSound, Writing,
       PointersAreSound, RetractsAreSound, OnePublished, InStep, Agrees, Quiet

LEMMA CreateBuildStep ==
    ASSUME RepositoryInv, Quiet, NEW p \in Caller, NEW docs \in Citations, NEW base,
           CreateBuild(p, docs, base)
    PROVE  RepositoryInv'
<1>1. PICK b \in NextIds :
        /\ builds' = [builds EXCEPT ![b] = docs]
        /\ Called(p, Saving("create", b, [manifest EXCEPT ![b] = "draft"]))
  BY DEF CreateBuild
<1> DEFINE records == [manifest EXCEPT ![b] = "draft"]
           c == Saving("create", b, records)
<1>2. b \in Build /\ builds[b] = None /\ manifest[b] = None
  BY NextIdIsNew DEF RepositoryInv
<1>3. /\ manifest \in Records
      /\ builds \in [Build -> Citations \cup {None}]
      /\ docs # None
  BY NothingAssumption DEF RepositoryInv, RepositoryTypeOK
<1>4. records \in Records
  BY <1>2, <1>3 DEF Records, Status
<1>5. c \in Calls
  BY <1>2, <1>4, SavingType
<1>6. call'[p] = c /\ (\A q \in Caller : q # p => call'[q] = None) /\ Alone'
  BY <1>1, OnlyCall DEF RepositoryInv
<1>7. UNCHANGED <<snapshots, manifest, temp, current, wasLive, faults>>
  BY DEF CreateBuild
<1>8. RepositoryTypeOK'
  BY <1>1, <1>2, <1>3, <1>5, <1>7 DEF RepositoryInv, RepositoryTypeOK, Called
<1>9. Complete'
  <2>1. Resolvable(docs)
    BY DEF CreateBuild
  <2>2. \A a \in Build : builds'[a] # None => builds'[a] = docs \/ (builds'[a] = builds[a] /\ builds[a] # None)
    BY <1>1, <1>2, <1>3
  <2>3. \A a \in Build : builds'[a] # None => Resolvable(builds'[a])
    BY <2>1, <2>2 DEF RepositoryInv, Complete
  <2>4. QED
    BY <1>1, <1>2, <1>3, <1>7, <2>3 DEF RepositoryInv, Complete, Resolvable
<1>10. current # None => current \in Build /\ current # b
  BY <1>2 DEF RepositoryInv, RepositoryTypeOK, LiveIsSound
<1>11. LiveIsSound'
  BY <1>1, <1>2, <1>3, <1>7 DEF RepositoryInv, RepositoryTypeOK, LiveIsSound
<1>12. /\ records[b] = "draft"
       /\ \A a \in Build : a # b => records[a] = manifest[a]
  BY <1>2, <1>3 DEF Records
<1>13. c.op = "create" /\ c.at = "save" /\ c.build = b /\ c.records = records
  BY DEF Saving
<1> HIDE DEF records, c
<1>14. HandsAreSound'
  <2>1. \A a \in Build : records[a] # None => builds'[a] # None
    BY <1>1, <1>2, <1>3, <1>12 DEF RepositoryInv, Complete
  <2>2. OnePublished(records)
    BY <1>12 DEF RepositoryInv, OnePublished
  <2>3. current # None => records[current] \in {"published", "archived"}
    BY <1>10, <1>12 DEF RepositoryInv, LiveIsSound
  <2>4. \A a \in Build : records[a] = "failed" <=> manifest[a] = "failed"
    BY <1>2, <1>12, NothingAssumption DEF Status
  <2>5. QED
    BY <1>6, <1>7, <1>13, <2>1, <2>2, <2>3, <2>4 DEF HandsAreSound, Writing, Busy, OnePublished
<1>15. PointersAreSound' /\ RetractsAreSound'
  BY <1>6, <1>13 DEF PointersAreSound, RetractsAreSound, Busy
<1>16. OnePublished(manifest)'
  BY <1>7 DEF RepositoryInv, OnePublished
<1>17. InStep'
  <2>1. faults = 0 => Agrees(records, current)
    BY <1>2, <1>10, <1>12, NothingAssumption DEF RepositoryInv, InStep, Agrees
  <2>2. ~Quiet'
    BY <1>5, <1>6, NothingAssumption DEF Quiet
  <2>3. QED
    BY <1>6, <1>7, <1>13, <2>1, <2>2 DEF InStep, Busy, Writing, Agrees
<1>18. QED
  BY <1>6, <1>8, <1>9, <1>11, <1>14, <1>15, <1>16, <1>17 DEF RepositoryInv

LEMMA MarkFailedStep ==
    ASSUME RepositoryInv, Quiet, NEW p \in Caller, NEW b \in Build, MarkFailed(p, b)
    PROVE  RepositoryInv'
<1> DEFINE records == [manifest EXCEPT ![b] = "failed"]
           c == Saving("fail", b, records)
<1>1. /\ Called(p, c)
      /\ manifest[b] # None /\ b # current
      /\ UNCHANGED <<files, wasLive, faults>>
  BY DEF MarkFailed
<1>2. manifest \in Records
  BY DEF RepositoryInv, RepositoryTypeOK
<1>3. records \in Records
  BY <1>2 DEF Records, Status
<1>4. c \in Calls
  BY <1>3, SavingType
<1>5. call'[p] = c /\ (\A q \in Caller : q # p => call'[q] = None) /\ Alone'
  BY <1>1, OnlyCall DEF RepositoryInv
<1>6. /\ records[b] = "failed"
      /\ \A a \in Build : a # b => records[a] = manifest[a]
  BY <1>2 DEF Records
<1>7. c.op = "fail" /\ c.at = "save" /\ c.build = b /\ c.records = records
  BY DEF Saving
<1>8. RepositoryTypeOK'
  BY <1>1, <1>4 DEF RepositoryInv, RepositoryTypeOK, Called, files
<1> HIDE DEF records, c
<1>9. HandsAreSound'
  <2>1. OnePublished(records)
    BY <1>6 DEF RepositoryInv, OnePublished
  <2>2. current # None => records[current] \in {"published", "archived"}
    BY <1>1, <1>6 DEF RepositoryInv, LiveIsSound, RepositoryTypeOK
  <2>3. QED
    BY <1>1, <1>5, <1>6, <1>7, <2>1, <2>2
    DEF RepositoryInv, Complete, HandsAreSound, Writing, Busy, OnePublished, files
<1>10. PointersAreSound' /\ RetractsAreSound'
  BY <1>5, <1>7 DEF PointersAreSound, RetractsAreSound, Busy
<1>11. InStep'
  <2>1. faults = 0 => Agrees(records, current)
    BY <1>1, <1>6 DEF RepositoryInv, InStep, Agrees
  <2>2. ~Quiet'
    BY <1>4, <1>5, NothingAssumption DEF Quiet
  <2>3. QED
    BY <1>1, <1>5, <1>7, <2>1, <2>2 DEF InStep, Busy, Writing, Agrees, files
<1>12. Complete' /\ LiveIsSound' /\ OnePublished(manifest)'
  BY <1>1 DEF RepositoryInv, Complete, Resolvable, LiveIsSound, OnePublished, files
<1>13. QED
  BY <1>5, <1>8, <1>9, <1>10, <1>11, <1>12 DEF RepositoryInv

\* publish and rollback differ in the statuses they accept only.
LEMMA SwitchStep ==
    ASSUME RepositoryInv, Quiet, NEW p \in Caller, NEW b \in Build, NEW targets,
           Switch(p, b, targets)
    PROVE  RepositoryInv'
<1> DEFINE records == Switched(b)
           c == Saving("switch", b, records)
<1>1. /\ Called(p, c)
      /\ manifest[b] # "failed" /\ builds[b] # None
      /\ UNCHANGED <<files, wasLive, faults>>
  BY DEF Switch, Publishable
<1>2. manifest \in Records
  BY DEF RepositoryInv, RepositoryTypeOK
<1>3. records \in Records
  BY <1>2 DEF Records, Status, Switched
<1>4. c \in Calls
  BY <1>3, SavingType
<1>5. call'[p] = c /\ (\A q \in Caller : q # p => call'[q] = None) /\ Alone'
  BY <1>1, OnlyCall DEF RepositoryInv
<1>6. /\ records[b] = "published"
      /\ \A a \in Build \ {b} : IF manifest[a] = "published" THEN records[a] = "archived"
                                ELSE records[a] = manifest[a]
  BY DEF Switched
<1>7. c.op = "switch" /\ c.at = "save" /\ c.build = b /\ c.records = records
  BY DEF Saving
<1>8. RepositoryTypeOK'
  BY <1>1, <1>4 DEF RepositoryInv, RepositoryTypeOK, Called, files
<1> HIDE DEF records, c
<1>9. HandsAreSound'
  <2>1. OnePublished(records)
    BY <1>6 DEF OnePublished
  <2>2. current # None => records[current] \in {"published", "archived"}
    BY <1>6 DEF RepositoryInv, LiveIsSound, RepositoryTypeOK
  <2>3. \A a \in Build : records[a] # None => builds[a] # None
    BY <1>1, <1>6, NothingAssumption DEF RepositoryInv, Complete, Status
  <2>4. \A a \in Build : records[a] = "failed" <=> manifest[a] = "failed"
    BY <1>1, <1>6
  <2>5. QED
    BY <1>1, <1>5, <1>6, <1>7, <2>1, <2>2, <2>3, <2>4
    DEF HandsAreSound, Writing, Busy, OnePublished, files
<1>10. PointersAreSound' /\ RetractsAreSound'
  BY <1>5, <1>7 DEF PointersAreSound, RetractsAreSound, Busy
<1>11. InStep'
  <2>1. Agrees(records, b)
    BY <1>6 DEF Agrees
  <2>2. ~Quiet'
    BY <1>4, <1>5, NothingAssumption DEF Quiet
  <2>3. QED
    BY <1>1, <1>5, <1>7, <2>1, <2>2 DEF InStep, Busy, Writing, Agrees, files
<1>12. Complete' /\ LiveIsSound' /\ OnePublished(manifest)'
  BY <1>1 DEF RepositoryInv, Complete, Resolvable, LiveIsSound, OnePublished, files
<1>13. QED
  BY <1>5, <1>8, <1>9, <1>10, <1>11, <1>12 DEF RepositoryInv

\* A retraction starts by taking the pointer away.
LEMMA RetractStep ==
    ASSUME RepositoryInv, Quiet, NEW p \in Caller, Retract(p)
    PROVE  RepositoryInv'
<1> DEFINE c == [op |-> "retract", at |-> "load", build |-> current, records |-> manifest]
<1>1. /\ Called(p, c)
      /\ current' = None
      /\ UNCHANGED <<snapshots, builds, manifest, temp, wasLive, faults>>
  BY DEF Retract
<1>2. c \in Calls
  BY DEF RepositoryInv, RepositoryTypeOK, Calls
<1>3. call'[p] = c /\ (\A q \in Caller : q # p => call'[q] = None) /\ Alone'
  BY <1>1, OnlyCall DEF RepositoryInv
<1>4. c.op = "retract" /\ c.at = "load"
  OBVIOUS
<1>5. RepositoryTypeOK'
  BY <1>1, <1>2 DEF RepositoryInv, RepositoryTypeOK, Called
<1> HIDE DEF c
<1>6. ~Quiet'
  BY <1>2, <1>3, NothingAssumption DEF Quiet
<1>7. HandsAreSound' /\ PointersAreSound' /\ RetractsAreSound' /\ InStep'
  BY <1>1, <1>3, <1>4, <1>6 DEF HandsAreSound, PointersAreSound, RetractsAreSound, InStep, Busy, Writing
<1>8. Complete' /\ LiveIsSound' /\ OnePublished(manifest)'
  BY <1>1 DEF RepositoryInv, Complete, Resolvable, LiveIsSound, OnePublished
<1>9. QED
  BY <1>3, <1>5, <1>7, <1>8 DEF RepositoryInv

-----------------------------------------------------------------------------
(* Each step of the call that is under way keeps the invariant. *)

\* A call that moves on keeps everything but its place.
LEMMA MovedOn ==
    ASSUME RepositoryTypeOK, NEW p \in Caller, Busy(p),
           NEW place \in {"load", "save", "replace", "pointer", "done", "failed"}
    PROVE  /\ [call[p] EXCEPT !.at = place] \in Calls
           /\ [call[p] EXCEPT !.at = place] # None
           /\ [call[p] EXCEPT !.at = place].at = place
           /\ [call[p] EXCEPT !.at = place].op = call[p].op
           /\ [call[p] EXCEPT !.at = place].build = call[p].build
           /\ [call[p] EXCEPT !.at = place].records = call[p].records
<1>1. call[p] \in Calls
  BY BusyCalls
<1>2. [call[p] EXCEPT !.at = place] \in Calls
  BY <1>1 DEF Calls
<1>3. QED
  BY <1>1, <1>2, NothingAssumption DEF Calls

LEMMA WriteManifestStep ==
    ASSUME RepositoryInv, NEW p \in Caller, WriteManifest(p)
    PROVE  RepositoryInv'
<1> DEFINE c == [call[p] EXCEPT !.at = "replace"]
<1>1. /\ Busy(p) /\ call[p].at = "save"
      /\ temp' = call[p].records
      /\ Called(p, c)
      /\ UNCHANGED <<snapshots, builds, manifest, current, wasLive, faults>>
  BY DEF WriteManifest, Busy
<1>2. /\ c \in Calls /\ c # None /\ c.at = "replace"
      /\ c.op = call[p].op /\ c.build = call[p].build /\ c.records = call[p].records
  BY <1>1, MovedOn DEF RepositoryInv
<1>3. call'[p] = c /\ (\A q \in Caller : q # p => call'[q] = None) /\ Alone'
  BY <1>1, OnlyCall DEF RepositoryInv
<1>4. RepositoryTypeOK'
  BY <1>1, <1>2, BusyCalls DEF RepositoryInv, RepositoryTypeOK, Called
<1>5. Writing(p)
  BY <1>1 DEF Writing
<1> HIDE DEF c
<1>6. HandsAreSound'
  BY <1>1, <1>2, <1>3, <1>5 DEF RepositoryInv, HandsAreSound, Writing, Busy, OnePublished
<1>7. PointersAreSound' /\ RetractsAreSound'
  BY <1>1, <1>2, <1>3 DEF RepositoryInv, PointersAreSound, RetractsAreSound, Busy
<1>8. InStep'
  <2>1. ~Quiet'
    BY <1>2, <1>3 DEF Quiet
  <2>2. QED
    BY <1>1, <1>2, <1>3, <1>5, <2>1 DEF RepositoryInv, InStep, Busy, Writing, Agrees
<1>9. Complete' /\ LiveIsSound' /\ OnePublished(manifest)'
  BY <1>1 DEF RepositoryInv, Complete, Resolvable, LiveIsSound, OnePublished
<1>10. QED
  BY <1>3, <1>4, <1>6, <1>7, <1>8, <1>9 DEF RepositoryInv

\* The manifest becomes the one in hand, and a switch goes on to the pointer.
LEMMA ReplaceManifestStep ==
    ASSUME RepositoryInv, NEW p \in Caller, ReplaceManifest(p)
    PROVE  RepositoryInv'
<1>1. PICK place \in {"pointer", "done"} :
        /\ place = "pointer" <=> call[p].op = "switch"
        /\ Called(p, [call[p] EXCEPT !.at = place])
  BY DEF ReplaceManifest
<1> DEFINE c == [call[p] EXCEPT !.at = place]
<1>2. /\ Busy(p) /\ call[p].at = "replace"
      /\ manifest' = temp /\ temp' = None
      /\ Called(p, c)
      /\ UNCHANGED <<snapshots, builds, current, wasLive, faults>>
  BY <1>1 DEF ReplaceManifest, Busy
<1>3. /\ c \in Calls /\ c # None /\ c.at = place
      /\ c.op = call[p].op /\ c.build = call[p].build /\ c.records = call[p].records
  <2>1. place \in {"load", "save", "replace", "pointer", "done", "failed"}
    BY <1>1
  <2>2. RepositoryTypeOK /\ Busy(p)
    BY <1>2 DEF RepositoryInv
  <2>3. QED
    BY <2>1, <2>2, MovedOn, Zenon
<1>4. call'[p] = c /\ (\A q \in Caller : q # p => call'[q] = None) /\ Alone'
  BY <1>2, OnlyCall DEF RepositoryInv
<1>5. Writing(p)
  BY <1>2 DEF Writing
<1>6. manifest' = call[p].records
  BY <1>2, <1>5 DEF RepositoryInv, HandsAreSound
<1>7. RepositoryTypeOK'
  BY <1>2, <1>3, <1>6, BusyCalls DEF RepositoryInv, RepositoryTypeOK, Called
<1>8. Complete' /\ LiveIsSound' /\ OnePublished(manifest)'
  BY <1>2, <1>5, <1>6 DEF RepositoryInv, Complete, Resolvable, LiveIsSound, HandsAreSound, OnePublished
<1>9. c.at = "pointer" <=> c.op = "switch"
  BY <1>1, <1>3
<1>10. c.at \in {"pointer", "done"}
  BY <1>1, <1>3
<1> HIDE DEF c
<1>11. HandsAreSound'
  BY <1>4, <1>10 DEF HandsAreSound, Writing, Busy
<1>12. PointersAreSound'
  <2>1. ASSUME call[p].op = "switch"
        PROVE  /\ call[p].build \in Build /\ builds[call[p].build] # None
               /\ manifest'[call[p].build] = "published"
    BY <1>5, <1>6, <2>1, NothingAssumption DEF RepositoryInv, HandsAreSound, Status
  <2>2. QED
    BY <1>2, <1>3, <1>4, <1>9, <2>1 DEF PointersAreSound, Busy
<1>13. RetractsAreSound'
  BY <1>2, <1>3, <1>4, <1>10 DEF RepositoryInv, RetractsAreSound, Busy
<1>14. InStep'
  <2>1. ~Quiet'
    BY <1>3, <1>4 DEF Quiet
  <2>2. faults = 0 => Agrees(call[p].records, IF call[p].op = "switch" THEN call[p].build ELSE current)
    BY <1>2, <1>5 DEF RepositoryInv, InStep
  <2>3. faults = 0 => Agrees(manifest', IF c.op = "switch" THEN c.build ELSE current')
    BY <1>2, <1>3, <1>6, <2>2
  <2>4. faults' = 0 => (c.at = "done" => Agrees(manifest', current')) /\ (c.at = "pointer" => Agrees(manifest', c.build))
    BY <1>2, <1>9, <1>10, <2>3
  <2>5. QED
    BY <1>4, <1>10, <2>1, <2>4 DEF InStep, Busy, Writing, Agrees
<1>15. QED
  BY <1>4, <1>7, <1>8, <1>11, <1>12, <1>13, <1>14 DEF RepositoryInv

LEMMA MovePointerStep ==
    ASSUME RepositoryInv, NEW p \in Caller, MovePointer(p)
    PROVE  RepositoryInv'
<1> DEFINE c == [call[p] EXCEPT !.at = "done"]
<1>1. /\ Busy(p) /\ call[p].at = "pointer"
      /\ current' = call[p].build
      /\ wasLive' = wasLive \cup {current'}
      /\ Called(p, c)
      /\ UNCHANGED <<snapshots, builds, manifest, temp, faults>>
  BY DEF MovePointer, Busy
<1>2. /\ c \in Calls /\ c # None /\ c.at = "done"
      /\ c.op = call[p].op /\ c.build = call[p].build /\ c.records = call[p].records
  BY <1>1, MovedOn DEF RepositoryInv
<1>3. call'[p] = c /\ (\A q \in Caller : q # p => call'[q] = None) /\ Alone'
  BY <1>1, OnlyCall DEF RepositoryInv
<1>4. /\ call[p].op = "switch"
      /\ call[p].build \in Build /\ builds[call[p].build] # None
      /\ manifest[call[p].build] = "published"
  BY <1>1 DEF RepositoryInv, PointersAreSound
<1>5. RepositoryTypeOK'
  BY <1>1, <1>2, <1>4 DEF RepositoryInv, RepositoryTypeOK, Called
<1>6. Complete' /\ LiveIsSound' /\ OnePublished(manifest)'
  BY <1>1, <1>4 DEF RepositoryInv, Complete, Resolvable, LiveIsSound, OnePublished
<1> HIDE DEF c
<1>7. HandsAreSound' /\ PointersAreSound' /\ RetractsAreSound'
  BY <1>2, <1>3, <1>4 DEF HandsAreSound, PointersAreSound, RetractsAreSound, Busy, Writing
<1>8. InStep'
  <2>1. ~Quiet'
    BY <1>2, <1>3 DEF Quiet
  <2>2. faults = 0 => Agrees(manifest, call[p].build)
    BY <1>1 DEF RepositoryInv, InStep
  <2>3. QED
    BY <1>1, <1>2, <1>3, <2>1, <2>2 DEF InStep, Busy, Writing, Agrees
<1>9. QED
  BY <1>3, <1>5, <1>6, <1>7, <1>8 DEF RepositoryInv

\* What is retracted is no longer published, and nothing is written if nothing was.
LEMMA LoadRetractedStep ==
    ASSUME RepositoryInv, NEW p \in Caller, LoadRetracted(p)
    PROVE  RepositoryInv'
<1> DEFINE place == IF Retracted = manifest THEN "done" ELSE "save"
           c == [call[p] EXCEPT !.records = Retracted, !.at = place]
<1>1. /\ Busy(p) /\ call[p].at = "load"
      /\ Called(p, c)
      /\ UNCHANGED <<files, wasLive, faults>>
  BY DEF LoadRetracted, Busy
<1>2. /\ call[p].op = "retract" /\ current = None
  BY <1>1 DEF RepositoryInv, RetractsAreSound
<1>3. manifest \in Records
  BY DEF RepositoryInv, RepositoryTypeOK
<1>4. Retracted \in Records
  BY <1>3 DEF Retracted, Records, Status
<1>5. place \in {"done", "save"}
  OBVIOUS
<1>6. call[p] \in Calls
  BY <1>1, BusyCalls DEF RepositoryInv
<1>7. c \in Calls /\ c # None
  <2>1. c \in Calls
    BY <1>4, <1>5, <1>6 DEF Calls
  <2>2. QED
    BY <2>1, NothingAssumption
<1>8. c.at = place /\ c.op = "retract" /\ c.records = Retracted
  BY <1>2, <1>6 DEF Calls
<1>9. call'[p] = c /\ (\A q \in Caller : q # p => call'[q] = None) /\ Alone'
  BY <1>1, OnlyCall DEF RepositoryInv
<1>10. \A b \in Build : /\ Retracted[b] # "published"
                        /\ Retracted[b] = "failed" <=> manifest[b] = "failed"
                        /\ Retracted[b] # None => manifest[b] # None
  BY NothingAssumption DEF Retracted, Status
<1>11. RepositoryTypeOK'
  BY <1>1, <1>7 DEF RepositoryInv, RepositoryTypeOK, Called, files
<1>12. c.at = "done" => Retracted = manifest
  BY <1>8
<1>13. c.at \in {"done", "save"}
  BY <1>5, <1>8
<1> HIDE DEF c, place
<1>14. HandsAreSound'
  <2>1. OnePublished(Retracted)
    BY <1>10 DEF OnePublished
  <2>2. \A b \in Build : Retracted[b] # None => builds[b] # None
    BY <1>10 DEF RepositoryInv, Complete
  <2>3. QED
    BY <1>1, <1>2, <1>8, <1>9, <1>10, <1>13, <2>1, <2>2
    DEF HandsAreSound, Writing, Busy, OnePublished, files
<1>15. PointersAreSound' /\ RetractsAreSound'
  BY <1>1, <1>2, <1>8, <1>9, <1>13 DEF PointersAreSound, RetractsAreSound, Busy, files
<1>16. InStep'
  <2>1. ~Quiet'
    BY <1>7, <1>9 DEF Quiet
  <2>2. Agrees(Retracted, None)
    BY <1>10, NothingAssumption DEF Agrees
  <2>3. QED
    BY <1>1, <1>2, <1>8, <1>9, <1>12, <1>13, <2>1, <2>2 DEF InStep, Busy, Writing, Agrees, files
<1>17. Complete' /\ LiveIsSound' /\ OnePublished(manifest)'
  BY <1>1 DEF RepositoryInv, Complete, Resolvable, LiveIsSound, OnePublished, files
<1>18. QED
  BY <1>9, <1>11, <1>14, <1>15, <1>16, <1>17 DEF RepositoryInv

\* A write that fails, and the process that dies, leave the files as they are.
LEMMA WriteFailsStep ==
    ASSUME RepositoryInv, NEW p \in Caller, WriteFails(p)
    PROVE  RepositoryInv'
<1> DEFINE c == [call[p] EXCEPT !.at = "failed"]
<1>1. /\ Busy(p) /\ Called(p, c) /\ Fails("write")
      /\ UNCHANGED <<files, wasLive>>
  BY DEF WriteFails, Busy
<1>2. /\ c \in Calls /\ c # None /\ c.at = "failed"
      /\ c.op = call[p].op
  BY <1>1, MovedOn DEF RepositoryInv
<1>3. call'[p] = c /\ (\A q \in Caller : q # p => call'[q] = None) /\ Alone'
  BY <1>1, OnlyCall DEF RepositoryInv
<1>4. faults' \in 0..MaxFaults /\ faults' # 0
  BY <1>1, FaultCounts DEF RepositoryInv
<1>5. RepositoryTypeOK'
  BY <1>1, <1>2, <1>4 DEF RepositoryInv, RepositoryTypeOK, Called, files
<1> HIDE DEF c
<1>6. HandsAreSound' /\ PointersAreSound' /\ RetractsAreSound' /\ InStep'
  BY <1>1, <1>2, <1>3, <1>4
  DEF RepositoryInv, HandsAreSound, PointersAreSound, RetractsAreSound, InStep, Busy, Writing, files
<1>7. Complete' /\ LiveIsSound' /\ OnePublished(manifest)'
  BY <1>1 DEF RepositoryInv, Complete, Resolvable, LiveIsSound, OnePublished, files
<1>8. QED
  BY <1>3, <1>5, <1>6, <1>7 DEF RepositoryInv

LEMMA RepositoryCrashStep ==
    ASSUME RepositoryInv, RepositoryCrash
    PROVE  RepositoryInv'
<1>1. /\ Fails("crash") /\ call' = [p \in Caller |-> None]
      /\ UNCHANGED <<files, wasLive>>
  BY DEF RepositoryCrash
<1>2. faults' \in 0..MaxFaults /\ faults' # 0
  BY <1>1, FaultCounts DEF RepositoryInv
<1>3. RepositoryTypeOK'
  BY <1>1, <1>2 DEF RepositoryInv, RepositoryTypeOK, files
<1>4. Alone' /\ HandsAreSound' /\ PointersAreSound' /\ RetractsAreSound' /\ InStep'
  BY <1>1, <1>2 DEF Alone, HandsAreSound, PointersAreSound, RetractsAreSound, InStep, Busy, Writing
<1>5. Complete' /\ LiveIsSound' /\ OnePublished(manifest)'
  BY <1>1 DEF RepositoryInv, Complete, Resolvable, LiveIsSound, OnePublished, files
<1>6. QED
  BY <1>3, <1>4, <1>5 DEF RepositoryInv

\* A call that is done, without a failure so far, leaves the two files in agreement.
LEMMA ReturnStep ==
    ASSUME RepositoryInv, NEW p \in Caller, Return(p)
    PROVE  RepositoryInv'
<1>1. /\ Busy(p) /\ call[p].at \in {"done", "failed"} /\ Called(p, None)
      /\ UNCHANGED <<files, wasLive, faults>>
  BY DEF Return, Ended, Busy
<1>2. call'[p] = None /\ (\A q \in Caller : q # p => call'[q] = None) /\ Alone'
  BY <1>1, OnlyCall DEF RepositoryInv
<1>3. RepositoryTypeOK'
  BY <1>1 DEF RepositoryInv, RepositoryTypeOK, Called, files
<1>4. HandsAreSound' /\ PointersAreSound' /\ RetractsAreSound'
  BY <1>2 DEF HandsAreSound, PointersAreSound, RetractsAreSound, Busy, Writing
<1>5. InStep'
  <2>1. faults = 0 => Agrees(manifest, current)
    BY <1>1 DEF RepositoryInv, InStep
  <2>2. QED
    BY <1>1, <1>2, <2>1 DEF InStep, Busy, Agrees, files
<1>6. Complete' /\ LiveIsSound' /\ OnePublished(manifest)'
  BY <1>1 DEF RepositoryInv, Complete, Resolvable, LiveIsSound, OnePublished, files
<1>7. QED
  BY <1>2, <1>3, <1>4, <1>5, <1>6 DEF RepositoryInv

-----------------------------------------------------------------------------
(* The theorems *)

LEMMA RepositoryInitially == RepositoryInit => RepositoryInv
<1> SUFFICES ASSUME RepositoryInit PROVE RepositoryInv
  OBVIOUS
<1>1. RepositoryTypeOK
  BY RepositoryAssumption DEF RepositoryInit, RepositoryTypeOK, Records
<1>2. \A b \in Build : manifest[b] = None /\ builds[b] = None
  BY DEF RepositoryInit
<1>3. None # "published"
  BY NothingAssumption DEF Status
<1>4. current = None /\ \A p \in Caller : call[p] = None
  BY DEF RepositoryInit
<1>5. QED
  BY <1>1, <1>2, <1>3, <1>4, NothingAssumption
  DEF RepositoryInv, Alone, Complete, LiveIsSound, HandsAreSound, PointersAreSound, RetractsAreSound,
      OnePublished, InStep, Agrees, Busy, Writing

LEMMA RepositoryStep == RepositoryInv /\ [RepositoryNext]_repositoryVars => RepositoryInv'
<1> SUFFICES ASSUME RepositoryInv, [RepositoryNext]_repositoryVars PROVE RepositoryInv'
  OBVIOUS
<1>1. ASSUME NEW p \in Caller, Quiet, Operation(p) PROVE RepositoryInv'
  <2>1. CASE \E docs \in Citations, base \in Build \cup {None} : CreateBuild(p, docs, base)
    BY <1>1, <2>1, CreateBuildStep
  <2>2. CASE \E b \in Build : MarkFailed(p, b)
    BY <1>1, <2>2, MarkFailedStep
  <2>3. CASE \E b \in Build : Publish(p, b) \/ Rollback(p, b)
    BY <1>1, <2>3, SwitchStep DEF Publish, Rollback
  <2>4. CASE Retract(p)
    BY <1>1, <2>4, RetractStep
  <2>5. QED
    BY <1>1, <2>1, <2>2, <2>3, <2>4 DEF Operation
<1>2. CASE \E d \in Doc, c \in Content : Quiet /\ SaveSnapshot(d, c)
  BY <1>2, SaveSnapshotStep
<1>3. ASSUME NEW p \in Caller, OwnStep(p) \/ WriteFails(p) \/ Return(p) PROVE RepositoryInv'
  BY <1>3, WriteManifestStep, ReplaceManifestStep, MovePointerStep, LoadRetractedStep, WriteFailsStep, ReturnStep
  DEF OwnStep
<1>4. CASE RepositoryCrash
  BY <1>4, RepositoryCrashStep
<1>5. CASE UNCHANGED repositoryVars
  BY <1>5 DEF repositoryVars, files, RepositoryInv, RepositoryTypeOK, Alone, Complete, Resolvable, LiveIsSound,
       HandsAreSound, PointersAreSound, RetractsAreSound, OnePublished, InStep, Agrees, Quiet, Busy, Writing
<1>6. QED
  BY <1>1, <1>2, <1>3, <1>4, <1>5 DEF RepositoryNext

LEMMA RepositoryInvariant == RepositorySpec => []RepositoryInv
BY RepositoryInitially, RepositoryStep, PTL DEF RepositorySpec

\* RepositoryTypeCorrect: what the files and the calls hold is what they may hold.
THEOREM RepositoryTypeCorrect == RepositorySpec => []RepositoryTypeOK
<1>1. RepositoryInv => RepositoryTypeOK
  BY DEF RepositoryInv
<1>2. QED
  BY <1>1, RepositoryInvariant, PTL

\* LiveCanBeRead: whatever was interrupted, the build that current.json names has its
\* file, is published or archived, and every document version that it cites is there.
THEOREM LiveCanBeRead == RepositorySpec => []LiveIsLoadable
<1>1. RepositoryInv => LiveIsLoadable
  BY DEF RepositoryInv, RepositoryTypeOK, LiveIsSound, Complete, LiveIsLoadable
<1>2. QED
  BY <1>1, RepositoryInvariant, PTL

\* PublishedCorrect: at most one build is ever called published, and between calls, if
\* no write failed and nothing died, it is the one that is live.
THEOREM PublishedCorrect == RepositorySpec => []PublishedIsLive
<1>1. RepositoryInv => PublishedIsLive
  BY DEF RepositoryInv, OnePublished, InStep, Agrees, PublishedIsLive
<1>2. QED
  BY <1>1, RepositoryInvariant, PTL

-----------------------------------------------------------------------------
(* What readers are promised: a step of the files is a step of PublishedWiki or *)
(* changes nothing that readers see. *)

FailedBuilds == {b \in Build : manifest[b] = "failed"}

Unseen == UNCHANGED <<builds, current, FailedBuilds>>

\* A new build file is an addition: it has the id of no other.
LEMMA CreationAdds ==
    ASSUME RepositoryInv, NEW p \in Caller, NEW docs \in Citations, NEW base, CreateBuild(p, docs, base)
    PROVE  \E b \in Build : Promise!Add(b)
<1>1. PICK b \in NextIds : builds' = [builds EXCEPT ![b] = docs]
  BY DEF CreateBuild
<1>2. b \in Build /\ builds[b] = None
  BY NextIdIsNew DEF RepositoryInv
<1>3. builds \in [Build -> Citations \cup {None}] /\ docs # None
  BY NothingAssumption DEF RepositoryInv, RepositoryTypeOK
<1>4. UNCHANGED <<manifest, current>>
  BY DEF CreateBuild
<1>5. Promise!Add(b)
  BY <1>1, <1>2, <1>3, <1>4 DEF Promise!Add
<1>6. QED
  BY <1>2, <1>5

\* The pointer moves to a build that is complete and did not fail.
LEMMA PointerPublishes ==
    ASSUME RepositoryInv, NEW p \in Caller, MovePointer(p)
    PROVE  \E b \in Build : Promise!Publish(b)
<1>1. /\ Busy(p) /\ call[p].at = "pointer"
      /\ current' = call[p].build
      /\ UNCHANGED <<builds, manifest>>
  BY DEF MovePointer, Busy
<1>2. /\ call[p].build \in Build /\ builds[call[p].build] # None
      /\ manifest[call[p].build] = "published"
  BY <1>1 DEF RepositoryInv, PointersAreSound
<1>3. Promise!Publish(call[p].build)
  BY <1>1, <1>2 DEF Promise!Publish
<1>4. QED
  BY <1>2, <1>3

\* Replacing the manifest fails one build that is not live, or none.
LEMMA ManifestFails ==
    ASSUME RepositoryInv, NEW p \in Caller, ReplaceManifest(p)
    PROVE  Unseen \/ \E b \in Build : Promise!Fail(b)
<1>1. /\ Busy(p) /\ call[p].at = "replace" /\ Writing(p)
      /\ manifest' = temp
      /\ UNCHANGED <<builds, current>>
  BY DEF ReplaceManifest, Busy, Writing
<1>2. /\ manifest' = call[p].records
      /\ \A b \in Build : manifest'[b] = "failed" =>
           manifest[b] = "failed" \/ (call[p].op = "fail" /\ b = call[p].build)
      /\ \A b \in Build : manifest[b] = "failed" => manifest'[b] = "failed"
      /\ \A b \in Build : manifest'[b] # None => builds[b] # None
      /\ call[p].op = "fail" => call[p].build \in Build \ {current} /\ manifest'[call[p].build] = "failed"
  BY <1>1 DEF RepositoryInv, HandsAreSound
<1>3. CASE call[p].op = "fail"
  <2>1. PICK b \in Build : b = call[p].build /\ b # current /\ manifest'[b] = "failed"
    BY <1>2, <1>3
  <2>2. builds[b] # None
    BY <1>2, <2>1, NothingAssumption DEF Status
  <2>3. {a \in Build : manifest'[a] = "failed"} = {a \in Build : manifest[a] = "failed"} \cup {b}
    BY <1>2, <2>1
  <2>4. Promise!Fail(b)
    BY <1>1, <2>1, <2>2, <2>3 DEF Promise!Fail
  <2>5. QED
    BY <2>1, <2>4
<1>4. CASE call[p].op # "fail"
  <2>1. {a \in Build : manifest'[a] = "failed"} = {a \in Build : manifest[a] = "failed"}
    BY <1>2, <1>4
  <2>2. QED
    BY <1>1, <2>1 DEF Unseen, FailedBuilds
<1>5. QED
  BY <1>3, <1>4

LEMMA StepKeepsPromise ==
    RepositoryInv /\ [RepositoryNext]_repositoryVars => [Promise!Next]_<<builds, current, FailedBuilds>>
<1> SUFFICES ASSUME RepositoryInv, [RepositoryNext]_repositoryVars
             PROVE  Promise!Next \/ Unseen
  BY DEF Unseen
<1>1. ASSUME NEW p \in Caller, Quiet, Operation(p) PROVE Promise!Next \/ Unseen
  <2>1. CASE \E docs \in Citations, base \in Build \cup {None} : CreateBuild(p, docs, base)
    BY <2>1, CreationAdds DEF Promise!Next
  <2>2. CASE \E b \in Build : MarkFailed(p, b) \/ Publish(p, b) \/ Rollback(p, b)
    BY <2>2 DEF MarkFailed, Publish, Rollback, Switch, files, Unseen, FailedBuilds
  <2>3. CASE Retract(p)
    BY <2>3 DEF Retract, Promise!Next, Promise!Retract
  <2>4. QED
    BY <1>1, <2>1, <2>2, <2>3 DEF Operation
<1>2. CASE \E d \in Doc, c \in Content : Quiet /\ SaveSnapshot(d, c)
  BY <1>2 DEF SaveSnapshot, Unseen, FailedBuilds
<1>3. ASSUME NEW p \in Caller, OwnStep(p) \/ WriteFails(p) \/ Return(p) PROVE Promise!Next \/ Unseen
  <2>1. CASE WriteManifest(p)
    BY <2>1 DEF WriteManifest, Unseen, FailedBuilds
  <2>2. CASE ReplaceManifest(p)
    BY <2>2, ManifestFails DEF Promise!Next
  <2>3. CASE MovePointer(p)
    BY <2>3, PointerPublishes DEF Promise!Next
  <2>4. CASE LoadRetracted(p) \/ WriteFails(p) \/ Return(p)
    BY <2>4 DEF LoadRetracted, WriteFails, Return, files, Unseen, FailedBuilds
  <2>5. QED
    BY <1>3, <2>1, <2>2, <2>3, <2>4 DEF OwnStep
<1>4. CASE RepositoryCrash
  BY <1>4 DEF RepositoryCrash, files, Unseen, FailedBuilds
<1>5. CASE UNCHANGED repositoryVars
  BY <1>5 DEF repositoryVars, files, Unseen, FailedBuilds
<1>6. QED
  BY <1>1, <1>2, <1>3, <1>4, <1>5 DEF RepositoryNext

\* ImplementsPublishedWiki: whatever fails and dies in the middle of which call, readers
\* see builds that are written once, and become live only complete and not failed.
THEOREM ImplementsPublishedWiki == RepositorySpec => KeepsItsPromise
<1>1. RepositoryInit => Promise!Init
  <2>1. RepositoryInit => {b \in Build : manifest[b] = "failed"} = {}
    BY NothingAssumption DEF RepositoryInit, Status
  <2>2. QED
    BY <2>1 DEF RepositoryInit, Promise!Init
<1>2. RepositoryInv /\ [RepositoryNext]_repositoryVars => [Promise!Next]_(Promise!vars)
  BY StepKeepsPromise DEF Promise!vars, FailedBuilds
<1>3. QED
  BY <1>1, <1>2, RepositoryInvariant, PTL DEF RepositorySpec, KeepsItsPromise, Promise!Spec

-----------------------------------------------------------------------------
(* The index *)

\* A clear or an upload holds the index's lock from beginning to end.
MutexInv == mutex = None <=> api.at = "idle"

\* The index holds what was last uploaded, and an upload on its way is going to write
\* back what there is.  What has no version was uploaded in an earlier life.
ChunkInv ==
    /\ \A d \in Doc : uploaded[d] # None => chunks[d] = uploaded[d]
    /\ \A d \in Doc : chunks[d] # None => chunks[d] <= version
    /\ api.at = "embed" =>
         api.kept = [d \in Doc |-> IF d \in Elements(api.batch) THEN None ELSE chunks[d]]

Predates(d, v) == chunks[d] # None /\ uploaded[d] = None => chunks[d] < v

\* An upload's version is later than those of the uploads before it.
VersionInv ==
    /\ \A j \in DOMAIN jobs : jobs[j].version <= version /\ \A d \in Doc : Predates(d, jobs[j].version)
    /\ \A i, j \in DOMAIN jobs : i < j => jobs[i].version < jobs[j].version
    /\ api.at = "submit" =>
         /\ api.version <= version
         /\ \A d \in Doc : Predates(d, api.version)
         /\ \A j \in DOMAIN jobs : jobs[j].version < api.version

IndexInv == MutexInv /\ ChunkInv /\ VersionInv

-----------------------------------------------------------------------------
(* The jobs *)

\* The queue is in order, and the worker's job came before what is in it.
QueueInv ==
    /\ \A k \in DOMAIN queue : queue[k] \in DOMAIN jobs
    /\ \A k, l \in DOMAIN queue : k < l => queue[k] < queue[l]
    /\ work.at # "idle" =>
         work.job \in DOMAIN jobs /\ \A k \in DOMAIN queue : work.job < queue[k]

\* As long as the process lives, each clear is counted once by the index and once by the
\* runtime, which has still to do it when the request is about to withdraw the wiki.
EpochInv ==
    /\ \A j \in DOMAIN jobs : jobs[j].epoch <= epoch
    /\ ~anew => era = IF api.at = "withdraw" THEN epoch + 1 ELSE epoch

\* No clear has passed the job, and none is about to.
Fresh(j) == jobs[j].epoch = epoch /\ api.at # "withdraw"

Unretired == {"accepted", "begin", "document", "decide", "create", "publish"}

Uploaded(batch, v) == \A d \in Elements(batch) : uploaded[d] # None /\ uploaded[d] >= v

\* The documents of an upload stay in the index until their job has been published.
HeldInv ==
    /\ api.at = "submit" => Uploaded(api.batch, api.version)
    /\ \A k \in DOMAIN queue : Fresh(queue[k]) => Uploaded(jobs[queue[k]].batch, jobs[queue[k]].version)
    /\ work.at \in Unretired /\ Fresh(work.job) => Uploaded(Job.batch, Job.version)

\* A job that has not ended has not failed.
StatusInv ==
    /\ \A k \in DOMAIN queue : jobs[queue[k]].status # "failed"
    /\ work.at # "idle" => Job.status # "failed"

JobInv == QueueInv /\ EpochInv /\ HeldInv /\ StatusInv

-----------------------------------------------------------------------------
(* The calls of the repository *)

\* Whose the runtime's lock and the repository's calls are.
CallInv ==
    /\ runlock = "api" <=> api.at = "retract"
    /\ runlock = "worker" <=> work.at \in {"publish", "undoing"}
    /\ call["api"] # None <=> api.at = "retract"
    /\ call["worker"] # None <=> work.at \in {"create", "publish", "undoing"}
    /\ call["api"] # None => call["api"].op = "retract" /\ current = None
    /\ work.at = "create" => call["worker"].op = "create"
    /\ work.at = "publish" => call["worker"].op = "switch" /\ call["worker"].build = work.base
    /\ work.at = "undoing" =>
         \/ call["worker"].op = "retract" /\ current = None
         \/ call["worker"].op = "switch" /\ call["worker"].build = work.start
    /\ \A p \in Caller : call[p] # None /\ call[p].at = "pointer" => call[p].op = "switch"
    /\ \A p \in Caller : call[p] # None /\ call[p].at = "load" => call[p].op = "retract"

-----------------------------------------------------------------------------
(* The builds *)

Exists(b) == b # None => b \in Build /\ builds[b] # None

\* The worker is about to retire, to conclude or to take back what it has published.
Public == {"retire", "retiring", "undo"}

\* What anybody refers to has been written, and the history is about what was.
BuildInv ==
    /\ Exists(current)
    /\ work.at \in Begun => Exists(work.start) /\ Exists(work.base)
    /\ work.at \in Begun /\ work.base # work.start => work.base # None
    /\ work.at \in {"publish", "undoing"} \cup Public => work.base # None /\ work.base # work.start
    /\ call["worker"] # None /\ call["worker"].op \in {"create", "switch"} =>
         call["worker"].build # None /\ Exists(call["worker"].build)
    /\ cache # None => Exists(cache.build) /\ cache.pages = builds[cache.build]
    /\ \A r \in Reader : reader[r].at # "idle" => reader[r].build # None /\ Exists(reader[r].build)
    /\ \A b \in Build : builds[b] = None => retired[b] = None /\ b \notin stuck

\* A build comes from a job that was taken, in the era of that job or a later one.
Bears(b) ==
    /\ born[b] # None /\ born[b].job \in DOMAIN jobs
    /\ \A k \in DOMAIN queue : born[b].job < queue[k]
    /\ work.at # "idle" => born[b].job <= work.job
    /\ work.at \in {"accepted", "begin"} => born[b].job < work.job
    /\ jobs[born[b].job].epoch <= born[b].era /\ born[b].era <= era

BornInv == ~anew => \A b \in Build : builds[b] # None => Bears(b)

-----------------------------------------------------------------------------
(* The live wiki *)

\* A build of this era, whose documents are in the index.
Rightful(b) == b # None => born[b].era = era /\ \A d \in Cited(b) : chunks[d] # None

\* What the publication of a build superseded has left the index.
Agreed(b) ==
    b # None /\ b \notin stuck /\ retired[b] # None =>
        \A d \in retired[b].docs : chunks[d] = None \/ chunks[d] > retired[b].version

\* The job that made the build did not fail.
Innocent(b) == b # None /\ b \notin stuck => jobs[born[b].job].status # "failed"

RetiredInv == \A b \in Build : retired[b] # None => retired[b].version <= version

\* The build that the job found, and the one it has made.
FoundInv ==
    /\ work.at \in Begun /\ work.start # None => born[work.start].job < work.job
    /\ work.at \in Begun => Agreed(work.start) /\ Innocent(work.start) /\ Innocent(work.base)
    /\ work.at \in Begun \ {"finish"} /\ Fresh(work.job) => Rightful(work.start)
    /\ work.at \in Begun /\ Fresh(work.job) => Rightful(work.base)

\* The build that it is making.
MakingInv ==
    /\ work.at = "decide" => work.next \in DOMAIN Job.batch
    /\ work.at = "create" /\ Fresh(work.job) => Rightful(call["worker"].build)
    /\ work.at = "create" => Innocent(call["worker"].build)

BasesInv == FoundInv /\ MakingInv

\* Where the pointer is as the job goes on.
PointerInv ==
    /\ work.at \in {"document", "decide", "create"} => current \in {work.start, None}
    /\ work.at = "publish" =>
         /\ jobs[work.job].epoch = epoch
         /\ current \in IF call["worker"].at = "done" THEN {work.base} ELSE {work.start, None}
    /\ work.at \in Public =>
         current \in {work.base, None} /\ (Stale(work.job) => current = None)
    /\ work.at = "undoing" =>
         /\ jobs[work.job].epoch = epoch
         /\ call["worker"].op = "switch" =>
              current \in IF call["worker"].at = "done" THEN {work.start} ELSE {work.base}
    /\ work.at \in Public \cup {"undoing"} =>
         retired[work.base] = [docs |-> Candidates, version |-> Job.version]

LiveInv ==
    /\ api.at # "withdraw" => Rightful(current)
    /\ work.at \in {"idle", "accepted", "begin", "finish"} => Agreed(current) /\ Innocent(current)

WikiInv == BasesInv /\ PointerInv /\ LiveInv

\* A restart forgets the jobs, and with them what the live wiki comes from.
RuntimeInv ==
    /\ TypeOK /\ IndexInv /\ JobInv /\ CallInv /\ BuildInv /\ BornInv /\ RetiredInv
    /\ ~anew => WikiInv

-----------------------------------------------------------------------------
(* The repository's calls, whoever else has made one *)

LEMMA Callers == "worker" \in Caller /\ "api" \in Caller /\ Caller = {"worker", "api"}
BY RuntimeAssumption

LEMMA FilesKept ==
    ASSUME RepositoryTypeOK, UNCHANGED <<files, wasLive>>, faults' \in 0..MaxFaults,
           call' \in [Caller -> Calls \cup {None}]
    PROVE  RepositoryTypeOK'
BY DEF RepositoryTypeOK, files

LEMMA RepositoryKept ==
    ASSUME RepositoryTypeOK, UNCHANGED repositoryVars
    PROVE  RepositoryTypeOK'
BY DEF RepositoryTypeOK, repositoryVars, files

LEMMA CallTyped ==
    ASSUME RepositoryTypeOK, NEW p \in Caller, NEW c \in Calls \cup {None}, Called(p, c)
    PROVE  /\ call' \in [Caller -> Calls \cup {None}]
           /\ call'[p] = c
           /\ \A q \in Caller \ {p} : call'[q] = call[q]
BY DEF RepositoryTypeOK, Called

\* What a step of p leaves alone: the calls of the others.
OthersCalls(p) == \A q \in Caller \ {p} : call'[q] = call[q]

LEMMA CreateStarts ==
    ASSUME RepositoryTypeOK, NEW p \in Caller, NEW docs \in Citations, NEW base, CreateBuild(p, docs, base)
    PROVE  /\ RepositoryTypeOK' /\ OthersCalls(p)
           /\ UNCHANGED <<snapshots, current, faults>>
           /\ \E b \in Build :
                /\ builds[b] = None /\ builds' = [builds EXCEPT ![b] = docs] /\ docs # None
                /\ call'[p] # None /\ call'[p].op = "create" /\ call'[p].at = "save" /\ call'[p].build = b
<1>1. PICK b \in NextIds :
        /\ builds' = [builds EXCEPT ![b] = docs]
        /\ Called(p, Saving("create", b, [manifest EXCEPT ![b] = "draft"]))
  BY DEF CreateBuild
<1>2. b \in Build /\ builds[b] = None
  BY NextIdIsNew
<1>3. PICK records : records = [manifest EXCEPT ![b] = "draft"]
  OBVIOUS
<1>4. records \in Records
  BY <1>2, <1>3 DEF RepositoryTypeOK, Records, Status
<1>5. PICK c : c = Saving("create", b, records)
  OBVIOUS
<1>6. c \in Calls /\ c # None /\ c.op = "create" /\ c.at = "save" /\ c.build = b
  BY <1>2, <1>4, <1>5, SavingType DEF Saving
<1>7. call' \in [Caller -> Calls \cup {None}] /\ call'[p] = c /\ OthersCalls(p)
  BY <1>1, <1>3, <1>5, <1>6, CallTyped DEF OthersCalls
<1>8. UNCHANGED <<snapshots, manifest, temp, current, wasLive, faults>>
  BY DEF CreateBuild
<1>9. docs # None
  BY NothingAssumption
<1>10. RepositoryTypeOK'
  BY <1>1, <1>2, <1>7, <1>8 DEF RepositoryTypeOK
<1>11. QED
  BY <1>1, <1>2, <1>6, <1>7, <1>8, <1>9, <1>10

LEMMA SwitchStarts ==
    ASSUME RepositoryTypeOK, NEW p \in Caller, NEW b \in Build, NEW targets, Switch(p, b, targets)
    PROVE  /\ RepositoryTypeOK' /\ OthersCalls(p)
           /\ UNCHANGED <<snapshots, builds, current, faults>>
           /\ builds[b] # None
           /\ call'[p] # None /\ call'[p].op = "switch" /\ call'[p].at = "save" /\ call'[p].build = b
<1>1. PICK records : records = Switched(b)
  OBVIOUS
<1>2. records \in Records
  BY <1>1 DEF RepositoryTypeOK, Records, Status, Switched
<1>3. PICK c : c = Saving("switch", b, records)
  OBVIOUS
<1>4. c \in Calls /\ c # None /\ c.op = "switch" /\ c.at = "save" /\ c.build = b
  BY <1>2, <1>3, SavingType DEF Saving
<1>5. Called(p, c) /\ UNCHANGED <<files, wasLive, faults>> /\ builds[b] # None
  BY <1>1, <1>3 DEF Switch, Publishable
<1>6. call' \in [Caller -> Calls \cup {None}] /\ call'[p] = c /\ OthersCalls(p)
  BY <1>4, <1>5, CallTyped DEF OthersCalls
<1>7. RepositoryTypeOK'
  BY <1>5, <1>6, FilesKept DEF RepositoryTypeOK
<1>8. QED
  BY <1>4, <1>5, <1>6, <1>7 DEF files

LEMMA RetractStarts ==
    ASSUME RepositoryTypeOK, NEW p \in Caller, Retract(p)
    PROVE  /\ RepositoryTypeOK' /\ OthersCalls(p)
           /\ UNCHANGED <<snapshots, builds, faults>>
           /\ current' = None
           /\ call'[p] # None /\ call'[p].op = "retract" /\ call'[p].at = "load"
<1>1. PICK c : c = [op |-> "retract", at |-> "load", build |-> current, records |-> manifest]
  OBVIOUS
<1>2. c \in Calls /\ c.op = "retract" /\ c.at = "load"
  BY <1>1 DEF RepositoryTypeOK, Calls
<1>3. c # None
  BY <1>2, NothingAssumption
<1>4. Called(p, c) /\ current' = None /\ UNCHANGED <<snapshots, builds, manifest, temp, wasLive, faults>>
  BY <1>1 DEF Retract
<1>5. call' \in [Caller -> Calls \cup {None}] /\ call'[p] = c /\ OthersCalls(p)
  BY <1>2, <1>4, CallTyped DEF OthersCalls
<1>6. RepositoryTypeOK'
  BY <1>4, <1>5 DEF RepositoryTypeOK
<1>7. QED
  BY <1>2, <1>3, <1>4, <1>5, <1>6

LEMMA Returns ==
    ASSUME RepositoryTypeOK, NEW p \in Caller, Return(p)
    PROVE  /\ RepositoryTypeOK' /\ OthersCalls(p)
           /\ UNCHANGED <<snapshots, builds, current, faults>>
           /\ call'[p] = None
<1>1. Called(p, None) /\ UNCHANGED <<files, wasLive, faults>>
  BY DEF Return
<1>2. call' \in [Caller -> Calls \cup {None}] /\ call'[p] = None /\ OthersCalls(p)
  BY <1>1, CallTyped DEF OthersCalls
<1>3. RepositoryTypeOK'
  BY <1>1, <1>2, FilesKept DEF RepositoryTypeOK
<1>4. QED
  BY <1>1, <1>2, <1>3 DEF files

\* A call that goes on stays what it is; only a switch comes to the pointer, and when it
\* is done it has moved it.
Goes(p) ==
    /\ call[p] # None /\ call'[p] # None
    /\ call'[p].op = call[p].op /\ call'[p].build = call[p].build
    /\ call'[p].at # "load" /\ call[p].at # "done"
    /\ call'[p].at = "pointer" => call[p].op = "switch"
    /\ IF call[p].at = "pointer" /\ call'[p].at = "done" THEN current' = call[p].build
       ELSE current' = current /\ (call'[p].at = "done" => call[p].op # "switch")

LEMMA CallGoes ==
    ASSUME RepositoryTypeOK, NEW p \in Caller, CallStep(p) \/ WriteFails(p),
           call[p] # None /\ call[p].at = "load" => call[p].op = "retract",
           call[p] # None /\ call[p].at = "pointer" => call[p].op = "switch" /\ call[p].build # None
    PROVE  /\ RepositoryTypeOK' /\ OthersCalls(p) /\ Goes(p)
           /\ UNCHANGED <<snapshots, builds>>
<1>1. CASE WriteManifest(p)
  <2>1. PICK c : c = [call[p] EXCEPT !.at = "replace"]
    OBVIOUS
  <2>2. Busy(p) /\ call[p].at = "save" /\ temp' = call[p].records /\ Called(p, c)
        /\ UNCHANGED <<snapshots, builds, manifest, current, wasLive, faults>>
    BY <1>1, <2>1 DEF WriteManifest, Busy
  <2>3. c \in Calls /\ c # None /\ c.at = "replace" /\ c.op = call[p].op /\ c.build = call[p].build
    BY <2>1, <2>2, MovedOn
  <2>4. call' \in [Caller -> Calls \cup {None}] /\ call'[p] = c /\ OthersCalls(p)
    BY <2>2, <2>3, CallTyped DEF OthersCalls
  <2>5. RepositoryTypeOK'
    BY <2>2, <2>4, BusyCalls DEF RepositoryTypeOK
  <2>6. QED
    BY <2>2, <2>3, <2>4, <2>5 DEF Goes, Busy
<1>2. CASE ReplaceManifest(p)
  <2>1. PICK place \in {"pointer", "done"} :
          place = IF call[p].op = "switch" THEN "pointer" ELSE "done"
    OBVIOUS
  <2>2. PICK c : c = [call[p] EXCEPT !.at = place]
    OBVIOUS
  <2>3. Busy(p) /\ call[p].at = "replace" /\ manifest' = temp /\ temp # None /\ temp' = None /\ Called(p, c)
        /\ UNCHANGED <<snapshots, builds, current, wasLive, faults>>
    BY <1>2, <2>1, <2>2 DEF ReplaceManifest, Busy
  <2>4. c \in Calls /\ c # None /\ c.at = place /\ c.op = call[p].op /\ c.build = call[p].build
    <3>1. place \in {"load", "save", "replace", "pointer", "done", "failed"}
      OBVIOUS
    <3>2. QED
      BY <2>2, <2>3, <3>1, MovedOn
  <2>5. call' \in [Caller -> Calls \cup {None}] /\ call'[p] = c /\ OthersCalls(p)
    BY <2>3, <2>4, CallTyped DEF OthersCalls
  <2>6. RepositoryTypeOK'
    BY <2>3, <2>5 DEF RepositoryTypeOK
  <2>7. QED
    BY <2>1, <2>3, <2>4, <2>5, <2>6 DEF Goes, Busy
<1>3. CASE MovePointer(p)
  <2>1. PICK c : c = [call[p] EXCEPT !.at = "done"]
    OBVIOUS
  <2>2. Busy(p) /\ call[p].at = "pointer" /\ current' = call[p].build /\ Called(p, c)
        /\ wasLive' = wasLive \cup {current'}
        /\ UNCHANGED <<snapshots, builds, manifest, temp, faults>>
    BY <1>3, <2>1 DEF MovePointer, Busy
  <2>3. c \in Calls /\ c # None /\ c.at = "done" /\ c.op = call[p].op /\ c.build = call[p].build
    BY <2>1, <2>2, MovedOn
  <2>4. call' \in [Caller -> Calls \cup {None}] /\ call'[p] = c /\ OthersCalls(p)
    BY <2>2, <2>3, CallTyped DEF OthersCalls
  <2>5. QED
    <3>1. call[p].build \in Build
      BY <2>2, BusyCalls DEF Busy
    <3>2. RepositoryTypeOK'
      BY <2>2, <2>4, <3>1 DEF RepositoryTypeOK
    <3>3. QED
      BY <2>2, <2>3, <2>4, <3>2 DEF Goes, Busy
<1>4. CASE LoadRetracted(p)
  <2>1. PICK place \in {"done", "save"} : place = IF Retracted = manifest THEN "done" ELSE "save"
    OBVIOUS
  <2>2. PICK c : c = [call[p] EXCEPT !.records = Retracted, !.at = place]
    OBVIOUS
  <2>3. Busy(p) /\ call[p].at = "load" /\ Called(p, c) /\ UNCHANGED <<files, wasLive, faults>>
    BY <1>4, <2>1, <2>2 DEF LoadRetracted, Busy
  <2>4. Retracted \in Records
    BY DEF RepositoryTypeOK, Retracted, Records, Status
  <2>5. c \in Calls /\ c.at = place /\ c.op = call[p].op /\ c.build = call[p].build
    BY <2>2, <2>3, <2>4, BusyCalls DEF Calls
  <2>6. c # None
    BY <2>5, NothingAssumption
  <2>7. call' \in [Caller -> Calls \cup {None}] /\ call'[p] = c /\ OthersCalls(p)
    BY <2>3, <2>5, CallTyped DEF OthersCalls
  <2>8. RepositoryTypeOK'
    BY <2>3, <2>7, FilesKept DEF RepositoryTypeOK
  <2>9. QED
    BY <2>3, <2>5, <2>6, <2>7, <2>8 DEF Goes, Busy, files
<1>5. CASE ReplaceFails(p) \/ WriteFails(p)
  <2>1. PICK c : c = [call[p] EXCEPT !.at = "failed"]
    OBVIOUS
  <2>2. Busy(p) /\ call[p].at \in {"save", "replace", "pointer"} /\ Called(p, c) /\ UNCHANGED <<files, wasLive>>
    BY <1>5, <2>1 DEF ReplaceFails, WriteFails, Busy
  <2>3. c \in Calls /\ c # None /\ c.at = "failed" /\ c.op = call[p].op /\ c.build = call[p].build
    BY <2>1, <2>2, MovedOn
  <2>4. call' \in [Caller -> Calls \cup {None}] /\ call'[p] = c /\ OthersCalls(p)
    BY <2>2, <2>3, CallTyped DEF OthersCalls
  <2>5. faults' \in 0..MaxFaults
    BY <1>5, FaultCounts DEF ReplaceFails, WriteFails, RepositoryTypeOK
  <2>6. RepositoryTypeOK'
    BY <2>2, <2>4, <2>5, FilesKept
  <2>7. QED
    BY <2>2, <2>3, <2>4, <2>6 DEF Goes, Busy, files
<1>6. QED
  BY <1>1, <1>2, <1>3, <1>4, <1>5 DEF CallStep, OwnStep

-----------------------------------------------------------------------------
(* Types *)

\* Of the jobs that there are, only the status changes.
JobsKept ==
    /\ DOMAIN jobs' = DOMAIN jobs
    /\ \A j \in DOMAIN jobs :
         /\ jobs'[j].batch = jobs[j].batch /\ jobs'[j].epoch = jobs[j].epoch
         /\ jobs'[j].version = jobs[j].version

Statuses == Active \cup {"draft", "ignored", "published", "failed", "cancelled"}

LEMMA StatusSet ==
    ASSUME TypeOK, NEW j \in DOMAIN jobs, NEW s \in Statuses, jobs' = [jobs EXCEPT ![j].status = s]
    PROVE  /\ jobs' \in Seq(Jobs) /\ JobsKept
           /\ \A i \in DOMAIN jobs : jobs'[i].status = IF i = j THEN s ELSE jobs[i].status
<1>1. jobs \in Seq(Jobs) /\ jobs[j] \in Jobs
  BY DEF TypeOK
<1>2. PICK q : q = [jobs[j] EXCEPT !.status = s]
  OBVIOUS
<1>3. q \in Jobs /\ q.status = s /\ q.batch = jobs[j].batch /\ q.epoch = jobs[j].epoch /\ q.version = jobs[j].version
  BY <1>1, <1>2 DEF Jobs, Statuses
<1>4. jobs' = [jobs EXCEPT ![j] = q]
  BY <1>2
<1>5. QED
  BY <1>1, <1>3, <1>4 DEF JobsKept

\* A clear cancels what has not ended.
LEMMA StatusesSet ==
    ASSUME TypeOK,
           jobs' = [j \in DOMAIN jobs |->
                      IF jobs[j].status \in Active THEN [jobs[j] EXCEPT !.status = "cancelled"] ELSE jobs[j]]
    PROVE  /\ jobs' \in Seq(Jobs) /\ JobsKept
           /\ \A j \in DOMAIN jobs : jobs'[j].status \in {jobs[j].status, "cancelled"}
<1>1. jobs \in Seq(Jobs)
  BY DEF TypeOK
<1>2. ASSUME NEW j \in DOMAIN jobs
      PROVE  /\ jobs'[j] \in Jobs /\ jobs'[j].batch = jobs[j].batch /\ jobs'[j].epoch = jobs[j].epoch
             /\ jobs'[j].version = jobs[j].version /\ jobs'[j].status \in {jobs[j].status, "cancelled"}
  <2>1. jobs[j] \in Jobs
    BY <1>1
  <2>2. PICK q : q = [jobs[j] EXCEPT !.status = "cancelled"]
    OBVIOUS
  <2>3. q \in Jobs /\ q.status = "cancelled" /\ q.batch = jobs[j].batch /\ q.epoch = jobs[j].epoch
        /\ q.version = jobs[j].version
    BY <2>1, <2>2 DEF Jobs
  <2>4. jobs'[j] \in {q, jobs[j]}
    BY <2>2
  <2>5. QED
    BY <2>1, <2>3, <2>4
<1>3. DOMAIN jobs' = DOMAIN jobs
  OBVIOUS
<1>4. Len(jobs) \in Nat /\ DOMAIN jobs = 1..Len(jobs)
  BY <1>1
<1>5. jobs' \in [1..Len(jobs) -> Jobs]
  BY <1>2, <1>4
<1>6. jobs' \in Seq(Jobs)
  BY <1>4, <1>5
<1>7. QED
  BY <1>2, <1>3, <1>6 DEF JobsKept

\* The worker goes on with its job.
WorksOn(a) ==
    /\ work' \in Works /\ work'.at = a /\ work'.job = work.job /\ work'.start = work.start
    /\ work.at \in Begun

LEMMA WorkGoes ==
    ASSUME TypeOK, work.at \in Begun, NEW a \in Begun, work' = [work EXCEPT !.at = a]
    PROVE  /\ WorksOn(a)
           /\ work'.next = work.next /\ work'.base = work.base /\ work'.superseded = work.superseded
           /\ work'.saved = work.saved
<1>1. work \in Works
  BY DEF TypeOK
<1>2. QED
  BY <1>1 DEF Works, WorksOn

\* What the types of the worker's job are.
LEMMA JobTyped ==
    ASSUME TypeOK, QueueInv, work.at # "idle"
    PROVE  /\ work.job \in DOMAIN jobs /\ Job \in Jobs /\ Job.batch \in Seq(Doc) /\ work.job \in Nat
           /\ Job.version \in Nat /\ Job.epoch \in Nat
<1>1. work.job \in DOMAIN jobs /\ jobs \in Seq(Jobs)
  BY DEF TypeOK, QueueInv
<1>2. work.job \in Nat /\ Job \in Jobs
  BY <1>1 DEF Job
<1>3. Job.batch \in Batches /\ Job.version \in Nat /\ Job.epoch \in Nat
  BY <1>2 DEF Jobs
<1>4. QED
  BY <1>1, <1>2, <1>3, RuntimeAssumption

\* How a job may end.
LEMMA Ending ==
    ASSUME TypeOK, QueueInv, work.at # "idle", NEW s \in Statuses, Ends(s)
    PROVE  /\ jobs' \in Seq(Jobs) /\ JobsKept /\ work' = Idle
           /\ \A i \in DOMAIN jobs : jobs'[i].status = IF i = work.job THEN s ELSE jobs[i].status
BY JobTyped, StatusSet DEF Ends, SetStatus

LEMMA Failing ==
    ASSUME TypeOK, QueueInv, work.at # "idle", JobFails
    PROVE  /\ jobs' \in Seq(Jobs) /\ JobsKept /\ work' = Idle
           /\ \A i \in DOMAIN jobs : i # work.job => jobs'[i].status = jobs[i].status
<1>1. PICK s \in Statuses : Ends(s)
  BY DEF JobFails, Statuses
<1>2. QED
  BY <1>1, Ending

LEMMA IdleTyped == Idle.at = "idle" /\ Idle.at \notin Begun /\ Idle.at \notin {"accepted", "begin"}
BY DEF Idle, Begun

\* The index's part of what is typed, the jobs' and the history's.
LEMMA BatchTyped == \A batch \in Batches : batch \in Seq(Doc) /\ Elements(batch) \subseteq Doc
BY RuntimeAssumption DEF Elements

LEMMA TypeInitially == Init => TypeOK
<1> SUFFICES ASSUME Init PROVE TypeOK
  OBVIOUS
<1>1. RepositoryTypeOK
  BY RepositoryInitially DEF Init, RepositoryInv
<1>2. work.at = "idle" /\ api.at = "idle" /\ reader \in [Reader -> Readings \cup {Idle}]
  BY DEF Init, Idle
<1>3. work.at \notin Begun /\ work.at \notin {"accepted", "begin"} /\ api.at \notin {"embed", "submit"}
  BY <1>2 DEF Begun
<1>4. jobs \in Seq(Jobs) /\ queue \in Seq(Nat)
  BY DEF Init
<1>5. born \in [Build -> Origin \cup {None}] /\ retired \in [Build -> Retirement \cup {None}]
  BY DEF Init
<1>6. QED
  BY <1>1, <1>2, <1>3, <1>4, <1>5 DEF Init, TypeOK

\* What an upload writes back is what there is.
LEMMA UploadKeeps ==
    ASSUME ChunkInv, CommitUpload
    PROVE  chunks' = [d \in Doc |-> IF d \in Elements(api.batch) THEN version' ELSE chunks[d]]
BY DEF ChunkInv, CommitUpload

LEMMA TypeOfApi ==
    ASSUME TypeOK, QueueInv, ChunkInv,
           \/ \E batch \in Batches : Upload(batch)
           \/ UploadFails \/ CommitUpload \/ Submit \/ ClearIndex \/ WithdrawWiki \/ Withdrawn
    PROVE  TypeOK'
<1>1. ASSUME NEW batch \in Batches, Upload(batch) PROVE TypeOK'
  <2>1. api'.at = "embed" /\ api'.batch = batch /\ UNCHANGED repositoryVars
    BY <1>1 DEF Upload
  <2>2. QED
    BY <1>1, <2>1, RepositoryKept DEF Upload, TypeOK, index, history
<1>2. CASE UploadFails
  <2>1. RepositoryTypeOK'
    BY <1>2, FaultCounts, FilesKept DEF UploadFails, TypeOK, RepositoryTypeOK
  <2>2. api'.at = "idle"
    BY <1>2 DEF UploadFails, Idle
  <2>3. QED
    BY <1>2, <2>1, <2>2 DEF UploadFails, TypeOK, index, history
<1>3. CASE CommitUpload
  <2>1. version' \in Nat /\ api'.at = "submit" /\ api'.batch = api.batch /\ api'.version = version'
        /\ UNCHANGED repositoryVars
    BY <1>3 DEF CommitUpload, TypeOK
  <2>2. uploaded' \in [Doc -> Nat \cup {None}]
    BY <1>3, <2>1 DEF CommitUpload, TypeOK
  <2>3. chunks' \in [Doc -> Nat \cup {None}]
    BY <1>3, <2>1, UploadKeeps DEF TypeOK
  <2>4. QED
    BY <1>3, <2>1, <2>2, <2>3, RepositoryKept DEF CommitUpload, TypeOK, history
<1>4. CASE Submit
  <2>1. PICK job : job = [batch |-> api.batch, epoch |-> epoch, version |-> api.version, status |-> "queued"]
    OBVIOUS
  <2>2. job \in Jobs
    BY <1>4, <2>1 DEF Submit, TypeOK, Jobs, Active
  <2>3. jobs' = Append(jobs, job) /\ UNCHANGED repositoryVars /\ api'.at = "idle"
    BY <1>4, <2>1 DEF Submit, Idle
  <2>4. jobs' \in Seq(Jobs) /\ Len(jobs') \in Nat
    BY <2>2, <2>3 DEF TypeOK
  <2>5. queue' \in Seq(Nat)
    BY <1>4, <2>4 DEF Submit, TypeOK
  <2>6. QED
    BY <1>4, <2>3, <2>4, <2>5, RepositoryKept DEF Submit, TypeOK, index, history
<1>5. CASE ClearIndex
  <2>1. api'.at = "withdraw" /\ UNCHANGED repositoryVars
    BY <1>5 DEF ClearIndex
  <2>2. QED
    BY <1>5, <2>1, RepositoryKept DEF ClearIndex, TypeOK, index, history
<1>6. CASE WithdrawWiki
  <2>1. jobs' \in Seq(Jobs) /\ epoch' \in Nat
    BY <1>6, StatusesSet DEF WithdrawWiki, TypeOK
  <2>2. UNCHANGED <<index, queue, work, reader, history>>
    BY <1>6 DEF WithdrawWiki
  <2>3. CASE current # None
    <3>1. RepositoryTypeOK'
      BY <1>6, <2>3, Callers, RetractStarts DEF WithdrawWiki, TypeOK
    <3>2. runlock' = "api" /\ api'.at = "retract" /\ UNCHANGED <<mutex, cache>>
      BY <1>6, <2>3 DEF WithdrawWiki
    <3>3. QED
      BY <2>1, <2>2, <3>1, <3>2 DEF TypeOK, index, history
  <2>4. CASE current = None
    <3>1. RepositoryTypeOK'
      BY <1>6, <2>4, RepositoryKept DEF WithdrawWiki, TypeOK
    <3>2. mutex' = None /\ api'.at = "idle" /\ cache' = None /\ UNCHANGED runlock
      BY <1>6, <2>4 DEF WithdrawWiki, Idle
    <3>3. QED
      BY <2>1, <2>2, <3>1, <3>2 DEF TypeOK, index, history
  <2>5. QED
    BY <2>3, <2>4
<1>7. CASE Withdrawn
  <2>1. RepositoryTypeOK'
    BY <1>7, Callers, Returns DEF Withdrawn, TypeOK
  <2>2. cache' \in {cache, None} /\ runlock' = None /\ mutex' = None /\ api'.at = "idle"
        /\ UNCHANGED <<index, jobs, queue, epoch, work, reader, history>>
    BY <1>7 DEF Withdrawn, Idle
  <2>3. QED
    BY <2>1, <2>2 DEF TypeOK, index, history
<1>8. QED
  BY <1>1, <1>2, <1>3, <1>4, <1>5, <1>6, <1>7

LEMMA SnapshotTyped ==
    ASSUME RepositoryTypeOK, NEW d \in Doc, NEW c \in Content, SaveSnapshot(d, c)
    PROVE  RepositoryTypeOK' /\ UNCHANGED <<builds, current, call, faults>>
<1>1. Short[c] \in Version
  BY DEF Version
<1>2. QED
  BY <1>1 DEF RepositoryTypeOK, SaveSnapshot

LEMMA NextTyped == work \in Works => work.next \in Nat \ {0} /\ work.next + 1 \in Nat \ {0}
BY DEF Works

\* The documents that a build is made from are what a build may cite.
LEMMA EffectiveTyped ==
    ASSUME TypeOK, BuildInv, work.at \in Begun, NEW incoming, NEW superseded
    PROVE  EffectiveDocuments(incoming, superseded) \in Citations
<1>1. work \in Works
  BY DEF TypeOK
<1>2. work.saved \in Version \cup {None} /\ work.base \in Build \cup {None}
  BY <1>1 DEF Works
<1>3. builds \in [Build -> Citations \cup {None}] /\ current \in Build \cup {None}
  BY DEF TypeOK, RepositoryTypeOK
<1>4. Base # None => builds[Base] \in Citations
  BY <1>2, <1>3 DEF Base, BuildInv, Exists
<1>5. ActiveDocuments \in Citations
  BY <1>4 DEF ActiveDocuments, Citations
<1>6. QED
  BY <1>2, <1>5 DEF EffectiveDocuments, Citations

LEMMA TypeOfCompiling ==
    ASSUME TypeOK, QueueInv, BuildInv, Compile \/ CompilationFails
    PROVE  TypeOK'
<1>1. CASE Take
  <2>1. queue \in Seq(Nat) /\ queue # <<>> /\ queue' = Tail(queue) /\ work.at = "idle"
    BY <1>1 DEF Take, TypeOK
  <2>2. queue' \in Seq(Nat) /\ Head(queue) \in Nat /\ Head(queue) \in DOMAIN jobs
    BY <2>1 DEF QueueInv
  <2>3. UNCHANGED <<repositoryVars, index, mutex, api, epoch, runlock, cache, reader, history>>
    BY <1>1 DEF Take
  <2>4. CASE Stale(Head(queue))
    <3>1. jobs' \in Seq(Jobs) /\ UNCHANGED work
      BY <1>1, <2>2, <2>4, StatusSet DEF Take, Statuses
    <3>2. QED
      BY <2>2, <2>3, <3>1, RepositoryKept DEF TypeOK, index, history
  <2>5. CASE ~Stale(Head(queue))
    <3>1. work'.at = "accepted" /\ work'.job = Head(queue) /\ UNCHANGED jobs
      BY <1>1, <2>5 DEF Take
    <3>2. work'.at \notin Begun
      BY <3>1 DEF Begun
    <3>3. QED
      BY <2>2, <2>3, <3>1, <3>2, RepositoryKept DEF TypeOK, index, history
  <2>6. QED
    BY <2>4, <2>5
<1>2. CASE Run
  <2>1. work.at # "idle" /\ work'.at = "begin" /\ work'.job = work.job
    BY <1>2 DEF Run
  <2>2. jobs' \in Seq(Jobs) /\ work.job \in Nat
    BY <1>2, <2>1, JobTyped, StatusSet DEF Run, SetStatus, Statuses, Active
  <2>3. work'.at \notin Begun
    BY <2>1 DEF Begun
  <2>4. QED
    BY <1>2, <2>1, <2>2, <2>3, RepositoryKept DEF Run, TypeOK, index, history
<1>3. CASE Begin
  <2>1. work.at # "idle" /\ work.job \in Nat /\ current \in Build \cup {None}
    BY <1>3, JobTyped DEF Begin, TypeOK, RepositoryTypeOK
  <2>2. work' \in Works /\ work'.at = "document"
    BY <1>3, <2>1 DEF Begin, Works, Begun
  <2>3. QED
    BY <1>3, <2>2, RepositoryKept DEF Begin, TypeOK, Begun, index, history
<1>4. CASE CancelDocument
  <2>1. jobs' \in Seq(Jobs) /\ work' = Idle
    BY <1>4, Ending DEF CancelDocument, Statuses
  <2>2. QED
    BY <1>4, <2>1, IdleTyped, RepositoryKept DEF CancelDocument, TypeOK, index, history
<1>5. CASE NextDocument
  <2>1. work.at = "document" /\ work \in Works
    BY <1>5 DEF NextDocument, TypeOK, Begun
  <2>2. work.next \in DOMAIN Job.batch
    <3>1. work.next \in Nat \ {0} /\ work.next <= Len(Job.batch)
      BY <1>5, <2>1, NextTyped DEF NextDocument
    <3>2. Job.batch \in Seq(Doc)
      BY <2>1, JobTyped
    <3>3. QED
      BY <3>1, <3>2
  <2>3. PICK c \in Content :
          SaveSnapshot(Job.batch[work.next], c) /\ work' = [work EXCEPT !.at = "decide", !.saved = Short[c]]
    BY <1>5 DEF NextDocument
  <2>4. Short[c] \in Version /\ Job.batch[work.next] \in Doc
    BY <2>1, <2>2, JobTyped DEF Version
  <2>5. RepositoryTypeOK'
    BY <2>3, <2>4, SnapshotTyped DEF TypeOK
  <2>6. work' \in Works /\ work'.at = "decide"
    BY <2>1, <2>3, <2>4 DEF Works, Begun
  <2>7. QED
    BY <1>5, <2>5, <2>6 DEF NextDocument, TypeOK, Begun, index, history
<1>6. CASE Ignore
  <2>1. work \in Works
    BY <1>6 DEF Ignore, TypeOK, Begun
  <2>2. work' \in Works /\ work'.at = "document"
    BY <1>6, <2>1, NextTyped DEF Ignore, Works, Begun
  <2>3. QED
    BY <1>6, <2>2, RepositoryKept DEF Ignore, TypeOK, Begun, index, history
<1>7. CASE Update
  <2>1. work.at \in Begun /\ work \in Works
    BY <1>7 DEF Update, TypeOK, Begun
  <2>2. PICK superseded \in SUBSET {d \in Doc : ActiveDocuments[d] # None} :
          /\ CreateBuild("worker", EffectiveDocuments(Job.batch[work.next], superseded), Base)
          /\ work' = [work EXCEPT !.at = "create", !.superseded = @ \cup superseded]
    BY <1>7 DEF Update
  <2>3. RepositoryTypeOK'
    BY <2>1, <2>2, EffectiveTyped, CreateStarts, Callers DEF TypeOK
  <2>4. work' \in Works /\ work'.at = "create"
    BY <2>1, <2>2 DEF Works, Begun
  <2>5. [era |-> era, job |-> work.job] \in Origin
    BY <2>1 DEF TypeOK, Works, Origin
  <2>6. born' \in [Build -> Origin \cup {None}]
    BY <1>7, <2>5 DEF Update, TypeOK
  <2>7. QED
    BY <1>7, <2>3, <2>4, <2>6 DEF Update, TypeOK, Begun, index, history
<1>8. CASE CompilationFails
  <2>1. RepositoryTypeOK'
    BY <1>8, FaultCounts, FilesKept DEF CompilationFails, TypeOK, RepositoryTypeOK
  <2>2. jobs' \in Seq(Jobs) /\ work' = Idle
    BY <1>8, Failing DEF CompilationFails
  <2>3. QED
    BY <1>8, <2>1, <2>2, IdleTyped DEF CompilationFails, TypeOK, index, history
<1>9. CASE Created
  <2>1. RepositoryTypeOK'
    BY <1>9, Returns, Callers DEF Created, TypeOK
  <2>2. work.at = "create" /\ work \in Works /\ call["worker"] # None
    BY <1>9 DEF Created, Ended, TypeOK, Begun
  <2>3. \/ jobs' \in Seq(Jobs) /\ work' = Idle
        \/ UNCHANGED jobs /\ work' \in Works /\ work'.at = "document"
    <3>1. CASE call["worker"].at = "done"
      <4>1. call["worker"].build \in Build \cup {None}
        BY <2>2, BusyCalls, Callers DEF Busy, TypeOK
      <4>2. QED
        BY <1>9, <2>2, <3>1, <4>1, NextTyped DEF Created, Works, Begun
    <3>2. CASE call["worker"].at # "done"
      BY <1>9, <2>2, <3>2, Failing DEF Created
    <3>3. QED
      BY <3>1, <3>2
  <2>4. UNCHANGED <<index, mutex, api, queue, epoch, runlock, cache, reader, history>>
    BY <1>9 DEF Created
  <2>5. QED
    BY <2>1, <2>3, <2>4, IdleTyped DEF TypeOK, Begun, index, history
<1>10. QED
  BY <1>1, <1>2, <1>3, <1>4, <1>5, <1>6, <1>7, <1>8, <1>9 DEF Compile

LEMMA UndoTyped ==
    ASSUME TypeOK, Undo, RepositoryTypeOK'
    PROVE  TypeOK'
<1>1. work.at = "undo" /\ work.at \in Begun
  BY DEF Undo, Begun
<1>2. work' \in Works /\ work'.at = "undoing"
  BY <1>1, WorkGoes DEF Undo, WorksOn, Begun
<1>3. QED
  BY <1>2 DEF Undo, TypeOK, Begun, index, history

\* A call of the runtime's goes on.
LEMMA StepGoes ==
    ASSUME RepositoryTypeOK, CallInv, BuildInv, NEW p \in Caller, Step(p)
    PROVE  /\ RepositoryTypeOK' /\ OthersCalls(p) /\ Goes(p)
           /\ UNCHANGED <<snapshots, builds>>
<1>1. call[p] # None /\ call[p].at = "load" => call[p].op = "retract"
  BY DEF CallInv
<1>2. call[p] # None /\ call[p].at = "pointer" => call[p].op = "switch" /\ call[p].build # None
  BY Callers DEF CallInv, BuildInv
<1>3. QED
  BY <1>1, <1>2, CallGoes DEF Step

LEMMA TypeOfConcluding ==
    ASSUME TypeOK, QueueInv, BuildInv, Conclude \/ RetirementFails
    PROVE  TypeOK'
<1>1. CASE EndUnpublished
  <2>1. PICK s \in Statuses : Ends(s) /\ work.at # "idle"
    BY <1>1 DEF EndUnpublished, BatchDone, Statuses
  <2>2. jobs' \in Seq(Jobs) /\ work' = Idle
    BY <2>1, Ending
  <2>3. QED
    BY <1>1, <2>2, IdleTyped, RepositoryKept DEF EndUnpublished, TypeOK, index, history
<1>2. CASE PublishJob
  <2>1. work.at = "document" /\ work.at \in Begun /\ work.base # work.start
    BY <1>2 DEF PublishJob, BatchDone, Begun
  <2>2. work.base \in Build
    BY <2>1 DEF BuildInv, Exists
  <2>3. RepositoryTypeOK'
    BY <1>2, <2>2, SwitchStarts, Callers DEF PublishJob, Publish, TypeOK
  <2>4. work' \in Works /\ work'.at = "publish"
    BY <1>2, <2>1, WorkGoes DEF PublishJob, WorksOn, Begun
  <2>5. QED
    BY <1>2, <2>3, <2>4 DEF PublishJob, TypeOK, Begun, index, history
<1>3. CASE Published
  <2>1. work.at = "publish" /\ work.at \in Begun /\ work \in Works /\ runlock' = None
        /\ UNCHANGED <<index, mutex, api, queue, epoch, reader, era, born, stuck, hold, anew>>
    BY <1>3 DEF Published, TypeOK, Begun
  <2>2. RepositoryTypeOK'
    BY <1>3, Returns, Callers DEF Published, TypeOK
  <2>3. CASE call["worker"].at = "done"
    <3>1. work' = [work EXCEPT !.at = "retire"] /\ cache' = None /\ UNCHANGED jobs
          /\ retired' = [retired EXCEPT ![work.base] =
                           [docs |-> work.superseded \ Cited(work.base), version |-> Job.version]]
      BY <1>3, <2>3 DEF Published
    <3>2. work' \in Works /\ work'.at = "retire"
      BY <2>1, <3>1, WorkGoes DEF WorksOn, Begun
    <3>3. work.superseded \in SUBSET Doc /\ Job.version \in Nat
      BY <2>1, JobTyped DEF Works
    <3>4. [docs |-> work.superseded \ Cited(work.base), version |-> Job.version] \in Retirement
      BY <3>3 DEF Retirement
    <3>5. retired' \in [Build -> Retirement \cup {None}]
      BY <3>1, <3>4 DEF TypeOK
    <3>6. QED
      BY <2>1, <2>2, <3>1, <3>2, <3>5 DEF TypeOK, Begun, index
  <2>4. CASE call["worker"].at # "done"
    <3>1. jobs' \in Seq(Jobs) /\ work' = Idle /\ UNCHANGED <<cache, retired>>
      BY <1>3, <2>1, <2>4, Failing DEF Published
    <3>2. QED
      BY <2>1, <2>2, <3>1, IdleTyped DEF TypeOK, index
  <2>5. QED
    BY <2>3, <2>4
<1>4. CASE NothingToRetire
  <2>1. work' \in Works /\ work'.at = "finish"
    BY <1>4, WorkGoes DEF NothingToRetire, WorksOn, Begun
  <2>2. QED
    BY <1>4, <2>1, RepositoryKept DEF NothingToRetire, TypeOK, Begun, index, history
<1>5. CASE CallRetirement
  <2>1. work' \in Works /\ work'.at = "retiring"
    BY <1>5, WorkGoes DEF CallRetirement, WorksOn, Begun
  <2>2. QED
    BY <1>5, <2>1, RepositoryKept DEF CallRetirement, TypeOK, Begun, index, history
<1>6. CASE RetireDocuments
  <2>1. work' \in Works /\ work'.at = "finish"
    BY <1>6, WorkGoes DEF RetireDocuments, WorksOn, Begun
  <2>2. /\ chunks' \in [Doc -> Nat \cup {None}] /\ uploaded' \in [Doc -> Nat \cup {None}]
        /\ version' \in Nat
    BY <1>6 DEF RetireDocuments, TypeOK, index
  <2>3. QED
    BY <1>6, <2>1, <2>2, RepositoryKept DEF RetireDocuments, TypeOK, Begun, history
<1>7. CASE RetirementFails
  <2>1. work' \in Works /\ work'.at = "undo"
    BY <1>7, WorkGoes DEF RetirementFails, WorksOn, Begun
  <2>2. RepositoryTypeOK'
    BY <1>7, FaultCounts, FilesKept DEF RetirementFails, TypeOK, RepositoryTypeOK
  <2>3. QED
    BY <1>7, <2>1, <2>2 DEF RetirementFails, TypeOK, Begun, index, history
<1>8. CASE Finish
  <2>1. work' = Idle /\ work.at # "idle" /\ (UNCHANGED jobs \/ SetStatus("published"))
    BY <1>8 DEF Finish
  <2>2. jobs' \in Seq(Jobs)
    BY <2>1, JobTyped, StatusSet DEF SetStatus, Statuses, TypeOK
  <2>3. QED
    BY <1>8, <2>1, <2>2, IdleTyped, RepositoryKept DEF Finish, TypeOK, index, history
<1>9. CASE LeaveUndone
  <2>1. jobs' \in Seq(Jobs) /\ work' = Idle
    BY <1>9, Failing DEF LeaveUndone
  <2>2. QED
    BY <1>9, <2>1, IdleTyped, RepositoryKept DEF LeaveUndone, TypeOK, index, history
<1>10. CASE Undo
  <2>1. work.at = "undo" /\ work.at \in Begun /\ work \in Works
    BY <1>10 DEF Undo, TypeOK, Begun
  <2>2. CASE work.start = None
    BY <1>10, <2>2, RetractStarts, Callers, UndoTyped DEF Undo, TypeOK
  <2>3. CASE work.start # None
    <3>1. work.start \in Build
      BY <2>1, <2>3 DEF Works
    <3>2. RepositoryTypeOK'
      BY <1>10, <2>3, <3>1, SwitchStarts, Callers DEF Undo, Rollback, TypeOK
    <3>3. QED
      BY <1>10, <3>2, UndoTyped
  <2>4. QED
    BY <2>2, <2>3
<1>11. CASE Undone
  <2>1. RepositoryTypeOK' /\ work.at = "undoing"
    BY <1>11, Returns, Callers DEF Undone, TypeOK
  <2>2. jobs' \in Seq(Jobs) /\ work' = Idle
    BY <1>11, <2>1, Failing DEF Undone
  <2>3. work.base \in Build
    BY <2>1 DEF BuildInv, Exists, Begun
  <2>4. cache' \in {cache, None} /\ stuck' \in {stuck, stuck \cup {work.base}} /\ runlock' = None
        /\ UNCHANGED <<index, mutex, api, queue, epoch, reader, era, born, retired, hold, anew>>
    BY <1>11 DEF Undone
  <2>5. QED
    BY <2>1, <2>2, <2>3, <2>4, IdleTyped DEF TypeOK, index
<1>12. QED
  BY <1>1, <1>2, <1>3, <1>4, <1>5, <1>6, <1>7, <1>8, <1>9, <1>10, <1>11 DEF Conclude

LEMMA TypeStep ==
    ASSUME TypeOK, ChunkInv, QueueInv, BuildInv, CallInv, [Next]_vars
    PROVE  TypeOK'
<1>1. CASE (\E batch \in Batches : Upload(batch)) \/ ClearIndex \/ Api \/ UploadFails
  BY <1>1, TypeOfApi DEF Api
<1>2. CASE Compile \/ Conclude \/ CompilationFails \/ RetirementFails
  BY <1>2, TypeOfCompiling, TypeOfConcluding
<1>3. ASSUME NEW p \in Caller, Step(p) PROVE TypeOK'
  <2>1. RepositoryTypeOK'
    BY <1>3, StepGoes DEF TypeOK
  <2>2. QED
    BY <1>3, <2>1 DEF Step, TypeOK, index, history
<1>4. ASSUME NEW r \in Reader, Read(r) PROVE TypeOK'
  <2>1. reader' \in [Reader -> Readings \cup {Idle}]
    <3>1. reader[r] \in Readings \cup {Idle} /\ current \in Build \cup {None}
      BY DEF TypeOK, RepositoryTypeOK
    <3>2. reader[r].at = "named" => reader[r].build \in Build
      BY <3>1 DEF Readings, Idle
    <3>3. PICK q : reader' = [reader EXCEPT ![r] = q] /\ q \in Readings \cup {Idle}
      BY <1>4, <3>1, <3>2 DEF Read, ReadPointer, AskCache, FillCache, Readings
    <3>4. QED
      BY <3>3 DEF TypeOK
  <2>2. cache' \in Pages \cup {None}
    <3>1. CASE FillCache(r)
      <4>1. reader[r].build \in Build /\ builds[reader[r].build] \in Citations
        BY <3>1 DEF FillCache, BuildInv, Exists, TypeOK, RepositoryTypeOK
      <4>2. QED
        BY <3>1, <4>1 DEF FillCache, Pages
    <3>2. CASE ReadPointer(r) \/ AskCache(r)
      BY <3>2 DEF ReadPointer, AskCache, TypeOK
    <3>3. QED
      BY <1>4, <3>1, <3>2 DEF Read
  <2>3. UNCHANGED <<repositoryVars, index, mutex, api, jobs, queue, epoch, runlock, work, history>>
    BY <1>4 DEF Read, ReadPointer, AskCache, FillCache
  <2>4. QED
    BY <2>1, <2>2, <2>3, RepositoryKept DEF TypeOK, index, history
<1>5. CASE Crash
  <2>1. RepositoryTypeOK'
    <3>1. faults' \in 0..MaxFaults /\ UNCHANGED <<files, wasLive>>
      BY <1>5, FaultCounts DEF Crash, RepositoryCrash, TypeOK
    <3>2. call' \in [Caller -> Calls \cup {None}]
      BY <1>5 DEF Crash, RepositoryCrash
    <3>3. QED
      BY <3>1, <3>2, FilesKept DEF TypeOK
  <2>2. jobs' \in Seq(Jobs) /\ queue' \in Seq(Nat)
    BY <1>5 DEF Crash
  <2>3. uploaded' \in [Doc -> Nat \cup {None}] /\ api'.at = "idle" /\ work'.at = "idle"
        /\ reader' \in [Reader -> Readings \cup {Idle}]
    BY <1>5 DEF Crash, Idle
  <2>4. work'.at \notin Begun
    BY <2>3 DEF Begun
  <2>5. QED
    BY <1>5, <2>1, <2>2, <2>3, <2>4 DEF Crash, TypeOK
<1>6. CASE UNCHANGED vars
  BY <1>6, RepositoryKept DEF vars, TypeOK, index, history
<1>7. QED
  BY <1>1, <1>2, <1>3, <1>4, <1>5, <1>6 DEF Next

-----------------------------------------------------------------------------
(* What the worker leaves alone *)

\* The worker goes on with its job or ends it, and only then the job may have failed.
Moves ==
    /\ UNCHANGED <<mutex, api, queue, epoch, era, anew>>
    /\ JobsKept
    /\ work.at # "idle"
    /\ work'.at # "idle" =>
         work'.job = work.job /\ (work'.at \in Unretired => work.at \in Unretired)
    /\ \A j \in DOMAIN jobs : jobs'[j].status = "failed" =>
         jobs[j].status = "failed" \/ (j = work.job /\ work'.at = "idle")

LEMMA EndingMoves ==
    ASSUME TypeOK, QueueInv, work.at # "idle", NEW s \in Statuses, Ends(s),
           UNCHANGED <<mutex, api, queue, epoch, era, anew>>
    PROVE  Moves
BY Ending, IdleTyped DEF Moves

LEMMA FailingMoves ==
    ASSUME TypeOK, QueueInv, work.at # "idle", JobFails,
           UNCHANGED <<mutex, api, queue, epoch, era, anew>>
    PROVE  Moves
BY Failing, IdleTyped DEF Moves

LEMMA GoingMoves ==
    ASSUME work.at # "idle", work'.job = work.job, work'.at \in Unretired => work.at \in Unretired,
           UNCHANGED <<mutex, api, jobs, queue, epoch, era, anew>>
    PROVE  Moves
BY DEF Moves, JobsKept

LEMMA CompilingMoves ==
    ASSUME TypeOK, QueueInv,
           \/ Run \/ Begin \/ CancelDocument \/ NextDocument \/ Ignore \/ Update \/ Created
           \/ CompilationFails
    PROVE  Moves /\ UNCHANGED index
<1>1. CASE Run
  <2>1. work.at = "accepted" /\ work'.at = "begin" /\ work'.job = work.job /\ SetStatus("running")
    BY <1>1 DEF Run
  <2>2. JobsKept /\ \A i \in DOMAIN jobs : jobs'[i].status = IF i = work.job THEN "running" ELSE jobs[i].status
    BY <2>1, JobTyped, StatusSet DEF SetStatus, Statuses, Active
  <2>3. UNCHANGED <<index, mutex, api, queue, epoch, era, anew>>
    BY <1>1 DEF Run, history
  <2>4. QED
    BY <2>1, <2>2, <2>3 DEF Moves, Unretired
<1>2. CASE Begin
  <2>1. work.at = "begin" /\ work'.at = "document" /\ work'.job = work.job
    BY <1>2 DEF Begin
  <2>2. QED
    BY <1>2, <2>1, GoingMoves DEF Begin, Unretired, history
<1>3. CASE CancelDocument
  BY <1>3, EndingMoves DEF CancelDocument, Statuses, history
<1>4. CASE NextDocument
  <2>1. work.at = "document" /\ work \in Works
    BY <1>4 DEF NextDocument, TypeOK, Begun
  <2>2. work'.at = "decide" /\ work'.job = work.job
    BY <1>4, <2>1 DEF NextDocument, Works
  <2>3. QED
    BY <1>4, <2>1, <2>2, GoingMoves DEF NextDocument, Unretired, history
<1>5. CASE Ignore
  <2>1. work.at = "decide" /\ work \in Works
    BY <1>5 DEF Ignore, TypeOK, Begun
  <2>2. work'.at = "document" /\ work'.job = work.job
    BY <1>5, <2>1 DEF Ignore, Works
  <2>3. QED
    BY <1>5, <2>1, <2>2, GoingMoves DEF Ignore, Unretired, history
<1>6. CASE Update
  <2>1. work.at = "decide" /\ work \in Works
    BY <1>6 DEF Update, TypeOK, Begun
  <2>2. work'.at = "create" /\ work'.job = work.job
    BY <1>6, <2>1 DEF Update, Works
  <2>3. QED
    BY <1>6, <2>1, <2>2, GoingMoves DEF Update, Unretired
<1>7. CASE Created
  <2>1. work.at = "create" /\ work \in Works
        /\ UNCHANGED <<index, mutex, api, queue, epoch, era, anew>>
    BY <1>7 DEF Created, TypeOK, Begun, history
  <2>2. CASE call["worker"].at = "done"
    <3>1. work'.at = "document" /\ work'.job = work.job /\ UNCHANGED jobs
      BY <1>7, <2>1, <2>2 DEF Created, Works
    <3>2. QED
      BY <2>1, <3>1, GoingMoves DEF Unretired
  <2>3. CASE call["worker"].at # "done"
    BY <1>7, <2>1, <2>3, FailingMoves DEF Created
  <2>4. QED
    BY <2>2, <2>3
<1>8. CASE CompilationFails
  BY <1>8, FailingMoves DEF CompilationFails, history
<1>9. QED
  BY <1>1, <1>2, <1>3, <1>4, <1>5, <1>6, <1>7, <1>8

LEMMA ConcludingMoves ==
    ASSUME TypeOK, QueueInv, Conclude \/ RetirementFails
    PROVE  Moves /\ (RetireDocuments \/ UNCHANGED index)
<1>1. CASE EndUnpublished
  BY <1>1, EndingMoves DEF EndUnpublished, BatchDone, Statuses, history
<1>2. CASE PublishJob
  <2>1. work.at = "document" /\ work'.at = "publish" /\ work'.job = work.job
    BY <1>2, WorkGoes DEF PublishJob, BatchDone, WorksOn, Begun
  <2>2. QED
    BY <1>2, <2>1, GoingMoves DEF PublishJob, Unretired, history
<1>3. CASE Published
  <2>1. work.at = "publish" /\ UNCHANGED <<index, mutex, api, queue, epoch, era, anew>>
    BY <1>3 DEF Published
  <2>2. CASE call["worker"].at = "done"
    <3>1. work'.at = "retire" /\ work'.job = work.job /\ UNCHANGED jobs
      BY <1>3, <2>1, <2>2, WorkGoes DEF Published, WorksOn, Begun
    <3>2. QED
      BY <2>1, <3>1, GoingMoves DEF Unretired
  <2>3. CASE call["worker"].at # "done"
    BY <1>3, <2>1, <2>3, FailingMoves DEF Published
  <2>4. QED
    BY <2>2, <2>3
<1>4. CASE NothingToRetire
  <2>1. work.at = "retire" /\ work'.at = "finish" /\ work'.job = work.job
    BY <1>4, WorkGoes DEF NothingToRetire, WorksOn, Begun
  <2>2. QED
    BY <1>4, <2>1, GoingMoves DEF NothingToRetire, Unretired, history
<1>5. CASE CallRetirement
  <2>1. work.at = "retire" /\ work'.at = "retiring" /\ work'.job = work.job
    BY <1>5, WorkGoes DEF CallRetirement, WorksOn, Begun
  <2>2. QED
    BY <1>5, <2>1, GoingMoves DEF CallRetirement, Unretired, history
<1>6. CASE RetireDocuments
  <2>1. work.at = "retiring" /\ work'.at = "finish" /\ work'.job = work.job
    BY <1>6, WorkGoes DEF RetireDocuments, WorksOn, Begun
  <2>2. QED
    BY <1>6, <2>1, GoingMoves DEF RetireDocuments, Unretired, history
<1>7. CASE RetirementFails
  <2>1. work.at = "retiring" /\ work'.at = "undo" /\ work'.job = work.job
    BY <1>7, WorkGoes DEF RetirementFails, WorksOn, Begun
  <2>2. QED
    BY <1>7, <2>1, GoingMoves DEF RetirementFails, Unretired, history
<1>8. CASE Finish
  <2>1. work' = Idle /\ work.at # "idle" /\ (UNCHANGED jobs \/ SetStatus("published"))
        /\ UNCHANGED <<index, mutex, api, queue, epoch, era, anew>>
    BY <1>8 DEF Finish, history
  <2>2. CASE SetStatus("published")
    <3>1. JobsKept /\ \A i \in DOMAIN jobs : jobs'[i].status = IF i = work.job THEN "published" ELSE jobs[i].status
      BY <2>1, <2>2, JobTyped, StatusSet DEF SetStatus, Statuses
    <3>2. QED
      BY <2>1, <3>1, IdleTyped DEF Moves
  <2>3. CASE UNCHANGED jobs
    BY <2>1, <2>3, IdleTyped DEF Moves, JobsKept
  <2>4. QED
    BY <2>1, <2>2, <2>3
<1>9. CASE LeaveUndone
  BY <1>9, FailingMoves DEF LeaveUndone, history
<1>10. CASE Undo
  <2>1. work.at = "undo" /\ work'.at = "undoing" /\ work'.job = work.job
    BY <1>10, WorkGoes DEF Undo, WorksOn, Begun
  <2>2. QED
    BY <1>10, <2>1, GoingMoves DEF Undo, Unretired, history
<1>11. CASE Undone
  BY <1>11, FailingMoves DEF Undone
<1>12. QED
  BY <1>1, <1>2, <1>3, <1>4, <1>5, <1>6, <1>7, <1>8, <1>9, <1>10, <1>11 DEF Conclude

-----------------------------------------------------------------------------
(* The index: steps that change it, and those that do not *)

\* No upload, clear or retirement.
Elsewhere == UNCHANGED <<index, mutex, api>> /\ JobsKept

LEMMA TakeElsewhere ==
    ASSUME TypeOK, QueueInv, Take
    PROVE  /\ Elsewhere /\ UNCHANGED <<epoch, era, anew>>
           /\ queue # <<>> /\ queue' = Tail(queue) /\ work.at = "idle"
           /\ \/ UNCHANGED work
              \/ work'.at = "accepted" /\ work'.job = Head(queue)
           /\ \A j \in DOMAIN jobs : jobs'[j].status \in {jobs[j].status, "cancelled"}
<1>1. queue # <<>> /\ queue' = Tail(queue) /\ work.at = "idle"
      /\ UNCHANGED <<index, mutex, api, epoch, era, anew>>
  BY DEF Take, history
<1>2. Head(queue) \in DOMAIN jobs
  BY <1>1 DEF QueueInv, TypeOK
<1>3. CASE Stale(Head(queue))
  <2>1. JobsKept /\ \A i \in DOMAIN jobs : jobs'[i].status = IF i = Head(queue) THEN "cancelled" ELSE jobs[i].status
    BY <1>2, <1>3, StatusSet DEF Take, Statuses
  <2>2. QED
    BY <1>1, <1>3, <2>1 DEF Elsewhere, Take
<1>4. CASE ~Stale(Head(queue))
  BY <1>1, <1>4 DEF Elsewhere, Take, JobsKept
<1>5. QED
  BY <1>3, <1>4

LEMMA OthersElsewhere ==
    ASSUME (\E p \in Caller : Step(p)) \/ (\E r \in Reader : Read(r)) \/ UNCHANGED vars
    PROVE  Elsewhere /\ UNCHANGED <<queue, epoch, era, anew, work, jobs, chunks, uploaded, born, retired, stuck>>
BY DEF Elsewhere, Step, Read, ReadPointer, AskCache, FillCache, vars, index, history, JobsKept

\* The numbers that are compared.
LEMMA Numbers ==
    ASSUME TypeOK
    PROVE  /\ \A j \in DOMAIN jobs : j \in Nat /\ jobs[j].version \in Nat /\ jobs[j].epoch \in Nat /\ jobs[j].batch \in Batches
           /\ \A d \in Doc : chunks[d] # None => chunks[d] \in Nat
           /\ \A d \in Doc : uploaded[d] # None => uploaded[d] \in Nat
           /\ version \in Nat /\ epoch \in Nat /\ era \in Nat /\ None \notin Nat
           /\ \A k \in DOMAIN queue : k \in Nat /\ queue[k] \in Nat
<1>1. jobs \in Seq(Jobs) /\ queue \in Seq(Nat)
  BY DEF TypeOK
<1>2. \A j \in DOMAIN jobs : j \in Nat /\ jobs[j] \in Jobs
  BY <1>1
<1>3. \A j \in DOMAIN jobs : jobs[j].version \in Nat /\ jobs[j].epoch \in Nat /\ jobs[j].batch \in Batches
  BY <1>2 DEF Jobs
<1>4. \A k \in DOMAIN queue : k \in Nat /\ queue[k] \in Nat
  BY <1>1
<1>5. /\ \A d \in Doc : chunks[d] # None => chunks[d] \in Nat
      /\ \A d \in Doc : uploaded[d] # None => uploaded[d] \in Nat
      /\ version \in Nat /\ epoch \in Nat /\ era \in Nat
  BY DEF TypeOK
<1>6. QED
  BY <1>2, <1>3, <1>4, <1>5, NowhereAssumption

LEMMA ElsewhereKeepsIndex == IndexInv /\ Elsewhere => IndexInv'
<1> SUFFICES ASSUME IndexInv, Elsewhere PROVE IndexInv'
  OBVIOUS
<1>1. UNCHANGED <<chunks, uploaded, version, mutex, api>> /\ JobsKept
  BY DEF Elsewhere, index
<1>2. MutexInv' /\ ChunkInv'
  BY <1>1 DEF IndexInv, MutexInv, ChunkInv
<1>3. VersionInv'
  BY <1>1 DEF IndexInv, VersionInv, Predates, JobsKept
<1>4. QED
  BY <1>2, <1>3 DEF IndexInv

\* An upload gets a version of its own.
LEMMA CommitKeepsIndex ==
    ASSUME TypeOK, IndexInv, CommitUpload
    PROVE  IndexInv'
<1>1. /\ api.at = "embed" /\ version' = version + 1
      /\ chunks' = [d \in Doc |-> IF d \in Elements(api.batch) THEN version' ELSE chunks[d]]
      /\ uploaded' = [d \in Doc |-> IF d \in Elements(api.batch) THEN version' ELSE uploaded[d]]
      /\ api'.at = "submit" /\ api'.version = version'
      /\ UNCHANGED <<mutex, jobs>>
  BY UploadKeeps DEF CommitUpload, IndexInv
<1>2. MutexInv'
  BY <1>1 DEF IndexInv, MutexInv
<1>3. version' \in Nat /\ version < version' /\ version' # None
  BY <1>1, Numbers
<1>4. ChunkInv'
  BY <1>1, <1>3, Numbers DEF IndexInv, ChunkInv
<1>5. \A d \in Doc : chunks'[d] # None /\ uploaded'[d] = None =>
        chunks'[d] = chunks[d] /\ uploaded[d] = None /\ chunks[d] <= version /\ chunks[d] \in Nat
  BY <1>1, <1>3, Numbers DEF IndexInv, ChunkInv
<1>6. \A d \in Doc : chunks'[d] # None /\ uploaded'[d] = None => chunks'[d] < version'
  BY <1>3, <1>5, Numbers
<1>7. ASSUME NEW j \in DOMAIN jobs PROVE \A d \in Doc : Predates(d, jobs[j].version)'
  BY <1>1, <1>5, <1>7 DEF Predates, IndexInv, VersionInv
<1>8. \A j \in DOMAIN jobs : jobs[j].version <= version /\ jobs[j].version \in Nat
  BY Numbers DEF IndexInv, VersionInv
<1>9. VersionInv'
  <2>1. \A j \in DOMAIN jobs : jobs[j].version <= version' /\ jobs[j].version < version'
    BY <1>1, <1>8, Numbers
  <2>2. \A i, j \in DOMAIN jobs : i < j => jobs[i].version < jobs[j].version
    BY DEF IndexInv, VersionInv
  <2>3. version' <= version'
    BY <1>3
  <2>4. \A d \in Doc : chunks'[d] # None /\ uploaded'[d] = None => chunks'[d] < api'.version
    BY <1>1, <1>6
  <2>5. QED
    BY <1>1, <1>7, <2>1, <2>2, <2>3, <2>4 DEF VersionInv, Predates
<1>10. QED
  BY <1>2, <1>4, <1>9 DEF IndexInv

\* What Submit adds, to the jobs and to the queue.
LEMMA SubmitAppends ==
    ASSUME TypeOK, Submit
    PROVE  /\ Len(jobs) \in Nat /\ DOMAIN jobs = 1..Len(jobs)
           /\ DOMAIN jobs' = DOMAIN jobs \cup {Len(jobs) + 1}
           /\ \A j \in DOMAIN jobs : jobs'[j] = jobs[j] /\ j < Len(jobs) + 1
           /\ jobs'[Len(jobs) + 1].batch = api.batch /\ jobs'[Len(jobs) + 1].version = api.version
           /\ jobs'[Len(jobs) + 1].epoch = epoch /\ jobs'[Len(jobs) + 1].status = "queued"
           /\ Len(queue) \in Nat /\ DOMAIN queue = 1..Len(queue)
           /\ DOMAIN queue' = DOMAIN queue \cup {Len(queue) + 1}
           /\ \A k \in DOMAIN queue : queue'[k] = queue[k] /\ k < Len(queue) + 1
           /\ queue'[Len(queue) + 1] = Len(jobs) + 1
<1>1. PICK job : job = [batch |-> api.batch, epoch |-> epoch, version |-> api.version, status |-> "queued"]
  OBVIOUS
<1>2. jobs \in Seq(Jobs) /\ queue \in Seq(Nat)
  BY DEF TypeOK
<1>3. job \in Jobs /\ jobs' = Append(jobs, job)
  BY <1>1 DEF Submit, TypeOK, Jobs, Active
<1>4. Len(jobs') = Len(jobs) + 1 /\ Len(jobs) \in Nat
  BY <1>2, <1>3
<1>5. queue' = Append(queue, Len(jobs) + 1)
  BY <1>4 DEF Submit
<1>6. QED
  BY <1>1, <1>2, <1>3, <1>4, <1>5

LEMMA SubmitKeepsIndex ==
    ASSUME TypeOK, IndexInv, Submit
    PROVE  IndexInv'
<1>1. api.at = "submit" /\ api'.at = "idle" /\ mutex' = None /\ UNCHANGED <<chunks, uploaded, version>>
  BY DEF Submit, Idle, index
<1>2. MutexInv' /\ ChunkInv'
  BY <1>1 DEF IndexInv, MutexInv, ChunkInv
<1>3. /\ \A j \in DOMAIN jobs : jobs[j].version <= version /\ \A d \in Doc : Predates(d, jobs[j].version)
      /\ \A i, j \in DOMAIN jobs : i < j => jobs[i].version < jobs[j].version
      /\ api.version <= version
      /\ \A d \in Doc : Predates(d, api.version)
      /\ \A j \in DOMAIN jobs : jobs[j].version < api.version
  BY <1>1 DEF IndexInv, VersionInv
<1>5. api.version \in Nat /\ \A j \in DOMAIN jobs : jobs[j].version \in Nat
  BY <1>1, Numbers DEF TypeOK
<1>6. \A j \in DOMAIN jobs' : jobs'[j].version <= version /\ \A d \in Doc : Predates(d, jobs'[j].version)
  BY <1>1, <1>3, <1>5, SubmitAppends
<1>7. \A i, j \in DOMAIN jobs' : i < j => jobs'[i].version < jobs'[j].version
  BY <1>3, SubmitAppends
<1>8. VersionInv'
  BY <1>1, <1>6, <1>7 DEF VersionInv, Predates
<1>9. QED
  BY <1>2, <1>8 DEF IndexInv

\* A retirement waits until no upload is on its way.
LEMMA RetireKeepsIndex ==
    ASSUME TypeOK, QueueInv, IndexInv, RetireDocuments
    PROVE  IndexInv'
<1>1. mutex = None /\ UNCHANGED <<mutex, api>> /\ JobsKept /\ api.at = "idle"
  BY ConcludingMoves DEF RetireDocuments, Conclude, Moves, IndexInv, MutexInv
<1>2. /\ \A d \in Doc : \/ chunks'[d] = None /\ uploaded'[d] = None
                        \/ chunks'[d] = chunks[d] /\ uploaded'[d] = uploaded[d]
      /\ version' \in {version, version + 1}
  BY DEF RetireDocuments, index, TypeOK
<1>3. \A d \in Doc : chunks'[d] # None => chunks'[d] = chunks[d] /\ uploaded'[d] = uploaded[d]
  BY <1>2
<1>4. MutexInv' /\ ChunkInv'
  BY <1>1, <1>2, Numbers DEF IndexInv, MutexInv, ChunkInv
<1>5. VersionInv'
  <2>1. \A j \in DOMAIN jobs : jobs[j].version <= version /\ \A d \in Doc : Predates(d, jobs[j].version)
    BY DEF IndexInv, VersionInv
  <2>2. \A j \in DOMAIN jobs : \A d \in Doc : Predates(d, jobs[j].version)'
    BY <1>1, <1>3, <2>1 DEF Predates, JobsKept
  <2>3. \A j \in DOMAIN jobs : jobs[j].version <= version'
    BY <1>2, <2>1, Numbers
  <2>4. QED
    BY <1>1, <2>2, <2>3 DEF IndexInv, VersionInv, JobsKept, Predates
<1>6. QED
  BY <1>4, <1>5 DEF IndexInv

LEMMA ApiKeepsIndex ==
    ASSUME TypeOK, IndexInv,
           \/ \E batch \in Batches : Upload(batch)
           \/ UploadFails \/ ClearIndex \/ WithdrawWiki \/ Withdrawn \/ Crash
    PROVE  IndexInv'
<1>1. ASSUME NEW batch \in Batches, Upload(batch) PROVE IndexInv'
  <2>1. /\ mutex' = "api" /\ api'.at = "embed" /\ api'.batch = batch
        /\ api'.kept = [d \in Doc |-> IF d \in Elements(batch) THEN None ELSE chunks[d]]
        /\ UNCHANGED <<chunks, uploaded, version, jobs>>
    BY <1>1 DEF Upload, index
  <2>2. QED
    BY <2>1, NowhereAssumption DEF IndexInv, MutexInv, ChunkInv, VersionInv, Predates
<1>2. CASE UploadFails
  BY <1>2 DEF UploadFails, index, Idle, IndexInv, MutexInv, ChunkInv, VersionInv, Predates
<1>3. CASE ClearIndex
  <2>1. /\ mutex' = "api" /\ api'.at = "withdraw" /\ version' = version + 1 /\ UNCHANGED jobs
        /\ \A d \in Doc : chunks'[d] = None /\ uploaded'[d] = None
    BY <1>3 DEF ClearIndex
  <2>2. MutexInv' /\ ChunkInv'
    BY <2>1, NowhereAssumption DEF MutexInv, ChunkInv
  <2>3. \A j \in DOMAIN jobs : jobs[j].version <= version'
    BY <2>1, Numbers DEF IndexInv, VersionInv
  <2>4. VersionInv'
    BY <2>1, <2>3 DEF IndexInv, VersionInv, Predates
  <2>5. QED
    BY <2>2, <2>4 DEF IndexInv
<1>4. CASE WithdrawWiki
  <2>1. JobsKept /\ UNCHANGED <<chunks, uploaded, version>> /\ api.at = "withdraw"
        /\ ((api'.at = "retract" /\ UNCHANGED mutex) \/ (api'.at = "idle" /\ mutex' = None))
    BY <1>4, StatusesSet DEF WithdrawWiki, index, Idle
  <2>2. QED
    BY <2>1 DEF IndexInv, MutexInv, ChunkInv, VersionInv, Predates, JobsKept
<1>5. CASE Withdrawn
  BY <1>5 DEF Withdrawn, index, Idle, IndexInv, MutexInv, ChunkInv, VersionInv, Predates
<1>6. CASE Crash
  BY <1>6 DEF Crash, Idle, IndexInv, MutexInv, ChunkInv, VersionInv, Predates
<1>7. QED
  BY <1>1, <1>2, <1>3, <1>4, <1>5, <1>6

LEMMA IndexStep ==
    ASSUME TypeOK, QueueInv, IndexInv, [Next]_vars
    PROVE  IndexInv'
<1>1. CASE (\E batch \in Batches : Upload(batch)) \/ ClearIndex \/ Api \/ UploadFails \/ Crash
  BY <1>1, ApiKeepsIndex, CommitKeepsIndex, SubmitKeepsIndex DEF Api
<1>2. CASE Compile \/ CompilationFails
  BY <1>2, CompilingMoves, TakeElsewhere, ElsewhereKeepsIndex DEF Compile, Moves, Elsewhere
<1>3. CASE Conclude \/ RetirementFails
  BY <1>3, ConcludingMoves, RetireKeepsIndex, ElsewhereKeepsIndex DEF Moves, Elsewhere
<1>4. CASE (\E p \in Caller : Step(p)) \/ (\E r \in Reader : Read(r)) \/ UNCHANGED vars
  BY <1>4, OthersElsewhere, ElsewhereKeepsIndex
<1>5. QED
  BY <1>1, <1>2, <1>3, <1>4 DEF Next

-----------------------------------------------------------------------------
(* The jobs: the queue, the epochs, what is held for them and how they end *)

\* Requests that leave the jobs and the worker alone.
Requests ==
    (\E batch \in Batches : Upload(batch)) \/ UploadFails \/ CommitUpload \/ ClearIndex \/ Withdrawn

LEMMA RequestsLeave ==
    ASSUME IndexInv, Requests
    PROVE  /\ UNCHANGED <<jobs, queue, epoch, work, anew>> /\ api.at # "withdraw"
           /\ api'.at = "submit" => CommitUpload
           /\ IF ClearIndex THEN api'.at = "withdraw" /\ era' = era + 1
              ELSE api'.at # "withdraw" /\ UNCHANGED era
           /\ CommitUpload \/ ClearIndex \/ UNCHANGED index
<1>1. ASSUME NEW batch \in Batches, Upload(batch)
      PROVE  UNCHANGED <<jobs, queue, epoch, work, index, era, anew>> /\ api.at = "idle" /\ api'.at = "embed"
  BY <1>1 DEF Upload, history, IndexInv, MutexInv
<1>2. UploadFails => UNCHANGED <<jobs, queue, epoch, work, index, era, anew>> /\ api.at = "embed" /\ api'.at = "idle"
  BY DEF UploadFails, history, Idle
<1>3. CommitUpload => UNCHANGED <<jobs, queue, epoch, work, era, anew>> /\ api.at = "embed" /\ api'.at = "submit"
  BY DEF CommitUpload, history
<1>4. ClearIndex => UNCHANGED <<jobs, queue, epoch, work, anew>> /\ era' = era + 1 /\ api.at = "idle" /\ api'.at = "withdraw"
  BY DEF ClearIndex, IndexInv, MutexInv
<1>5. Withdrawn => UNCHANGED <<jobs, queue, epoch, work, index, era, anew>> /\ api.at = "retract" /\ api'.at = "idle"
  BY DEF Withdrawn, history, Idle
<1>6. QED
  BY <1>1, <1>2, <1>3, <1>4, <1>5 DEF Requests

LEMMA WithdrawLeaves ==
    ASSUME TypeOK, WithdrawWiki
    PROVE  /\ JobsKept /\ \A j \in DOMAIN jobs : jobs'[j].status \in {jobs[j].status, "cancelled"}
           /\ UNCHANGED <<index, queue, work, era, anew>> /\ epoch' = epoch + 1
           /\ api.at = "withdraw" /\ api'.at \in {"idle", "retract"}
BY StatusesSet DEF WithdrawWiki, Idle, history

\* What is left of a queue when its first job is taken.
LEMMA TailOf ==
    ASSUME TypeOK, queue # <<>>, queue' = Tail(queue)
    PROVE  /\ 1 \in DOMAIN queue /\ Head(queue) = queue[1]
           /\ \A k \in DOMAIN queue' : k \in Nat /\ 1 < k + 1 /\ k + 1 \in DOMAIN queue /\ queue'[k] = queue[k + 1]
<1>1. queue \in Seq(Nat)
  BY DEF TypeOK
<1>2. QED
  BY <1>1

LEMMA QueueStep ==
    ASSUME TypeOK, IndexInv, QueueInv, [Next]_vars
    PROVE  QueueInv'
<1>1. CASE Requests
  BY <1>1, RequestsLeave DEF QueueInv
<1>2. CASE Submit
  <2>1. UNCHANGED work
    BY <1>2 DEF Submit
  <2>2. \A k \in DOMAIN queue' : queue'[k] \in DOMAIN jobs'
    BY <1>2, SubmitAppends DEF QueueInv
  <2>3. \A k, l \in DOMAIN queue' : k < l => queue'[k] < queue'[l]
    <3>1. \A k \in DOMAIN queue : k \in Nat /\ queue[k] < Len(jobs) + 1
      BY <1>2, SubmitAppends, Numbers DEF QueueInv
    <3>2. QED
      BY <1>2, <3>1, SubmitAppends, Numbers DEF QueueInv
  <2>4. work.at # "idle" => work.job \in DOMAIN jobs' /\ \A k \in DOMAIN queue' : work.job < queue'[k]
    BY <1>2, SubmitAppends DEF QueueInv
  <2>5. QED
    BY <2>1, <2>2, <2>3, <2>4 DEF QueueInv
<1>3. CASE WithdrawWiki
  BY <1>3, WithdrawLeaves DEF QueueInv, JobsKept
<1>4. CASE Take
  <2>1. DOMAIN jobs' = DOMAIN jobs /\ queue # <<>> /\ queue' = Tail(queue) /\ work.at = "idle"
        /\ (UNCHANGED work \/ (work'.at = "accepted" /\ work'.job = Head(queue)))
    BY <1>4, TakeElsewhere DEF Elsewhere, JobsKept
  <2>2. \A k \in DOMAIN queue' : queue'[k] \in DOMAIN jobs /\ Head(queue) < queue'[k]
    BY <2>1, TailOf DEF QueueInv
  <2>3. \A k, l \in DOMAIN queue' : k < l => queue'[k] < queue'[l]
    <3>1. \A k, l \in DOMAIN queue' : k < l => k + 1 < l + 1
      BY <2>1, TailOf
    <3>2. QED
      BY <2>1, <3>1, TailOf DEF QueueInv
  <2>4. Head(queue) \in DOMAIN jobs
    BY <2>1, TailOf DEF QueueInv
  <2>5. QED
    BY <2>1, <2>2, <2>3, <2>4 DEF QueueInv
<1>5. CASE Moves
  BY <1>5 DEF Moves, QueueInv, JobsKept
<1>6. CASE Crash
  BY <1>6 DEF Crash, Idle, QueueInv
<1>7. CASE (\E p \in Caller : Step(p)) \/ (\E r \in Reader : Read(r)) \/ UNCHANGED vars
  BY <1>7, OthersElsewhere DEF Elsewhere, JobsKept, QueueInv
<1>8. QED
  BY <1>1, <1>2, <1>3, <1>4, <1>5, <1>6, <1>7, CompilingMoves, ConcludingMoves DEF Next, Requests, Api, Compile

LEMMA EpochStep ==
    ASSUME TypeOK, IndexInv, QueueInv, EpochInv, [Next]_vars
    PROVE  EpochInv'
<1>1. CASE Requests
  BY <1>1, RequestsLeave, Numbers DEF EpochInv
<1>2. CASE Submit
  <2>1. UNCHANGED <<epoch, era, anew>> /\ api.at = "submit" /\ api'.at = "idle"
    BY <1>2 DEF Submit, Idle, history
  <2>2. \A j \in DOMAIN jobs' : jobs'[j].epoch <= epoch
    BY <1>2, SubmitAppends, Numbers DEF EpochInv
  <2>3. QED
    BY <2>1, <2>2 DEF EpochInv
<1>3. CASE WithdrawWiki
  BY <1>3, WithdrawLeaves, Numbers DEF EpochInv, JobsKept
<1>4. CASE Take
  BY <1>4, TakeElsewhere DEF Elsewhere, JobsKept, EpochInv
<1>5. CASE Moves
  BY <1>5 DEF Moves, EpochInv, JobsKept
<1>6. CASE Crash
  BY <1>6 DEF Crash, EpochInv
<1>7. CASE (\E p \in Caller : Step(p)) \/ (\E r \in Reader : Read(r)) \/ UNCHANGED vars
  BY <1>7, OthersElsewhere DEF Elsewhere, JobsKept, EpochInv
<1>8. QED
  BY <1>1, <1>2, <1>3, <1>4, <1>5, <1>6, <1>7, CompilingMoves, ConcludingMoves DEF Next, Requests, Api, Compile

LEMMA StatusStep ==
    ASSUME TypeOK, IndexInv, QueueInv, StatusInv, [Next]_vars
    PROVE  StatusInv'
<1>1. CASE Requests
  BY <1>1, RequestsLeave DEF StatusInv, Job
<1>2. CASE Submit
  <2>1. UNCHANGED work /\ "queued" # "failed"
    BY <1>2 DEF Submit
  <2>2. QED
    BY <1>2, <2>1, SubmitAppends DEF StatusInv, Job, QueueInv
<1>3. CASE WithdrawWiki
  BY <1>3, WithdrawLeaves DEF StatusInv, Job, QueueInv
<1>4. CASE Take
  <2>1. /\ queue # <<>> /\ queue' = Tail(queue) /\ work.at = "idle"
        /\ (UNCHANGED work \/ (work'.at = "accepted" /\ work'.job = Head(queue)))
        /\ \A j \in DOMAIN jobs : jobs'[j].status \in {jobs[j].status, "cancelled"}
    BY <1>4, TakeElsewhere
  <2>2. \A k \in DOMAIN queue : queue[k] \in DOMAIN jobs /\ jobs'[queue[k]].status # "failed"
    BY <2>1 DEF StatusInv, QueueInv
  <2>3. QED
    BY <2>1, <2>2, TailOf DEF StatusInv, Job
<1>5. CASE Moves
  <2>1. /\ UNCHANGED queue /\ work.at # "idle" /\ (work'.at # "idle" => work'.job = work.job)
        /\ \A j \in DOMAIN jobs : jobs'[j].status = "failed" =>
             jobs[j].status = "failed" \/ (j = work.job /\ work'.at = "idle")
    BY <1>5 DEF Moves
  <2>2. \A k \in DOMAIN queue : queue[k] \in DOMAIN jobs /\ queue[k] # work.job
    BY <2>1, Numbers DEF QueueInv
  <2>3. QED
    BY <2>1, <2>2 DEF StatusInv, QueueInv, Job
<1>6. CASE Crash
  BY <1>6 DEF Crash, Idle, StatusInv
<1>7. CASE (\E p \in Caller : Step(p)) \/ (\E r \in Reader : Read(r)) \/ UNCHANGED vars
  BY <1>7, OthersElsewhere DEF StatusInv, Job
<1>8. QED
  BY <1>1, <1>2, <1>3, <1>4, <1>5, <1>6, <1>7, CompilingMoves, ConcludingMoves DEF Next, Requests, Api, Compile

\* A later upload of a document counts as well.
LEMMA CommitHolds ==
    ASSUME TypeOK, IndexInv, CommitUpload
    PROVE  /\ \A d \in Elements(api.batch) : uploaded'[d] # None /\ uploaded'[d] >= version'
           /\ \A j \in DOMAIN jobs : Uploaded(jobs[j].batch, jobs[j].version) => Uploaded(jobs[j].batch, jobs[j].version)'
<1>1. /\ uploaded' = [d \in Doc |-> IF d \in Elements(api.batch) THEN version' ELSE uploaded[d]]
      /\ version' = version + 1 /\ api'.batch = api.batch /\ api'.version = version' /\ api.batch \in Batches
      /\ UNCHANGED jobs
  BY DEF CommitUpload, TypeOK
<1>2. Elements(api.batch) \subseteq Doc
  BY <1>1, BatchTyped
<1>3. version' \in Nat /\ version' # None /\ version' >= version'
  BY <1>1, Numbers
<1>4. \A j \in DOMAIN jobs : version' >= jobs[j].version
  BY <1>1, Numbers DEF IndexInv, VersionInv
<1>5. \A j \in DOMAIN jobs : Elements(jobs[j].batch) \subseteq Doc
  BY BatchTyped, Numbers
<1>6. \A d \in Elements(api.batch) : uploaded'[d] # None /\ uploaded'[d] >= version'
  BY <1>1, <1>2, <1>3
<1>7. ASSUME NEW j \in DOMAIN jobs, Uploaded(jobs[j].batch, jobs[j].version)
      PROVE  \A d \in Elements(jobs[j].batch) : uploaded'[d] # None /\ uploaded'[d] >= jobs[j].version
  BY <1>1, <1>3, <1>4, <1>5, <1>7 DEF Uploaded
<1>8. QED
  BY <1>1, <1>6, <1>7 DEF Uploaded

\* A job's retirement spares what a later job has uploaded.
LEMMA RetireHolds ==
    ASSUME TypeOK, IndexInv, QueueInv, RetireDocuments, NEW j \in DOMAIN jobs, work.job < j,
           Uploaded(jobs[j].batch, jobs[j].version)
    PROVE  \A d \in Elements(jobs[j].batch) : uploaded'[d] = uploaded[d]
<1>1. work.at # "idle"
  BY DEF RetireDocuments
<1>2. Job.version < jobs[j].version /\ Job.version \in Nat /\ jobs[j].version \in Nat
  BY <1>1, JobTyped, Numbers DEF IndexInv, VersionInv, Job
<1>3. \A d \in Elements(jobs[j].batch) : d \in Doc /\ uploaded[d] # None /\ uploaded[d] \in Nat /\ uploaded[d] >= jobs[j].version
  BY BatchTyped, Numbers DEF Uploaded
<1>4. \A d \in Elements(jobs[j].batch) : d \notin Retirable
  BY <1>2, <1>3 DEF Retirable
<1>5. QED
  BY <1>3, <1>4 DEF RetireDocuments, index

LEMMA HeldStep ==
    ASSUME TypeOK, IndexInv, QueueInv, EpochInv, HeldInv, [Next]_vars
    PROVE  HeldInv'
<1> DEFINE Kept(j) == Fresh(j) => Uploaded(jobs[j].batch, jobs[j].version)
<1>0. /\ \A k \in DOMAIN queue : queue[k] \in DOMAIN jobs /\ Kept(queue[k])
      /\ work.at \in Unretired => work.job \in DOMAIN jobs /\ Kept(work.job)
  BY DEF HeldInv, Job, QueueInv, Unretired
<1>1. CASE CommitUpload
  <2>1. /\ UNCHANGED <<jobs, queue, epoch, work>> /\ api.at # "withdraw" /\ api'.at # "withdraw"
    BY <1>1 DEF CommitUpload
  <2>2. \A j \in DOMAIN jobs : Kept(j) => Kept(j)'
    BY <1>1, <2>1, CommitHolds DEF Fresh, Uploaded
  <2>3. api'.batch = api.batch /\ api'.version = version'
    BY <1>1 DEF CommitUpload
  <2>4. QED
    BY <1>0, <1>1, <2>1, <2>2, <2>3, CommitHolds DEF HeldInv, Job, Fresh, Uploaded
<1>2. CASE ClearIndex \/ WithdrawWiki
  <2>1. \A j \in DOMAIN jobs' : ~Fresh(j)' /\ api'.at # "submit"
    <3>1. CASE ClearIndex
      BY <3>1 DEF ClearIndex, Fresh
    <3>2. CASE WithdrawWiki
      BY <3>2, WithdrawLeaves, Numbers DEF Fresh, EpochInv, JobsKept
    <3>3. QED
      BY <1>2, <3>1, <3>2
  <2>2. api'.at # "submit" /\ UNCHANGED <<queue, work>> /\ DOMAIN jobs' = DOMAIN jobs
    BY <1>2, WithdrawLeaves DEF ClearIndex, JobsKept
  <2>3. QED
    BY <1>0, <2>1, <2>2 DEF HeldInv
<1>3. CASE Requests /\ ~CommitUpload /\ ~ClearIndex
  BY <1>3, RequestsLeave DEF HeldInv, Fresh, Uploaded, Job, index
<1>4. CASE Submit
  <2>1. UNCHANGED <<work, epoch, uploaded>> /\ api.at = "submit" /\ api'.at = "idle"
    BY <1>4 DEF Submit, Idle, index
  <2>2. \A j \in DOMAIN jobs : Kept(j) => Kept(j)'
    BY <1>4, <2>1, SubmitAppends DEF Fresh, Uploaded
  <2>3. Uploaded(api.batch, api.version)
    BY <2>1 DEF HeldInv
  <2>4. PICK last : last = Len(jobs) + 1
    OBVIOUS
  <2>5. Kept(last)'
    BY <1>4, <2>1, <2>3, <2>4, SubmitAppends DEF Fresh, Uploaded
  <2>6. \A k \in DOMAIN queue' : \A j \in DOMAIN jobs' : queue'[k] = j => Kept(j)'
    BY <1>0, <1>4, <2>2, <2>4, <2>5, SubmitAppends
  <2>7. work.at \in Unretired => \A j \in DOMAIN jobs' : work.job = j => Kept(j)'
    BY <1>0, <1>4, <2>2, SubmitAppends
  <2>8. QED
    BY <1>0, <1>4, <2>1, <2>6, <2>7, SubmitAppends, QueueStep DEF HeldInv, Job, Fresh, Uploaded, QueueInv
<1>5. CASE Take
  <2>1. /\ UNCHANGED <<uploaded, api, epoch>> /\ JobsKept
        /\ queue # <<>> /\ queue' = Tail(queue) /\ work.at = "idle"
        /\ (UNCHANGED work \/ (work'.at = "accepted" /\ work'.job = Head(queue)))
    BY <1>5, TakeElsewhere DEF Elsewhere, index
  <2>2. \A j \in DOMAIN jobs : Kept(j) => Kept(j)'
    BY <2>1 DEF Fresh, Uploaded, JobsKept
  <2>3. \A k \in DOMAIN queue' : \A j \in DOMAIN jobs : queue'[k] = j => Kept(j)'
    BY <1>0, <2>1, <2>2, TailOf
  <2>4. work'.at = "accepted" => \A j \in DOMAIN jobs : work'.job = j => Kept(j)'
    BY <1>0, <2>1, <2>2, TailOf
  <2>5. QED
    BY <1>0, <2>1, <2>3, <2>4, TailOf DEF HeldInv, Job, Unretired, Fresh, Uploaded, JobsKept
<1>6. CASE Moves /\ UNCHANGED index
  <2>1. /\ UNCHANGED <<uploaded, api, epoch, queue>> /\ JobsKept
        /\ (work'.at \in Unretired => work'.job = work.job /\ work.at \in Unretired)
    BY <1>6 DEF Moves, index, Unretired
  <2>2. \A j \in DOMAIN jobs : Kept(j) => Kept(j)'
    BY <2>1 DEF Fresh, Uploaded, JobsKept
  <2>3. QED
    BY <1>0, <2>1, <2>2 DEF HeldInv, Job, Fresh, Uploaded
<1>7. CASE RetireDocuments
  <2>1. /\ UNCHANGED <<api, epoch, queue>> /\ JobsKept /\ work'.at = "finish" /\ api.at # "submit"
    BY <1>7, ConcludingMoves, WorkGoes DEF Conclude, Moves, RetireDocuments, IndexInv, MutexInv, WorksOn, Begun
  <2>2. \A k \in DOMAIN queue : work.job < queue[k]
    BY <1>7 DEF RetireDocuments, QueueInv
  <2>3. \A j \in DOMAIN jobs : work.job < j /\ Kept(j) => Kept(j)'
    BY <1>7, <2>1, RetireHolds DEF Fresh, Uploaded, JobsKept
  <2>4. QED
    BY <1>0, <2>1, <2>2, <2>3 DEF HeldInv, Unretired, Fresh, Uploaded
<1>8. CASE Crash
  BY <1>8 DEF Crash, Idle, HeldInv, Unretired
<1>9. CASE (\E p \in Caller : Step(p)) \/ (\E r \in Reader : Read(r)) \/ UNCHANGED vars
  BY <1>9, OthersElsewhere DEF Elsewhere, HeldInv, Fresh, Uploaded, Job
<1>10. QED
  BY <1>1, <1>2, <1>3, <1>4, <1>5, <1>6, <1>7, <1>8, <1>9, CompilingMoves, ConcludingMoves
  DEF Next, Requests, Api, Compile

LEMMA JobStep ==
    ASSUME TypeOK, IndexInv, JobInv, [Next]_vars
    PROVE  JobInv'
BY QueueStep, EpochStep, HeldStep, StatusStep DEF JobInv

-----------------------------------------------------------------------------
(* The worker's steps that are not about a call *)

Unmoved == UNCHANGED <<mutex, api, queue, epoch, runlock, cache, reader, era, born, retired, stuck, hold, anew,
                       builds, current, call>>

SameWork ==
    /\ work \in Works /\ work' \in Works
    /\ work'.job = work.job /\ work'.start = work.start /\ work'.base = work.base
    /\ work'.superseded = work.superseded

\* It goes on with its job.
GoesOn ==
    \/ NextDocument \/ Ignore \/ NothingToRetire \/ CallRetirement \/ RetireDocuments \/ RetirementFails

LEMMA GoesOnWith ==
    ASSUME TypeOK, GoesOn
    PROVE  /\ Unmoved /\ UNCHANGED jobs /\ SameWork
           /\ RetireDocuments \/ UNCHANGED index
           /\ \/ work.at = "document" /\ work'.at = "decide" /\ ~Stale(work.job)
              \/ work.at = "decide" /\ work'.at = "document"
              \/ work.at = "retire" /\ work'.at = "finish" /\ NothingToRetire
              \/ work.at = "retire" /\ work'.at = "retiring"
              \/ work.at = "retiring" /\ work'.at = "finish" /\ RetireDocuments
              \/ work.at = "retiring" /\ work'.at = "undo"
<1>1. Unmoved /\ UNCHANGED jobs /\ (RetireDocuments \/ UNCHANGED index)
  BY DEF GoesOn, NextDocument, Ignore, NothingToRetire, CallRetirement, RetireDocuments, RetirementFails,
    Unmoved, repositoryVars, files, SaveSnapshot, history
<1>2. CASE NextDocument
  <2>1. work.at = "document" /\ work \in Works /\ ~Stale(work.job)
    BY <1>2 DEF NextDocument, TypeOK, Begun
  <2>2. PICK c \in Content : work' = [work EXCEPT !.at = "decide", !.saved = Short[c]]
    BY <1>2 DEF NextDocument
  <2>3. Short[c] \in Version
    BY DEF Version
  <2>4. SameWork /\ work'.at = "decide"
    BY <2>1, <2>2, <2>3 DEF SameWork, Works, Begun
  <2>5. QED
    BY <1>1, <2>1, <2>4
<1>3. CASE Ignore
  <2>1. work.at = "decide" /\ work \in Works
    BY <1>3 DEF Ignore, TypeOK, Begun
  <2>2. SameWork /\ work'.at = "document"
    BY <1>3, <2>1, NextTyped DEF Ignore, SameWork, Works, Begun
  <2>3. QED
    BY <1>1, <2>1, <2>2
<1>4. ASSUME work.at \in {"retire", "retiring"}, NEW a \in {"retiring", "finish", "undo"},
             work' = [work EXCEPT !.at = a]
      PROVE  SameWork /\ work'.at = a
  BY <1>4, WorkGoes DEF SameWork, WorksOn, Begun, TypeOK
<1>5. CASE NothingToRetire
  BY <1>1, <1>4, <1>5 DEF NothingToRetire
<1>6. CASE CallRetirement
  BY <1>1, <1>4, <1>6 DEF CallRetirement
<1>7. CASE RetireDocuments
  BY <1>1, <1>4, <1>7 DEF RetireDocuments
<1>8. CASE RetirementFails
  BY <1>1, <1>4, <1>8 DEF RetirementFails
<1>9. QED
  BY <1>2, <1>3, <1>5, <1>6, <1>7, <1>8 DEF GoesOn

\* It ends its job.
Stops == CancelDocument \/ CompilationFails \/ EndUnpublished \/ Finish \/ LeaveUndone

LEMMA StopsWith ==
    ASSUME TypeOK, QueueInv, Stops
    PROVE  /\ Unmoved /\ UNCHANGED index /\ JobsKept /\ work' = Idle
           /\ work.at \in {"document", "decide", "finish", "undo"}
           /\ \A j \in DOMAIN jobs : jobs'[j].status = "failed" =>
                jobs[j].status = "failed" \/ (j = work.job /\ (CompilationFails \/ LeaveUndone))
<1>1. Unmoved /\ UNCHANGED index /\ work' = Idle /\ work.at \in {"document", "decide", "finish", "undo"}
  BY DEF Stops, CancelDocument, CompilationFails, EndUnpublished, BatchDone, Finish, LeaveUndone, JobFails, Ends,
    Unmoved, repositoryVars, files, history
<1>2. CASE CancelDocument \/ EndUnpublished
  <2>1. PICK s \in Statuses : Ends(s) /\ s # "failed"
    BY <1>2 DEF CancelDocument, EndUnpublished, Statuses
  <2>2. QED
    BY <1>1, <2>1, Ending
<1>3. CASE CompilationFails \/ LeaveUndone
  BY <1>1, <1>3, Failing DEF CompilationFails, LeaveUndone
<1>4. CASE Finish
  <2>1. CASE UNCHANGED jobs
    BY <1>1, <2>1 DEF JobsKept
  <2>2. CASE SetStatus("published")
    <3>1. JobsKept /\ \A j \in DOMAIN jobs : jobs'[j].status = IF j = work.job THEN "published" ELSE jobs[j].status
      BY <1>1, <2>2, JobTyped, StatusSet DEF SetStatus, Statuses
    <3>2. QED
      BY <1>1, <3>1
  <2>3. QED
    BY <1>4, <2>1, <2>2 DEF Finish
<1>5. QED
  BY <1>2, <1>3, <1>4 DEF Stops

\* It comes to its next job.
Starts == Take \/ Run \/ Begin

LEMMA StartsWith ==
    ASSUME TypeOK, QueueInv, Starts
    PROVE  /\ UNCHANGED <<mutex, api, epoch, runlock, cache, reader, era, born, retired, stuck, hold, anew,
                          builds, current, call, index>>
           /\ JobsKept
           /\ \A j \in DOMAIN jobs : jobs'[j].status = "failed" => jobs[j].status = "failed"
           /\ work.at \in {"idle", "accepted", "begin"}
           /\ \/ UNCHANGED work /\ work.at = "idle"
              \/ work'.at \in {"accepted", "begin"}
              \/ /\ work'.at = "document" /\ work' \in Works /\ work'.job = work.job /\ work.at = "begin"
                 /\ work'.start = current /\ work'.base = current /\ UNCHANGED <<jobs, queue>>
<1>1. UNCHANGED <<mutex, api, epoch, runlock, cache, reader, era, born, retired, stuck, hold, anew,
                  builds, current, call, index>>
  BY DEF Starts, Take, Run, Begin, repositoryVars, files, history
<1>2. CASE Take
  BY <1>1, <1>2, TakeElsewhere DEF Elsewhere
<1>3. CASE Run
  <2>1. work.at = "accepted" /\ work'.at = "begin" /\ SetStatus("running")
    BY <1>3 DEF Run
  <2>2. JobsKept /\ \A i \in DOMAIN jobs : jobs'[i].status = IF i = work.job THEN "running" ELSE jobs[i].status
    BY <2>1, JobTyped, StatusSet DEF SetStatus, Statuses, Active
  <2>3. QED
    BY <1>1, <2>1, <2>2
<1>4. CASE Begin
  <2>1. work.at = "begin" /\ work.job \in Nat /\ current \in Build \cup {None}
    BY <1>4, JobTyped DEF Begin, TypeOK, RepositoryTypeOK
  <2>2. /\ work' \in Works /\ work'.at = "document" /\ work'.job = work.job
        /\ work'.start = current /\ work'.base = current /\ UNCHANGED <<jobs, queue>>
    BY <1>4, <2>1 DEF Begin, Works, Begun
  <2>3. QED
    BY <1>1, <2>1, <2>2 DEF JobsKept
<1>5. QED
  BY <1>2, <1>3, <1>4 DEF Starts

-----------------------------------------------------------------------------
(* The calls: who has made one, and which *)

Calling == {"create", "publish", "undoing"}

\* No call is made or ends.
Calm ==
    /\ UNCHANGED <<call, runlock, current>>
    /\ api'.at = "retract" <=> api.at = "retract"
    /\ UNCHANGED work \/ (work.at \notin Calling /\ work'.at \notin Calling)

LEMMA CalmKeepsCalls == CallInv /\ Calm => CallInv'
BY DEF CallInv, Calm, Calling

LEMMA CalmRequests ==
    ASSUME IndexInv, (Requests /\ ~Withdrawn) \/ Submit
    PROVE  Calm
<1>1. UNCHANGED <<call, runlock, current, work>>
  BY DEF Requests, Upload, UploadFails, CommitUpload, Submit, ClearIndex, repositoryVars, files
<1>2. api.at # "retract" /\ api'.at # "retract"
  BY DEF Requests, Upload, UploadFails, CommitUpload, Submit, ClearIndex, Idle, IndexInv, MutexInv
<1>3. QED
  BY <1>1, <1>2 DEF Calm

LEMMA CalmWorker ==
    ASSUME TypeOK, QueueInv, Starts \/ GoesOn \/ Stops
    PROVE  Calm
BY StartsWith, GoesOnWith, StopsWith, IdleTyped DEF Calm, Calling, Unmoved

\* The worker's own calls: what it begins and what it ends.
LEMMA UpdateCalls ==
    ASSUME TypeOK, BuildInv, Update
    PROVE  /\ UNCHANGED <<current, faults, runlock, api, index, jobs, epoch, cache, reader, era, retired, stuck, anew, mutex, queue>>
           /\ OthersCalls("worker") /\ call["worker"] = None
           /\ work.at = "decide" /\ work \in Works /\ work' \in Works /\ work'.at = "create"
           /\ work'.job = work.job /\ work'.start = work.start /\ work'.base = work.base
           /\ \E b \in Build, superseded \in SUBSET Doc :
                /\ builds[b] = None
                /\ builds' = [builds EXCEPT ![b] = EffectiveDocuments(Job.batch[work.next], superseded)]
                /\ EffectiveDocuments(Job.batch[work.next], superseded) \in Citations
                /\ EffectiveDocuments(Job.batch[work.next], superseded) # None
                /\ work'.superseded = work.superseded \cup superseded
                /\ call'["worker"] # None /\ call'["worker"].op = "create" /\ call'["worker"].at = "save"
                /\ call'["worker"].build = b
                /\ born' = [a \in Build |-> IF a = b THEN [era |-> era, job |-> work.job] ELSE born[a]]
<1>1. work.at = "decide" /\ work \in Works /\ work.at \in Begun
      /\ UNCHANGED <<runlock, api, index, jobs, epoch, cache, reader, era, retired, stuck, anew, mutex, queue>>
  BY DEF Update, TypeOK, Begun, history
<1>2. PICK superseded \in SUBSET {d \in Doc : ActiveDocuments[d] # None} :
        /\ CreateBuild("worker", EffectiveDocuments(Job.batch[work.next], superseded), Base)
        /\ work' = [work EXCEPT !.at = "create", !.superseded = @ \cup superseded]
  BY DEF Update
<1>3. PICK docs : docs = EffectiveDocuments(Job.batch[work.next], superseded)
  OBVIOUS
<1>4. docs \in Citations
  BY <1>1, <1>3, EffectiveTyped
<1>5. /\ OthersCalls("worker") /\ UNCHANGED <<current, faults>>
      /\ \E b \in Build :
           /\ builds[b] = None /\ builds' = [builds EXCEPT ![b] = docs] /\ docs # None
           /\ call'["worker"] # None /\ call'["worker"].op = "create" /\ call'["worker"].at = "save"
           /\ call'["worker"].build = b
  BY <1>2, <1>3, <1>4, Callers, CreateStarts DEF TypeOK
<1>6. PICK b \in Build :
        /\ builds[b] = None /\ builds' = [builds EXCEPT ![b] = docs] /\ docs # None
        /\ call'["worker"] # None /\ call'["worker"].op = "create" /\ call'["worker"].at = "save"
        /\ call'["worker"].build = b
  BY <1>5
<1>7. \A a \in Build : builds'[a] # builds[a] <=> a = b
  BY <1>6 DEF TypeOK, RepositoryTypeOK
<1>8. born' = [a \in Build |-> IF a = b THEN [era |-> era, job |-> work.job] ELSE born[a]]
  BY <1>7 DEF Update
<1>9. work' \in Works /\ work'.at = "create" /\ work'.job = work.job /\ work'.start = work.start
      /\ work'.base = work.base /\ work'.superseded = work.superseded \cup superseded
  BY <1>1, <1>2 DEF Works, Begun
<1>10. call["worker"] = None
  BY <1>2 DEF CreateBuild
<1>11. superseded \in SUBSET Doc
  OBVIOUS
<1>12. QED
  BY <1>1, <1>3, <1>4, <1>5, <1>6, <1>8, <1>9, <1>10, <1>11

\* What a step of the worker's that is about a call leaves alone.
Around == UNCHANGED <<mutex, api, queue, epoch, reader, era, born, hold, anew>>

LEMMA CreatedCalls ==
    ASSUME TypeOK, QueueInv, BuildInv, CallInv, Created
    PROVE  /\ Around /\ UNCHANGED <<builds, current, runlock, index, cache, retired, stuck>>
           /\ OthersCalls("worker") /\ call'["worker"] = None
           /\ work.at = "create" /\ work \in Works
           /\ call["worker"] # None /\ call["worker"].build \in Build
           /\ \/ /\ work' \in Works /\ work'.at = "document" /\ work'.job = work.job
                 /\ work'.start = work.start /\ work'.base = call["worker"].build
                 /\ work'.superseded = work.superseded /\ UNCHANGED jobs
              \/ work' = Idle
<1>1. /\ work.at = "create" /\ work \in Works /\ call["worker"] # None /\ Return("worker")
      /\ UNCHANGED <<index, mutex, api, queue, epoch, runlock, cache, reader, history>>
  BY DEF Created, Ended, TypeOK, Begun
<1>2. OthersCalls("worker") /\ call'["worker"] = None /\ UNCHANGED <<builds, current>>
  BY <1>1, Callers, Returns DEF TypeOK
<1>3. call["worker"].build \in Build
  BY <1>1 DEF CallInv, BuildInv, Exists
<1>4. CASE call["worker"].at = "done"
  <2>1. work' = [work EXCEPT !.at = "document", !.next = @ + 1, !.base = call["worker"].build]
        /\ UNCHANGED jobs
    BY <1>4 DEF Created
  <2>2. work' \in Works /\ work'.at = "document" /\ work'.job = work.job
        /\ work'.start = work.start /\ work'.base = call["worker"].build /\ work'.superseded = work.superseded
    BY <1>1, <1>3, <2>1, NextTyped DEF Works, Begun
  <2>3. QED
    BY <1>1, <1>2, <1>3, <2>1, <2>2 DEF Around, history
<1>5. CASE call["worker"].at # "done"
  BY <1>1, <1>2, <1>3, <1>5 DEF Around, history, Created, JobFails, Ends
<1>6. QED
  BY <1>4, <1>5

LEMMA PublishCalls ==
    ASSUME TypeOK, BuildInv, PublishJob
    PROVE  /\ Around /\ UNCHANGED <<builds, current, index, cache, retired, stuck, jobs>>
           /\ OthersCalls("worker") /\ call["worker"] = None
           /\ runlock = None /\ runlock' = "worker"
           /\ call'["worker"] # None /\ call'["worker"].op = "switch" /\ call'["worker"].at = "save"
           /\ call'["worker"].build = work.base
           /\ work.base \in Build /\ builds[work.base] # None
           /\ work.base # work.start /\ ~Stale(work.job)
           /\ work.at = "document" /\ work \in Works /\ work' \in Works /\ work'.at = "publish"
           /\ work'.job = work.job /\ work'.start = work.start /\ work'.base = work.base
           /\ work'.superseded = work.superseded
<1>1. /\ work.at = "document" /\ work.base # work.start /\ ~Stale(work.job) /\ work \in Works
      /\ work.at \in Begun /\ runlock = None /\ runlock' = "worker"
      /\ Switch("worker", work.base, Status) /\ work' = [work EXCEPT !.at = "publish"]
      /\ UNCHANGED <<index, mutex, api, jobs, queue, epoch, cache, reader, history>>
  BY DEF PublishJob, BatchDone, Publish, TypeOK, Begun
<1>2. work.base \in Build
  BY <1>1 DEF BuildInv, Exists
<1>3. /\ OthersCalls("worker") /\ UNCHANGED <<builds, current>> /\ builds[work.base] # None
      /\ call'["worker"] # None /\ call'["worker"].op = "switch" /\ call'["worker"].at = "save"
      /\ call'["worker"].build = work.base
  BY <1>1, <1>2, Callers, SwitchStarts DEF TypeOK
<1>4. call["worker"] = None
  BY <1>1 DEF Switch
<1>5. /\ work' \in Works /\ work'.at = "publish" /\ work'.job = work.job /\ work'.start = work.start
      /\ work'.base = work.base /\ work'.superseded = work.superseded
  BY <1>1, WorkGoes DEF WorksOn, Begun
<1>6. QED
  BY <1>1, <1>2, <1>3, <1>4, <1>5 DEF Around, history

LEMMA PublishedCalls ==
    ASSUME TypeOK, BuildInv, Published
    PROVE  /\ Around /\ UNCHANGED <<builds, current, index, stuck>>
           /\ OthersCalls("worker") /\ call'["worker"] = None /\ runlock' = None
           /\ work.at = "publish" /\ work \in Works /\ work.base \in Build
           /\ call["worker"] # None
           /\ \/ /\ call["worker"].at = "done"
                 /\ work' \in Works /\ work'.at = "retire" /\ work'.job = work.job
                 /\ work'.start = work.start /\ work'.base = work.base
                 /\ work'.superseded = work.superseded /\ UNCHANGED jobs /\ cache' = None
                 /\ retired' = [retired EXCEPT ![work.base] = [docs |-> Candidates, version |-> Job.version]]
              \/ /\ call["worker"].at # "done" /\ work' = Idle /\ JobFails
                 /\ UNCHANGED <<cache, retired>>
<1>1. /\ work.at = "publish" /\ work \in Works /\ work.at \in Begun /\ call["worker"] # None
      /\ Return("worker") /\ runlock' = None
      /\ UNCHANGED <<index, mutex, api, queue, epoch, reader, era, born, stuck, hold, anew>>
  BY DEF Published, Ended, TypeOK, Begun
<1>2. OthersCalls("worker") /\ call'["worker"] = None /\ UNCHANGED <<builds, current>>
  BY <1>1, Callers, Returns DEF TypeOK
<1>3. work.base \in Build
  BY <1>1 DEF BuildInv, Exists
<1>4. CASE call["worker"].at = "done"
  <2>1. work' = [work EXCEPT !.at = "retire"] /\ UNCHANGED jobs /\ cache' = None
        /\ retired' = [retired EXCEPT ![work.base] = [docs |-> Candidates, version |-> Job.version]]
    BY <1>4 DEF Published, Candidates
  <2>2. work' \in Works /\ work'.at = "retire" /\ work'.job = work.job
        /\ work'.start = work.start /\ work'.base = work.base /\ work'.superseded = work.superseded
    BY <1>1, <2>1, WorkGoes DEF WorksOn, Begun
  <2>3. QED
    BY <1>1, <1>2, <1>3, <1>4, <2>1, <2>2 DEF Around
<1>5. CASE call["worker"].at # "done"
  BY <1>1, <1>2, <1>3, <1>5 DEF Around, Published, JobFails, Ends
<1>6. QED
  BY <1>4, <1>5

LEMMA UndoCalls ==
    ASSUME TypeOK, BuildInv, Undo
    PROVE  /\ Around /\ UNCHANGED <<builds, index, cache, retired, stuck, jobs>>
           /\ OthersCalls("worker") /\ runlock = None /\ runlock' = "worker"
           /\ call'["worker"] # None
           /\ ~Stale(work.job) /\ current = work.base
           /\ work.at = "undo" /\ work \in Works /\ work' \in Works /\ work'.at = "undoing"
           /\ work'.job = work.job /\ work'.start = work.start /\ work'.base = work.base
           /\ work'.superseded = work.superseded
           /\ \/ /\ work.start = None /\ current' = None
                 /\ call'["worker"].op = "retract" /\ call'["worker"].at = "load"
              \/ /\ work.start \in Build /\ builds[work.start] # None /\ current' = current
                 /\ call'["worker"].op = "switch" /\ call'["worker"].at = "save"
                 /\ call'["worker"].build = work.start
<1>1. /\ work.at = "undo" /\ work \in Works /\ work.at \in Begun /\ runlock = None /\ runlock' = "worker"
      /\ ~Stale(work.job) /\ current = work.base
      /\ IF work.start = None THEN Retract("worker") ELSE Rollback("worker", work.start)
      /\ work' = [work EXCEPT !.at = "undoing"]
      /\ UNCHANGED <<index, mutex, api, jobs, queue, epoch, cache, reader, history>>
  BY DEF Undo, TypeOK, Begun
<1>2. /\ work' \in Works /\ work'.at = "undoing" /\ work'.job = work.job /\ work'.start = work.start
      /\ work'.base = work.base /\ work'.superseded = work.superseded
  BY <1>1, WorkGoes DEF WorksOn, Begun
<1>3. CASE work.start = None
  <2>1. /\ OthersCalls("worker") /\ UNCHANGED builds /\ current' = None
        /\ call'["worker"] # None /\ call'["worker"].op = "retract" /\ call'["worker"].at = "load"
    BY <1>1, <1>3, Callers, RetractStarts DEF TypeOK
  <2>2. QED
    BY <1>1, <1>2, <1>3, <2>1 DEF Around, history
<1>4. CASE work.start # None
  <2>1. work.start \in Build /\ Switch("worker", work.start, {"archived"})
    BY <1>1, <1>4 DEF Works, Rollback
  <2>2. /\ OthersCalls("worker") /\ UNCHANGED <<builds, current>> /\ builds[work.start] # None
        /\ call'["worker"] # None /\ call'["worker"].op = "switch" /\ call'["worker"].at = "save"
        /\ call'["worker"].build = work.start
    BY <1>1, <2>1, Callers, SwitchStarts DEF TypeOK
  <2>3. QED
    BY <1>1, <1>2, <2>1, <2>2 DEF Around, history
<1>5. QED
  BY <1>3, <1>4

LEMMA UndoneCalls ==
    ASSUME TypeOK, BuildInv, Undone
    PROVE  /\ Around /\ UNCHANGED <<builds, current, index, retired>>
           /\ OthersCalls("worker") /\ call'["worker"] = None /\ runlock' = None
           /\ work.at = "undoing" /\ work \in Works /\ work.base \in Build /\ builds[work.base] # None
           /\ call["worker"] # None /\ call["worker"].at \in {"done", "failed"}
           /\ work' = Idle /\ JobFails /\ cache' \in {cache, None}
           /\ stuck' = IF call["worker"].at = "done" THEN stuck ELSE stuck \cup {work.base}
<1>1. /\ work.at = "undoing" /\ work \in Works /\ work.at \in Begun /\ call["worker"] # None
      /\ call["worker"].at \in {"done", "failed"}
      /\ Return("worker") /\ runlock' = None /\ JobFails /\ work' = Idle
      /\ cache' \in {cache, None}
      /\ stuck' = IF call["worker"].at = "done" THEN stuck ELSE stuck \cup {work.base}
      /\ UNCHANGED <<index, mutex, api, queue, epoch, reader, era, born, retired, hold, anew>>
  BY DEF Undone, Ended, TypeOK, Begun, JobFails, Ends
<1>2. OthersCalls("worker") /\ call'["worker"] = None /\ UNCHANGED <<builds, current>>
  BY <1>1, Callers, Returns DEF TypeOK
<1>3. work.base \in Build /\ builds[work.base] # None
  BY <1>1 DEF BuildInv, Exists
<1>4. QED
  BY <1>1, <1>2, <1>3 DEF Around

LEMMA WithdrawCalls ==
    ASSUME TypeOK, WithdrawWiki
    PROVE  /\ UNCHANGED <<builds, index, work, reader, history>> /\ runlock = None /\ current' = None
           /\ OthersCalls("api")
           /\ \/ /\ current # None /\ runlock' = "api" /\ api'.at = "retract" /\ UNCHANGED cache
                 /\ call'["api"] # None /\ call'["api"].op = "retract" /\ call'["api"].at = "load"
              \/ /\ current = None /\ UNCHANGED <<call, runlock>> /\ api'.at = "idle" /\ cache' = None
<1>1. UNCHANGED <<index, work, reader, history>> /\ runlock = None
  BY DEF WithdrawWiki
<1>2. CASE current # None
  <2>1. runlock' = "api" /\ api'.at = "retract" /\ Retract("api") /\ UNCHANGED cache
    BY <1>2 DEF WithdrawWiki
  <2>2. QED
    BY <1>1, <1>2, <2>1, Callers, RetractStarts DEF TypeOK
<1>3. CASE current = None
  <2>1. UNCHANGED <<call, builds, runlock, current>> /\ api'.at = "idle" /\ cache' = None
    BY <1>3 DEF WithdrawWiki, repositoryVars, files, Idle
  <2>2. QED
    BY <1>1, <1>3, <2>1 DEF OthersCalls
<1>4. QED
  BY <1>2, <1>3

LEMMA WithdrawnCalls ==
    ASSUME TypeOK, Withdrawn
    PROVE  /\ UNCHANGED <<builds, current, work, index, jobs, queue, epoch, reader, history>>
           /\ runlock' = None /\ api.at = "retract" /\ api'.at = "idle"
           /\ OthersCalls("api") /\ call'["api"] = None /\ cache' \in {cache, None}
BY Callers, Returns DEF TypeOK, Withdrawn, Idle

LEMMA CallInvStep ==
    ASSUME TypeOK, IndexInv, QueueInv, BuildInv, CallInv, [Next]_vars
    PROVE  CallInv'
<1>1. CASE Calm
  BY <1>1, CalmKeepsCalls
<1>2. CASE WithdrawWiki
  BY <1>2, WithdrawCalls, WithdrawLeaves, Callers, NowhereAssumption DEF CallInv, OthersCalls
<1>3. CASE Withdrawn
  BY <1>3, WithdrawnCalls, Callers, NowhereAssumption DEF CallInv, OthersCalls
<1>4. CASE Update
  BY <1>4, UpdateCalls, Callers DEF CallInv, OthersCalls
<1>5. CASE Created
  BY <1>5, CreatedCalls, IdleTyped, Callers DEF CallInv, OthersCalls, Around
<1>6. CASE PublishJob
  BY <1>6, PublishCalls, Callers, NowhereAssumption DEF CallInv, OthersCalls, Around
<1>7. CASE Published
  BY <1>7, PublishedCalls, IdleTyped, Callers, NowhereAssumption DEF CallInv, OthersCalls, Around
<1>8. CASE Undo
  BY <1>8, UndoCalls, Callers, NowhereAssumption DEF CallInv, OthersCalls, Around
<1>9. CASE Undone
  BY <1>9, UndoneCalls, IdleTyped, Callers, NowhereAssumption DEF CallInv, OthersCalls, Around
<1>10. ASSUME NEW p \in Caller, Step(p) PROVE CallInv'
  BY <1>10, StepGoes, Callers, NowhereAssumption DEF CallInv, OthersCalls, Goes, Step, TypeOK
<1>11. CASE (\E r \in Reader : Read(r)) \/ UNCHANGED vars
  <2>1. Calm
    BY <1>11 DEF Read, ReadPointer, AskCache, FillCache, vars, repositoryVars, files, Calm
  <2>2. QED
    BY <2>1, CalmKeepsCalls
<1>12. CASE Crash
  BY <1>12, Callers, NowhereAssumption DEF Crash, RepositoryCrash, Idle, CallInv
<1>13. QED
  BY <1>1, <1>2, <1>3, <1>4, <1>5, <1>6, <1>7, <1>8, <1>9, <1>10, <1>11, <1>12, CalmRequests, CalmWorker
  DEF Next, Requests, Starts, GoesOn, Stops, Api, Compile, Conclude

-----------------------------------------------------------------------------
(* The builds: what is referred to has been written *)

LEMMA ApiKeepsBuilds ==
    ASSUME TypeOK, IndexInv, BuildInv, Requests \/ Submit \/ WithdrawWiki
    PROVE  BuildInv'
<1>1. CASE (Requests /\ ~Withdrawn) \/ Submit
  <2>1. UNCHANGED <<builds, current, work, call, cache, reader, retired, stuck>>
    BY <1>1 DEF Requests, Upload, UploadFails, CommitUpload, Submit, ClearIndex, repositoryVars, files, history
  <2>2. QED
    BY <2>1 DEF BuildInv, Exists
<1>2. CASE Withdrawn
  <2>1. /\ UNCHANGED <<builds, current, work, reader, retired, stuck>> /\ cache' \in {cache, None}
        /\ call'["worker"] = call["worker"]
    BY <1>2, WithdrawnCalls, Callers DEF OthersCalls, history
  <2>2. QED
    BY <2>1 DEF BuildInv, Exists
<1>3. CASE WithdrawWiki
  <2>1. /\ UNCHANGED <<builds, work, reader, retired, stuck>> /\ cache' \in {cache, None} /\ current' = None
        /\ call'["worker"] = call["worker"]
    BY <1>3, WithdrawCalls, Callers DEF OthersCalls, history
  <2>2. QED
    BY <2>1 DEF BuildInv, Exists
<1>4. QED
  BY <1>1, <1>2, <1>3

LEMMA WorkerKeepsBuilds ==
    ASSUME TypeOK, QueueInv, BuildInv, CallInv,
           Starts \/ GoesOn \/ Stops \/ Created \/ PublishJob \/ Published \/ Undo \/ Undone
    PROVE  BuildInv'
<1>1. CASE Starts
  BY <1>1, StartsWith DEF BuildInv, Exists, Begun, Public
<1>2. CASE GoesOn
  BY <1>2, GoesOnWith DEF BuildInv, Exists, Begun, Public, Unmoved, SameWork
<1>3. CASE Stops
  BY <1>3, StopsWith, IdleTyped DEF BuildInv, Exists, Begun, Public, Unmoved
<1>4. CASE Created
  BY <1>4, CreatedCalls, IdleTyped DEF BuildInv, CallInv, Exists, Begun, Public, Around
<1>5. CASE PublishJob
  BY <1>5, PublishCalls DEF BuildInv, Exists, Begun, Public, Around
<1>6. CASE Published
  <2>1. builds[work.base] # None /\ retired \in [Build -> Retirement \cup {None}]
    BY <1>6, PublishedCalls DEF BuildInv, Exists, Begun, TypeOK
  <2>2. retired' = retired \/ retired' = [retired EXCEPT ![work.base] = [docs |-> Candidates, version |-> Job.version]]
    BY <1>6, PublishedCalls
  <2>3. \A b \in Build : builds[b] = None => retired'[b] = retired[b]
    BY <2>1, <2>2
  <2>4. QED
    BY <1>6, <2>3, PublishedCalls, IdleTyped DEF BuildInv, Exists, Begun, Public, Around
<1>7. CASE Undo
  BY <1>7, UndoCalls, NothingAssumption DEF BuildInv, Exists, Begun, Public, Around
<1>8. CASE Undone
  BY <1>8, UndoneCalls, IdleTyped DEF BuildInv, Exists, Begun, Public, Around
<1>9. QED
  BY <1>1, <1>2, <1>3, <1>4, <1>5, <1>6, <1>7, <1>8

LEMMA UpdateKeepsBuilds ==
    ASSUME TypeOK, BuildInv, Update
    PROVE  BuildInv'
<1>1. PICK b \in Build, superseded \in SUBSET Doc :
        /\ builds[b] = None
        /\ builds' = [builds EXCEPT ![b] = EffectiveDocuments(Job.batch[work.next], superseded)]
        /\ EffectiveDocuments(Job.batch[work.next], superseded) # None
        /\ call'["worker"] # None /\ call'["worker"].build = b
  BY UpdateCalls
<1>2. builds \in [Build -> Citations \cup {None}]
  BY DEF TypeOK, RepositoryTypeOK
<1>3. builds'[b] # None /\ \A a \in Build : a # b => builds'[a] = builds[a]
  BY <1>1, <1>2
<1>4. \A a \in Build : builds[a] # None => builds'[a] = builds[a]
  BY <1>1, <1>3
<1>6. cache # None => cache.build \in Build
  BY DEF TypeOK, Pages
<1>7. UNCHANGED <<current, cache, reader, retired, stuck>>
      /\ work.at = "decide" /\ work'.at = "create" /\ work'.start = work.start /\ work'.base = work.base
  BY UpdateCalls
<1>8. /\ Exists(current) /\ Exists(work.start) /\ Exists(work.base)
      /\ work.base # work.start => work.base # None
      /\ \A r \in Reader : reader[r].at # "idle" => reader[r].build # None /\ Exists(reader[r].build)
  BY <1>7 DEF BuildInv, Begun
<1>9. cache # None => Exists(cache.build) /\ cache.pages = builds[cache.build]
  BY DEF BuildInv
<1>10. \A a \in Build : builds'[a] = None => retired[a] = None /\ a \notin stuck
  BY <1>3, <1>4 DEF BuildInv
<1>11. cache # None => builds'[cache.build] = builds[cache.build] /\ builds'[cache.build] # None
  BY <1>4, <1>6, <1>9, NothingAssumption DEF Exists
<1>12. QED
  BY <1>1, <1>3, <1>4, <1>6, <1>7, <1>8, <1>9, <1>10, <1>11, NothingAssumption DEF BuildInv, Exists, Begun, Public

LEMMA BuildStep ==
    ASSUME TypeOK, IndexInv, QueueInv, BuildInv, CallInv, [Next]_vars
    PROVE  BuildInv'
<1>1. CASE (\E batch \in Batches : Upload(batch)) \/ ClearIndex \/ Api \/ UploadFails
  BY <1>1, ApiKeepsBuilds DEF Api, Requests
<1>2. CASE Compile \/ Conclude \/ CompilationFails \/ RetirementFails
  BY <1>2, WorkerKeepsBuilds, UpdateKeepsBuilds DEF Compile, Conclude, Starts, GoesOn, Stops
<1>3. ASSUME NEW p \in Caller, Step(p) PROVE BuildInv'
  <2>1. OthersCalls(p) /\ Goes(p) /\ UNCHANGED builds
        /\ UNCHANGED <<work, cache, reader, retired, stuck>>
    BY <1>3, StepGoes DEF Step, history, TypeOK
  <2>2. /\ call["worker"] # None <=> call'["worker"] # None
        /\ call["worker"] # None => call'["worker"].op = call["worker"].op /\ call'["worker"].build = call["worker"].build
    BY <2>1, Callers DEF OthersCalls, Goes
  <2>3. current' = current \/ (p = "worker" /\ call["worker"].op = "switch" /\ current' = call["worker"].build)
    BY <2>1, Callers DEF Goes, CallInv
  <2>4. QED
    BY <2>1, <2>2, <2>3 DEF BuildInv, Exists, Goes
<1>4. ASSUME NEW r \in Reader, Read(r) PROVE BuildInv'
  <2>1. UNCHANGED <<builds, current, work, call, retired, stuck>>
    BY <1>4 DEF Read, ReadPointer, AskCache, FillCache, repositoryVars, files, history
  <2>2. reader \in [Reader -> Readings \cup {Idle}]
    BY DEF TypeOK
  <2>3. CASE ReadPointer(r) \/ AskCache(r)
    <3>1. UNCHANGED cache
      BY <2>3 DEF ReadPointer, AskCache
    <3>2. PICK q : reader' = [reader EXCEPT ![r] = q] /\ (q.at # "idle" => q.build # None /\ Exists(q.build))
      BY <2>3 DEF ReadPointer, AskCache, BuildInv, Idle
    <3>3. QED
      BY <2>1, <2>2, <3>1, <3>2 DEF BuildInv, Exists
  <2>4. CASE FillCache(r)
    <3>1. PICK b : b = reader[r].build /\ reader[r].at = "fill"
      BY <2>4 DEF FillCache
    <3>2. b # None /\ Exists(b)
      BY <3>1 DEF BuildInv
    <3>3. cache'.build = b /\ cache'.pages = builds[b] /\ reader' = [reader EXCEPT ![r] = Idle]
      BY <2>4, <3>1 DEF FillCache
    <3>4. QED
      BY <2>1, <2>2, <3>2, <3>3 DEF BuildInv, Exists, Idle
  <2>5. QED
    BY <1>4, <2>3, <2>4 DEF Read
<1>5. CASE Crash
  BY <1>5, Callers DEF Crash, RepositoryCrash, files, Idle, BuildInv, Exists, Begun, Public
<1>6. CASE UNCHANGED vars
  BY <1>6 DEF vars, repositoryVars, files, history, BuildInv, Exists
<1>7. QED
  BY <1>1, <1>2, <1>3, <1>4, <1>5, <1>6 DEF Next

-----------------------------------------------------------------------------
(* What the history says of the builds *)

LEMMA BearsKept ==
    ASSUME NEW b \in Build, Bears(b), UNCHANGED <<born, queue>>, JobsKept, TypeOK, era' \in Nat, era' >= era,
           work'.at # "idle" => work.at # "idle" /\ work'.job = work.job,
           work'.at \in {"accepted", "begin"} => work.at \in {"accepted", "begin"}
    PROVE  Bears(b)'
<1>1. born[b].job \in DOMAIN jobs /\ born[b].era <= era' /\ jobs[born[b].job].epoch <= born[b].era
  <2>1. born[b] \in Origin
    BY DEF Bears, TypeOK
  <2>2. born[b].era \in Nat /\ era \in Nat
    BY <2>1 DEF Origin, TypeOK
  <2>3. QED
    BY <2>2 DEF Bears
<1>2. PICK j \in DOMAIN jobs : j = born[b].job
  BY <1>1
<1>3. QED
  BY <1>1, <1>2 DEF Bears, JobsKept

LEMMA BornKept ==
    ASSUME TypeOK, BornInv, UNCHANGED <<born, builds, queue, anew>>, JobsKept, era' \in Nat, era' >= era,
           work'.at # "idle" => work.at # "idle" /\ work'.job = work.job,
           work'.at \in {"accepted", "begin"} => work.at \in {"accepted", "begin"}
    PROVE  BornInv'
<1>1. \A b \in Build : Bears(b) => Bears(b)'
  BY BearsKept
<1>2. QED
  BY <1>1 DEF BornInv

\* The worker's steps but for one write no build.
LEMMA WorkerKeepsBorn ==
    ASSUME TypeOK, QueueInv, BuildInv, CallInv,
           Starts \/ GoesOn \/ Stops \/ Created \/ PublishJob \/ Published \/ Undo \/ Undone
    PROVE  UNCHANGED <<born, builds, anew, era>>
<1>1. CASE Starts
  BY <1>1, StartsWith
<1>2. CASE GoesOn
  BY <1>2, GoesOnWith DEF Unmoved
<1>3. CASE Stops
  BY <1>3, StopsWith DEF Unmoved
<1>4. CASE Created \/ PublishJob \/ Published \/ Undo \/ Undone
  BY <1>4, CreatedCalls, PublishCalls, PublishedCalls, UndoCalls, UndoneCalls DEF Around
<1>5. QED
  BY <1>1, <1>2, <1>3, <1>4

LEMMA UpdateBears ==
    ASSUME TypeOK, QueueInv, EpochInv, BuildInv, BornInv, Update
    PROVE  BornInv'
<1>1. PICK b \in Build :
        /\ builds[b] = None
        /\ \A a \in Build : a # b => builds'[a] = builds[a]
        /\ born' = [a \in Build |-> IF a = b THEN [era |-> era, job |-> work.job] ELSE born[a]]
  BY UpdateCalls DEF TypeOK, RepositoryTypeOK
<1>2. UNCHANGED <<jobs, queue, era, anew, epoch>> /\ work.at = "decide" /\ work'.at = "create" /\ work'.job = work.job
  BY UpdateCalls
<1>3. SUFFICES ASSUME ~anew, NEW a \in Build, builds'[a] # None PROVE Bears(a)'
  BY <1>2 DEF BornInv
<1>4. CASE a = b
  <2>1. born'[a] = [era |-> era, job |-> work.job]
    BY <1>1, <1>4
  <2>2. born'[a].era = era /\ born'[a].job = work.job /\ born'[a] # None
    BY <2>1, NowhereAssumption, JobTyped, <1>2 DEF Origin, TypeOK
  <2>3. PICK j \in DOMAIN jobs : j = work.job
    BY <1>2, JobTyped
  <2>4. jobs[j].epoch <= era
    BY <1>3, Numbers DEF EpochInv
  <2>5. j \in Nat /\ era \in Nat /\ \A k \in DOMAIN queue : j < queue[k]
    BY <1>2, <2>3, Numbers DEF QueueInv
  <2>6. QED
    BY <1>2, <2>2, <2>3, <2>4, <2>5 DEF Bears
<1>5. CASE a # b
  <2>1. Bears(a) /\ born'[a] = born[a]
    BY <1>1, <1>3, <1>5 DEF BornInv
  <2>2. QED
    BY <1>2, <2>1 DEF Bears
<1>6. QED
  BY <1>4, <1>5

LEMMA BornStep ==
    ASSUME TypeOK, IndexInv, QueueInv, EpochInv, BuildInv, CallInv, BornInv, [Next]_vars
    PROVE  BornInv'
<1>1. CASE Requests
  <2>1. UNCHANGED <<born, builds>> /\ era' \in Nat /\ era' >= era
    BY <1>1, RequestsLeave, WithdrawnCalls, Numbers
    DEF Requests, Upload, UploadFails, CommitUpload, ClearIndex, repositoryVars, files, history
  <2>2. QED
    BY <1>1, <2>1, RequestsLeave, BornKept DEF JobsKept
<1>2. CASE Submit
  <2>1. UNCHANGED <<born, builds, work, era, anew>>
    BY <1>2 DEF Submit, repositoryVars, files, history
  <2>2. ASSUME NEW b \in Build, Bears(b) PROVE Bears(b)'
    <3>1. PICK j \in DOMAIN jobs : j = born[b].job
      BY <2>2 DEF Bears
    <3>2. j \in DOMAIN jobs' /\ jobs'[j] = jobs[j] /\ \A k \in DOMAIN queue' : j < queue'[k]
      BY <1>2, <2>2, <3>1, SubmitAppends DEF Bears
    <3>3. QED
      BY <2>1, <2>2, <3>1, <3>2 DEF Bears
  <2>3. QED
    BY <2>1, <2>2 DEF BornInv
<1>3. CASE WithdrawWiki
  BY <1>3, WithdrawCalls, WithdrawLeaves, BornKept, Numbers DEF history
<1>4. CASE Take
  <2>1. UNCHANGED <<born, builds, era, anew>>
    BY <1>4, StartsWith DEF Starts
  <2>2. /\ JobsKept /\ queue # <<>> /\ queue' = Tail(queue) /\ work.at = "idle"
        /\ (UNCHANGED work \/ (work'.at = "accepted" /\ work'.job = Head(queue)))
    BY <1>4, TakeElsewhere DEF Elsewhere
  <2>3. ASSUME NEW b \in Build, Bears(b) PROVE Bears(b)'
    <3>1. PICK j \in DOMAIN jobs : j = born[b].job
      BY <2>3 DEF Bears
    <3>2. /\ j < Head(queue) /\ j \in Nat /\ Head(queue) \in Nat
          /\ \A k \in DOMAIN queue' : j < queue'[k]
      BY <2>2, <2>3, <3>1, TailOf, Numbers DEF Bears
    <3>3. QED
      BY <2>1, <2>2, <2>3, <3>1, <3>2 DEF Bears, JobsKept
  <2>4. QED
    BY <2>1, <2>3 DEF BornInv
<1>5. CASE Run \/ Begin
  BY <1>5, StartsWith, CompilingMoves, BornKept, Numbers DEF Starts, Moves
<1>6. CASE Update
  BY <1>6, UpdateBears
<1>7. CASE GoesOn \/ Stops \/ Created \/ PublishJob \/ Published \/ Undo \/ Undone
  <2>1. Moves
    BY <1>7, CompilingMoves, ConcludingMoves DEF GoesOn, Stops, Conclude
  <2>2. UNCHANGED <<born, builds, anew, era>> /\ work'.at \notin {"accepted", "begin"}
    BY <1>7, <2>1, WorkerKeepsBorn, GoesOnWith, StopsWith, CreatedCalls, PublishCalls, PublishedCalls, UndoCalls,
      UndoneCalls, IdleTyped
  <2>3. QED
    BY <2>1, <2>2, BornKept, Numbers DEF Moves
<1>8. CASE (\E p \in Caller : Step(p)) \/ (\E r \in Reader : Read(r)) \/ UNCHANGED vars
  <2>1. UNCHANGED builds
    BY <1>8, StepGoes DEF Read, ReadPointer, AskCache, FillCache, vars, repositoryVars, files, TypeOK
  <2>2. QED
    BY <1>8, <2>1, OthersElsewhere, BornKept, Numbers DEF Elsewhere
<1>9. CASE Crash
  BY <1>9 DEF Crash, BornInv
<1>10. QED
  BY <1>1, <1>2, <1>3, <1>4, <1>5, <1>6, <1>7, <1>8, <1>9
  DEF Next, Requests, Api, Compile, Conclude, GoesOn, Stops

LEMMA RetiredStep ==
    ASSUME TypeOK, IndexInv, QueueInv, BuildInv, CallInv, RetiredInv, [Next]_vars
    PROVE  RetiredInv'
<1>1. version' \in Nat /\ version' >= version
  <2>1. UNCHANGED version \/ version' = version + 1
    <3>1. CASE Requests
      BY <3>1, RequestsLeave DEF CommitUpload, ClearIndex, index
    <3>2. CASE Submit \/ WithdrawWiki \/ Take \/ Crash
      BY <3>2 DEF Submit, WithdrawWiki, Take, Crash, index
    <3>3. CASE RetireDocuments
      BY <3>3 DEF RetireDocuments, index
    <3>4. CASE (\E p \in Caller : Step(p)) \/ (\E r \in Reader : Read(r)) \/ UNCHANGED vars
      BY <3>4, OthersElsewhere DEF Elsewhere, index
    <3>5. QED
      BY <3>1, <3>2, <3>3, <3>4, CompilingMoves, ConcludingMoves DEF Next, Requests, Api, Compile, index
  <2>2. QED
    BY <2>1, Numbers
<1>2. retired \in [Build -> Retirement \cup {None}] /\ version \in Nat
  BY DEF TypeOK
<1>3. \A b \in Build : retired[b] # None => retired[b].version \in Nat
  BY <1>2 DEF Retirement
<1>4. CASE Published
  <2>1. PICK v : v = Job.version
    OBVIOUS
  <2>2. v \in Nat /\ v <= version
    BY <1>4, <2>1, PublishedCalls, JobTyped DEF IndexInv, VersionInv, Job
  <2>3. PICK docs : docs = Candidates
    OBVIOUS
  <2>4. retired' = retired \/ retired' = [retired EXCEPT ![work.base] = [docs |-> docs, version |-> v]]
    BY <1>4, <2>1, <2>3, PublishedCalls
  <2>5. QED
    BY <1>1, <1>2, <1>3, <2>2, <2>4 DEF RetiredInv
<1>5. CASE UNCHANGED retired
  BY <1>1, <1>2, <1>3, <1>5 DEF RetiredInv
<1>6. Published \/ UNCHANGED retired
  <2>1. CASE Requests \/ Submit \/ WithdrawWiki \/ Crash
    BY <2>1 DEF Requests, Upload, UploadFails, CommitUpload, ClearIndex, Withdrawn, Submit, WithdrawWiki, Crash, history
  <2>2. CASE Starts \/ GoesOn \/ Stops
    BY <2>2, StartsWith, GoesOnWith, StopsWith DEF Unmoved
  <2>3. CASE Update \/ Created \/ PublishJob \/ Undo \/ Undone
    BY <2>3, UpdateCalls, CreatedCalls, PublishCalls, UndoCalls, UndoneCalls
  <2>4. CASE (\E p \in Caller : Step(p)) \/ (\E r \in Reader : Read(r)) \/ UNCHANGED vars
    BY <2>4, OthersElsewhere
  <2>5. QED
    BY <2>1, <2>2, <2>3, <2>4 DEF Next, Requests, Api, Compile, Conclude, Starts, GoesOn, Stops
<1>7. QED
  BY <1>4, <1>5, <1>6

-----------------------------------------------------------------------------
(* The live wiki: what stays true of a build *)

KeepsRightful ==
    api'.at # "withdraw" =>
        /\ api.at # "withdraw"
        /\ \A b \in Build : builds[b] # None /\ Rightful(b) => Rightful(b)'

KeepsAgreed == \A b \in Build : builds[b] # None /\ Agreed(b) => Agreed(b)'
KeepsInnocent == \A b \in Build : builds[b] # None /\ Innocent(b) => Innocent(b)'

\* What the worker has at hand, and the pointer, stay where they are.
Steady ==
    /\ UNCHANGED <<work, current, epoch, retired, born, builds>>
    /\ call'["worker"] = call["worker"]
    /\ \A j \in DOMAIN jobs :
         jobs'[j].batch = jobs[j].batch /\ jobs'[j].epoch = jobs[j].epoch /\ jobs'[j].version = jobs[j].version

LEMMA NothingRight == \A b : b = None => Rightful(b) /\ Agreed(b) /\ Innocent(b)
BY DEF Rightful, Agreed, Innocent

LEMMA SteadyKeeps ==
    ASSUME TypeOK, QueueInv, BuildInv, CallInv, WikiInv, Steady, KeepsRightful, KeepsAgreed, KeepsInnocent
    PROVE  WikiInv'
<1>1. PICK s, b, c, l :
        s = work.start /\ b = work.base /\ c = call["worker"].build /\ l = current
  OBVIOUS
<1>2. /\ work.at \in Begun => Exists(s) /\ Exists(b)
      /\ Exists(l)
      /\ work.at = "create" => Exists(c)
  BY <1>1 DEF BuildInv, CallInv
<1>3. /\ \A a : Exists(a) /\ Agreed(a) => Agreed(a)'
      /\ \A a : Exists(a) /\ Innocent(a) => Innocent(a)'
      /\ api'.at # "withdraw" => api.at # "withdraw" /\ \A a : Exists(a) /\ Rightful(a) => Rightful(a)'
  BY DEF Exists, KeepsAgreed, KeepsInnocent, KeepsRightful, Agreed, Innocent, Rightful
<1>4. /\ work' = work /\ current' = current /\ epoch' = epoch /\ retired' = retired /\ born' = born /\ builds' = builds
      /\ call'["worker"] = call["worker"]
      /\ work.at # "idle" =>
           jobs'[work.job].batch = jobs[work.job].batch /\ jobs'[work.job].epoch = jobs[work.job].epoch
           /\ jobs'[work.job].version = jobs[work.job].version
  BY DEF Steady, QueueInv
<1>5. work.at \in Begun \cup Public \cup {"publish", "undoing", "decide"} => work.at # "idle"
  BY DEF Begun, Public
<1>6. BasesInv'
  <2>1. /\ work.at = "decide" => work.next \in DOMAIN Job.batch
        /\ work.at \in Begun /\ s # None => born[s].job < work.job
        /\ work.at \in Begun => Agreed(s) /\ Innocent(s) /\ Innocent(b)
        /\ work.at \in Begun \ {"finish"} /\ Fresh(work.job) => Rightful(s)
        /\ work.at \in Begun /\ Fresh(work.job) => Rightful(b)
        /\ work.at = "create" /\ Fresh(work.job) => Rightful(c)
        /\ work.at = "create" => Innocent(c)
    BY <1>1 DEF WikiInv, BasesInv, FoundInv, MakingInv
  <2>2. QED
    BY <1>1, <1>2, <1>3, <1>4, <1>5, <2>1 DEF BasesInv, FoundInv, MakingInv, Fresh, Job
<1>7. PointerInv'
  BY <1>4, <1>5 DEF WikiInv, PointerInv, Stale, Job, Candidates, Cited
<1>8. LiveInv'
  <2>1. /\ api.at # "withdraw" => Rightful(l)
        /\ work.at \in {"idle", "accepted", "begin", "finish"} => Agreed(l) /\ Innocent(l)
    BY <1>1 DEF WikiInv, LiveInv
  <2>2. QED
    BY <1>1, <1>2, <1>3, <1>4, <2>1 DEF LiveInv
<1>9. QED
  BY <1>6, <1>7, <1>8 DEF WikiInv

LEMMA AgreedKept ==
    ASSUME TypeOK, RetiredInv, UNCHANGED retired, stuck \subseteq stuck',
           \A d \in Doc : chunks'[d] \in {chunks[d], None, version + 1}
    PROVE  KeepsAgreed
<1> SUFFICES ASSUME NEW b \in Build, Agreed(b) PROVE Agreed(b)'
  BY DEF KeepsAgreed
<1>1. CASE b \in stuck' \/ retired[b] = None
  BY <1>1 DEF Agreed
<1>2. CASE b \notin stuck' /\ retired[b] # None
  <2>1. retired[b] \in Retirement
    BY <1>2 DEF TypeOK
  <2>2. PICK docs, v : docs = retired[b].docs /\ v = retired[b].version
    OBVIOUS
  <2>3. docs \subseteq Doc /\ v \in Nat /\ v <= version /\ version \in Nat
    BY <1>2, <2>1, <2>2 DEF Retirement, RetiredInv, TypeOK
  <2>4. \A d \in docs : chunks[d] = None \/ chunks[d] > v
    BY <1>2, <2>2, NothingAssumption DEF Agreed
  <2>5. \A d \in docs : chunks'[d] = None \/ chunks'[d] > v
    BY <2>3, <2>4
  <2>6. QED
    BY <2>2, <2>5 DEF Agreed
<1>3. QED
  BY <1>1, <1>2

LEMMA RightfulKept ==
    ASSUME UNCHANGED <<born, builds, era>>, api'.at # "withdraw" => api.at # "withdraw",
           \A d \in Doc : chunks[d] # None => chunks'[d] # None
    PROVE  KeepsRightful
BY DEF KeepsRightful, Rightful, Cited

LEMMA InnocentKept ==
    ASSUME ~anew, BornInv, UNCHANGED born, stuck \subseteq stuck',
           \A j \in DOMAIN jobs : jobs'[j].status = "failed" => jobs[j].status = "failed"
    PROVE  KeepsInnocent
<1> SUFFICES ASSUME NEW b \in Build, builds[b] # None, Innocent(b) PROVE Innocent(b)'
  BY DEF KeepsInnocent
<1>1. PICK j \in DOMAIN jobs : j = born[b].job
  BY DEF BornInv, Bears
<1>2. QED
  BY <1>1 DEF Innocent

LEMMA CommitLeaves ==
    ASSUME TypeOK, ChunkInv, CommitUpload
    PROVE  \A d \in Doc : chunks'[d] \in {chunks[d], version + 1} /\ (chunks[d] # None => chunks'[d] # None)
<1>1. chunks' = [d \in Doc |-> IF d \in Elements(api.batch) THEN version + 1 ELSE chunks[d]]
  BY UploadKeeps DEF CommitUpload
<1>2. version + 1 # None
  BY Numbers
<1>3. QED
  BY <1>1, <1>2

LEMMA WikiOfRequests ==
    ASSUME TypeOK, IndexInv, JobInv, CallInv, BuildInv, BornInv, RetiredInv, WikiInv, ~anew, Requests \/ Submit
    PROVE  WikiInv'
<1>1. /\ UNCHANGED <<work, current, epoch, retired, born, builds, stuck>>
      /\ call'["worker"] = call["worker"]
      /\ api'.at # "withdraw" => api.at # "withdraw" /\ UNCHANGED era
  <2>1. CASE (Requests /\ ~Withdrawn) \/ Submit
    <3>1. UNCHANGED <<work, current, epoch, retired, born, builds, stuck, call>>
      BY <2>1 DEF Requests, Upload, UploadFails, CommitUpload, Submit, ClearIndex, repositoryVars, files, history
    <3>2. QED
      BY <2>1, <3>1, RequestsLeave DEF Submit, history
  <2>2. CASE Withdrawn
    BY <2>2, WithdrawnCalls, RequestsLeave, Callers DEF OthersCalls, history
  <2>3. QED
    BY <2>1, <2>2
<1>2. \A j \in DOMAIN jobs : jobs'[j] = jobs[j]
  BY RequestsLeave, SubmitAppends
<1>3. /\ \A d \in Doc : chunks'[d] \in {chunks[d], None, version + 1}
      /\ api'.at # "withdraw" => \A d \in Doc : chunks[d] # None => chunks'[d] # None
  <2>1. CASE CommitUpload
    BY <2>1, CommitLeaves DEF IndexInv
  <2>2. CASE ClearIndex
    BY <2>2 DEF ClearIndex
  <2>3. CASE (Requests /\ ~CommitUpload /\ ~ClearIndex) \/ Submit
    BY <2>3, RequestsLeave DEF Submit, index
  <2>4. QED
    BY <2>1, <2>2, <2>3
<1>4. KeepsAgreed
  BY <1>1, <1>3, AgreedKept
<1>5. KeepsRightful
  <2>1. CASE api'.at = "withdraw"
    BY <2>1 DEF KeepsRightful
  <2>2. CASE api'.at # "withdraw"
    BY <1>1, <1>3, <2>2, RightfulKept
  <2>3. QED
    BY <2>1, <2>2
<1>6. KeepsInnocent
  BY <1>1, <1>2, InnocentKept
<1>7. Steady
  BY <1>1, <1>2 DEF Steady
<1>8. QED
  BY <1>4, <1>5, <1>6, <1>7, SteadyKeeps DEF JobInv

LEMMA WikiOfWithdrawal ==
    ASSUME TypeOK, IndexInv, JobInv, CallInv, BuildInv, BornInv, RetiredInv, WikiInv, ~anew, WithdrawWiki
    PROVE  WikiInv'
<1>1. /\ UNCHANGED <<builds, index, work, born, retired, stuck, anew, era>> /\ current' = None /\ runlock = None
      /\ call'["worker"] = call["worker"] /\ JobsKept /\ epoch' = epoch + 1
      /\ \A j \in DOMAIN jobs : jobs'[j].status \in {jobs[j].status, "cancelled"}
  BY WithdrawCalls, WithdrawLeaves, Callers DEF OthersCalls, history
<1>2. work.at \notin {"publish", "undoing"}
  BY <1>1, NowhereAssumption DEF CallInv
<1>3. \A j \in DOMAIN jobs : jobs'[j].epoch # epoch'
  BY <1>1, Numbers DEF JobInv, EpochInv, JobsKept
<1>4. KeepsAgreed /\ KeepsInnocent
  BY <1>1, AgreedKept, InnocentKept DEF index
<1>5. PICK s, b, c : s = work.start /\ b = work.base /\ c = call["worker"].build
  OBVIOUS
<1>6. /\ work.at \in Begun => Exists(s) /\ Exists(b)
      /\ work.at = "create" => Exists(c)
  BY <1>5 DEF BuildInv, CallInv
<1>7. /\ \A a : Exists(a) /\ Agreed(a) => Agreed(a)'
      /\ \A a : Exists(a) /\ Innocent(a) => Innocent(a)'
  BY <1>4 DEF Exists, KeepsAgreed, KeepsInnocent, Agreed, Innocent
<1>8. /\ work.at = "decide" => work.next \in DOMAIN Job.batch
      /\ work.at \in Begun /\ s # None => born[s].job < work.job
      /\ work.at \in Begun => Agreed(s) /\ Innocent(s) /\ Innocent(b)
      /\ work.at = "create" => Innocent(c)
  BY <1>5 DEF WikiInv, BasesInv, FoundInv, MakingInv
<1>9. /\ work.at # "idle" => work.job \in DOMAIN jobs
      /\ work.at \in Begun \cup Public \cup {"decide"} => work.at # "idle"
  BY DEF JobInv, QueueInv, Begun, Public
<1>10. work.at # "idle" => jobs'[work.job].batch = jobs[work.job].batch /\ jobs'[work.job].version = jobs[work.job].version
  BY <1>1, <1>9 DEF JobsKept
<1>11. BasesInv'
  BY <1>1, <1>3, <1>5, <1>6, <1>7, <1>8, <1>9, <1>10 DEF BasesInv, FoundInv, MakingInv, Fresh, Job, Begun
<1>12. PointerInv'
  BY <1>1, <1>2, <1>9, <1>10 DEF WikiInv, PointerInv, Job, Candidates, Cited
<1>13. LiveInv'
  BY <1>1 DEF LiveInv, Rightful, Agreed, Innocent
<1>14. QED
  BY <1>11, <1>12, <1>13 DEF WikiInv

-----------------------------------------------------------------------------
(* The live wiki: the worker's steps *)

\* The index and the builds stay as they are.
Resting == UNCHANGED <<index, api, builds, born, era>> /\ stuck \subseteq stuck'

LEMMA RestingKeeps ==
    ASSUME TypeOK, RetiredInv, Resting
    PROVE  KeepsRightful /\ (UNCHANGED retired => KeepsAgreed)
<1>1. UNCHANGED <<chunks, version, api, builds, born, era>> /\ stuck \subseteq stuck'
  BY DEF Resting, index
<1>2. KeepsRightful
  BY <1>1, RightfulKept
<1>3. ASSUME UNCHANGED retired PROVE KeepsAgreed
  BY <1>1, <1>3, AgreedKept
<1>4. QED
  BY <1>2, <1>3

\* A job ends: what is live agrees with the index, and it is not the one that failed.
LEMMA EndOfJob ==
    ASSUME TypeOK, IndexInv, BuildInv, BornInv, RetiredInv, WikiInv, ~anew, Resting,
           UNCHANGED <<current, retired>>, work' = Idle,
           NEW l, l = current, Agreed(l), Innocent(l),
           l # None => \A j \in DOMAIN jobs :
             jobs'[j].status = "failed" /\ j = born[l].job => jobs[j].status = "failed"
    PROVE  WikiInv'
<1>1. work'.at = "idle" /\ UNCHANGED <<api, born, builds>> /\ stuck \subseteq stuck'
  BY IdleTyped DEF Resting
<1>2. BasesInv' /\ PointerInv'
  BY <1>1 DEF BasesInv, FoundInv, MakingInv, PointerInv, Begun, Public
<1>3. Exists(l)
  BY DEF BuildInv
<1>4. Agreed(l)'
  <2>1. CASE l = None
    BY <2>1 DEF Agreed
  <2>2. CASE l # None
    BY <1>3, <2>2, RestingKeeps DEF KeepsAgreed, Exists
  <2>3. QED
    BY <2>1, <2>2
<1>5. Innocent(l)'
  <2>1. CASE l = None
    BY <2>1 DEF Innocent
  <2>2. CASE l # None
    <3>1. PICK j \in DOMAIN jobs : j = born[l].job
      BY <1>3, <2>2 DEF BornInv, Bears, Exists
    <3>2. QED
      BY <1>1, <2>2, <3>1 DEF Innocent
  <2>3. QED
    BY <2>1, <2>2
<1>6. api'.at # "withdraw" => Rightful(l)'
  <2>1. CASE l = None
    BY <2>1 DEF Rightful
  <2>2. CASE l # None
    <3>1. api.at # "withdraw" => Rightful(l)
      BY DEF WikiInv, LiveInv
    <3>2. QED
      BY <1>3, <2>2, <3>1, RestingKeeps DEF KeepsRightful, Exists
  <2>3. QED
    BY <2>1, <2>2
<1>7. LiveInv'
  BY <1>4, <1>5, <1>6 DEF LiveInv
<1>8. QED
  BY <1>2, <1>7 DEF WikiInv

\* A job fails while what it found is live, or nothing.
LEMMA FailureSpares ==
    ASSUME TypeOK, QueueInv, BuildInv, BornInv, WikiInv, ~anew, work.at \in Begun, JobFails,
           NEW l, l = current, l \in {work.start, None}
    PROVE  /\ Agreed(l) /\ Innocent(l)
           /\ l # None => \A j \in DOMAIN jobs :
                jobs'[j].status = "failed" /\ j = born[l].job => jobs[j].status = "failed"
<1>1. Agreed(l) /\ Innocent(l)
  <2>1. CASE l = None
    BY <2>1, NothingRight
  <2>2. CASE l = work.start
    BY <2>2 DEF WikiInv, BasesInv, FoundInv, MakingInv
  <2>3. QED
    BY <2>1, <2>2
<1>2. l # None => born[l].job < work.job
  BY DEF WikiInv, BasesInv, FoundInv, MakingInv
<1>3. l # None => born[l].job \in DOMAIN jobs
  BY DEF BuildInv, Exists, BornInv, Bears
<1>4. \A j \in DOMAIN jobs : j \in Nat /\ (j # work.job => jobs'[j].status = jobs[j].status)
  BY Failing, Numbers DEF Begun
<1>5. work.job \in Nat
  BY JobTyped DEF Begun
<1>6. QED
  BY <1>1, <1>2, <1>3, <1>4, <1>5

LEMMA WikiOfStarts ==
    ASSUME TypeOK, IndexInv, JobInv, CallInv, BuildInv, BornInv, RetiredInv, WikiInv, ~anew, Starts
    PROVE  WikiInv'
<1>1. /\ UNCHANGED <<api, epoch, era, born, retired, stuck, builds, current, call, index>> /\ JobsKept
      /\ \A j \in DOMAIN jobs : jobs'[j].status = "failed" => jobs[j].status = "failed"
      /\ work.at \in {"idle", "accepted", "begin"}
  BY StartsWith DEF JobInv
<1>2. PICK l : l = current
  OBVIOUS
<1>3. Exists(l) /\ Agreed(l) /\ Innocent(l) /\ (api.at # "withdraw" => Rightful(l))
  BY <1>1, <1>2 DEF WikiInv, LiveInv, BuildInv
<1>4. KeepsRightful /\ KeepsAgreed
  BY <1>1, RestingKeeps DEF Resting
<1>5. KeepsInnocent
  BY <1>1, InnocentKept
<1>6. Agreed(l)' /\ Innocent(l)' /\ (api'.at # "withdraw" => Rightful(l)')
  BY <1>3, <1>4, <1>5 DEF Exists, KeepsAgreed, KeepsInnocent, KeepsRightful, Agreed, Innocent, Rightful
<1>7. LiveInv'
  BY <1>1, <1>2, <1>6 DEF LiveInv
<1>8. CASE work'.at \in {"idle", "accepted", "begin"}
  <2>1. BasesInv' /\ PointerInv'
    BY <1>8 DEF BasesInv, FoundInv, MakingInv, PointerInv, Begun, Public
  <2>2. QED
    BY <1>7, <2>1 DEF WikiInv
<1>9. CASE /\ work'.at = "document" /\ work' \in Works /\ work'.job = work.job /\ work.at = "begin"
           /\ work'.start = current /\ work'.base = current /\ UNCHANGED <<jobs, queue>>
  <2>1. l # None => born[l].job < work.job
    BY <1>2, <1>3, <1>9 DEF BornInv, Bears, Exists
  <2>2. BasesInv'
    BY <1>1, <1>2, <1>6, <1>9, <2>1 DEF BasesInv, FoundInv, MakingInv, Fresh
  <2>3. PointerInv'
    BY <1>1, <1>9 DEF PointerInv, Public
  <2>4. QED
    BY <1>7, <2>2, <2>3 DEF WikiInv
<1>10. QED
  BY <1>8, <1>9, StartsWith DEF JobInv

\* The job goes on with what it found and what it has made.
LEMMA FoundKept ==
    ASSUME BuildInv, WikiInv, KeepsRightful, KeepsAgreed, KeepsInnocent,
           UNCHANGED <<api, epoch, jobs>>, \A a \in Build : builds[a] # None => born'[a] = born[a],
           work.at \in Begun \ {"finish"}, work'.job = work.job, work'.start = work.start, work'.base = work.base
    PROVE  FoundInv'
<1>1. PICK s, b : s = work.start /\ b = work.base
  OBVIOUS
<1>2. Exists(s) /\ Exists(b)
  BY <1>1 DEF BuildInv
<1>3. /\ \A a : Exists(a) /\ Agreed(a) => Agreed(a)'
      /\ \A a : Exists(a) /\ Innocent(a) => Innocent(a)'
      /\ api'.at # "withdraw" => api.at # "withdraw" /\ \A a : Exists(a) /\ Rightful(a) => Rightful(a)'
  BY DEF Exists, KeepsAgreed, KeepsInnocent, KeepsRightful, Agreed, Innocent, Rightful
<1>4. /\ s # None => born[s].job < work.job
      /\ Agreed(s) /\ Innocent(s) /\ Innocent(b)
      /\ Fresh(work.job) => Rightful(s) /\ Rightful(b)
  BY <1>1 DEF WikiInv, BasesInv, FoundInv
<1>5. s # None => born'[s] = born[s]
  BY <1>2 DEF Exists
<1>6. QED
  BY <1>1, <1>2, <1>3, <1>4, <1>5 DEF FoundInv, Fresh

LEMMA LiveKept ==
    ASSUME BuildInv, WikiInv, KeepsRightful, UNCHANGED <<api, current>>,
           work'.at \notin {"idle", "accepted", "begin", "finish"}
    PROVE  LiveInv'
<1>1. PICK l : l = current
  OBVIOUS
<1>2. Exists(l) /\ (api.at # "withdraw" => Rightful(l))
  BY <1>1 DEF BuildInv, WikiInv, LiveInv
<1>3. api'.at # "withdraw" => Rightful(l)'
  BY <1>2 DEF Exists, KeepsRightful, Rightful
<1>4. QED
  BY <1>1, <1>3 DEF LiveInv

LEMMA WikiOfGoingOn ==
    ASSUME TypeOK, IndexInv, JobInv, CallInv, BuildInv, BornInv, RetiredInv, WikiInv, ~anew,
           GoesOn, ~RetireDocuments
    PROVE  WikiInv'
<1>1. /\ UNCHANGED <<api, epoch, era, born, retired, stuck, builds, current, call, index, jobs>> /\ SameWork
      /\ \/ work.at = "document" /\ work'.at = "decide"
         \/ work.at = "decide" /\ work'.at = "document"
         \/ work.at = "retire" /\ work'.at = "finish" /\ NothingToRetire
         \/ work.at = "retire" /\ work'.at = "retiring"
         \/ work.at = "retiring" /\ work'.at = "undo"
  BY GoesOnWith DEF Unmoved
<1>2. KeepsRightful /\ KeepsAgreed /\ KeepsInnocent
  BY <1>1, RestingKeeps, InnocentKept DEF Resting
<1>3. FoundInv'
  BY <1>1, <1>2, FoundKept DEF Begun, SameWork
<1>4. MakingInv'
  <2>1. CASE NextDocument
    <3>1. work.at = "document" /\ work \in Works /\ work.next <= Len(Job.batch)
          /\ \E c \in Content : work' = [work EXCEPT !.at = "decide", !.saved = Short[c]]
      BY <2>1 DEF NextDocument, TypeOK, Begun
    <3>2. work'.next = work.next /\ work.next \in Nat \ {0} /\ Job.batch \in Seq(Doc)
      BY <3>1, NextTyped, JobTyped DEF Works, JobInv
    <3>3. work'.next \in DOMAIN Job.batch
      BY <3>1, <3>2
    <3>4. QED
      BY <1>1, <3>1, <3>3 DEF MakingInv, Job, SameWork
  <2>2. CASE ~NextDocument
    <3>1. work'.at \notin {"decide", "create"}
      BY <1>1, <2>2 DEF GoesOn, Ignore, NothingToRetire, CallRetirement, RetirementFails
    <3>2. QED
      BY <3>1 DEF MakingInv
  <2>3. QED
    BY <2>1, <2>2
<1>5. PointerInv'
  BY <1>1 DEF WikiInv, PointerInv, Public, Stale, Job, Candidates, Cited, SameWork
<1>6. CASE work'.at # "finish"
  <2>1. LiveInv'
    BY <1>1, <1>2, <1>6, LiveKept
  <2>2. QED
    BY <1>3, <1>4, <1>5, <2>1 DEF WikiInv, BasesInv
<1>7. CASE NothingToRetire
  <2>1. PICK l, b : l = current /\ b = work.base
    OBVIOUS
  <2>2. work.at = "retire" /\ (Candidates = {} \/ Stale(work.job))
    BY <1>7 DEF NothingToRetire
  <2>3. /\ l \in {b, None} /\ (Stale(work.job) => l = None)
        /\ retired[b] = [docs |-> Candidates, version |-> Job.version]
    BY <2>1, <2>2 DEF WikiInv, PointerInv, Public
  <2>4. Agreed(l)
    <3>1. CASE l = None
      BY <3>1, NothingRight
    <3>2. CASE l = b /\ Candidates = {}
      BY <2>3, <3>2 DEF Agreed
    <3>3. QED
      BY <2>2, <2>3, <3>1, <3>2
  <2>5. Innocent(l)
    BY <2>1, <2>2, <2>3, NothingRight DEF WikiInv, BasesInv, FoundInv, Begun
  <2>6. Exists(l) /\ (api.at # "withdraw" => Rightful(l))
    BY <2>1 DEF BuildInv, WikiInv, LiveInv
  <2>7. Agreed(l)' /\ Innocent(l)' /\ (api'.at # "withdraw" => Rightful(l)')
    BY <1>2, <2>4, <2>5, <2>6 DEF Exists, KeepsAgreed, KeepsInnocent, KeepsRightful, Agreed, Innocent, Rightful
  <2>8. LiveInv'
    BY <1>1, <2>1, <2>7 DEF LiveInv
  <2>9. QED
    BY <1>3, <1>4, <1>5, <2>8 DEF WikiInv, BasesInv
<1>8. QED
  BY <1>1, <1>6, <1>7

LEMMA WikiOfStops ==
    ASSUME TypeOK, IndexInv, JobInv, CallInv, BuildInv, BornInv, RetiredInv, WikiInv, ~anew, Stops
    PROVE  WikiInv'
<1>1. /\ Resting /\ UNCHANGED <<current, retired>> /\ work' = Idle
      /\ \A j \in DOMAIN jobs : jobs'[j].status = "failed" =>
           jobs[j].status = "failed" \/ (j = work.job /\ (CompilationFails \/ LeaveUndone))
  BY StopsWith DEF JobInv, Unmoved, Resting
<1>2. PICK l : l = current
  OBVIOUS
<1>3. CASE CompilationFails
  <2>1. work.at = "decide" /\ JobFails /\ work.at \in Begun
    BY <1>3 DEF CompilationFails, Begun
  <2>2. l \in {work.start, None}
    BY <1>2, <2>1 DEF WikiInv, PointerInv
  <2>3. QED
    BY <1>1, <1>2, <2>1, <2>2, FailureSpares, EndOfJob DEF JobInv
<1>4. CASE LeaveUndone
  <2>1. l = None
    BY <1>2, <1>4 DEF LeaveUndone, WikiInv, PointerInv, Public
  <2>2. QED
    BY <1>1, <1>2, <2>1, NothingRight, EndOfJob
<1>5. CASE ~CompilationFails /\ ~LeaveUndone
  <2>1. work.at = "document" \/ work.at = "finish"
    BY <1>5 DEF Stops, CancelDocument, EndUnpublished, BatchDone, Finish
  <2>2. Agreed(l) /\ Innocent(l)
    <3>1. CASE work.at = "document"
      BY <1>2, <3>1, NothingRight DEF WikiInv, PointerInv, BasesInv, FoundInv, Begun
    <3>2. CASE work.at = "finish"
      BY <1>2, <3>2 DEF WikiInv, LiveInv
    <3>3. QED
      BY <2>1, <3>1, <3>2
  <2>3. QED
    BY <1>1, <1>2, <1>5, <2>2, EndOfJob
<1>6. QED
  BY <1>3, <1>4, <1>5

\* What the publication superseded leaves the index, and nothing of what it cites.
LEMMA WikiOfRetirement ==
    ASSUME TypeOK, IndexInv, JobInv, CallInv, BuildInv, BornInv, RetiredInv, WikiInv, ~anew, RetireDocuments
    PROVE  WikiInv'
<1>1. /\ UNCHANGED <<api, epoch, era, born, retired, stuck, builds, current, call, jobs>> /\ SameWork
      /\ work.at = "retiring" /\ work'.at = "finish"
  BY GoesOnWith DEF Unmoved, GoesOn, RetireDocuments
<1>2. /\ \A d \in Doc : chunks'[d] = IF d \in Retirable THEN None ELSE chunks[d]
      /\ \A d \in Doc : chunks'[d] \in {chunks[d], None}
  BY DEF RetireDocuments, index, TypeOK
<1>3. KeepsAgreed /\ KeepsInnocent
  BY <1>1, <1>2, AgreedKept, InnocentKept
<1>4. PICK s, b, l : s = work.start /\ b = work.base /\ l = current
  OBVIOUS
<1>5. /\ Exists(s) /\ Exists(b) /\ b # None /\ l \in {b, None}
      /\ retired[b] = [docs |-> Candidates, version |-> Job.version]
      /\ s # None => born[s].job < work.job
      /\ Agreed(s) /\ Innocent(s) /\ Innocent(b)
      /\ Fresh(work.job) => Rightful(b)
      /\ api.at # "withdraw" => Rightful(l)
  BY <1>1, <1>4 DEF BuildInv, WikiInv, BasesInv, FoundInv, PointerInv, LiveInv, Begun, Public
<1>6. \A d \in Cited(b) : chunks'[d] = chunks[d]
  BY <1>2, <1>4 DEF Retirable, Candidates, Cited
<1>7. Rightful(b) => Rightful(b)'
  BY <1>1, <1>6 DEF Rightful, Cited
<1>8. Agreed(b)'
  <2>1. PICK docs, v : docs = Candidates /\ v = Job.version
    OBVIOUS
  <2>2. v \in Nat /\ docs \subseteq Doc
    BY <1>1, <2>1, JobTyped DEF JobInv, Candidates, SameWork, Works
  <2>3. \A d \in docs : chunks'[d] = None \/ chunks'[d] > v
    BY <1>2, <2>1, <2>2, Numbers DEF Retirable, IndexInv, ChunkInv
  <2>4. retired'[b].docs = docs /\ retired'[b].version = v
    BY <1>1, <1>5, <2>1
  <2>5. QED
    BY <2>3, <2>4 DEF Agreed
<1>9. Agreed(s)' /\ Innocent(s)' /\ Innocent(b)'
  BY <1>3, <1>5, NothingRight DEF Exists, KeepsAgreed, KeepsInnocent, Agreed, Innocent
<1>10. FoundInv'
  BY <1>1, <1>4, <1>5, <1>7, <1>9 DEF FoundInv, Fresh, SameWork
<1>11. MakingInv' /\ PointerInv'
  BY <1>1 DEF MakingInv, PointerInv, Public
<1>12. LiveInv'
  <2>1. CASE l = None
    BY <1>1, <1>4, <2>1 DEF LiveInv, Rightful, Agreed, Innocent
  <2>2. CASE l = b
    BY <1>1, <1>4, <1>5, <1>7, <1>8, <1>9, <2>2 DEF LiveInv
  <2>3. QED
    BY <1>5, <2>1, <2>2
<1>13. QED
  BY <1>10, <1>11, <1>12 DEF WikiInv, BasesInv

\* The document of the upload that a draft is made from is in the index.
LEMMA IncomingHeld ==
    ASSUME TypeOK, IndexInv, JobInv, WikiInv, work.at = "decide", Fresh(work.job)
    PROVE  Job.batch[work.next] \in Doc /\ chunks[Job.batch[work.next]] # None
<1>1. work.next \in DOMAIN Job.batch /\ Job.batch \in Seq(Doc)
  BY JobTyped DEF WikiInv, BasesInv, MakingInv, JobInv
<1>2. Uploaded(Job.batch, Job.version)
  BY DEF JobInv, HeldInv, Unretired
<1>3. PICK d : d = Job.batch[work.next]
  OBVIOUS
<1>4. d \in Doc /\ d \in Elements(Job.batch)
  BY <1>1, <1>3 DEF Elements
<1>5. uploaded[d] # None
  BY <1>2, <1>4 DEF Uploaded
<1>6. QED
  BY <1>3, <1>4, <1>5 DEF IndexInv, ChunkInv

\* A draft cites what the job's own document and the build it extends give it.
LEMMA DraftIsRightful ==
    ASSUME TypeOK, IndexInv, JobInv, BuildInv, WikiInv, work.at = "decide", Fresh(work.job), NEW superseded,
           NEW d \in Doc, EffectiveDocuments(Job.batch[work.next], superseded)[d] # None
    PROVE  chunks[d] # None
<1>1. CASE d = Job.batch[work.next]
  BY <1>1, IncomingHeld
<1>2. CASE d # Job.batch[work.next]
  <2>1. ActiveDocuments[d] # None
    BY <1>2 DEF EffectiveDocuments
  <2>2. PICK a : a = Base
    OBVIOUS
  <2>3. a # None /\ builds[a][d] # None
    BY <2>1, <2>2 DEF ActiveDocuments
  <2>4. Rightful(a)
    <3>1. Rightful(work.base) /\ Rightful(work.start) /\ current \in {work.start, None}
      BY DEF WikiInv, BasesInv, FoundInv, PointerInv, Begun
    <3>2. a = work.base \/ a = current
      BY <2>2 DEF Base
    <3>3. CASE a = work.base
      BY <3>1, <3>3
    <3>4. CASE a = work.start
      BY <3>1, <3>4
    <3>5. QED
      BY <2>3, <3>1, <3>2, <3>3, <3>4
  <2>5. QED
    BY <2>3, <2>4 DEF Rightful, Cited
<1>3. QED
  BY <1>1, <1>2

LEMMA WikiOfUpdate ==
    ASSUME TypeOK, IndexInv, JobInv, CallInv, BuildInv, BornInv, RetiredInv, WikiInv, ~anew, Update
    PROVE  WikiInv'
<1>1. /\ UNCHANGED <<current, api, index, jobs, epoch, era, retired, stuck>>
      /\ work.at = "decide" /\ work' \in Works /\ work'.at = "create"
      /\ work'.job = work.job /\ work'.start = work.start /\ work'.base = work.base
  BY UpdateCalls
<1>2. PICK b \in Build, superseded \in SUBSET Doc :
        /\ builds[b] = None
        /\ builds' = [builds EXCEPT ![b] = EffectiveDocuments(Job.batch[work.next], superseded)]
        /\ call'["worker"].build = b
        /\ born' = [a \in Build |-> IF a = b THEN [era |-> era, job |-> work.job] ELSE born[a]]
  BY UpdateCalls
<1>3. /\ builds'[b] = EffectiveDocuments(Job.batch[work.next], superseded)
      /\ \A a \in Build : builds[a] # None => builds'[a] = builds[a] /\ born'[a] = born[a]
  BY <1>2 DEF TypeOK, RepositoryTypeOK
<1>4. KeepsAgreed
  BY <1>1, AgreedKept DEF index
<1>5. KeepsRightful
  BY <1>1, <1>3 DEF KeepsRightful, Rightful, Cited, index
<1>6. KeepsInnocent
  BY <1>1, <1>3 DEF KeepsInnocent, Innocent
<1>7. FoundInv'
  BY <1>1, <1>3, <1>4, <1>5, <1>6, FoundKept DEF Begun
<1>8. Innocent(b)'
  <2>1. born'[b].job = work.job
    BY <1>2
  <2>2. Job.status # "failed"
    BY <1>1 DEF JobInv, StatusInv
  <2>3. QED
    BY <1>1, <2>1, <2>2 DEF Innocent, Job
<1>9. Fresh(work.job) => Rightful(b)'
  <2>1. SUFFICES ASSUME Fresh(work.job) PROVE Rightful(b)'
    OBVIOUS
  <2>2. born'[b].era = era
    BY <1>2
  <2>3. \A d \in Doc : builds'[b][d] # None => chunks[d] # None
    BY <1>1, <1>3, <2>1, DraftIsRightful
  <2>4. QED
    BY <1>1, <2>2, <2>3 DEF Rightful, Cited, index
<1>10. MakingInv'
  BY <1>1, <1>2, <1>8, <1>9 DEF MakingInv, Fresh
<1>11. PointerInv'
  BY <1>1 DEF WikiInv, PointerInv, Public
<1>12. LiveInv'
  BY <1>1, <1>5, LiveKept
<1>13. QED
  BY <1>7, <1>10, <1>11, <1>12 DEF WikiInv, BasesInv

LEMMA WikiOfCreated ==
    ASSUME TypeOK, IndexInv, JobInv, CallInv, BuildInv, BornInv, RetiredInv, WikiInv, ~anew, Created
    PROVE  WikiInv'
<1>1. /\ UNCHANGED <<api, epoch, era, born, builds, current, index, retired, stuck>> /\ Resting
      /\ work.at = "create" /\ work.at \in Begun
      /\ \/ /\ work' \in Works /\ work'.at = "document" /\ work'.job = work.job
            /\ work'.start = work.start /\ work'.base = call["worker"].build /\ UNCHANGED jobs
         \/ work' = Idle
  BY CreatedCalls DEF JobInv, Around, Resting, Begun
<1>2. CASE /\ work' \in Works /\ work'.at = "document" /\ work'.job = work.job
           /\ work'.start = work.start /\ work'.base = call["worker"].build /\ UNCHANGED jobs
  <2>1. KeepsRightful /\ KeepsAgreed /\ KeepsInnocent
    BY <1>1, <1>2, RestingKeeps, InnocentKept DEF Resting
  <2>2. PICK s, c : s = work.start /\ c = call["worker"].build
    OBVIOUS
  <2>3. /\ Exists(s) /\ Exists(c)
        /\ s # None => born[s].job < work.job
        /\ Agreed(s) /\ Innocent(s) /\ Innocent(c)
        /\ Fresh(work.job) => Rightful(s) /\ Rightful(c)
    BY <1>1, <2>2 DEF BuildInv, CallInv, WikiInv, BasesInv, FoundInv, MakingInv, Begun
  <2>4. Agreed(s)' /\ Innocent(s)' /\ Innocent(c)' /\ (Fresh(work.job) => Rightful(s)' /\ Rightful(c)')
    BY <1>1, <2>1, <2>3 DEF Exists, KeepsAgreed, KeepsInnocent, KeepsRightful, Agreed, Innocent, Rightful, Fresh
  <2>5. FoundInv' /\ MakingInv'
    BY <1>1, <1>2, <2>2, <2>3, <2>4 DEF FoundInv, MakingInv, Fresh
  <2>6. PointerInv'
    BY <1>1, <1>2 DEF WikiInv, PointerInv, Public
  <2>7. LiveInv'
    BY <1>1, <1>2, <2>1, LiveKept
  <2>8. QED
    BY <2>5, <2>6, <2>7 DEF WikiInv, BasesInv
<1>3. CASE work' = Idle
  <2>1. JobFails
    <3>1. call["worker"].at # "done"
      BY <1>1, <1>3, IdleTyped, NextTyped DEF Created, Begun, Works, TypeOK
    <3>2. QED
      BY <3>1 DEF Created
  <2>2. PICK l : l = current /\ l \in {work.start, None}
    BY <1>1 DEF WikiInv, PointerInv
  <2>3. QED
    BY <1>1, <1>3, <2>1, <2>2, FailureSpares, EndOfJob DEF JobInv
<1>4. QED
  BY <1>1, <1>2, <1>3

LEMMA WikiOfPublishing ==
    ASSUME TypeOK, IndexInv, JobInv, CallInv, BuildInv, BornInv, RetiredInv, WikiInv, ~anew, PublishJob
    PROVE  WikiInv'
<1>1. /\ UNCHANGED <<api, epoch, era, born, builds, current, index, retired, stuck, jobs>>
      /\ work.at = "document" /\ work'.at = "publish" /\ ~Stale(work.job)
      /\ work'.job = work.job /\ work'.start = work.start /\ work'.base = work.base
      /\ call'["worker"].at = "save"
  BY PublishCalls DEF Around
<1>2. KeepsRightful /\ KeepsAgreed /\ KeepsInnocent
  BY <1>1, RestingKeeps, InnocentKept DEF Resting
<1>3. FoundInv'
  BY <1>1, <1>2, FoundKept DEF Begun
<1>4. MakingInv'
  BY <1>1 DEF MakingInv
<1>5. PointerInv'
  BY <1>1 DEF WikiInv, PointerInv, Public, Stale
<1>6. LiveInv'
  BY <1>1, <1>2, LiveKept
<1>7. QED
  BY <1>3, <1>4, <1>5, <1>6 DEF WikiInv, BasesInv

LEMMA WikiOfPublished ==
    ASSUME TypeOK, IndexInv, JobInv, CallInv, BuildInv, BornInv, RetiredInv, WikiInv, ~anew, Published
    PROVE  WikiInv'
<1>1. /\ UNCHANGED <<api, epoch, era, born, builds, current, index, stuck>> /\ Resting
      /\ work.at = "publish" /\ work.at \in Begun /\ work \in Works /\ work.base \in Build
      /\ \/ /\ call["worker"].at = "done"
            /\ work' \in Works /\ work'.at = "retire" /\ work'.job = work.job
            /\ work'.start = work.start /\ work'.base = work.base
            /\ work'.superseded = work.superseded /\ UNCHANGED jobs
            /\ retired' = [retired EXCEPT ![work.base] = [docs |-> Candidates, version |-> Job.version]]
         \/ call["worker"].at # "done" /\ work' = Idle /\ JobFails /\ UNCHANGED retired
  BY PublishedCalls DEF Around, Resting, Begun
<1>2. CASE call["worker"].at = "done"
  <2>1. KeepsRightful /\ KeepsInnocent
    BY <1>1, <1>2, RestingKeeps, InnocentKept DEF Resting
  <2>2. PICK s, b : s = work.start /\ b = work.base
    OBVIOUS
  <2>3. /\ Exists(s) /\ Exists(b) /\ s # b
        /\ s # None => born[s].job < work.job
        /\ Agreed(s) /\ Innocent(s) /\ Innocent(b)
        /\ Fresh(work.job) => Rightful(s) /\ Rightful(b)
        /\ current = b /\ ~Stale(work.job)
    BY <1>1, <1>2, <2>2 DEF BuildInv, WikiInv, BasesInv, FoundInv, PointerInv, Stale
  <2>4. PICK gone : gone = [docs |-> Candidates, version |-> Job.version]
    OBVIOUS
  <2>5. retired' = [retired EXCEPT ![b] = gone] /\ retired \in [Build -> Retirement \cup {None}] /\ b \in Build
    BY <1>1, <1>2, <2>2, <2>4 DEF TypeOK
  <2>6. Agreed(s)'
    <3>1. s # None => s \in Build /\ retired'[s] = retired[s]
      BY <2>3, <2>5 DEF Exists
    <3>2. QED
      BY <1>1, <2>3, <3>1 DEF Agreed, index
  <2>7. Innocent(s)' /\ Innocent(b)' /\ (Fresh(work.job) => Rightful(s)' /\ Rightful(b)')
    BY <1>1, <2>1, <2>3 DEF Exists, KeepsInnocent, KeepsRightful, Innocent, Rightful, Fresh
  <2>8. FoundInv'
    BY <1>1, <1>2, <2>2, <2>3, <2>6, <2>7 DEF FoundInv, Fresh
  <2>9. MakingInv'
    BY <1>1, <1>2 DEF MakingInv
  <2>10. PointerInv'
    <3>1. retired'[b] = gone
      BY <2>5
    <3>2. gone = [docs |-> Candidates', version |-> Job'.version]
      BY <1>1, <1>2, <2>4 DEF Candidates, Cited, Job
    <3>3. QED
      BY <1>1, <1>2, <2>2, <2>3, <3>1, <3>2 DEF PointerInv, Public, Stale
  <2>11. LiveInv'
    BY <1>1, <1>2, <2>1, LiveKept
  <2>12. QED
    BY <2>8, <2>9, <2>10, <2>11 DEF WikiInv, BasesInv
<1>3. CASE call["worker"].at # "done"
  <2>1. PICK l : l = current /\ l \in {work.start, None}
    BY <1>1, <1>3 DEF WikiInv, PointerInv
  <2>2. QED
    BY <1>1, <1>3, <2>1, FailureSpares, EndOfJob DEF JobInv
<1>4. QED
  BY <1>2, <1>3

LEMMA WikiOfUndo ==
    ASSUME TypeOK, IndexInv, JobInv, CallInv, BuildInv, BornInv, RetiredInv, WikiInv, ~anew, Undo
    PROVE  WikiInv'
<1>1. /\ UNCHANGED <<api, epoch, era, born, builds, index, retired, stuck, jobs>>
      /\ work.at = "undo" /\ work'.at = "undoing" /\ ~Stale(work.job) /\ current = work.base
      /\ work'.job = work.job /\ work'.start = work.start /\ work'.base = work.base
      /\ work'.superseded = work.superseded
      /\ \/ current' = None /\ call'["worker"].op = "retract"
         \/ current' = current /\ call'["worker"].at = "save"
  BY UndoCalls DEF Around
<1>2. KeepsRightful /\ KeepsAgreed /\ KeepsInnocent
  BY <1>1, RestingKeeps, InnocentKept DEF Resting
<1>3. FoundInv'
  BY <1>1, <1>2, FoundKept DEF Begun
<1>4. MakingInv'
  BY <1>1 DEF MakingInv
<1>5. PointerInv'
  BY <1>1 DEF WikiInv, PointerInv, Public, Stale, Candidates, Cited, Job
<1>6. LiveInv'
  <2>1. CASE current' = None
    BY <1>1, <2>1 DEF LiveInv, Rightful
  <2>2. CASE current' = current
    BY <1>1, <1>2, <2>2, LiveKept
  <2>3. QED
    BY <1>1, <2>1, <2>2
<1>7. QED
  BY <1>3, <1>4, <1>5, <1>6 DEF WikiInv, BasesInv

LEMMA WikiOfUndone ==
    ASSUME TypeOK, IndexInv, JobInv, CallInv, BuildInv, BornInv, RetiredInv, WikiInv, ~anew, Undone
    PROVE  WikiInv'
<1>1. /\ UNCHANGED <<current, retired>> /\ Resting /\ work' = Idle /\ JobFails
      /\ work.at = "undoing" /\ work.at \in Begun
      /\ call["worker"].at \in {"done", "failed"}
      /\ stuck' = IF call["worker"].at = "done" THEN stuck ELSE stuck \cup {work.base}
  BY UndoneCalls DEF Around, Resting, Begun
<1>2. \/ call["worker"].op = "retract" /\ current = None
      \/ /\ call["worker"].op = "switch"
         /\ current \in IF call["worker"].at = "done" THEN {work.start} ELSE {work.base}
  BY <1>1 DEF CallInv, WikiInv, PointerInv
<1>3. CASE current \in {work.start, None}
  <2>1. PICK l : l = current /\ l \in {work.start, None}
    BY <1>3
  <2>2. QED
    BY <1>1, <2>1, FailureSpares, EndOfJob DEF JobInv
<1>4. CASE current = work.base /\ work.base \in stuck'
  <2>1. BasesInv' /\ PointerInv'
    BY <1>1, IdleTyped DEF BasesInv, FoundInv, MakingInv, PointerInv, Begun, Public
  <2>2. KeepsRightful
    BY <1>1, RestingKeeps
  <2>3. PICK l : l = current
    OBVIOUS
  <2>4. Exists(l) /\ (api.at # "withdraw" => Rightful(l))
    BY <2>3 DEF BuildInv, WikiInv, LiveInv
  <2>5. api'.at # "withdraw" => Rightful(l)'
    BY <2>2, <2>4 DEF Exists, KeepsRightful, Rightful
  <2>6. Agreed(l)' /\ Innocent(l)'
    BY <1>4, <2>3 DEF Agreed, Innocent
  <2>7. LiveInv'
    BY <1>1, <2>3, <2>5, <2>6 DEF LiveInv
  <2>8. QED
    BY <2>1, <2>7 DEF WikiInv
<1>5. QED
  BY <1>1, <1>2, <1>3, <1>4

\* A call goes on, and comes to the pointer at last.
LEMMA WikiOfStep ==
    ASSUME TypeOK, IndexInv, JobInv, CallInv, BuildInv, BornInv, RetiredInv, WikiInv, ~anew,
           NEW p \in Caller, Step(p)
    PROVE  WikiInv'
<1>1. /\ UNCHANGED <<api, epoch, era, born, builds, index, retired, stuck, jobs, work>>
      /\ OthersCalls(p) /\ Goes(p)
  BY StepGoes DEF Step, history, TypeOK
<1>2. KeepsRightful /\ KeepsAgreed /\ KeepsInnocent
  BY <1>1, RestingKeeps, InnocentKept DEF Resting
<1>3. CASE p = "api"
  <2>1. call'["worker"] = call["worker"] /\ current' = current
    BY <1>1, <1>3, Callers DEF OthersCalls, Goes, CallInv
  <2>2. Steady
    BY <1>1, <2>1 DEF Steady
  <2>3. QED
    BY <1>2, <2>2, SteadyKeeps DEF JobInv
<1>4. CASE p = "worker"
  <2>1. /\ work.at \in {"create", "publish", "undoing"} /\ work.at \in Begun \ {"finish"}
        /\ call'["worker"].op = call["worker"].op /\ call'["worker"].build = call["worker"].build
        /\ call["worker"].at # "done"
    BY <1>1, <1>4 DEF Goes, CallInv, Begun
  <2>2. FoundInv'
    BY <1>1, <1>2, <2>1, FoundKept
  <2>3. MakingInv'
    <3>1. PICK c : c = call["worker"].build
      OBVIOUS
    <3>2. work.at = "create" => Exists(c) /\ Innocent(c) /\ (Fresh(work.job) => Rightful(c))
      BY <3>1 DEF BuildInv, CallInv, WikiInv, BasesInv, MakingInv
    <3>3. work.at = "create" => Innocent(c)' /\ (Fresh(work.job) => Rightful(c)')
      BY <1>1, <1>2, <3>2 DEF Exists, KeepsInnocent, KeepsRightful, Innocent, Rightful, Fresh
    <3>4. QED
      BY <1>1, <2>1, <3>1, <3>3 DEF MakingInv, Fresh
  <2>4. CASE call["worker"].at = "pointer" /\ call'["worker"].at = "done"
    <3>1. current' = call["worker"].build /\ call["worker"].op = "switch"
      BY <1>1, <1>4, <2>4, Callers DEF Goes, CallInv
    <3>2. PICK l : l = call["worker"].build
      OBVIOUS
    <3>3. /\ \/ work.at = "publish" /\ l = work.base
             \/ work.at = "undoing" /\ l = work.start
          /\ jobs[work.job].epoch = epoch
      BY <2>1, <3>1, <3>2 DEF CallInv, WikiInv, PointerInv
    <3>4. Exists(l) /\ (api.at # "withdraw" => Rightful(l))
      BY <2>1, <3>3 DEF BuildInv, WikiInv, BasesInv, FoundInv, Fresh
    <3>5. api'.at # "withdraw" => Rightful(l)'
      BY <1>2, <3>4 DEF Exists, KeepsRightful, Rightful
    <3>6. LiveInv'
      BY <1>1, <2>1, <3>1, <3>2, <3>5 DEF LiveInv
    <3>7. PointerInv'
      BY <1>1, <2>1, <2>4, <3>1, <3>2, <3>3 DEF WikiInv, PointerInv, Public, Stale, Candidates, Cited, Job
    <3>8. QED
      BY <2>2, <2>3, <3>6, <3>7 DEF WikiInv, BasesInv
  <2>5. CASE ~(call["worker"].at = "pointer" /\ call'["worker"].at = "done")
    <3>1. current' = current /\ (call'["worker"].at = "done" => call["worker"].op # "switch")
      BY <1>1, <1>4, <2>5 DEF Goes
    <3>2. LiveInv'
      BY <1>1, <1>2, <2>1, <3>1, LiveKept
    <3>3. work.at = "publish" => call["worker"].op = "switch"
      BY DEF CallInv
    <3>4. PointerInv'
      BY <1>1, <2>1, <3>1, <3>3 DEF WikiInv, PointerInv, Public, Stale, Candidates, Cited, Job
    <3>5. QED
      BY <2>2, <2>3, <3>2, <3>4 DEF WikiInv, BasesInv
  <2>6. QED
    BY <2>4, <2>5
<1>5. QED
  BY <1>3, <1>4, Callers

LEMMA WikiStep ==
    ASSUME TypeOK, IndexInv, JobInv, CallInv, BuildInv, BornInv, RetiredInv, ~anew => WikiInv, [Next]_vars, ~anew'
    PROVE  WikiInv'
<1>1. CASE Crash
  BY <1>1 DEF Crash
<1>2. CASE anew
  <2>1. anew' = anew
    BY <1>2, CompilingMoves, ConcludingMoves, RequestsLeave, WithdrawLeaves, TakeElsewhere, OthersElsewhere
    DEF Next, Requests, Api, Compile, Submit, history, Moves, JobInv, Crash
  <2>2. QED
    BY <1>2, <2>1
<1>3. CASE ~anew /\ ~Crash
  <2>1. WikiInv
    BY <1>3
  <2>2. CASE (\E batch \in Batches : Upload(batch)) \/ ClearIndex \/ Api \/ UploadFails
    BY <1>3, <2>1, <2>2, WikiOfRequests, WikiOfWithdrawal DEF Api, Requests
  <2>3. CASE Compile \/ Conclude \/ CompilationFails \/ RetirementFails
    BY <1>3, <2>1, <2>3, WikiOfStarts, WikiOfGoingOn, WikiOfStops, WikiOfRetirement, WikiOfUpdate, WikiOfCreated,
      WikiOfPublishing, WikiOfPublished, WikiOfUndo, WikiOfUndone
    DEF Compile, Conclude, Starts, GoesOn, Stops
  <2>4. ASSUME NEW p \in Caller, Step(p) PROVE WikiInv'
    BY <1>3, <2>1, <2>4, WikiOfStep
  <2>5. CASE (\E r \in Reader : Read(r)) \/ UNCHANGED vars
    <3>1. UNCHANGED <<work, current, epoch, retired, builds, call, jobs, born, stuck, era, api, index>>
      BY <2>5 DEF Read, ReadPointer, AskCache, FillCache, vars, repositoryVars, files, history
    <3>2. Steady /\ Resting
      BY <3>1 DEF Steady, Resting
    <3>3. KeepsRightful /\ KeepsAgreed /\ KeepsInnocent
      BY <1>3, <3>1, <3>2, RestingKeeps, InnocentKept
    <3>4. QED
      BY <2>1, <3>2, <3>3, SteadyKeeps DEF JobInv
  <2>6. QED
    BY <1>3, <2>2, <2>3, <2>4, <2>5 DEF Next
<1>4. QED
  BY <1>1, <1>2, <1>3

-----------------------------------------------------------------------------
(* The invariant of the runtime, and what follows *)

LEMMA RuntimeInitially == Init => RuntimeInv
<1> SUFFICES ASSUME Init PROVE RuntimeInv
  OBVIOUS
<1>1. /\ work.at = "idle" /\ api.at = "idle" /\ mutex = None /\ runlock = None /\ cache = None
      /\ jobs = <<>> /\ queue = <<>> /\ epoch = 0 /\ era = 0 /\ version = 0
      /\ chunks = [d \in Doc |-> None] /\ uploaded = [d \in Doc |-> None]
      /\ retired = [b \in Build |-> None] /\ stuck = {}
      /\ \A r \in Reader : reader[r].at = "idle"
  BY DEF Init, Idle
<1>2. call = [p \in Caller |-> None] /\ current = None /\ builds = [b \in Build |-> None]
  BY DEF Init, RepositoryInit
<1>3. work.at \notin Begun
  BY <1>1 DEF Begun
<1>4. IndexInv
  BY <1>1 DEF IndexInv, MutexInv, ChunkInv, VersionInv
<1>5. JobInv
  BY <1>1 DEF JobInv, QueueInv, EpochInv, HeldInv, StatusInv, Unretired
<1>6. CallInv
  BY <1>1, <1>2, Callers, NowhereAssumption DEF CallInv
<1>7. BuildInv
  BY <1>1, <1>2, <1>3, Callers DEF BuildInv, Exists, Public
<1>8. BornInv /\ RetiredInv
  BY <1>1, <1>2 DEF BornInv, RetiredInv
<1>9. BasesInv /\ PointerInv
  BY <1>1, <1>3 DEF BasesInv, FoundInv, MakingInv, PointerInv, Public
<1>10. LiveInv
  BY <1>2, NothingRight DEF LiveInv
<1>11. QED
  BY <1>4, <1>5, <1>6, <1>7, <1>8, <1>9, <1>10, TypeInitially DEF RuntimeInv, WikiInv

LEMMA RuntimeStep == RuntimeInv /\ [Next]_vars => RuntimeInv'
<1> SUFFICES ASSUME RuntimeInv, [Next]_vars PROVE RuntimeInv'
  OBVIOUS
<1>1. /\ TypeOK /\ IndexInv /\ JobInv /\ CallInv /\ BuildInv /\ BornInv /\ RetiredInv
      /\ ~anew => WikiInv
      /\ ChunkInv /\ QueueInv /\ EpochInv
  BY DEF RuntimeInv, IndexInv, JobInv
<1>2. TypeOK'
  BY <1>1, TypeStep
<1>3. IndexInv'
  BY <1>1, IndexStep
<1>4. JobInv'
  BY <1>1, JobStep
<1>5. CallInv' /\ BuildInv'
  BY <1>1, CallInvStep, BuildStep
<1>6. BornInv' /\ RetiredInv'
  BY <1>1, BornStep, RetiredStep
<1>7. (~anew => WikiInv)'
  BY <1>1, WikiStep
<1>8. QED
  BY <1>2, <1>3, <1>4, <1>5, <1>6, <1>7 DEF RuntimeInv

LEMMA RuntimeAlways == Spec => []RuntimeInv
BY RuntimeInitially, RuntimeStep, PTL DEF Spec

\* In every behaviour the index, the jobs and the threads hold what they are meant to.
THEOREM RuntimeTypeCorrect == Spec => []TypeOK
<1>1. RuntimeInv => TypeOK
  BY DEF RuntimeInv
<1>2. QED
  BY <1>1, RuntimeAlways, PTL

LEMMA StepLosesNothing ==
    ASSUME RuntimeInv, [Next]_vars, NEW d \in Doc
    PROVE  /\ chunks[d] # None /\ chunks'[d] = None =>
                era' # era \/ (work.at = "retiring" /\ chunks[d] <= Job.version)
           /\ chunks'[d] \notin {None, chunks[d]} => api.at = "embed" /\ d \in Elements(api.batch)
<1>1. TypeOK /\ IndexInv /\ ChunkInv /\ VersionInv /\ QueueInv /\ JobInv
  BY DEF RuntimeInv, IndexInv, JobInv
<1>2. CASE CommitUpload
  <2>1. api.at = "embed" /\ chunks' = [e \in Doc |-> IF e \in Elements(api.batch) THEN version + 1 ELSE chunks[e]]
    BY <1>1, <1>2, UploadKeeps DEF CommitUpload
  <2>2. version + 1 # None
    BY <1>1, Numbers
  <2>3. QED
    BY <2>1, <2>2
<1>3. CASE ClearIndex
  BY <1>1, <1>3, Numbers DEF ClearIndex
<1>4. CASE RetireDocuments
  <2>1. work.at = "retiring" /\ chunks'[d] = IF d \in Retirable THEN None ELSE chunks[d]
    BY <1>1, <1>4 DEF RetireDocuments, index, TypeOK
  <2>2. work.job \in DOMAIN jobs /\ Job.version \in Nat
    BY <1>1, <2>1, JobTyped
  <2>3. ASSUME d \in Retirable, chunks[d] # None PROVE chunks[d] <= Job.version
    <3>1. CASE uploaded[d] = None
      <4>1. chunks[d] < Job.version
        BY <1>1, <2>2, <2>3, <3>1 DEF VersionInv, Predates, Job
      <4>2. QED
        BY <1>1, <2>2, <2>3, <4>1, Numbers
    <3>2. CASE uploaded[d] # None
      BY <1>1, <2>3, <3>2 DEF ChunkInv, Retirable
    <3>3. QED
      BY <3>1, <3>2
  <2>4. QED
    BY <2>1, <2>3
<1>5. CASE ~CommitUpload /\ ~ClearIndex /\ ~RetireDocuments
  <2>1. UNCHANGED chunks
    BY <1>1, <1>5, RequestsLeave, WithdrawLeaves, TakeElsewhere, CompilingMoves, ConcludingMoves, OthersElsewhere
    DEF Next, Requests, Api, Compile, Submit, Crash, Elsewhere, index
  <2>2. QED
    BY <2>1
<1>6. QED
  BY <1>2, <1>3, <1>4, <1>5

\* A document leaves the index only by a clear or by a job that knew its last upload, and
\* comes back only by an upload of its own (upload, clear and retire_superseded_documents).
THEOREM IndexCorrect == Spec => NothingIsLost
<1> DEFINE Loses ==
      \A d \in Doc :
         /\ chunks[d] # None /\ chunks'[d] = None =>
              era' # era \/ (work.at = "retiring" /\ chunks[d] <= Job.version)
         /\ chunks'[d] \notin {None, chunks[d]} =>
              api.at = "embed" /\ d \in Elements(api.batch)
<1>1. RuntimeInv /\ [Next]_vars => [Loses]_vars
  BY StepLosesNothing
<1>2. QED
  BY <1>1, RuntimeAlways, PTL DEF Spec, NothingIsLost

\* The build that is live is the one that the worker's job found or made, whose own jobs
\* have not failed.
LEMMA LiveIsInnocent == RuntimeInv /\ ~anew => Innocent(current)
<1> SUFFICES ASSUME RuntimeInv, ~anew PROVE Innocent(current)
  OBVIOUS
<1>1. TypeOK /\ WikiInv /\ CallInv
  BY DEF RuntimeInv
<1>2. PICK l : l = current
  OBVIOUS
<1>3. CASE work.at \in {"idle", "accepted", "begin", "finish"}
  BY <1>1, <1>3 DEF WikiInv, LiveInv
<1>4. CASE work.at \in Begun \ {"finish"}
  <2>1. l \in {work.start, work.base, None}
    BY <1>1, <1>2, <1>4 DEF WikiInv, PointerInv, CallInv, Public, Begun
  <2>2. Innocent(work.start) /\ Innocent(work.base)
    BY <1>1, <1>4 DEF WikiInv, BasesInv, FoundInv
  <2>3. CASE l = None
    BY <1>2, <2>3, NothingRight
  <2>4. QED
    BY <1>2, <2>1, <2>2, <2>3
<1>5. QED
  BY <1>1, <1>3, <1>4 DEF TypeOK, Begun

\* As long as the process lives, the wiki that is live is of the index's era, cites only
\* documents that the index holds, and was not left by a job that failed (clear and
\* _run_pending of wiki_runtime.py).
THEOREM LiveCorrect == Spec => []LiveIsRightful
<1>1. RuntimeInv => ClearedMeansCleared
  <2>1. RuntimeInv /\ ~anew /\ ~Clearing => Rightful(current)
    BY DEF RuntimeInv, WikiInv, LiveInv, Clearing
  <2>2. QED
    BY <2>1 DEF ClearedMeansCleared, Rightful
<1>2. RuntimeInv => FailedIsNotLive
  BY LiveIsInnocent DEF FailedIsNotLive, Innocent
<1>3. RuntimeInv => LiveIsRightful
  BY <1>1, <1>2 DEF LiveIsRightful
<1>4. QED
  BY <1>3, RuntimeAlways, PTL

\* When nothing is in flight, what the live wiki superseded has left the index or was
\* uploaded again since; the cache holds the pages of the build it names
\* (retire_superseded_documents and published_pages).
THEOREM StoresCorrect == Spec => []StoresAgree
<1>1. RuntimeInv => StoresAgree
  <2> SUFFICES ASSUME RuntimeInv PROVE StoresAgree
    OBVIOUS
  <2>1. ~anew /\ work.at = "idle" => Agreed(current)
    BY DEF RuntimeInv, WikiInv, LiveInv
  <2>2. cache # None => cache.build \in Build /\ cache.pages = builds[cache.build]
    BY NothingAssumption DEF RuntimeInv, BuildInv, TypeOK, Pages
  <2>3. QED
    BY <2>1, <2>2 DEF StoresAgree, Agreed
<1>2. QED
  BY <1>1, RuntimeAlways, PTL
=============================================================================
