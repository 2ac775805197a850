------------------------ MODULE ServiceGenerationsProofs ------------------------
(***************************************************************************)
(* Proofs about ServiceGenerations, for any threads, sessions, policies,   *)
(* generations and kinds and numbers of failures.                          *)
(*                                                                         *)
(* Two locks protect two things.  Whoever holds the registry lock is alone *)
(* with the pointer, the generations and the map of the sessions; whoever  *)
(* holds a conversation's lock is alone with what is done on it.  The      *)
(* invariant says where each lock is held, and ties a thread that found a  *)
(* conversation and gave the registry lock back to the map: its object is  *)
(* still in the map or has been closed since.                              *)
(***************************************************************************)
EXTENDS ServiceGenerations, WellFoundedInduction, FiniteSetTheorems, TLAPS

-----------------------------------------------------------------------------
(* The inductive invariant *)

\* The places that hold the registry lock, and those that have a conversation.
Inside == {"ready", "opening", "create", "seed", "activate", "named", "open", "scan", "missed",
           "open fresh", "switch", "swap", "retire"}
Held   == {"lock", "viewing", "checking", "working", "marked"}

\* Whoever holds the registry lock is alone with the map, the generations and the pointer.
HolderAt(t) ==
    /\ registry = t <=> at[t] \in Inside
    /\ conv[t] # None <=> at[t] \in Held

\* What was asked, and the generation in use, at each place of the holder.
PlaceAt(t) ==
    /\ at[t] # "idle" => up /\ job[t] \in Asks
    /\ at[t] \in {"opening", "activate", "named", "open"} => runtime = None
    /\ at[t] = "ready" => runtime # None \/ job[t].kind = "close"
    /\ at[t] \in {"scan", "missed", "open fresh", "switch", "swap", "retire"} => runtime # None
    /\ at[t] \in {"named", "open"} => pointer # None
    /\ at[t] \in {"create", "seed", "activate"} /\ runtime = None => pointer = None
    /\ at[t] = "scan" => toScan \subseteq FilesOf(runtime)
    /\ at[t] \in {"switch", "swap"} => handles = {runtime, fresh}

\* The generation that is made or retired.
FreshAt(t) ==
    /\ at[t] \in {"seed", "activate", "open fresh", "switch", "swap", "retire"} => fresh \in Gen
    /\ at[t] \in {"seed", "activate", "open fresh", "switch", "retire"} => fresh # pointer
    /\ at[t] \in {"activate", "open fresh", "switch"} => dir[fresh] = "seeded"
    /\ at[t] = "swap" => fresh = pointer /\ runtime # pointer /\ dir[runtime] = "seeded"

GenerationInv ==
    /\ pointer # None => dir[pointer] = "seeded"
    /\ runtime # None => pointer # None /\ (runtime = pointer \/ \E t \in Thread : at[t] = "swap")
    /\ (\A t \in Thread : at[t] \notin {"switch", "swap"}) => handles = {runtime} \ {None}

\* A session in use has an open object of the generation in use and of its policy.
MapInv ==
    \A s \in Session : sessions[s] # None =>
      /\ runtime # None
      /\ object[sessions[s]] # None
      /\ object[sessions[s]].session = s
      /\ object[sessions[s]].gen = runtime
      /\ object[sessions[s]].policy = config
      /\ ~object[sessions[s]].closed
      /\ s \in FilesOf(runtime)
      /\ file[s].policy = config

\* An object that a thread has found is in the map, or was closed since.
ConvAt(t) ==
    /\ conv[t] # None =>
         /\ object[conv[t]] # None
         /\ object[conv[t]].closed \/ sessions[object[conv[t]].session] = conv[t]
    /\ at[t] \in {"scan", "missed"} =>
         \A u \in Thread : conv[u] # None => object[conv[u]].closed

\* Nobody works on what a reset or a closing has locked.
LockAt(t) ==
    /\ at[t] \in {"viewing", "checking", "working", "marked"} => lock[conv[t]] = t
    /\ at[t] \in {"working", "marked"} => ~object[conv[t]].closed
    /\ at[t] \in {"create", "seed", "open fresh", "switch", "swap"} /\ runtime # None =>
         \A o \in InUse : lock[o] = t

FilesInv == \A g \in Gen : Cardinality(FilesOf(g)) <= MaxSessions

ThreadInv == \A t \in Thread : HolderAt(t) /\ PlaceAt(t) /\ FreshAt(t) /\ ConvAt(t) /\ LockAt(t)

ServiceInv == TypeOK /\ ThreadInv /\ GenerationInv /\ MapInv /\ FilesInv

-----------------------------------------------------------------------------
(* A spare object *)

\* A non-empty set of naturals has a least element.
LEMMA LeastNumber ==
    ASSUME NEW F \in SUBSET Nat, F # {}
    PROVE  \E n \in F : \A m \in F : n <= m
<1>1. \A x, y \in Nat : y < x => <<y, x>> \in OpToRel(<, Nat)
  BY DEF OpToRel
<1>2. PICK R : /\ IsWellFoundedOn(R, Nat)
               /\ \A x, y \in Nat : y < x => <<y, x>> \in R
  BY <1>1, NatLessThanWellFounded, Zenon
<1>3. PICK n \in F : \A m \in F : ~(<<m, n>> \in R)
  BY <1>2, WFMin
<1>4. ASSUME NEW m \in F PROVE n <= m
  <2>1. n \in Nat /\ m \in Nat
    OBVIOUS
  <2>2. m < n => <<m, n>> \in R
    BY <1>2, <2>1, Zenon
  <2>3. ~(m < n)
    BY <1>3, <2>2, Zenon
  <2>4. QED
    BY <2>1, <2>3
<1>5. QED
  BY <1>4

\* A thread without a conversation finds an unused object for one: the sessions and the
\* other threads refer to fewer than there are.
LEMMA Spare ==
    ASSUME TypeOK, NEW t \in Thread, conv[t] = None
    PROVE  NewObject \in Object /\ Unused(NewObject)
<1> USE ServiceAssumption
<1>1. PICK f \in [Session -> Object \cup {None}] : f = sessions
  BY DEF TypeOK
<1>2. PICK g \in [Thread \ {t} -> Object \cup {None}] : \A u \in Thread \ {t} : g[u] = conv[u]
  <2>1. [u \in Thread \ {t} |-> conv[u]] \in [Thread \ {t} -> Object \cup {None}]
    BY DEF TypeOK
  <2>2. QED
    BY <2>1
<1> DEFINE A == {f[s] : s \in Session}
           B == {g[u] : u \in Thread \ {t}}
<1>3. /\ IsFiniteSet(A) /\ Cardinality(A) <= Cardinality(Session)
  <2>1. f \in Surjection(Session, A)
    BY DEF Surjection
  <2> HIDE DEF A
  <2>2. QED
    BY <2>1, FS_Surjection
<1>4. /\ IsFiniteSet(Thread \ {t}) /\ Cardinality(Thread \ {t}) = Cardinality(Thread) - 1
  BY FS_RemoveElement
<1>5. /\ IsFiniteSet(B) /\ Cardinality(B) <= Cardinality(Thread) - 1
  <2>1. g \in Surjection(Thread \ {t}, B)
    BY DEF Surjection
  <2> HIDE DEF B
  <2>2. QED
    BY <1>4, <2>1, FS_Surjection
<1> HIDE DEF A, B
<1>6. /\ Cardinality(Session) \in Nat /\ Cardinality(Thread) \in Nat
      /\ Cardinality(A) \in Nat /\ Cardinality(B) \in Nat /\ Cardinality(A \cap B) \in Nat
      /\ IsFiniteSet(A \cap B)
  <2>1. IsFiniteSet(A \cap B)
    BY <1>3, FS_Subset
  <2>2. QED
    BY <1>3, <1>5, <2>1, FS_CardinalityType
<1>7. IsFiniteSet(A \cup B) /\ Cardinality(A \cup B) < Cardinality(Object)
  <2>1. /\ IsFiniteSet(A \cup B)
        /\ Cardinality(A \cup B) = Cardinality(A) + Cardinality(B) - Cardinality(A \cap B)
    BY <1>3, <1>5, FS_Union
  <2>2. Cardinality(Object) \in Nat
    BY FS_CardinalityType
  <2>3. QED
    BY <1>3, <1>5, <1>6, <2>1, <2>2
<1>8. ~(Object \subseteq A \cup B)
  <2>1. SUFFICES ASSUME Object \subseteq A \cup B PROVE FALSE
    OBVIOUS
  <2>2. Cardinality(Object) <= Cardinality(A \cup B)
    BY <1>7, <2>1, FS_Subset
  <2>3. Cardinality(Object) \in Nat /\ Cardinality(A \cup B) \in Nat
    BY <1>7, FS_CardinalityType
  <2>4. QED
    BY <1>7, <2>2, <2>3
<1>9. \A o \in Object : Unused(o) <=> o \notin A \cup B
  <2>1. ASSUME NEW o \in Object PROVE o \in A <=> \E s \in Session : sessions[s] = o
    BY <1>1 DEF A
  <2>2. ASSUME NEW o \in Object PROVE o \in B <=> \E u \in Thread : conv[u] = o
    BY <1>2 DEF B
  <2>3. QED
    BY <2>1, <2>2 DEF Unused
<1> DEFINE F == Object \ (A \cup B)
<1>10. PICK o \in F : \A p \in F : o <= p
  <2>1. F \in SUBSET Nat /\ F # {}
    BY <1>8
  <2> HIDE DEF F
  <2>2. QED
    BY <2>1, LeastNumber
<1>11. o \in Object /\ Unused(o) /\ \A p \in Object : Unused(p) => o <= p
  BY <1>9, <1>10
<1>12. QED
  BY <1>11 DEF NewObject
-----------------------------------------------------------------------------
(* Initially *)

LEMMA ServiceInit == Init => ServiceInv
<1> SUFFICES ASSUME Init PROVE ServiceInv
  OBVIOUS
<1> USE ServiceAssumption DEF Init
<1>1. TypeOK
  BY DEF TypeOK, Places
<1>2. ThreadInv
  BY DEF ThreadInv, HolderAt, PlaceAt, FreshAt, ConvAt, LockAt, Inside, Held
<1>3. GenerationInv /\ MapInv
  BY DEF GenerationInv, MapInv
<1>4. FilesInv
  <2>1. \A g \in Gen : FilesOf(g) = {}
    BY DEF FilesOf
  <2>2. Cardinality({}) = 0
    BY FS_EmptySet
  <2>3. QED
    BY <2>1, <2>2, ServiceAssumption DEF FilesInv
<1>5. QED
  BY <1>1, <1>2, <1>3, <1>4 DEF ServiceInv

-----------------------------------------------------------------------------
(* What a step leaves alone *)

Acts(t) == (\E wanted \in Asks : Ask(t, wanted)) \/ Step(t) \/ Failure(t)

\* What the steps of another thread never touch.
Others(t) ==
    /\ \A u \in Thread \ {t} : at'[u] = at[u] /\ job'[u] = job[u] /\ conv'[u] = conv[u]
    /\ \/ registry' = registry
       \/ registry = None /\ registry' = t
       \/ registry = t /\ registry' = None
    /\ \A o \in Object : \/ lock'[o] = lock[o]
                         \/ lock[o] = None /\ lock'[o] = t
                         \/ lock[o] = t /\ lock'[o] = None

\* The parts of Return that do not depend on the objects.
Ends(t) ==
    /\ at' = [at EXCEPT ![t] = "idle"]
    /\ registry' = IF registry = t THEN None ELSE registry
    /\ lock' = [o \in Object |-> IF lock[o] = t THEN None ELSE lock[o]]
    /\ job' = [job EXCEPT ![t] = None]
    /\ conv' = [conv EXCEPT ![t] = None]

\* The steps that are taken without the registry lock.
Own(t) ==
    \/ \E wanted \in Asks : Ask(t, wanted)
    \/ TakeRegistry(t) \/ TakeLock(t) \/ ViewCreated(t) \/ WasReset(t) \/ Load(t) \/ LoadFails(t)
    \/ Serve(t) \/ Mark(t) \/ Commit(t) \/ Discard(t)

\* The steps of the registry lock's holder.
Holders(t) ==
    \/ Opening(t) \/ Registered(t) \/ Resetting(t)
    \/ OpenFails(t) \/ ReadFails(t) \/ ResetFails(t) \/ SwitchFails(t)

\* The session files keep their generations and policies.
SameFiles ==
    \A s \in Session :
      /\ file'[s] = None <=> file[s] = None
      /\ file[s] # None => file'[s].gen = file[s].gen /\ file'[s].policy = file[s].policy

\* The object is what it was, but for what it has loaded.
SameObject(o) ==
    /\ object'[o] # None
    /\ object'[o].session = object[o].session
    /\ object'[o].gen = object[o].gen
    /\ object'[o].policy = object[o].policy
    /\ object'[o].closed = object[o].closed

SameObjects ==
    \A o \in Object :
      object[o] # None /\ (o \in InUse \/ \E u \in Thread : conv'[u] = o) => SameObject(o)

LEMMA StepsSplit ==
    ASSUME NEW t \in Thread, Acts(t)
    PROVE  Own(t) \/ Holders(t)
BY DEF Acts, Own, Holders, Step, Failure, UnderLock

LEMMA HoldersHold ==
    ASSUME ServiceInv, NEW t \in Thread, Holders(t)
    PROVE  at[t] \in Inside /\ registry = t /\ conv[t] = None
<1>1. at[t] \in Inside
  BY DEF Holders, Opening, Registered, Resetting, FindActive, Create, Seed, Activate, RemoveUnnamed,
         OpenGeneration, Scan, Scanned, Started, CreateSession, CreateRefused, Cached, Build, Refused,
         LockNext, AllLocked, OpenFresh, Switch, Swap, Retire, Close, OpenFails, ReadFails,
         ResetFails, SwitchFails, Missed, Inside
<1>2. QED
  BY <1>1 DEF ServiceInv, ThreadInv, HolderAt, Inside, Held

LEMMA EndsOthers ==
    ASSUME TypeOK, NEW t \in Thread, Ends(t)
    PROVE  Others(t)
BY ServiceAssumption DEF TypeOK, Ends, Others

LEMMA ReturnEnds ==
    ASSUME NEW t \in Thread, \/ Return(t, object) \/ Return(t, Closed)
                             \/ Return(t, [object EXCEPT ![conv[t]].loaded = FALSE])
    PROVE  Ends(t)
BY DEF Return, Ends, Goto

LEMMA OwnOthers ==
    ASSUME ServiceInv, NEW t \in Thread, Own(t)
    PROVE  /\ Others(t)
           /\ UNCHANGED <<dir, pointer, up, config, runtime, handles, sessions, opening>>
           /\ conv'[t] \in {conv[t], None}
<1> USE ServiceAssumption
<1>1. TypeOK
  BY DEF ServiceInv
<1>2. CASE \/ ViewCreated(t) \/ WasReset(t) \/ LoadFails(t) \/ Serve(t) \/ Commit(t) \/ Discard(t)
  <2>1. Ends(t) /\ UNCHANGED <<dir, pointer, up, config, runtime, handles, sessions, opening>>
    BY <1>2, ReturnEnds DEF ViewCreated, WasReset, LoadFails, Serve, Commit, Discard, Return, Ends,
                            Goto, disk, process
  <2>2. conv'[t] = None
    BY <1>1, <2>1 DEF Ends, TypeOK
  <2>3. QED
    BY <1>1, <2>1, <2>2, EndsOthers
<1>3. CASE TakeLock(t) \/ Load(t) \/ Mark(t)
  <2>1. UNCHANGED <<dir, pointer, up, config, runtime, handles, sessions, opening, registry, job, conv>>
    BY <1>3 DEF TakeLock, Load, Mark, disk, process, memory
  <2>2. \A u \in Thread \ {t} : at'[u] = at[u]
    BY <1>1, <1>3 DEF TakeLock, Load, Mark, Goto, TypeOK
  <2>3. \A o \in Object : lock'[o] = lock[o] \/ (lock[o] = None /\ lock'[o] = t)
    BY <1>1, <1>3 DEF TakeLock, Load, Mark, TypeOK
  <2>4. QED
    BY <2>1, <2>2, <2>3 DEF Others
<1>4. CASE TakeRegistry(t) \/ \E wanted \in Asks : Ask(t, wanted)
  BY <1>1, <1>4 DEF TakeRegistry, Ask, Goto, disk, process, memory, Others, TypeOK
<1>5. QED
  BY <1>2, <1>3, <1>4 DEF Own

LEMMA HoldersOthers ==
    ASSUME ServiceInv, NEW t \in Thread, Holders(t)
    PROVE  Others(t)
<1> USE ServiceAssumption
<1>1. TypeOK /\ registry = t
  BY HoldersHold DEF ServiceInv
<1>2. CASE \/ Started(t) \/ CreateRefused(t) \/ Refused(t) \/ OpenFails(t) \/ ReadFails(t)
           \/ ResetFails(t) \/ SwitchFails(t) \/ Retire(t) \/ Close(t)
  <2>1. Ends(t)
    BY <1>2, ReturnEnds DEF Started, CreateRefused, Refused, OpenFails, ReadFails, ResetFails,
                            SwitchFails, Retire, Close
  <2>2. QED
    BY <1>1, <2>1, EndsOthers
<1>3. CASE \/ FindActive(t) \/ Create(t) \/ Seed(t) \/ Activate(t) \/ RemoveUnnamed(t)
           \/ OpenGeneration(t) \/ Scan(t) \/ Scanned(t) \/ AllLocked(t) \/ OpenFresh(t)
           \/ Switch(t) \/ Swap(t)
  <2>1. UNCHANGED <<job, conv, registry, lock>>
    BY <1>3 DEF FindActive, Create, Seed, Activate, RemoveUnnamed, OpenGeneration, Scan, Scanned,
                AllLocked, OpenFresh, Switch, Swap
  <2>2. \A u \in Thread \ {t} : at'[u] = at[u]
    BY <1>1, <1>3 DEF FindActive, Create, Seed, Activate, RemoveUnnamed, OpenGeneration, Scan,
                      Scanned, AllLocked, OpenFresh, Switch, Swap, Goto, TypeOK
  <2>3. QED
    BY <2>1, <2>2 DEF Others
<1>4. CASE CreateSession(t) \/ Cached(t) \/ Build(t)
  <2>1. UNCHANGED <<job, lock>> /\ \E o : Found(t, o)
    BY <1>4 DEF CreateSession, Cached, Build
  <2>2. QED
    BY <1>1, <2>1 DEF Found, Goto, Others, TypeOK
<1>5. CASE LockNext(t)
  BY <1>1, <1>5 DEF LockNext, Others, TypeOK
<1>6. QED
  BY <1>2, <1>3, <1>4, <1>5 DEF Holders, Opening, Registered, Resetting

LEMMA EveryOthers ==
    ASSUME ServiceInv, NEW t \in Thread, Acts(t)
    PROVE  Others(t)
BY StepsSplit, OwnOthers, HoldersOthers

-----------------------------------------------------------------------------
(* Types *)

DirTypes    == [Gen -> {"none", "partial", "seeded"}]
FileTypes   == [Session -> Files \cup {None}]
ObjectTypes == [Object -> Conversations \cup {None}]

Marking(f, s, b) == [f EXCEPT ![s].marked = b]
Loading(f, o, b) == [f EXCEPT ![o].loaded = b]

\* Two tables of files, of objects, that agree in all but the marker or what is loaded.
AlikeFiles(f, g) ==
    \A s \in Session :
      /\ g[s] = None <=> f[s] = None
      /\ f[s] # None => g[s].gen = f[s].gen /\ g[s].policy = f[s].policy

AlikeObjects(f, g) ==
    \A o \in Object :
      /\ g[o] = None <=> f[o] = None
      /\ f[o] # None => /\ g[o].session = f[o].session
                        /\ g[o].gen = f[o].gen
                        /\ g[o].policy = f[o].policy
                        /\ g[o].closed = f[o].closed

LEMMA FileMarked ==
    ASSUME NEW f \in FileTypes, NEW s \in Session, f[s] # None, NEW b \in BOOLEAN
    PROVE  Marking(f, s, b) \in FileTypes /\ AlikeFiles(f, Marking(f, s, b))
<1>1. PICK w \in Files : w = f[s]
  BY DEF FileTypes
<1>2. PICK v \in Files : v = [gen |-> w.gen, policy |-> w.policy, marked |-> b]
  BY DEF Files
<1>3. [w EXCEPT !.marked = b] = v
  BY <1>1, <1>2 DEF Files
<1>4. Marking(f, s, b) = [f EXCEPT ![s] = v]
  BY <1>1, <1>3 DEF Marking
<1>5. v # None /\ v.gen = w.gen /\ v.policy = w.policy
  BY <1>2, ServiceAssumption
<1>6. QED
  BY <1>1, <1>4, <1>5 DEF FileTypes, AlikeFiles

LEMMA ObjectLoaded ==
    ASSUME NEW f \in ObjectTypes, NEW o \in Object, f[o] # None, NEW b \in BOOLEAN
    PROVE  Loading(f, o, b) \in ObjectTypes /\ AlikeObjects(f, Loading(f, o, b))
<1>1. PICK w \in Conversations : w = f[o]
  BY DEF ObjectTypes
<1>2. PICK v \in Conversations :
        v = [session |-> w.session, gen |-> w.gen, policy |-> w.policy, loaded |-> b,
             closed |-> w.closed]
  BY DEF Conversations
<1>3. [w EXCEPT !.loaded = b] = v
  BY <1>1, <1>2 DEF Conversations
<1>4. Loading(f, o, b) = [f EXCEPT ![o] = v]
  BY <1>1, <1>3 DEF Loading
<1>5. /\ v # None /\ v.session = w.session /\ v.gen = w.gen /\ v.policy = w.policy
      /\ v.closed = w.closed
  BY <1>2, ServiceAssumption
<1>6. QED
  BY <1>1, <1>4, <1>5 DEF ObjectTypes, AlikeObjects

\* The conversation that a thread has is an object.
LEMMA HeldObject ==
    ASSUME ServiceInv, NEW t \in Thread, at[t] \in Held
    PROVE  /\ conv[t] \in Object /\ object[conv[t]] # None /\ object[conv[t]] \in Conversations
           /\ object[conv[t]].session \in Session
<1>1. conv[t] # None
  BY DEF ServiceInv, ThreadInv, HolderAt
<1>2. conv[t] \in Object /\ object[conv[t]] # None
  BY <1>1 DEF ServiceInv, ThreadInv, ConvAt, TypeOK
<1>3. object[conv[t]] \in Conversations
  BY <1>2 DEF ServiceInv, TypeOK
<1>4. QED
  BY <1>2, <1>3 DEF Conversations

\* An open one is in the map, and its session has its file.
LEMMA OpenObject ==
    ASSUME ServiceInv, NEW t \in Thread, at[t] \in Held, ~object[conv[t]].closed
    PROVE  /\ sessions[object[conv[t]].session] = conv[t]
           /\ object[conv[t]].session \in FilesOf(runtime)
           /\ file[object[conv[t]].session] # None
           /\ runtime # None /\ object[conv[t]].gen = runtime
           /\ file[object[conv[t]].session].policy = config
<1>1. conv[t] # None /\ conv[t] \in Object /\ object[conv[t]].session \in Session
  BY HeldObject, ServiceAssumption
<1>2. sessions[object[conv[t]].session] = conv[t]
  BY <1>1 DEF ServiceInv, ThreadInv, ConvAt
<1>3. QED
  BY <1>1, <1>2 DEF ServiceInv, MapInv, FilesOf

\* What a thread that returns leaves of the objects.
LEMMA ReturnKeeps ==
    ASSUME TypeOK, NEW t \in Thread, NEW f \in ObjectTypes, Return(t, f)
    PROVE  /\ object' \in ObjectTypes
           /\ \A o \in Object : o \in InUse \/ (\E u \in Thread : conv'[u] = o) => object'[o] = f[o]
<1> USE ServiceAssumption
<1>1. object' \in ObjectTypes
  BY DEF Return, ObjectTypes
<1>2. ASSUME NEW o \in Object, NEW u \in Thread, conv'[u] = o PROVE o = conv[u] /\ u # t
  BY <1>2 DEF Return, TypeOK
<1>3. ASSUME NEW o \in Object, o \in InUse \/ (\E u \in Thread : conv'[u] = o)
      PROVE  object'[o] = f[o]
  <2>1. o \in InUse \cup {conv[u] : u \in Thread \ {t}}
    BY <1>2, <1>3
  <2>2. QED
    BY <2>1 DEF Return
<1>4. QED
  BY <1>1, <1>3

LEMMA OwnFiles ==
    ASSUME ServiceInv, NEW t \in Thread, Own(t)
    PROVE  file' \in FileTypes /\ SameFiles
<1> USE ServiceAssumption
<1>1. file \in FileTypes
  BY DEF ServiceInv, TypeOK, FileTypes
<1>2. CASE Load(t) \/ Mark(t) \/ Commit(t)
  <2>1. PICK f \in FileTypes : f = file
    BY <1>1
  <2>2. PICK s \in Session : s = object[conv[t]].session
    BY <1>2, HeldObject DEF Load, Mark, Commit, Held
  <2>3. f[s] # None
    BY <1>2, <2>1, <2>2, OpenObject DEF Load, Mark, Commit, Held, ServiceInv, ThreadInv, LockAt
  <2>4. CASE file' = file
    BY <2>1, <2>4 DEF SameFiles
  <2>5. CASE \E b \in BOOLEAN : file' = [file EXCEPT ![s].marked = b]
    <3>1. PICK b \in BOOLEAN : file' = [file EXCEPT ![s].marked = b]
      BY <2>5
    <3>2. file' = Marking(f, s, b)
      BY <2>1, <3>1 DEF Marking
    <3>3. QED
      BY <2>1, <2>3, <3>2, FileMarked DEF SameFiles, AlikeFiles
  <2>6. QED
    BY <1>2, <2>2, <2>4, <2>5 DEF Load, Mark, Commit
<1>3. CASE file' = file
  BY <1>1, <1>3 DEF SameFiles
<1>4. QED
  BY <1>2, <1>3 DEF Own, Ask, TakeRegistry, TakeLock, ViewCreated, WasReset, LoadFails, Serve, Discard, disk

LEMMA OwnObjects ==
    ASSUME ServiceInv, NEW t \in Thread, Own(t)
    PROVE  object' \in ObjectTypes /\ SameObjects
<1> USE ServiceAssumption
<1>1. object \in ObjectTypes
  BY DEF ServiceInv, TypeOK, ObjectTypes
<1>2. PICK f \in ObjectTypes : f = object
  BY <1>1
<1>3. CASE ViewCreated(t) \/ WasReset(t) \/ LoadFails(t) \/ Serve(t) \/ Commit(t)
  <2>1. Return(t, f)
    BY <1>2, <1>3 DEF ViewCreated, WasReset, LoadFails, Serve, Commit
  <2>2. QED
    BY <1>2, <2>1, ReturnKeeps DEF ServiceInv, SameObjects, SameObject
<1>4. CASE Load(t) \/ Discard(t)
  <2>1. PICK o \in Object : o = conv[t] /\ f[o] # None
    BY <1>2, <1>4, HeldObject DEF Load, Discard, Held
  <2>2. CASE object' = object
    BY <1>2, <2>2 DEF SameObjects, SameObject
  <2>3. CASE object' = [object EXCEPT ![o].loaded = TRUE]
    <3>1. object' = Loading(f, o, TRUE)
      BY <1>2, <2>3 DEF Loading
    <3>2. Loading(f, o, TRUE) \in ObjectTypes /\ AlikeObjects(f, Loading(f, o, TRUE))
      BY <2>1, ObjectLoaded
    <3>3. QED
      BY <1>2, <3>1, <3>2 DEF SameObjects, SameObject, AlikeObjects
  <2>4. CASE Discard(t)
    <3>1. PICK g \in ObjectTypes : g = Loading(f, o, FALSE) /\ AlikeObjects(f, g)
      BY <2>1, ObjectLoaded
    <3>2. Return(t, g)
      BY <1>2, <2>1, <2>4, <3>1 DEF Discard, Loading
    <3>3. /\ object' \in ObjectTypes
          /\ \A p \in Object : p \in InUse \/ (\E u \in Thread : conv'[u] = p) => object'[p] = g[p]
      BY <3>2, ReturnKeeps DEF ServiceInv
    <3>4. ASSUME NEW p \in Object, object[p] # None, p \in InUse \/ (\E u \in Thread : conv'[u] = p)
          PROVE  SameObject(p)
      <4>1. object'[p] = g[p]
        BY <3>3, <3>4
      <4>2. AlikeObjects(f, g) /\ f[p] # None
        BY <1>2, <3>1, <3>4
      <4>3. QED
        BY <1>2, <4>1, <4>2 DEF SameObject, AlikeObjects
    <3>5. QED
      BY <3>3, <3>4 DEF SameObjects
  <2>5. QED
    BY <1>4, <2>1, <2>2, <2>3, <2>4 DEF Load
<1>5. CASE object' = object
  BY <1>1, <1>5 DEF SameObjects, SameObject
<1>6. QED
  BY <1>3, <1>4, <1>5 DEF Own, Ask, TakeRegistry, TakeLock, Mark, memory

LEMMA OwnTypes ==
    ASSUME ServiceInv, NEW t \in Thread, Own(t)
    PROVE  TypeOK'
<1> USE ServiceAssumption
<1>1. TypeOK
  BY DEF ServiceInv
<1>2. file' \in FileTypes /\ object' \in ObjectTypes
  BY OwnFiles, OwnObjects
<1>3. UNCHANGED <<dir, pointer, up, config, runtime, handles, sessions, opening>>
  BY OwnOthers
<1>4. /\ lock' \in [Object -> Thread \cup {None}] /\ registry' \in Thread \cup {None}
      /\ at' \in [Thread -> Places]
      /\ job' \in [Thread -> Asks \cup {None}] /\ conv' \in [Thread -> Object \cup {None}]
  <2>1. CASE \/ ViewCreated(t) \/ WasReset(t) \/ LoadFails(t) \/ Serve(t) \/ Commit(t) \/ Discard(t)
    <3>1. Ends(t)
      BY <2>1, ReturnEnds DEF ViewCreated, WasReset, LoadFails, Serve, Commit, Discard
    <3>2. QED
      BY <1>1, <3>1 DEF Ends, TypeOK, Places
  <2>2. CASE TakeLock(t) \/ Load(t) \/ Mark(t)
    <3>1. UNCHANGED <<registry, job, conv>>
      BY <2>2 DEF TakeLock, Load, Mark
    <3>2. \E place \in Places : at' = [at EXCEPT ![t] = place]
      BY <2>2 DEF TakeLock, Load, Mark, Goto, Places
    <3>3. lock' \in [Object -> Thread \cup {None}]
      BY <1>1, <2>2 DEF TakeLock, Load, Mark, TypeOK
    <3>4. QED
      BY <1>1, <3>1, <3>2, <3>3 DEF TypeOK
  <2>3. CASE TakeRegistry(t) \/ \E wanted \in Asks : Ask(t, wanted)
    <3>1. UNCHANGED <<lock, conv>>
      BY <2>3 DEF TakeRegistry, Ask
    <3>2. \E place \in Places : at' = [at EXCEPT ![t] = place]
      BY <2>3 DEF TakeRegistry, Ask, Goto, Places
    <3>3. job' = job \/ \E wanted \in Asks : job' = [job EXCEPT ![t] = wanted]
      BY <2>3 DEF TakeRegistry, Ask
    <3>4. registry' \in Thread \cup {None}
      BY <1>1, <2>3 DEF TakeRegistry, Ask, TypeOK
    <3>5. QED
      BY <1>1, <3>1, <3>2, <3>3, <3>4 DEF TypeOK
  <2>4. QED
    BY <2>1, <2>2, <2>3 DEF Own
<1>5. faults' \in 0..MaxFaults
  <2>1. faults' = faults \/ (faults < MaxFaults /\ faults' = faults + 1)
    BY DEF Own, Ask, TakeRegistry, TakeLock, ViewCreated, WasReset, Load, LoadFails, Serve, Mark,
           Commit, Discard, Fails
  <2>2. faults \in 0..MaxFaults
    BY <1>1 DEF TypeOK
  <2>3. QED
    BY <2>1, <2>2
<1>6. QED
  BY <1>1, <1>2, <1>3, <1>4, <1>5 DEF TypeOK, FileTypes, ObjectTypes, opening

-----------------------------------------------------------------------------
(* The steps of the registry lock's holder *)

PlacesOK ==
    /\ lock' \in [Object -> Thread \cup {None}] /\ registry' \in Thread \cup {None}
    /\ at' \in [Thread -> Places]
    /\ job' \in [Thread -> Asks \cup {None}] /\ conv' \in [Thread -> Object \cup {None}]

\* What the holder's places say of the generations it deals with.
HolderFacts(t) ==
    /\ at[t] \in {"scan", "missed", "open fresh", "switch", "swap", "retire"} => runtime \in Gen
    /\ at[t] \in {"named", "open"} => pointer \in Gen
    /\ at[t] \in {"seed", "activate", "open fresh", "switch", "swap", "retire"} => fresh \in Gen

LEMMA HolderData ==
    ASSUME ServiceInv, NEW t \in Thread
    PROVE  HolderFacts(t)
BY DEF ServiceInv, ThreadInv, PlaceAt, FreshAt, TypeOK, HolderFacts

LEMMA HoldersPlaces ==
    ASSUME ServiceInv, NEW t \in Thread, Holders(t)
    PROVE  PlacesOK
<1> USE ServiceAssumption
<1>1. TypeOK /\ registry = t /\ conv[t] = None
  BY HoldersHold DEF ServiceInv
<1>2. CASE \/ Started(t) \/ CreateRefused(t) \/ Refused(t) \/ OpenFails(t) \/ ReadFails(t)
           \/ ResetFails(t) \/ SwitchFails(t) \/ Retire(t) \/ Close(t)
  <2>1. Ends(t)
    BY <1>2, ReturnEnds DEF Started, CreateRefused, Refused, OpenFails, ReadFails, ResetFails,
                            SwitchFails, Retire, Close
  <2>2. QED
    BY <1>1, <2>1 DEF Ends, TypeOK, PlacesOK, Places
<1>3. CASE \/ FindActive(t) \/ Create(t) \/ Seed(t) \/ Activate(t) \/ RemoveUnnamed(t)
           \/ OpenGeneration(t) \/ Scan(t) \/ Scanned(t) \/ AllLocked(t) \/ OpenFresh(t)
           \/ Switch(t) \/ Swap(t)
  <2>1. UNCHANGED <<job, conv, registry, lock>>
    BY <1>3 DEF FindActive, Create, Seed, Activate, RemoveUnnamed, OpenGeneration, Scan, Scanned,
                AllLocked, OpenFresh, Switch, Swap
  <2>2. at' = at \/ \E place \in Places : at' = [at EXCEPT ![t] = place]
    BY <1>3 DEF FindActive, Create, Seed, Activate, RemoveUnnamed, OpenGeneration, Scan,
                Scanned, AllLocked, OpenFresh, Switch, Swap, Goto, Places
  <2>3. QED
    BY <1>1, <2>1, <2>2 DEF TypeOK, PlacesOK
<1>4. CASE CreateSession(t) \/ Cached(t) \/ Build(t)
  <2>1. UNCHANGED <<job, lock>> /\ \E o \in Object : Found(t, o)
    <3>1. NewObject \in Object
      BY <1>1, Spare
    <3>2. CASE Cached(t)
      <4>1. job[t].session \in Session
        BY <3>2 DEF Cached, Asks, ServiceInv, ThreadInv, PlaceAt
      <4>2. QED
        BY <1>1, <3>2, <4>1 DEF Cached, TypeOK
    <3>3. QED
      BY <1>4, <3>1, <3>2 DEF CreateSession, Build
  <2>2. "lock" \in Places
    BY DEF Places
  <2>3. QED
    BY <1>1, <2>1, <2>2 DEF Found, Goto, TypeOK, PlacesOK
<1>5. CASE LockNext(t)
  <2>1. UNCHANGED <<registry, at, job, conv>>
    BY <1>5 DEF LockNext
  <2>2. lock \in [Object -> Thread \cup {None}]
    BY <1>1 DEF TypeOK
  <2>3. \E o : lock' = [lock EXCEPT ![o] = t]
    BY <1>5 DEF LockNext
  <2>4. lock' \in [Object -> Thread \cup {None}]
    BY <2>2, <2>3
  <2>5. QED
    BY <1>1, <2>1, <2>4 DEF TypeOK, PlacesOK
<1>6. QED
  BY <1>2, <1>3, <1>4, <1>5 DEF Holders, Opening, Registered, Resetting

\* The session s gets a new object.
Enters(s, loaded) ==
    /\ object' = [object EXCEPT ![NewObject] = Conversation(s, runtime, loaded)]
    /\ sessions' = [sessions EXCEPT ![s] = NewObject]

LEMMA Entering ==
    ASSUME TypeOK, NEW t \in Thread, conv[t] = None, runtime \in Gen,
           NEW s \in Session, NEW loaded \in BOOLEAN, Enters(s, loaded)
    PROVE  /\ object' \in ObjectTypes /\ sessions' \in [Session -> Object \cup {None}]
           /\ NewObject \in Object /\ Unused(NewObject)
           /\ sessions'[s] = NewObject /\ \A r \in Session \ {s} : sessions'[r] = sessions[r]
           /\ object'[NewObject] = [session |-> s, gen |-> runtime, policy |-> config,
                                    loaded |-> loaded, closed |-> FALSE]
           /\ object'[NewObject] # None
           /\ \A o \in Object \ {NewObject} : object'[o] = object[o]
<1>1. PICK n \in Object : n = NewObject /\ Unused(n)
  BY Spare
<1>2. PICK v \in Conversations : v = [session |-> s, gen |-> runtime, policy |-> config,
                                      loaded |-> loaded, closed |-> FALSE]
  BY DEF TypeOK, Conversations
<1>3. object' = [object EXCEPT ![n] = v] /\ sessions' = [sessions EXCEPT ![s] = n]
  BY <1>1, <1>2 DEF Enters, Conversation
<1>4. v # None
  BY ServiceAssumption
<1>5. object \in ObjectTypes /\ sessions \in [Session -> Object \cup {None}]
  BY DEF TypeOK, ObjectTypes
<1>6. object'[n] = v /\ \A o \in Object \ {n} : object'[o] = object[o]
  BY <1>3, <1>5 DEF ObjectTypes
<1>7. object' \in ObjectTypes /\ sessions' \in [Session -> Object \cup {None}]
  BY <1>3, <1>5 DEF ObjectTypes
<1>8. sessions'[s] = n /\ \A r \in Session \ {s} : sessions'[r] = sessions[r]
  BY <1>3, <1>5
<1>9. QED
  BY <1>1, <1>2, <1>4, <1>6, <1>7, <1>8

LEMMA Removing ==
    ASSUME TypeOK, NEW gens \in SUBSET Gen, NEW left, Remove(gens, left)
    PROVE  /\ dir' \in DirTypes /\ file' \in FileTypes
           /\ \A g \in Gen \ gens : dir'[g] = dir[g]
           /\ \A s \in Session :
                file'[s] = IF file[s] # None /\ file[s].gen \in gens THEN None ELSE file[s]
<1>1. dir \in DirTypes /\ file \in FileTypes
  BY DEF TypeOK, DirTypes, FileTypes
<1>2. dir' \in DirTypes /\ \A g \in Gen \ gens : dir'[g] = dir[g]
  BY <1>1 DEF Remove, DirTypes
<1>3. \A s \in Session : (\E g \in gens : s \in FilesOf(g)) <=> (file[s] # None /\ file[s].gen \in gens)
  BY DEF FilesOf
<1>4. file' = [s \in Session |-> IF \E g \in gens : s \in FilesOf(g) THEN None ELSE file[s]]
  BY DEF Remove
<1>5. \A s \in Session :
        file'[s] = IF file[s] # None /\ file[s].gen \in gens THEN None ELSE file[s]
  BY <1>3, <1>4
<1>6. file' \in FileTypes
  BY <1>1, <1>4 DEF FileTypes
<1>7. QED
  BY <1>2, <1>5, <1>6

\* What each of the holder's steps does to the disk.
LEMMA HoldersDisk ==
    ASSUME ServiceInv, NEW t \in Thread, Holders(t)
    PROVE  dir' \in DirTypes /\ pointer' \in Gen \cup {None} /\ file' \in FileTypes
<1> USE ServiceAssumption
<1>1. TypeOK /\ HolderFacts(t)
  BY HolderData DEF ServiceInv
<1>2. dir \in DirTypes /\ pointer \in Gen \cup {None} /\ file \in FileTypes
  BY <1>1 DEF TypeOK, DirTypes, FileTypes
<1>3. CASE Create(t) \/ Seed(t)
  BY <1>2, <1>3 DEF Create, Seed, DirTypes
<1>4. CASE Activate(t) \/ Switch(t)
  BY <1>1, <1>2, <1>4 DEF Activate, Switch, HolderFacts
<1>5. CASE RemoveUnnamed(t)
  <2>1. PICK left : Remove(Gen \ {pointer}, left)
    BY <1>5 DEF RemoveUnnamed
  <2>2. PICK gens \in SUBSET Gen : gens = Gen \ {pointer}
    OBVIOUS
  <2>3. QED
    BY <1>1, <1>2, <1>5, <2>1, <2>2, Removing DEF RemoveUnnamed
<1>6. CASE SwitchFails(t) \/ Retire(t)
  <2>1. PICK left : Remove({fresh}, left)
    BY <1>6 DEF SwitchFails, Retire
  <2>2. PICK gens \in SUBSET Gen : gens = {fresh}
    BY <1>1, <1>6 DEF SwitchFails, Retire, HolderFacts
  <2>3. UNCHANGED pointer
    BY <1>6 DEF SwitchFails, Retire
  <2>4. QED
    BY <1>1, <1>2, <2>1, <2>2, <2>3, Removing
<1>7. CASE Scan(t)
  <2>1. UNCHANGED <<dir, pointer>>
    BY <1>7 DEF Scan
  <2>2. CASE file' = file
    BY <1>2, <2>1, <2>2
  <2>3. CASE \E s \in toScan : file' = [file EXCEPT ![s].marked = FALSE]
    <3>1. PICK s \in toScan : file' = [file EXCEPT ![s].marked = FALSE]
      BY <2>3
    <3>2. s \in Session /\ file[s] # None
      BY <1>1, <1>7 DEF Scan, ServiceInv, ThreadInv, PlaceAt, FilesOf, TypeOK
    <3>3. PICK f \in FileTypes : f = file
      BY <1>2
    <3>4. file' = Marking(f, s, FALSE)
      BY <3>1, <3>3 DEF Marking
    <3>5. QED
      BY <1>2, <2>1, <3>2, <3>3, <3>4, FileMarked
  <2>4. QED
    BY <1>7, <2>2, <2>3 DEF Scan
<1>8. CASE CreateSession(t)
  <2>1. runtime \in Gen
    BY <1>1, <1>8 DEF CreateSession, ServiceInv, ThreadInv, PlaceAt, TypeOK
  <2>2. PICK v \in Files : v = [gen |-> runtime, policy |-> config, marked |-> FALSE]
    BY <1>1, <2>1 DEF Files, TypeOK
  <2>3. QED
    BY <1>2, <1>8, <2>2 DEF CreateSession, FileTypes
<1>9. CASE UNCHANGED disk
  BY <1>2, <1>9 DEF disk
<1>10. CASE CreateRefused(t) \/ ReadFails(t) \/ Refused(t) \/ Started(t) \/ OpenFails(t) \/ ResetFails(t)
  BY <1>9, <1>10 DEF CreateRefused, ReadFails, Refused, Started, OpenFails, ResetFails
<1>11. CASE FindActive(t) \/ OpenGeneration(t) \/ Scanned(t) \/ Cached(t) \/ Build(t)
  BY <1>9, <1>11 DEF FindActive, OpenGeneration, Scanned, Cached, Build
<1>12. CASE LockNext(t) \/ AllLocked(t) \/ OpenFresh(t) \/ Swap(t) \/ Close(t)
  BY <1>9, <1>12 DEF LockNext, AllLocked, OpenFresh, Swap, Close
<1>13. QED
  BY <1>3, <1>4, <1>5, <1>6, <1>7, <1>8, <1>10, <1>11, <1>12
     DEF Holders, Opening, Registered, Resetting

\* What Swap and Close make of the objects.
LEMMA Closing ==
    ASSUME ServiceInv
    PROVE  /\ Closed \in ObjectTypes
           /\ \A o \in Object : IF o \in InUse THEN Closed[o] # None /\ Closed[o].closed
                                ELSE Closed[o] = object[o]
<1>1. object \in ObjectTypes
  BY DEF ServiceInv, TypeOK, ObjectTypes
<1>2. ASSUME NEW o \in Object, o \in InUse
      PROVE  Closed[o] \in Conversations /\ Closed[o] # None /\ Closed[o].closed
  <2>1. PICK w \in Conversations : w = object[o]
    BY <1>1, <1>2, ServiceAssumption DEF ServiceInv, MapInv, InUse, ObjectTypes
  <2>2. PICK b \in BOOLEAN : b = TRUE
    OBVIOUS
  <2>3. PICK v \in Conversations : v = [session |-> w.session, gen |-> w.gen, policy |-> w.policy,
                                        loaded |-> w.loaded, closed |-> b]
    BY DEF Conversations
  <2>4. [w EXCEPT !.closed = b] = v
    BY <2>3 DEF Conversations
  <2>5. Closed[o] = [w EXCEPT !.closed = b]
    BY <1>2, <2>1, <2>2 DEF Closed
  <2>6. v # None /\ v.closed
    BY <2>2, <2>3, ServiceAssumption
  <2>7. QED
    BY <2>4, <2>5, <2>6
<1>3. ASSUME NEW o \in Object, o \notin InUse PROVE Closed[o] = object[o]
  BY <1>3 DEF Closed
<1>4. Closed \in ObjectTypes
  <2>1. \A o \in Object : Closed[o] \in Conversations \cup {None}
    BY <1>1, <1>2, <1>3 DEF ObjectTypes
  <2>2. Closed = [o \in Object |-> Closed[o]]
    BY DEF Closed
  <2>3. QED
    BY <2>1, <2>2 DEF ObjectTypes
<1>5. QED
  BY <1>2, <1>3, <1>4

\* The session s gets its file.
Creates(s) == file' = [file EXCEPT ![s] = [gen |-> runtime, policy |-> config, marked |-> FALSE]]

\* Where a session gets an object, and which.
LEMMA EnterSteps ==
    ASSUME ServiceInv, NEW t \in Thread
    PROVE  /\ Scan(t) => runtime \in Gen /\ conv[t] = None
                         /\ \/ UNCHANGED memory
                            \/ \E s \in toScan, l \in BOOLEAN :
                                  Enters(s, l) /\ Bound(file[s].policy)
           /\ CreateSession(t) => runtime \in Gen /\ conv[t] = None
                                  /\ \E s \in Session :
                                        file[s] = None /\ Enters(s, TRUE) /\ Creates(s)
           /\ Build(t) => /\ runtime \in Gen /\ conv[t] = None /\ job[t].session \in Session
                          /\ Enters(job[t].session, FALSE)
                          /\ job[t].session \in FilesOf(runtime) /\ Bound(file[job[t].session].policy)
<1>1. TypeOK
  BY DEF ServiceInv
<1>2. ASSUME Scan(t) \/ CreateSession(t) \/ Build(t) PROVE runtime \in Gen /\ conv[t] = None
  <2>1. at[t] \in {"scan", "ready", "missed"}
    BY <1>2 DEF Scan, CreateSession, Build, Missed
  <2>2. conv[t] = None
    BY <2>1 DEF ServiceInv, ThreadInv, HolderAt, Held
  <2>3. at[t] = "ready" => job[t].kind # "close"
    BY <1>2 DEF Scan, CreateSession, Build, Missed
  <2>4. runtime # None
    BY <2>1, <2>3 DEF ServiceInv, ThreadInv, PlaceAt
  <2>5. QED
    BY <1>1, <2>2, <2>4 DEF TypeOK
<1>3. ASSUME Scan(t)
      PROVE  UNCHANGED memory \/ \E s \in toScan, l \in BOOLEAN : Enters(s, l) /\ Bound(file[s].policy)
  BY <1>3 DEF Scan, Enters
<1>4. ASSUME CreateSession(t)
      PROVE  \E s \in Session : file[s] = None /\ Enters(s, TRUE) /\ Creates(s)
  BY <1>4 DEF CreateSession, Enters, Creates
<1>5. ASSUME Build(t)
      PROVE  /\ job[t].session \in Session /\ Enters(job[t].session, FALSE)
             /\ job[t].session \in FilesOf(runtime) /\ Bound(file[job[t].session].policy)
  BY <1>5 DEF Build, Enters, FilesOf
<1>6. QED
  BY <1>2, <1>3, <1>4, <1>5

LEMMA HoldersMemory ==
    ASSUME ServiceInv, NEW t \in Thread, Holders(t)
    PROVE  sessions' \in [Session -> Object \cup {None}] /\ object' \in ObjectTypes
<1> USE ServiceAssumption
<1>1. TypeOK
  BY DEF ServiceInv
<1>2. sessions \in [Session -> Object \cup {None}] /\ object \in ObjectTypes
  BY <1>1 DEF TypeOK, ObjectTypes
<1>3. PICK f \in ObjectTypes : f = object
  BY <1>2
<1>4. PICK c \in ObjectTypes : c = Closed
  BY Closing
<1>5. CASE \/ CreateRefused(t) \/ ReadFails(t) \/ Refused(t) \/ Started(t) \/ OpenFails(t)
           \/ ResetFails(t) \/ SwitchFails(t) \/ Retire(t)
  <2>1. Return(t, f) /\ UNCHANGED sessions
    BY <1>3, <1>5 DEF CreateRefused, ReadFails, Refused, Started, OpenFails, ResetFails,
                      SwitchFails, Retire, process
  <2>2. QED
    BY <1>1, <1>2, <2>1, ReturnKeeps
<1>6. CASE Close(t)
  <2>1. Return(t, c) /\ sessions' = [s \in Session |-> None]
    BY <1>4, <1>6 DEF Close
  <2>2. QED
    BY <1>1, <2>1, ReturnKeeps
<1>7. CASE Swap(t)
  BY <1>4, <1>7 DEF Swap
<1>8. CASE Scan(t) \/ CreateSession(t) \/ Build(t)
  <2>1. runtime \in Gen /\ conv[t] = None
    BY <1>8, EnterSteps
  <2>2. CASE UNCHANGED memory
    BY <1>2, <2>2 DEF memory
  <2>3. CASE \E s \in Session, l \in BOOLEAN : Enters(s, l)
    BY <1>1, <2>1, <2>3, Entering
  <2>4. toScan \subseteq Session
    BY <1>1 DEF TypeOK
  <2>5. QED
    BY <1>8, <2>2, <2>3, <2>4, EnterSteps
<1>9. CASE UNCHANGED memory
  BY <1>2, <1>9 DEF memory
<1>10. CASE \/ FindActive(t) \/ Create(t) \/ Seed(t) \/ Activate(t) \/ RemoveUnnamed(t)
            \/ OpenGeneration(t) \/ Scanned(t) \/ Cached(t)
  BY <1>9, <1>10 DEF FindActive, Create, Seed, Activate, RemoveUnnamed, OpenGeneration, Scanned, Cached
<1>11. CASE LockNext(t) \/ AllLocked(t) \/ OpenFresh(t) \/ Switch(t)
  BY <1>9, <1>11 DEF LockNext, AllLocked, OpenFresh, Switch
<1>12. QED
  BY <1>5, <1>6, <1>7, <1>8, <1>10, <1>11 DEF Holders, Opening, Registered, Resetting

LEMMA HoldersProcess ==
    ASSUME ServiceInv, NEW t \in Thread, Holders(t)
    PROVE  /\ UNCHANGED <<up, config>> /\ runtime' \in Gen \cup {None} /\ handles' \subseteq Gen
           /\ fresh' \in Gen \cup {None} /\ toScan' \subseteq Session
           /\ faults' \in 0..MaxFaults
<1> USE ServiceAssumption
<1>1. TypeOK /\ HolderFacts(t)
  BY HolderData DEF ServiceInv
<1>2. UNCHANGED <<up, config>>
  BY DEF Holders, Opening, Registered, Resetting, FindActive, Create, Seed, Activate, RemoveUnnamed,
         OpenGeneration, Scan, Scanned, Started, CreateSession, CreateRefused, Cached, Build, Refused,
         LockNext, AllLocked, OpenFresh, Switch, Swap, Retire, Close, OpenFails, ReadFails,
         ResetFails, SwitchFails, process
<1>3. faults' \in 0..MaxFaults
  <2>1. faults' = faults \/ (faults < MaxFaults /\ faults' = faults + 1)
    BY DEF Holders, Opening, Registered, Resetting, FindActive, Create, Seed, Activate, RemoveUnnamed,
           OpenGeneration, Scan, Scanned, Started, CreateSession, CreateRefused, Cached, Build, Refused,
           LockNext, AllLocked, OpenFresh, Switch, Swap, Retire, Close, OpenFails, ReadFails,
           ResetFails, SwitchFails, Fails
  <2>2. faults \in 0..MaxFaults
    BY <1>1 DEF TypeOK
  <2>3. QED
    BY <2>1, <2>2
<1>4. runtime' \in {runtime, pointer, fresh, None}
  BY DEF Holders, Opening, Registered, Resetting, FindActive, Create, Seed, Activate, RemoveUnnamed,
         OpenGeneration, Scan, Scanned, Started, CreateSession, CreateRefused, Cached, Build, Refused,
         LockNext, AllLocked, OpenFresh, Switch, Swap, Retire, Close, OpenFails, ReadFails,
         ResetFails, SwitchFails, process
<1>5. runtime' \in Gen \cup {None}
  BY <1>1, <1>4 DEF TypeOK
<1>6. \/ handles' \subseteq handles
      \/ OpenGeneration(t) /\ handles' = handles \cup {pointer}
      \/ OpenFresh(t) /\ handles' = handles \cup {fresh}
  BY DEF Holders, Opening, Registered, Resetting, FindActive, Create, Seed, Activate, RemoveUnnamed,
         OpenGeneration, Scan, Scanned, Started, CreateSession, CreateRefused, Cached, Build, Refused,
         LockNext, AllLocked, OpenFresh, Switch, Swap, Retire, Close, OpenFails, ReadFails,
         ResetFails, SwitchFails, process
<1>7. handles' \subseteq Gen
  BY <1>1, <1>6 DEF TypeOK, HolderFacts, OpenGeneration, OpenFresh
<1>8. fresh' \in {fresh, None, runtime} \cup Gen
  BY DEF Holders, Opening, Registered, Resetting, FindActive, Create, Seed, Activate, RemoveUnnamed,
         OpenGeneration, Scan, Scanned, Started, CreateSession, CreateRefused, Cached, Build, Refused,
         LockNext, AllLocked, OpenFresh, Switch, Swap, Retire, Close, OpenFails, ReadFails,
         ResetFails, SwitchFails, opening
<1>9. fresh' \in Gen \cup {None}
  BY <1>1, <1>8 DEF TypeOK
<1>10. toScan' \subseteq toScan \/ toScan' = WithInflight(pointer)
  BY DEF Holders, Opening, Registered, Resetting, FindActive, Create, Seed, Activate, RemoveUnnamed,
         OpenGeneration, Scan, Scanned, Started, CreateSession, CreateRefused, Cached, Build, Refused,
         LockNext, AllLocked, OpenFresh, Switch, Swap, Retire, Close, OpenFails, ReadFails,
         ResetFails, SwitchFails, opening
<1>11. toScan' \subseteq Session
  BY <1>1, <1>10 DEF TypeOK, WithInflight, FilesOf
<1>12. QED
  BY <1>2, <1>3, <1>5, <1>7, <1>9, <1>11

LEMMA TypeStep ==
    ASSUME ServiceInv, [Next]_vars
    PROVE  TypeOK'
<1> USE ServiceAssumption
<1>1. TypeOK
  BY DEF ServiceInv
<1>2. ASSUME NEW t \in Thread, Holders(t) PROVE TypeOK'
  <2>1. dir' \in DirTypes /\ pointer' \in Gen \cup {None} /\ file' \in FileTypes
    BY <1>2, HoldersDisk
  <2>2. sessions' \in [Session -> Object \cup {None}] /\ object' \in ObjectTypes
    BY <1>2, HoldersMemory
  <2>3. /\ UNCHANGED <<up, config>> /\ runtime' \in Gen \cup {None} /\ handles' \subseteq Gen
        /\ fresh' \in Gen \cup {None} /\ toScan' \subseteq Session
        /\ faults' \in 0..MaxFaults
    BY <1>2, HoldersProcess
  <2>4. PlacesOK
    BY <1>2, HoldersPlaces
  <2>5. QED
    BY <1>1, <2>1, <2>2, <2>3, <2>4 DEF TypeOK, DirTypes, FileTypes, ObjectTypes, PlacesOK
<1>3. ASSUME NEW t \in Thread, Acts(t) PROVE TypeOK'
  BY <1>2, <1>3, StepsSplit, OwnTypes
<1>4. CASE Crash
  <2>1. faults' \in 0..MaxFaults
    BY <1>1, <1>4 DEF Crash, Fails, TypeOK
  <2>2. "idle" \in Places
    BY DEF Places
  <2>3. QED
    BY <1>1, <1>4, <2>1, <2>2 DEF Crash, disk, TypeOK
<1>5. CASE Boot
  <2>1. PICK t \in Thread : /\ job' = [job EXCEPT ![t] = [kind |-> "start", session |-> None]]
                            /\ at' = [at EXCEPT ![t] = "registry"]
    BY <1>5 DEF Boot, Goto
  <2>2. PICK a \in Asks : a = [kind |-> "start", session |-> None]
    BY DEF Asks
  <2>3. "registry" \in Places
    BY DEF Places
  <2>4. QED
    BY <1>1, <1>5, <2>1, <2>2, <2>3 DEF Boot, disk, memory, opening, TypeOK
<1>6. CASE UNCHANGED vars
  BY <1>1, <1>6 DEF vars, disk, process, memory, opening, TypeOK
<1>7. QED
  BY <1>3, <1>4, <1>5, <1>6 DEF Next, Acts

-----------------------------------------------------------------------------
(* The threads that do not step *)

LEMMA SameFilesOf ==
    ASSUME SameFiles, NEW g
    PROVE  FilesOf(g)' = FilesOf(g)
BY DEF SameFiles, FilesOf

LEMMA OthersHolder ==
    ASSUME ServiceInv, NEW t \in Thread, Others(t), NEW u \in Thread \ {t}
    PROVE  HolderAt(u)'
<1>1. HolderAt(u)
  BY DEF ServiceInv, ThreadInv
<1>2. registry' = u <=> registry = u
  BY ServiceAssumption DEF Others
<1>3. QED
  BY <1>1, <1>2 DEF Others, HolderAt

\* Only the holder of the registry lock is where the generations and the map matter.
LEMMA OthersOutside ==
    ASSUME ServiceInv, NEW t \in Thread, Others(t), UNCHANGED up, registry = t, NEW u \in Thread \ {t}
    PROVE  /\ at[u] \notin Inside /\ at'[u] = at[u]
           /\ PlaceAt(u)' /\ FreshAt(u)'
<1>1. at[u] \notin Inside
  BY DEF ServiceInv, ThreadInv, HolderAt
<1>2. at'[u] = at[u] /\ job'[u] = job[u]
  BY DEF Others
<1>3. at[u] # "idle" => up' /\ job[u] \in Asks
  BY DEF ServiceInv, ThreadInv, PlaceAt
<1>4. PlaceAt(u)'
  BY <1>1, <1>2, <1>3 DEF PlaceAt, Inside
<1>5. FreshAt(u)'
  BY <1>1, <1>2 DEF FreshAt, Inside
<1>6. QED
  BY <1>1, <1>2, <1>4, <1>5

\* A thread's conversation stays in the map or closed while the map is kept.
LEMMA KeptConv ==
    ASSUME ServiceInv, NEW u \in Thread, conv'[u] = conv[u], SameObjects, UNCHANGED sessions
    PROVE  conv'[u] # None =>
             /\ object'[conv'[u]] # None
             /\ object'[conv'[u]].closed \/ sessions'[object'[conv'[u]].session] = conv'[u]
             /\ object'[conv'[u]].closed = object[conv[u]].closed
<1> SUFFICES ASSUME conv'[u] # None
             PROVE  /\ object'[conv'[u]] # None
                    /\ object'[conv'[u]].closed \/ sessions'[object'[conv'[u]].session] = conv'[u]
                    /\ object'[conv'[u]].closed = object[conv[u]].closed
  OBVIOUS
<1>1. conv[u] \in Object /\ object[conv[u]] # None
      /\ (object[conv[u]].closed \/ sessions[object[conv[u]].session] = conv[u])
  BY DEF ServiceInv, TypeOK, ThreadInv, ConvAt
<1>2. SameObject(conv[u])
  BY <1>1 DEF SameObjects
<1>3. QED
  BY <1>1, <1>2 DEF SameObject

\* A lock is not taken from a thread that works on its conversation.
LEMMA KeptLock ==
    ASSUME ServiceInv, NEW t \in Thread, Others(t), NEW u \in Thread \ {t},
           at[u] \in {"viewing", "checking", "working", "marked"}
    PROVE  lock'[conv'[u]] = u
<1>1. conv[u] \in Object /\ lock[conv[u]] = u
  <2>1. HolderAt(u) /\ LockAt(u) /\ conv[u] \in Object \cup {None}
    BY DEF ServiceInv, ThreadInv, TypeOK
  <2>2. QED
    BY <2>1 DEF HolderAt, LockAt, Held
<1>2. QED
  BY <1>1, ServiceAssumption DEF Others

LEMMA OwnOtherThreads ==
    ASSUME ServiceInv, NEW t \in Thread, Own(t), NEW u \in Thread \ {t}
    PROVE  HolderAt(u)' /\ PlaceAt(u)' /\ FreshAt(u)' /\ ConvAt(u)' /\ LockAt(u)'
<1> USE ServiceAssumption
<1>1. /\ Others(t)
      /\ UNCHANGED <<dir, pointer, up, config, runtime, handles, sessions, fresh, toScan>>
      /\ conv'[t] \in {conv[t], None}
  BY OwnOthers DEF opening
<1>2. SameFiles /\ SameObjects
  BY OwnFiles, OwnObjects
<1>3. HolderAt(u)'
  BY <1>1, OthersHolder
<1>4. PlaceAt(u)'
  <2>1. FilesOf(runtime)' = FilesOf(runtime)
    BY <1>1, <1>2 DEF SameFiles, FilesOf
  <2>2. PlaceAt(u)
    BY DEF ServiceInv, ThreadInv
  <2>3. toScan' \subseteq FilesOf(runtime)' <=> toScan \subseteq FilesOf(runtime)
    BY <1>1, <2>1
  <2>4. QED
    BY <1>1, <2>2, <2>3 DEF PlaceAt, Others
<1>5. FreshAt(u)'
  BY <1>1 DEF FreshAt, ServiceInv, ThreadInv, Others
<1>6. ConvAt(u)'
  <2>1. \A v \in Thread : conv'[v] # None => conv'[v] = conv[v]
    BY <1>1 DEF Others
  <2>2. ASSUME NEW v \in Thread, conv'[v] # None
        PROVE  /\ object'[conv'[v]] # None
               /\ object'[conv'[v]].closed \/ sessions'[object'[conv'[v]].session] = conv'[v]
               /\ object'[conv'[v]].closed = object[conv[v]].closed
    BY <1>1, <1>2, <2>1, <2>2, KeptConv
  <2>3. ConvAt(u) /\ at'[u] = at[u]
    BY <1>1 DEF ServiceInv, ThreadInv, Others
  <2>4. QED
    BY <2>1, <2>2, <2>3 DEF ConvAt
<1>7. LockAt(u)'
  <2>1. LockAt(u) /\ at'[u] = at[u] /\ conv'[u] = conv[u]
    BY <1>1 DEF ServiceInv, ThreadInv, Others
  <2>2. at[u] \in {"viewing", "checking", "working", "marked"} => lock'[conv'[u]] = u
    BY <1>1, KeptLock
  <2>3. at[u] \in {"working", "marked"} => ~object'[conv'[u]].closed
    <3>1. at[u] \in {"working", "marked"} => conv'[u] # None /\ ~object[conv[u]].closed
      BY <2>1 DEF LockAt, ServiceInv, ThreadInv, HolderAt, Held
    <3>2. QED
      BY <1>1, <1>2, <2>1, <3>1, KeptConv
  <2>4. ASSUME at[u] \in {"create", "seed", "open fresh", "switch", "swap"}, runtime # None,
               NEW o \in InUse'
        PROVE  lock'[o] = u
    <3>1. o \in InUse
      BY <1>1 DEF InUse
    <3>2. o \in Object
      BY <3>1 DEF InUse, ServiceInv, TypeOK
    <3>3. lock[o] = u
      BY <2>1, <2>4, <3>1 DEF LockAt
    <3>4. QED
      BY <1>1, <3>2, <3>3 DEF Others
  <2>5. QED
    BY <1>1, <2>1, <2>2, <2>3, <2>4 DEF LockAt
<1>8. QED
  BY <1>3, <1>4, <1>5, <1>6, <1>7

-----------------------------------------------------------------------------
(* The thread that steps, without the registry lock *)

\* A thread that has ended its request has nothing to say.
LEMMA EndedThread ==
    ASSUME ServiceInv, NEW t \in Thread, Ends(t)
    PROVE  HolderAt(t)' /\ PlaceAt(t)' /\ FreshAt(t)' /\ ConvAt(t)' /\ LockAt(t)'
<1>1. at'[t] = "idle" /\ conv'[t] = None /\ registry' # t
  BY ServiceAssumption DEF ServiceInv, TypeOK, Ends
<1>2. HolderAt(t)'
  BY <1>1 DEF HolderAt, Inside, Held
<1>3. PlaceAt(t)' /\ FreshAt(t)'
  BY <1>1 DEF PlaceAt, FreshAt
<1>4. ConvAt(t)' /\ LockAt(t)'
  BY <1>1 DEF ConvAt, LockAt
<1>5. QED
  BY <1>2, <1>3, <1>4

LEMMA OwnThread ==
    ASSUME ServiceInv, NEW t \in Thread, Own(t)
    PROVE  HolderAt(t)' /\ PlaceAt(t)' /\ FreshAt(t)' /\ ConvAt(t)' /\ LockAt(t)'
<1> USE ServiceAssumption
<1>1. TypeOK
  BY DEF ServiceInv
<1>2. /\ HolderAt(t) /\ PlaceAt(t) /\ ConvAt(t) /\ LockAt(t)
  BY DEF ServiceInv, ThreadInv
<1>3. SameObjects /\ UNCHANGED <<sessions, up>>
  BY OwnObjects, OwnOthers
<1>4. CASE \/ ViewCreated(t) \/ WasReset(t) \/ LoadFails(t) \/ Serve(t) \/ Commit(t) \/ Discard(t)
  <2>1. Ends(t)
    BY <1>4, ReturnEnds DEF ViewCreated, WasReset, LoadFails, Serve, Commit, Discard
  <2>2. QED
    BY <2>1, EndedThread
<1>5. CASE \E wanted \in Asks : Ask(t, wanted)
  <2>1. PICK wanted \in Asks : Ask(t, wanted)
    BY <1>5
  <2>2. up' /\ at'[t] = "registry" /\ job'[t] = wanted /\ conv'[t] = None /\ registry' = registry
    BY <1>1, <1>2, <1>3, <2>1 DEF Ask, Goto, TypeOK, HolderAt, Held
  <2>3. HolderAt(t)'
    BY <1>2, <2>1, <2>2 DEF Ask, HolderAt, Inside, Held
  <2>4. PlaceAt(t)' /\ FreshAt(t)' /\ ConvAt(t)' /\ LockAt(t)'
    BY <2>2 DEF PlaceAt, FreshAt, ConvAt, LockAt
  <2>5. QED
    BY <2>3, <2>4
<1>6. CASE TakeRegistry(t)
  <2>1. /\ registry' = t /\ conv'[t] = None /\ job'[t] = job[t] /\ job[t] \in Asks
        /\ runtime' = runtime /\ up'
        /\ at'[t] = IF runtime # None \/ job[t].kind = "close" THEN "ready" ELSE "opening"
    BY <1>1, <1>2, <1>3, <1>6 DEF TakeRegistry, Goto, process, TypeOK, HolderAt, PlaceAt, Held
  <2>2. HolderAt(t)'
    BY <2>1 DEF HolderAt, Inside, Held
  <2>3. PlaceAt(t)'
    BY <2>1 DEF PlaceAt
  <2>4. FreshAt(t)' /\ ConvAt(t)' /\ LockAt(t)'
    BY <2>1 DEF FreshAt, ConvAt, LockAt
  <2>5. QED
    BY <2>2, <2>3, <2>4
<1>7. CASE TakeLock(t) \/ Load(t) \/ Mark(t)
  <2>1. /\ registry' = registry /\ conv'[t] = conv[t] /\ job'[t] = job[t]
        /\ at[t] \in Held
    BY <1>7 DEF TakeLock, Load, Mark, Held
  <2>2. at'[t] \in {"viewing", "checking", "working", "marked"}
    BY <1>1, <1>7 DEF TakeLock, Load, Mark, Goto, TypeOK
  <2>3. conv[t] \in Object /\ object[conv[t]] # None
    BY <2>1, HeldObject
  <2>4. HolderAt(t)'
    BY <1>2, <2>1, <2>2 DEF HolderAt, Inside, Held
  <2>5. PlaceAt(t)' /\ FreshAt(t)'
    BY <1>2, <1>3, <2>1, <2>2 DEF PlaceAt, FreshAt, Held
  <2>6. ConvAt(t)' /\ object'[conv'[t]].closed = object[conv[t]].closed
    BY <1>3, <2>1, <2>2, <2>3, KeptConv DEF ConvAt
  <2>7. lock'[conv'[t]] = t
    <3>1. CASE TakeLock(t)
      BY <1>1, <2>1, <2>3, <3>1 DEF TakeLock, TypeOK
    <3>2. CASE Load(t) \/ Mark(t)
      <4>1. lock' = lock /\ at[t] \in {"checking", "working"}
        BY <3>2 DEF Load, Mark
      <4>2. QED
        BY <1>2, <2>1, <4>1 DEF LockAt
    <3>3. QED
      BY <1>7, <3>1, <3>2
  <2>8. at'[t] \in {"working", "marked"} => ~object[conv[t]].closed
    <3>1. CASE TakeLock(t)
      BY <1>1, <3>1 DEF TakeLock, Goto, TypeOK
    <3>2. CASE Load(t) \/ Mark(t)
      BY <1>2, <3>2 DEF Load, Mark, LockAt
    <3>3. QED
      BY <1>7, <3>1, <3>2
  <2>9. LockAt(t)'
    BY <2>2, <2>6, <2>7, <2>8 DEF LockAt
  <2>10. QED
    BY <2>4, <2>5, <2>6, <2>9
<1>8. QED
  BY <1>4, <1>5, <1>6, <1>7 DEF Own

\* The map stays right as long as it and what it refers to stay.
LEMMA KeptMap ==
    ASSUME ServiceInv, SameFiles, SameObjects, UNCHANGED <<config, runtime, sessions>>
    PROVE  MapInv'
<1>1. ASSUME NEW s \in Session, sessions[s] # None
      PROVE  SameObject(sessions[s])
  <2>1. sessions[s] \in Object /\ object[sessions[s]] # None
    BY <1>1 DEF ServiceInv, TypeOK, MapInv
  <2>2. sessions[s] \in InUse
    BY <1>1 DEF InUse
  <2>3. QED
    BY <2>1, <2>2 DEF SameObjects
<1>2. \A s \in Session : s \in FilesOf(runtime)' <=> s \in FilesOf(runtime)
  BY DEF SameFiles, FilesOf
<1>3. \A s \in Session : s \in FilesOf(runtime) => file'[s].policy = file[s].policy
  BY DEF SameFiles, FilesOf
<1>4. QED
  BY <1>1, <1>2, <1>3 DEF ServiceInv, MapInv, SameObject

\* The shared parts of the invariant, when nothing shared changes.
LEMMA OwnShared ==
    ASSUME ServiceInv, NEW t \in Thread, Own(t)
    PROVE  GenerationInv' /\ MapInv' /\ FilesInv'
<1> USE ServiceAssumption
<1>1. /\ Others(t)
      /\ UNCHANGED <<dir, pointer, up, config, runtime, handles, sessions, fresh, toScan>>
  BY OwnOthers DEF opening
<1>2. SameFiles /\ SameObjects
  BY OwnFiles, OwnObjects
<1>3. at[t] \notin {"switch", "swap"} /\ at'[t] \notin {"switch", "swap"}
  <2>1. at[t] \notin {"switch", "swap"}
    BY DEF Own, Ask, TakeRegistry, TakeLock, ViewCreated, WasReset, Load, LoadFails, Serve, Mark,
           Commit, Discard
  <2>2. at'[t] \notin {"switch", "swap"}
    BY DEF Own, Ask, TakeRegistry, TakeLock, ViewCreated, WasReset, Load, LoadFails, Serve, Mark,
           Commit, Discard, Return, Goto, ServiceInv, TypeOK
  <2>3. QED
    BY <2>1, <2>2
<1>4. \A u \in Thread : at'[u] = "swap" <=> at[u] = "swap"
  BY <1>1, <1>3 DEF Others
<1>5. \A u \in Thread : at'[u] \in {"switch", "swap"} <=> at[u] \in {"switch", "swap"}
  BY <1>1, <1>3 DEF Others
<1>6. GenerationInv'
  BY <1>1, <1>4, <1>5 DEF GenerationInv, ServiceInv
<1>7. MapInv'
  BY <1>1, <1>2, KeptMap
<1>8. FilesInv'
  BY <1>2, SameFilesOf DEF FilesInv, ServiceInv
<1>9. QED
  BY <1>6, <1>7, <1>8

-----------------------------------------------------------------------------
(* What the holder's steps keep *)

LEMMA HoldersFiles ==
    ASSUME ServiceInv, NEW t \in Thread, Holders(t),
           ~RemoveUnnamed(t), ~CreateSession(t), ~SwitchFails(t), ~Retire(t)
    PROVE  SameFiles
<1>1. file \in FileTypes
  BY DEF ServiceInv, TypeOK, FileTypes
<1>2. CASE file' = file
  BY <1>2 DEF SameFiles
<1>3. CASE Scan(t)
  <2>1. CASE \E s \in toScan : file' = [file EXCEPT ![s].marked = FALSE]
    <3>1. PICK s \in toScan : file' = [file EXCEPT ![s].marked = FALSE]
      BY <2>1
    <3>2. s \in Session /\ file[s] # None
      BY <1>3 DEF Scan, ServiceInv, ThreadInv, PlaceAt, FilesOf, TypeOK
    <3>3. PICK f \in FileTypes : f = file
      BY <1>1
    <3>4. file' = Marking(f, s, FALSE)
      BY <3>1, <3>3 DEF Marking
    <3>5. AlikeFiles(f, file')
      BY <3>2, <3>3, <3>4, FileMarked
    <3>6. QED
      BY <3>3, <3>5 DEF SameFiles, AlikeFiles
  <2>2. QED
    BY <1>2, <1>3, <2>1 DEF Scan
<1>4. CASE Create(t) \/ Seed(t) \/ Activate(t) \/ Switch(t)
  BY <1>2, <1>4 DEF Create, Seed, Activate, Switch
<1>5. CASE CreateRefused(t) \/ ReadFails(t) \/ Refused(t) \/ Started(t) \/ OpenFails(t) \/ ResetFails(t)
  BY <1>2, <1>5 DEF CreateRefused, ReadFails, Refused, Started, OpenFails, ResetFails, disk
<1>6. CASE FindActive(t) \/ OpenGeneration(t) \/ Scanned(t) \/ Cached(t) \/ Build(t)
  BY <1>2, <1>6 DEF FindActive, OpenGeneration, Scanned, Cached, Build, disk
<1>7. CASE LockNext(t) \/ AllLocked(t) \/ OpenFresh(t) \/ Swap(t) \/ Close(t)
  BY <1>2, <1>7 DEF LockNext, AllLocked, OpenFresh, Swap, Close, disk
<1>8. QED
  BY <1>3, <1>4, <1>5, <1>6, <1>7 DEF Holders, Opening, Registered, Resetting

\* The conversations that are found for a session are closed.
Shut(s) ==
    \A u \in Thread : conv[u] # None /\ object[conv[u]].session = s => object[conv[u]].closed

\* The session has its file in the generation in use, under the configured policy.
Filed(s) == file'[s] # None /\ file'[s].gen = runtime /\ file'[s].policy = config

\* Every conversation in use is closed and leaves the map.
Closes ==
    /\ sessions' = [s \in Session |-> None]
    /\ \A o \in Object : o \in InUse \/ (\E u \in Thread : conv'[u] = o) => object'[o] = Closed[o]

\* Nobody has an open conversation of a session that is not in the map.
LEMMA AbsentIsShut ==
    ASSUME ServiceInv, NEW s \in Session, sessions[s] = None
    PROVE  Shut(s)
BY DEF ServiceInv, ThreadInv, ConvAt, Shut

\* The three ways in which the map changes, or does not, under the registry lock.
LEMMA HoldersMap ==
    ASSUME ServiceInv, NEW t \in Thread, Holders(t)
    PROVE  \/ UNCHANGED sessions /\ SameObjects
           \/ /\ Scan(t) \/ CreateSession(t) \/ Build(t)
              /\ \E s \in Session, l \in BOOLEAN : Enters(s, l) /\ Shut(s) /\ Filed(s)
           \/ (Swap(t) \/ Close(t)) /\ Closes
<1> USE ServiceAssumption
<1>1. TypeOK
  BY DEF ServiceInv
<1>2. PICK f \in ObjectTypes : f = object
  BY <1>1 DEF TypeOK, ObjectTypes
<1>3. CASE \/ CreateRefused(t) \/ ReadFails(t) \/ Refused(t) \/ Started(t) \/ OpenFails(t)
           \/ ResetFails(t) \/ SwitchFails(t) \/ Retire(t)
  <2>1. Return(t, f) /\ UNCHANGED sessions
    BY <1>2, <1>3 DEF CreateRefused, ReadFails, Refused, Started, OpenFails, ResetFails,
                      SwitchFails, Retire, process
  <2>2. \A o \in Object : o \in InUse \/ (\E u \in Thread : conv'[u] = o) => object'[o] = f[o]
    BY <1>1, <2>1, ReturnKeeps
  <2>3. QED
    BY <1>2, <2>1, <2>2 DEF SameObjects, SameObject
<1>4. CASE UNCHANGED memory
  BY <1>4 DEF memory, SameObjects, SameObject
<1>5. CASE \/ FindActive(t) \/ Create(t) \/ Seed(t) \/ Activate(t) \/ RemoveUnnamed(t)
           \/ OpenGeneration(t) \/ Scanned(t) \/ Cached(t)
  BY <1>4, <1>5 DEF FindActive, Create, Seed, Activate, RemoveUnnamed, OpenGeneration, Scanned, Cached
<1>6. CASE LockNext(t) \/ AllLocked(t) \/ OpenFresh(t) \/ Switch(t)
  BY <1>4, <1>6 DEF LockNext, AllLocked, OpenFresh, Switch
<1>7. CASE Scan(t)
  <2>1. CASE UNCHANGED memory
    BY <1>4, <2>1
  <2>2. CASE \E s \in toScan, l \in BOOLEAN : Enters(s, l) /\ Bound(file[s].policy)
    <3>1. PICK s \in toScan, l \in BOOLEAN : Enters(s, l) /\ Bound(file[s].policy)
      BY <2>2
    <3>2. Shut(s)
      BY <1>7 DEF Scan, Shut, ServiceInv, ThreadInv, ConvAt
    <3>3. s \in FilesOf(runtime) /\ s \in Session
      BY <1>1, <1>7 DEF Scan, ServiceInv, ThreadInv, PlaceAt, TypeOK
    <3>4. SameFiles
      BY <1>7, HoldersFiles DEF Scan, RemoveUnnamed, CreateSession, SwitchFails, Retire
    <3>5. Filed(s)
      BY <3>1, <3>3, <3>4 DEF Filed, SameFiles, FilesOf, Bound
    <3>6. QED
      BY <1>7, <3>1, <3>2, <3>3, <3>5
  <2>3. QED
    BY <1>7, <2>1, <2>2, EnterSteps
<1>8. CASE CreateSession(t)
  <2>1. PICK s \in Session : file[s] = None /\ Enters(s, TRUE) /\ Creates(s)
    BY <1>8, EnterSteps
  <2>2. sessions[s] = None
    BY <2>1 DEF ServiceInv, MapInv, FilesOf
  <2>3. runtime \in Gen
    BY <1>8, EnterSteps
  <2>4. PICK v \in Files : v = [gen |-> runtime, policy |-> config, marked |-> FALSE]
    BY <1>1, <2>3 DEF Files, TypeOK
  <2>5. file' = [file EXCEPT ![s] = v]
    BY <2>1, <2>4 DEF Creates
  <2>6. file'[s] = v /\ v # None
    BY <1>1, <2>5 DEF TypeOK
  <2>7. Filed(s)
    BY <2>4, <2>6 DEF Filed
  <2>8. QED
    BY <1>8, <2>1, <2>2, <2>7, AbsentIsShut
<1>9. CASE Build(t)
  <2>1. PICK s \in Session : /\ s = job[t].session /\ Enters(s, FALSE)
                             /\ s \in FilesOf(runtime) /\ Bound(file[s].policy)
    BY <1>9, EnterSteps
  <2>2. Shut(s)
    <3>1. CASE at[t] = "missed"
      BY <3>1 DEF Shut, ServiceInv, ThreadInv, ConvAt
    <3>2. CASE sessions[s] = None
      BY <3>2, AbsentIsShut
    <3>3. QED
      BY <1>9, <2>1, <3>1, <3>2 DEF Build, Missed
  <2>3. Filed(s)
    BY <1>9, <2>1 DEF Build, disk, Filed, FilesOf, Bound
  <2>4. QED
    BY <1>9, <2>1, <2>2, <2>3
<1>10. PICK c \in ObjectTypes : c = Closed
  BY Closing
<1>11. CASE Swap(t)
  BY <1>11 DEF Swap, Closes
<1>12. CASE Close(t)
  <2>1. Return(t, c) /\ sessions' = [s \in Session |-> None]
    BY <1>10, <1>12 DEF Close
  <2>2. \A o \in Object : o \in InUse \/ (\E u \in Thread : conv'[u] = o) => object'[o] = c[o]
    BY <1>1, <2>1, ReturnKeeps
  <2>3. QED
    BY <1>10, <1>12, <2>1, <2>2 DEF Closes
<1>13. QED
  BY <1>3, <1>5, <1>6, <1>7, <1>8, <1>9, <1>11, <1>12 DEF Holders, Opening, Registered, Resetting

\* Everything in use is locked by the thread that closes it.
LEMMA ClosersLock ==
    ASSUME ServiceInv, NEW t \in Thread, Swap(t) \/ Close(t), NEW o \in InUse
    PROVE  lock[o] = t
<1>1. CASE Close(t)
  BY <1>1 DEF Close, Locked
<1>2. CASE Swap(t)
  <2>1. at[t] = "swap" /\ runtime # None
    BY <1>2 DEF Swap, ServiceInv, ThreadInv, PlaceAt
  <2>2. QED
    BY <2>1 DEF ServiceInv, ThreadInv, LockAt
<1>3. QED
  BY <1>1, <1>2

LEMMA HoldersOtherThreads ==
    ASSUME ServiceInv, NEW t \in Thread, Holders(t), NEW u \in Thread \ {t}
    PROVE  HolderAt(u)' /\ PlaceAt(u)' /\ FreshAt(u)' /\ ConvAt(u)' /\ LockAt(u)'
<1> USE ServiceAssumption
<1>1. Others(t) /\ registry = t /\ conv[t] = None
  BY HoldersOthers, HoldersHold
<1>2. HolderAt(u)'
  BY <1>1, OthersHolder
<1>3. /\ at[u] \notin Inside /\ at'[u] = at[u] /\ conv'[u] = conv[u]
      /\ PlaceAt(u)' /\ FreshAt(u)'
  BY <1>1, OthersOutside, HoldersProcess DEF Others
<1>4. /\ TypeOK /\ ConvAt(u) /\ LockAt(u) /\ HolderAt(u)
  BY DEF ServiceInv, ThreadInv
<1>5. at[u] \in {"viewing", "checking", "working", "marked"} => lock'[conv'[u]] = u
  BY <1>1, KeptLock
<1>6. at[u] \in {"working", "marked"} => conv[u] # None /\ ~object[conv[u]].closed
  BY <1>4 DEF LockAt, HolderAt, Held
<1>7. SUFFICES /\ conv[u] # None =>
                    /\ object'[conv[u]] # None
                    /\ object'[conv[u]].closed \/ sessions'[object'[conv[u]].session] = conv[u]
               /\ at[u] \in {"working", "marked"} => ~object'[conv[u]].closed
  <2>1. ConvAt(u)'
    BY <1>3, <1>7 DEF ConvAt, Inside
  <2>2. LockAt(u)'
    BY <1>3, <1>5, <1>7 DEF LockAt, Inside
  <2>3. QED
    BY <1>2, <1>3, <2>1, <2>2
<1>8. conv[u] # None =>
        /\ conv[u] \in Object /\ object[conv[u]] # None
        /\ object[conv[u]].session \in Session
        /\ object[conv[u]].closed \/ sessions[object[conv[u]].session] = conv[u]
  <2>1. conv[u] # None => /\ conv[u] \in Object /\ object[conv[u]] # None
                          /\ object[conv[u]].closed \/ sessions[object[conv[u]].session] = conv[u]
    BY <1>4 DEF ConvAt, TypeOK
  <2>2. conv[u] # None => object[conv[u]] \in Conversations
    BY <1>4, <2>1 DEF TypeOK
  <2>3. QED
    BY <2>1, <2>2 DEF Conversations
<1>9. CASE UNCHANGED sessions /\ SameObjects
  BY <1>3, <1>6, <1>9, KeptConv
<1>10. ASSUME NEW s \in Session, NEW l \in BOOLEAN, Enters(s, l), Shut(s),
              Scan(t) \/ CreateSession(t) \/ Build(t)
       PROVE  /\ conv[u] # None =>
                    /\ object'[conv[u]] # None
                    /\ object'[conv[u]].closed \/ sessions'[object'[conv[u]].session] = conv[u]
              /\ at[u] \in {"working", "marked"} => ~object'[conv[u]].closed
  <2>1. runtime \in Gen
    BY <1>10, EnterSteps
  <2>2. /\ Unused(NewObject) /\ \A r \in Session \ {s} : sessions'[r] = sessions[r]
        /\ \A o \in Object \ {NewObject} : object'[o] = object[o]
    BY <1>1, <1>4, <1>10, <2>1, Entering
  <2>3. conv[u] # None => object'[conv[u]] = object[conv[u]]
    BY <1>8, <2>2 DEF Unused
  <2>4. conv[u] # None /\ ~object[conv[u]].closed =>
          sessions'[object[conv[u]].session] = sessions[object[conv[u]].session]
    BY <1>8, <1>10, <2>2 DEF Shut
  <2>5. QED
    BY <1>6, <1>8, <2>3, <2>4
<1>11. CASE (Swap(t) \/ Close(t)) /\ Closes
  <2>1. conv[u] # None => object'[conv[u]] = Closed[conv[u]]
    BY <1>3, <1>8, <1>11 DEF Closes
  <2>2. conv[u] # None /\ conv[u] \in InUse => object'[conv[u]] # None /\ object'[conv[u]].closed
    BY <1>8, <2>1, Closing
  <2>3. conv[u] # None /\ conv[u] \notin InUse => object'[conv[u]] = object[conv[u]]
    BY <1>8, <2>1, Closing
  <2>4. conv[u] # None /\ conv[u] \notin InUse => object[conv[u]].closed
    BY <1>8 DEF InUse
  <2>5. at[u] \notin {"working", "marked"}
    <3>1. at[u] \in {"working", "marked"} => conv[u] \in InUse /\ lock[conv[u]] = u
      BY <1>4, <1>6, <2>4 DEF LockAt
    <3>2. QED
      BY <1>11, <3>1, ClosersLock
  <2>6. QED
    BY <1>8, <2>2, <2>3, <2>4, <2>5
<1>12. QED
  BY <1>9, <1>10, <1>11, HoldersMap

-----------------------------------------------------------------------------
(* The holder itself *)

\* No other thread is where the generations change.
LEMMA HolderAlone ==
    ASSUME ServiceInv, NEW t \in Thread, Holders(t)
    PROVE  /\ \A u \in Thread \ {t} : at[u] \notin {"switch", "swap"} /\ at'[u] = at[u]
           /\ at[t] \notin {"switch", "swap"} => handles = {runtime} \ {None}
           /\ at[t] # "swap" /\ runtime # None => runtime = pointer
           /\ runtime # None => pointer \in Gen
<1>1. \A u \in Thread \ {t} : at[u] \notin {"switch", "swap"} /\ at'[u] = at[u]
  BY HoldersHold, HoldersOthers, HoldersProcess, OthersOutside DEF Inside
<1>2. QED
  BY <1>1 DEF ServiceInv, GenerationInv, TypeOK

LEMMA HolderThread ==
    ASSUME ServiceInv, NEW t \in Thread, Holders(t)
    PROVE  HolderAt(t)' /\ PlaceAt(t)' /\ FreshAt(t)' /\ ConvAt(t)' /\ LockAt(t)'
<1> USE ServiceAssumption
<1>1. TypeOK /\ registry = t /\ at[t] \in Inside /\ conv[t] = None
  BY HoldersHold DEF ServiceInv
<1>2. HolderAt(t) /\ PlaceAt(t) /\ FreshAt(t) /\ ConvAt(t) /\ LockAt(t)
  BY DEF ServiceInv, ThreadInv
<1>3. /\ at[t] \notin {"switch", "swap"} => handles = {runtime} \ {None}
      /\ at[t] # "swap" /\ runtime # None => runtime = pointer
      /\ runtime # None => pointer \in Gen
  BY HolderAlone
<1>4. job[t] \in Asks /\ at[t] # "idle" /\ up'
  BY <1>1, <1>2, HoldersProcess DEF PlaceAt, Inside
<1>5. CASE \/ Started(t) \/ CreateRefused(t) \/ Refused(t) \/ OpenFails(t) \/ ReadFails(t)
           \/ ResetFails(t) \/ SwitchFails(t) \/ Retire(t) \/ Close(t)
  <2>1. Ends(t)
    BY <1>5, ReturnEnds DEF Started, CreateRefused, Refused, OpenFails, ReadFails, ResetFails,
                            SwitchFails, Retire, Close
  <2>2. QED
    BY <2>1, EndedThread
<1>6. CASE CreateSession(t) \/ Cached(t) \/ Build(t)
  <2>1. PICK o \in Object : /\ Found(t, o) /\ job' = job
                            /\ object'[o] # None /\ sessions'[object'[o].session] = o
    <3>1. CASE Cached(t)
      <4>1. job[t].session \in Session
        BY <1>4, <3>1 DEF Cached, Asks
      <4>2. PICK o \in Object : o = sessions[job[t].session] /\ Found(t, o)
        BY <1>1, <3>1, <4>1 DEF Cached, TypeOK
      <4>3. object[o] # None /\ sessions[object[o].session] = o
        BY <4>1, <4>2 DEF ServiceInv, MapInv
      <4>4. QED
        BY <3>1, <4>2, <4>3 DEF Cached, memory
    <3>2. CASE CreateSession(t) \/ Build(t)
      <4>1. PICK s \in Session, l \in BOOLEAN : Enters(s, l)
        BY <3>2, EnterSteps
      <4>2. /\ NewObject \in Object /\ sessions'[s] = NewObject
            /\ object'[NewObject] # None /\ object'[NewObject].session = s
        <5>1. runtime \in Gen
          BY <3>2, EnterSteps
        <5>2. /\ NewObject \in Object /\ sessions'[s] = NewObject /\ object'[NewObject] # None
              /\ object'[NewObject] = [session |-> s, gen |-> runtime, policy |-> config,
                                       loaded |-> l, closed |-> FALSE]
          BY <1>1, <4>1, <5>1, Entering, Zenon
        <5>3. object'[NewObject].session = s
          BY <5>2
        <5>4. QED
          BY <5>2, <5>3
      <4>3. Found(t, NewObject) /\ job' = job
        BY <3>2 DEF CreateSession, Build
      <4>4. QED
        BY <4>2, <4>3
    <3>3. QED
      BY <1>6, <3>1, <3>2
  <2>2. /\ at'[t] = "lock" /\ conv'[t] = o /\ registry' = None /\ job'[t] = job[t]
    BY <1>1, <2>1 DEF Found, Goto, TypeOK
  <2>3. HolderAt(t)'
    BY <2>2 DEF HolderAt, Inside, Held
  <2>4. PlaceAt(t)' /\ FreshAt(t)'
    BY <1>4, <2>2 DEF PlaceAt, FreshAt
  <2>5. ConvAt(t)' /\ LockAt(t)'
    BY <2>1, <2>2 DEF ConvAt, LockAt
  <2>6. QED
    BY <2>3, <2>4, <2>5
<1>7. SUFFICES ASSUME \/ FindActive(t) \/ Create(t) \/ Seed(t) \/ Activate(t) \/ RemoveUnnamed(t)
                      \/ OpenGeneration(t) \/ Scan(t) \/ Scanned(t) \/ LockNext(t) \/ AllLocked(t)
                      \/ OpenFresh(t) \/ Switch(t) \/ Swap(t)
               PROVE  HolderAt(t)' /\ PlaceAt(t)' /\ FreshAt(t)' /\ ConvAt(t)' /\ LockAt(t)'
  BY <1>5, <1>6 DEF Holders, Opening, Registered, Resetting
<1>8. /\ registry' = t /\ conv' = conv /\ conv'[t] = None /\ job'[t] = job[t]
  <2>1. CASE \/ FindActive(t) \/ Create(t) \/ Seed(t) \/ Activate(t) \/ RemoveUnnamed(t)
             \/ OpenGeneration(t)
    BY <1>1, <2>1 DEF FindActive, Create, Seed, Activate, RemoveUnnamed, OpenGeneration
  <2>2. CASE Scan(t) \/ Scanned(t) \/ LockNext(t) \/ AllLocked(t)
    BY <1>1, <2>2 DEF Scan, Scanned, LockNext, AllLocked
  <2>3. CASE OpenFresh(t) \/ Switch(t) \/ Swap(t)
    BY <1>1, <2>3 DEF OpenFresh, Switch, Swap
  <2>4. QED
    BY <1>7, <2>1, <2>2, <2>3
<1>9. at'[t] \in Inside
  BY <1>1, <1>7 DEF FindActive, Create, Seed, Activate, RemoveUnnamed, OpenGeneration, Scan,
                    Scanned, LockNext, AllLocked, OpenFresh, Switch, Swap, Goto, Inside, TypeOK
<1>10. HolderAt(t)'
  BY <1>8, <1>9 DEF HolderAt, Inside, Held
<1>11. ASSUME \A u \in Thread : at'[t] \in {"scan", "missed"} /\ conv[u] # None => object'[conv[u]].closed
       PROVE  ConvAt(t)'
  BY <1>8, <1>11 DEF ConvAt
<1>12. ASSUME at'[t] \in {"create", "seed", "open fresh", "switch", "swap"} /\ runtime' # None =>
                \A o \in InUse' : lock'[o] = t
       PROVE  LockAt(t)'
  BY <1>9, <1>12 DEF LockAt, Inside
<1>13. CASE FindActive(t)
  <2>1. /\ at'[t] = IF pointer = None THEN "create" ELSE "named"
        /\ UNCHANGED <<pointer, runtime>> /\ runtime = None
    BY <1>1, <1>2, <1>13 DEF FindActive, Goto, disk, process, TypeOK, PlaceAt
  <2>2. PlaceAt(t)' /\ FreshAt(t)'
    BY <1>4, <1>8, <2>1 DEF PlaceAt, FreshAt
  <2>3. ConvAt(t)' /\ LockAt(t)'
    BY <1>11, <1>12, <2>1
  <2>4. QED
    BY <1>10, <2>2, <2>3
<1>14. CASE Create(t)
  <2>1. PICK g \in Gen : dir[g] = "none" /\ fresh' = g
    BY <1>14 DEF Create
  <2>2. /\ at'[t] = "seed" /\ at[t] = "create"
        /\ UNCHANGED <<pointer, runtime, sessions, lock>>
    BY <1>1, <1>14 DEF Create, Goto, process, memory, TypeOK
  <2>3. g # pointer
    BY <2>1 DEF ServiceInv, GenerationInv
  <2>4. PlaceAt(t)' /\ FreshAt(t)'
    BY <1>2, <1>4, <1>8, <2>1, <2>2, <2>3 DEF PlaceAt, FreshAt
  <2>5. ConvAt(t)' /\ LockAt(t)'
    BY <1>2, <1>11, <1>12, <2>2 DEF LockAt, InUse
  <2>6. QED
    BY <1>10, <2>4, <2>5
<1>15. CASE Seed(t)
  <2>1. /\ at[t] = "seed" /\ at'[t] = IF runtime = None THEN "activate" ELSE "open fresh"
        /\ UNCHANGED <<pointer, runtime, sessions, lock, fresh>>
    BY <1>1, <1>15 DEF Seed, Goto, process, memory, opening, TypeOK
  <2>2. fresh \in Gen /\ dir'[fresh] = "seeded"
    BY <1>1, <1>2, <1>15, <2>1 DEF Seed, FreshAt, TypeOK
  <2>3. PlaceAt(t)' /\ FreshAt(t)'
    BY <1>2, <1>4, <1>8, <2>1, <2>2 DEF PlaceAt, FreshAt
  <2>4. ConvAt(t)' /\ LockAt(t)'
    BY <1>2, <1>11, <1>12, <2>1 DEF LockAt, InUse
  <2>5. QED
    BY <1>10, <2>3, <2>4
<1>16. CASE Activate(t)
  <2>1. /\ at'[t] = "named" /\ pointer' = fresh /\ fresh \in Gen /\ runtime' = None
    BY <1>1, <1>2, <1>16 DEF Activate, Goto, process, TypeOK, FreshAt, PlaceAt
  <2>2. PlaceAt(t)' /\ FreshAt(t)'
    BY <1>4, <1>8, <2>1 DEF PlaceAt, FreshAt
  <2>3. ConvAt(t)' /\ LockAt(t)'
    BY <1>11, <1>12, <2>1
  <2>4. QED
    BY <1>10, <2>2, <2>3
<1>17. CASE RemoveUnnamed(t)
  <2>1. at'[t] = "open" /\ pointer' = pointer /\ pointer # None /\ runtime' = None
    BY <1>1, <1>2, <1>17 DEF RemoveUnnamed, Goto, process, TypeOK, PlaceAt
  <2>2. PlaceAt(t)' /\ FreshAt(t)'
    BY <1>4, <1>8, <2>1 DEF PlaceAt, FreshAt
  <2>3. ConvAt(t)' /\ LockAt(t)'
    BY <1>11, <1>12, <2>1
  <2>4. QED
    BY <1>10, <2>2, <2>3
<1>18. CASE OpenGeneration(t)
  <2>1. /\ at'[t] = "scan" /\ pointer # None /\ runtime' = pointer /\ runtime = None
        /\ toScan' = WithInflight(pointer) /\ UNCHANGED <<file, sessions, object>>
    BY <1>1, <1>2, <1>18 DEF OpenGeneration, Goto, disk, memory, TypeOK, PlaceAt
  <2>2. toScan' \subseteq FilesOf(runtime)'
    BY <2>1 DEF WithInflight, FilesOf
  <2>3. PlaceAt(t)' /\ FreshAt(t)'
    BY <1>4, <1>8, <2>1, <2>2 DEF PlaceAt, FreshAt
  <2>4. ASSUME NEW u \in Thread, conv[u] # None PROVE object'[conv[u]].closed
    <3>1. conv[u] \in Object /\ ConvAt(u) /\ object[conv[u]] \in Conversations
      BY <1>1, <2>4 DEF ServiceInv, ThreadInv, ConvAt, TypeOK
    <3>2. sessions[object[conv[u]].session] = None
      BY <2>1, <3>1 DEF ServiceInv, MapInv, Conversations
    <3>3. QED
      BY <2>1, <2>4, <3>1, <3>2 DEF ConvAt
  <2>5. ConvAt(t)' /\ LockAt(t)'
    BY <1>11, <1>12, <2>1, <2>4
  <2>6. QED
    BY <1>10, <2>3, <2>5
<1>19. CASE Scan(t) \/ Scanned(t)
  <2>1. /\ at[t] = "scan" /\ at'[t] \in {"scan", "missed", "ready"} /\ runtime # None
        /\ runtime' = runtime /\ toScan' \subseteq toScan
    BY <1>1, <1>2, <1>19 DEF Scan, Scanned, Goto, process, opening, TypeOK, PlaceAt
  <2>2. SameFiles
    BY <1>19, HoldersFiles DEF Scan, Scanned, RemoveUnnamed, CreateSession, SwitchFails, Retire
  <2>3. toScan' \subseteq FilesOf(runtime)'
    BY <1>2, <2>1, <2>2 DEF PlaceAt, SameFiles, FilesOf
  <2>4. PlaceAt(t)' /\ FreshAt(t)'
    BY <1>4, <1>8, <2>1, <2>3 DEF PlaceAt, FreshAt
  <2>5. ASSUME NEW u \in Thread, conv[u] # None PROVE object'[conv[u]].closed
    <3>1. object[conv[u]].closed
      BY <1>2, <2>1, <2>5 DEF ConvAt
    <3>2. conv'[u] = conv[u] /\ conv[u] \in Object /\ object[conv[u]] # None
      BY <1>1, <1>8, <2>5 DEF ServiceInv, ThreadInv, ConvAt, TypeOK
    <3>3. CASE SameObjects
      BY <3>1, <3>2, <3>3 DEF SameObjects, SameObject
    <3>4. CASE Scan(t) /\ \E s \in Session, l \in BOOLEAN : Enters(s, l)
      <4>1. runtime \in Gen
        BY <3>4, EnterSteps
      <4>2. Unused(NewObject) /\ \A o \in Object \ {NewObject} : object'[o] = object[o]
        BY <1>1, <3>4, <4>1, Entering
      <4>3. QED
        BY <3>1, <3>2, <4>2 DEF Unused
    <3>5. QED
      BY <1>19, <3>3, <3>4, HoldersMap DEF Scan, Scanned, Swap, Close, CreateSession, Build, Missed, memory
  <2>6. ConvAt(t)' /\ LockAt(t)'
    BY <1>11, <1>12, <2>1, <2>5
  <2>7. QED
    BY <1>10, <2>4, <2>6
<1>20. CASE LockNext(t) \/ AllLocked(t)
  <2>1. /\ at[t] = "ready" /\ UNCHANGED <<runtime, sessions>>
        /\ LockNext(t) => at'[t] = "ready"
        /\ AllLocked(t) => at'[t] = "create" /\ Locked(t) /\ lock' = lock /\ runtime # None
    BY <1>1, <1>2, <1>20 DEF LockNext, AllLocked, Goto, process, memory, TypeOK, PlaceAt
  <2>2. PlaceAt(t)' /\ FreshAt(t)'
    BY <1>2, <1>4, <1>8, <1>20, <2>1 DEF PlaceAt, FreshAt
  <2>3. ConvAt(t)' /\ LockAt(t)'
    BY <1>11, <1>12, <1>20, <2>1 DEF Locked, InUse
  <2>4. QED
    BY <1>10, <2>2, <2>3
<1>21. CASE OpenFresh(t)
  <2>1. /\ at[t] = "open fresh" /\ at'[t] = "switch" /\ runtime # None
        /\ UNCHANGED <<dir, pointer, runtime, sessions, lock, fresh>>
        /\ handles' = handles \cup {fresh}
    BY <1>1, <1>2, <1>21 DEF OpenFresh, Goto, disk, memory, opening, TypeOK, PlaceAt
  <2>2. handles' = {runtime, fresh}
    BY <1>3, <2>1
  <2>3. PlaceAt(t)' /\ FreshAt(t)'
    BY <1>2, <1>4, <1>8, <2>1, <2>2 DEF PlaceAt, FreshAt
  <2>4. ConvAt(t)' /\ LockAt(t)'
    BY <1>2, <1>11, <1>12, <2>1 DEF LockAt, InUse
  <2>5. QED
    BY <1>10, <2>3, <2>4
<1>22. CASE Switch(t)
  <2>1. /\ at[t] = "switch" /\ at'[t] = "swap" /\ pointer' = fresh /\ runtime # None
        /\ UNCHANGED <<dir, runtime, handles, sessions, lock, fresh>>
    BY <1>1, <1>2, <1>22 DEF Switch, Goto, process, memory, opening, TypeOK, PlaceAt
  <2>2. runtime = pointer /\ dir[runtime] = "seeded" /\ fresh # runtime
    BY <1>2, <1>3, <2>1 DEF FreshAt, ServiceInv, GenerationInv
  <2>3. PlaceAt(t)' /\ FreshAt(t)'
    BY <1>2, <1>4, <1>8, <2>1, <2>2 DEF PlaceAt, FreshAt
  <2>4. ConvAt(t)' /\ LockAt(t)'
    BY <1>2, <1>11, <1>12, <2>1 DEF LockAt, InUse
  <2>5. QED
    BY <1>10, <2>3, <2>4
<1>23. CASE Swap(t)
  <2>1. /\ at[t] = "swap" /\ at'[t] = "retire" /\ pointer' = pointer /\ runtime # None
        /\ runtime' = fresh /\ fresh' = runtime
    BY <1>1, <1>2, <1>23 DEF Swap, Goto, disk, TypeOK, PlaceAt
  <2>2. fresh \in Gen /\ runtime \in Gen /\ runtime # pointer
    BY <1>1, <1>2, <2>1 DEF FreshAt, TypeOK
  <2>3. PlaceAt(t)' /\ FreshAt(t)'
    BY <1>4, <1>8, <2>1, <2>2 DEF PlaceAt, FreshAt
  <2>4. ConvAt(t)' /\ LockAt(t)'
    BY <1>11, <1>12, <2>1
  <2>5. QED
    BY <1>10, <2>3, <2>4
<1>24. QED
  BY <1>7, <1>13, <1>14, <1>15, <1>16, <1>17, <1>18, <1>19, <1>20, <1>21, <1>22, <1>23

-----------------------------------------------------------------------------
(* The generations, the map and the files after the holder's steps *)

LEMMA HolderGeneration ==
    ASSUME ServiceInv, NEW t \in Thread, Holders(t)
    PROVE  GenerationInv'
<1> USE ServiceAssumption
<1>1. TypeOK /\ HolderAt(t) /\ PlaceAt(t) /\ FreshAt(t) /\ HolderFacts(t)
  BY HolderData DEF ServiceInv, ThreadInv
<1>2. /\ \A u \in Thread \ {t} : at[u] \notin {"switch", "swap"} /\ at'[u] = at[u]
      /\ at[t] \notin {"switch", "swap"} => handles = {runtime} \ {None}
      /\ at[t] # "swap" /\ runtime # None => runtime = pointer
      /\ runtime # None => pointer \in Gen
      /\ pointer # None => dir[pointer] = "seeded"
  BY HolderAlone DEF ServiceInv, GenerationInv
<1>3. SUFFICES /\ pointer' # None => dir'[pointer'] = "seeded"
               /\ runtime' # None => pointer' # None /\ (runtime' = pointer' \/ at'[t] = "swap")
               /\ at'[t] \notin {"switch", "swap"} => handles' = {runtime'} \ {None}
  BY <1>3 DEF GenerationInv
<1>4. CASE UNCHANGED <<dir, pointer, runtime, handles>> /\ at[t] \notin {"switch", "swap"}
  BY <1>2, <1>4
<1>5. CASE \/ Started(t) \/ CreateRefused(t) \/ Refused(t) \/ OpenFails(t) \/ ReadFails(t)
           \/ ResetFails(t) \/ FindActive(t) \/ Scan(t) \/ Scanned(t) \/ CreateSession(t)
           \/ Cached(t) \/ Build(t) \/ LockNext(t) \/ AllLocked(t)
  BY <1>4, <1>5 DEF Started, CreateRefused, Refused, OpenFails, ReadFails, ResetFails, FindActive,
                    Scan, Scanned, CreateSession, Cached, Build, LockNext, AllLocked, disk, process,
                    Missed
<1>6. CASE Create(t)
  <2>1. UNCHANGED <<pointer, runtime, handles>> /\ at[t] = "create"
    BY <1>6 DEF Create, process
  <2>2. pointer # None => dir'[pointer] = dir[pointer]
    BY <1>1, <1>2, <1>6 DEF Create, TypeOK
  <2>3. QED
    BY <1>2, <2>1, <2>2
<1>7. CASE Seed(t)
  <2>1. UNCHANGED <<pointer, runtime, handles>> /\ at[t] = "seed"
    BY <1>7 DEF Seed, process
  <2>2. pointer # None => dir'[pointer] = dir[pointer]
    BY <1>1, <1>2, <1>7, <2>1 DEF Seed, TypeOK, FreshAt
  <2>3. QED
    BY <1>2, <2>1, <2>2
<1>8. CASE Activate(t)
  <2>1. /\ pointer' = fresh /\ UNCHANGED <<dir, runtime, handles>> /\ at[t] = "activate"
        /\ dir[fresh] = "seeded" /\ runtime = None
    BY <1>1, <1>8 DEF Activate, process, FreshAt, PlaceAt
  <2>2. QED
    BY <1>2, <2>1
<1>9. CASE RemoveUnnamed(t)
  <2>1. UNCHANGED <<pointer, runtime, handles>> /\ at[t] = "named" /\ pointer \in Gen
    BY <1>1, <1>9 DEF RemoveUnnamed, process, HolderFacts
  <2>2. dir'[pointer] = dir[pointer]
    <3>1. PICK left : Remove(Gen \ {pointer}, left)
      BY <1>9 DEF RemoveUnnamed
    <3>2. QED
      BY <2>1, <3>1 DEF Remove
  <2>3. QED
    BY <1>2, <2>1, <2>2
<1>10. CASE OpenGeneration(t)
  <2>1. /\ runtime' = pointer /\ handles' = handles \cup {pointer} /\ UNCHANGED <<dir, pointer>>
        /\ at[t] = "open" /\ runtime = None /\ pointer \in Gen
    BY <1>1, <1>10 DEF OpenGeneration, disk, PlaceAt, HolderFacts
  <2>2. QED
    BY <1>2, <2>1
<1>11. CASE OpenFresh(t)
  <2>1. at'[t] = "switch" /\ at[t] = "open fresh" /\ UNCHANGED <<dir, pointer, runtime>>
    BY <1>1, <1>11 DEF OpenFresh, Goto, disk, TypeOK
  <2>2. QED
    BY <1>2, <2>1
<1>12. CASE Switch(t)
  <2>1. at'[t] = "swap" /\ pointer' = fresh /\ fresh \in Gen /\ dir[fresh] = "seeded" /\ dir' = dir
    BY <1>1, <1>12 DEF Switch, Goto, FreshAt, TypeOK
  <2>2. QED
    BY <2>1
<1>13. CASE SwitchFails(t)
  <2>1. /\ UNCHANGED <<pointer, runtime>> /\ handles' = handles \ {fresh} /\ at[t] = "switch"
        /\ handles = {runtime, fresh} /\ fresh # pointer /\ runtime = pointer /\ pointer \in Gen
    BY <1>1, <1>2, <1>13 DEF SwitchFails, PlaceAt, FreshAt
  <2>2. dir'[pointer] = dir[pointer]
    BY <1>13, <2>1 DEF SwitchFails, Remove
  <2>3. QED
    BY <1>2, <2>1, <2>2
<1>14. CASE Swap(t)
  <2>1. /\ UNCHANGED <<dir, pointer>> /\ runtime' = fresh /\ handles' = handles \ {runtime}
        /\ handles = {runtime, fresh} /\ fresh = pointer /\ runtime # pointer /\ fresh \in Gen
    BY <1>1, <1>14 DEF Swap, disk, PlaceAt, FreshAt
  <2>2. QED
    BY <1>2, <2>1
<1>15. CASE Retire(t)
  <2>1. /\ UNCHANGED <<pointer, runtime, handles>> /\ at[t] = "retire" /\ fresh # pointer
        /\ runtime # None
    BY <1>1, <1>15 DEF Retire, process, FreshAt, PlaceAt
  <2>2. dir'[pointer] = dir[pointer]
    <3>1. PICK left : Remove({fresh}, left)
      BY <1>15 DEF Retire
    <3>2. QED
      BY <1>2, <2>1, <3>1 DEF Remove
  <2>3. QED
    BY <1>2, <2>1, <2>2
<1>16. CASE Close(t)
  <2>1. /\ UNCHANGED <<dir, pointer>> /\ runtime' = None /\ handles' = handles \ {runtime}
        /\ at[t] = "ready"
    BY <1>16 DEF Close, disk
  <2>2. QED
    BY <1>2, <2>1
<1>17. QED
  BY <1>5, <1>6, <1>7, <1>8, <1>9, <1>10, <1>11, <1>12, <1>13, <1>14, <1>15, <1>16
     DEF Holders, Opening, Registered, Resetting

\* A session in use keeps its file.
LEMMA UsedFiles ==
    ASSUME ServiceInv, NEW t \in Thread, Holders(t), NEW s \in Session,
           file[s] # None, file[s].gen = runtime
    PROVE  file'[s] # None /\ file'[s].gen = file[s].gen /\ file'[s].policy = file[s].policy
<1> USE ServiceAssumption
<1>1. TypeOK /\ HolderFacts(t) /\ FreshAt(t) /\ PlaceAt(t)
  BY HolderData DEF ServiceInv, ThreadInv
<1>2. runtime \in Gen
  BY <1>1 DEF TypeOK, Files
<1>3. CASE RemoveUnnamed(t)
  BY <1>1, <1>2, <1>3 DEF RemoveUnnamed, PlaceAt
<1>4. CASE SwitchFails(t) \/ Retire(t)
  <2>1. PICK left : Remove({fresh}, left)
    BY <1>4 DEF SwitchFails, Retire
  <2>2. PICK gens \in SUBSET Gen : gens = {fresh}
    BY <1>1, <1>4 DEF SwitchFails, Retire, HolderFacts
  <2>3. runtime = pointer /\ fresh # pointer
    BY <1>1, <1>2, <1>4, HolderAlone DEF SwitchFails, Retire, FreshAt
  <2>4. file'[s] = file[s]
    BY <1>1, <2>1, <2>2, <2>3, Removing
  <2>5. QED
    BY <2>4
<1>5. CASE CreateSession(t)
  BY <1>1, <1>5 DEF CreateSession, TypeOK
<1>6. QED
  BY <1>3, <1>4, <1>5, HoldersFiles DEF SameFiles

LEMMA HolderMap ==
    ASSUME ServiceInv, NEW t \in Thread, Holders(t)
    PROVE  MapInv'
<1> USE ServiceAssumption
<1>1. TypeOK /\ conv[t] = None /\ UNCHANGED config
  BY HoldersHold, HoldersProcess DEF ServiceInv
<1>2. CASE (Swap(t) \/ Close(t)) /\ Closes
  BY <1>2 DEF Closes, MapInv
<1>3. ASSUME NEW r \in Session, sessions[r] # None, runtime' = runtime, sessions'[r] = sessions[r],
             SameObject(sessions[r])
      PROVE  /\ runtime' # None
             /\ object'[sessions'[r]] # None
             /\ object'[sessions'[r]].session = r
             /\ object'[sessions'[r]].gen = runtime'
             /\ object'[sessions'[r]].policy = config'
             /\ ~object'[sessions'[r]].closed
             /\ r \in FilesOf(runtime)'
             /\ file'[r].policy = config'
  <2>1. /\ runtime # None
        /\ object[sessions[r]].session = r
        /\ object[sessions[r]].gen = runtime
        /\ object[sessions[r]].policy = config
        /\ ~object[sessions[r]].closed
        /\ file[r] # None /\ file[r].gen = runtime
        /\ file[r].policy = config
    BY <1>3 DEF ServiceInv, MapInv, FilesOf
  <2>2. file'[r] # None /\ file'[r].gen = file[r].gen /\ file'[r].policy = file[r].policy
    BY <2>1, UsedFiles
  <2>3. QED
    BY <1>1, <1>3, <2>1, <2>2 DEF SameObject, FilesOf
<1>4. CASE UNCHANGED sessions /\ SameObjects
  <2>1. ASSUME NEW r \in Session, sessions[r] # None
        PROVE  runtime' = runtime /\ SameObject(sessions[r])
    <3>1. sessions[r] \in Object /\ sessions[r] \in InUse /\ object[sessions[r]] # None /\ runtime # None
      BY <1>1, <2>1 DEF InUse, TypeOK, ServiceInv, MapInv
    <3>2. SameObject(sessions[r])
      BY <1>4, <3>1 DEF SameObjects
    <3>3. ~OpenGeneration(t)
      BY <3>1 DEF OpenGeneration, ServiceInv, ThreadInv, PlaceAt
    <3>4. ~Swap(t) /\ ~Close(t)
      BY <1>1, <1>4, <2>1 DEF Swap, Close, TypeOK
    <3>5. runtime' = runtime
      BY <3>3, <3>4
         DEF Holders, Opening, Registered, Resetting, FindActive, Create, Seed, Activate,
             RemoveUnnamed, Scan, Scanned, Started, CreateSession, CreateRefused, Cached, Build,
             Refused, LockNext, AllLocked, OpenFresh, Switch, Retire, OpenFails, ReadFails,
             ResetFails, SwitchFails, process
    <3>6. QED
      BY <3>2, <3>5
  <2>2. QED
    BY <1>3, <1>4, <2>1 DEF MapInv
<1>5. ASSUME NEW s \in Session, NEW l \in BOOLEAN, Enters(s, l), Filed(s),
             Scan(t) \/ CreateSession(t) \/ Build(t)
      PROVE  MapInv'
  <2>1. runtime \in Gen /\ runtime' = runtime
    BY <1>5, EnterSteps DEF Scan, CreateSession, Build, process
  <2>2. /\ NewObject \in Object /\ Unused(NewObject)
        /\ sessions'[s] = NewObject /\ \A r \in Session \ {s} : sessions'[r] = sessions[r]
        /\ object'[NewObject] = [session |-> s, gen |-> runtime, policy |-> config,
                                 loaded |-> l, closed |-> FALSE]
        /\ object'[NewObject] # None
        /\ \A o \in Object \ {NewObject} : object'[o] = object[o]
    BY <1>1, <1>5, <2>1, Entering, Zenon
  <2>3. ASSUME NEW r \in Session \ {s}, sessions[r] # None
        PROVE  SameObject(sessions[r])
    <3>1. sessions[r] \in Object \ {NewObject} /\ object[sessions[r]] # None
      BY <1>1, <2>2, <2>3 DEF Unused, TypeOK, ServiceInv, MapInv
    <3>2. QED
      BY <2>2, <3>1 DEF SameObject
  <2>4. file'[s] # None /\ file'[s].gen = runtime /\ file'[s].policy = config
    BY <1>5 DEF Filed
  <2>5. QED
    BY <1>1, <1>3, <2>1, <2>2, <2>3, <2>4 DEF MapInv, FilesOf
<1>6. QED
  BY <1>2, <1>4, <1>5, HoldersMap

LEMMA HolderFiles ==
    ASSUME ServiceInv, NEW t \in Thread, Holders(t)
    PROVE  FilesInv'
<1> USE ServiceAssumption
<1>1. TypeOK /\ FilesInv /\ HolderFacts(t)
  BY HolderData DEF ServiceInv
<1>2. \A g \in Gen : IsFiniteSet(FilesOf(g)) /\ Cardinality(FilesOf(g)) \in Nat
  <2>1. \A g \in Gen : FilesOf(g) \subseteq Session
    BY DEF FilesOf
  <2>2. QED
    BY <2>1, FS_Subset, FS_CardinalityType
<1>3. CASE SameFiles
  BY <1>1, <1>3, SameFilesOf DEF FilesInv
<1>4. ASSUME NEW gens \in SUBSET Gen, NEW left, Remove(gens, left)
      PROVE  FilesInv'
  <2>1. \A g \in Gen : FilesOf(g)' \subseteq FilesOf(g)
    BY <1>1, <1>4, Removing DEF FilesOf
  <2>2. ASSUME NEW g \in Gen PROVE Cardinality(FilesOf(g)') <= MaxSessions
    <3>1. Cardinality(FilesOf(g)') <= Cardinality(FilesOf(g)) /\ IsFiniteSet(FilesOf(g)')
      BY <1>2, <2>1, FS_Subset
    <3>2. Cardinality(FilesOf(g)') \in Nat
      BY <3>1, FS_CardinalityType
    <3>3. QED
      BY <1>1, <1>2, <3>1, <3>2 DEF FilesInv
  <2>3. QED
    BY <2>2 DEF FilesInv
<1>5. CASE RemoveUnnamed(t)
  <2>1. PICK left : Remove(Gen \ {pointer}, left)
    BY <1>5 DEF RemoveUnnamed
  <2>2. PICK gens \in SUBSET Gen : gens = Gen \ {pointer}
    OBVIOUS
  <2>3. QED
    BY <1>4, <2>1, <2>2
<1>6. CASE SwitchFails(t) \/ Retire(t)
  <2>1. PICK left : Remove({fresh}, left)
    BY <1>6 DEF SwitchFails, Retire
  <2>2. PICK gens \in SUBSET Gen : gens = {fresh}
    BY <1>1, <1>6 DEF SwitchFails, Retire, HolderFacts
  <2>3. QED
    BY <1>4, <2>1, <2>2
<1>7. CASE CreateSession(t)
  <2>1. PICK s \in Session : /\ file[s] = None
                             /\ file' = [file EXCEPT ![s] = [gen |-> runtime, policy |-> config,
                                                             marked |-> FALSE]]
    BY <1>7 DEF CreateSession
  <2>2. runtime \in Gen /\ Cardinality(FilesOf(runtime)) < MaxSessions
    BY <1>7, EnterSteps DEF CreateSession, Counted
  <2>3. PICK v \in Files : v = [gen |-> runtime, policy |-> config, marked |-> FALSE]
    BY <1>1, <2>2 DEF Files, TypeOK
  <2>4. file' = [file EXCEPT ![s] = v] /\ v # None /\ v.gen = runtime
    BY <2>1, <2>3
  <2>5. /\ file'[s] = v /\ \A r \in Session \ {s} : file'[r] = file[r]
    BY <1>1, <2>4 DEF TypeOK
  <2>6. \A g \in Gen \ {runtime} : FilesOf(g)' = FilesOf(g)
    BY <2>1, <2>4, <2>5 DEF FilesOf
  <2>7. FilesOf(runtime)' = FilesOf(runtime) \cup {s}
    <3>1. runtime' = runtime
      BY <1>7 DEF CreateSession, process
    <3>2. QED
      BY <2>1, <2>4, <2>5, <3>1 DEF FilesOf
  <2>8. Cardinality(FilesOf(runtime)') <= MaxSessions
    <3>1. s \notin FilesOf(runtime)
      BY <2>1 DEF FilesOf
    <3>2. Cardinality(FilesOf(runtime)') = Cardinality(FilesOf(runtime)) + 1
      BY <1>2, <2>2, <2>7, <3>1, FS_AddElement
    <3>3. QED
      BY <1>2, <2>2, <3>2
  <2>9. ASSUME NEW g \in Gen PROVE Cardinality(FilesOf(g)') <= MaxSessions
    <3>1. CASE g = runtime
      <4>1. FilesOf(g)' = FilesOf(runtime)'
        BY <1>7, <3>1 DEF CreateSession, process, FilesOf
      <4>2. QED
        BY <2>8, <4>1
    <3>2. CASE g # runtime
      BY <1>1, <2>6, <3>2 DEF FilesInv
    <3>3. QED
      BY <3>1, <3>2
  <2>10. QED
    BY <2>9 DEF FilesInv
<1>8. QED
  BY <1>3, <1>5, <1>6, <1>7, HoldersFiles

-----------------------------------------------------------------------------
(* The invariant *)

LEMMA ActsStep ==
    ASSUME ServiceInv, NEW t \in Thread, Acts(t)
    PROVE  ThreadInv' /\ GenerationInv' /\ MapInv' /\ FilesInv'
<1>1. CASE Own(t)
  BY <1>1, OwnThread, OwnOtherThreads, OwnShared DEF ThreadInv
<1>2. CASE Holders(t)
  BY <1>2, HolderThread, HoldersOtherThreads, HolderGeneration, HolderMap, HolderFiles DEF ThreadInv
<1>3. QED
  BY <1>1, <1>2, StepsSplit

LEMMA CrashStep ==
    ASSUME ServiceInv, Crash
    PROVE  ThreadInv' /\ GenerationInv' /\ MapInv' /\ FilesInv'
<1>1. /\ runtime' = None /\ handles' = {} /\ registry' = None
      /\ \A s \in Session : sessions'[s] = None
      /\ \A t \in Thread : at'[t] = "idle" /\ conv'[t] = None
      /\ UNCHANGED <<dir, pointer, file>>
  BY DEF Crash, disk
<1>2. ThreadInv'
  <2>1. \A t \in Thread : HolderAt(t)'
    BY <1>1, ServiceAssumption DEF HolderAt, Inside, Held
  <2>2. \A t \in Thread : PlaceAt(t)' /\ FreshAt(t)' /\ ConvAt(t)' /\ LockAt(t)'
    BY <1>1 DEF PlaceAt, FreshAt, ConvAt, LockAt
  <2>3. QED
    BY <2>1, <2>2 DEF ThreadInv
<1>3. GenerationInv'
  BY <1>1 DEF GenerationInv, ServiceInv
<1>4. MapInv'
  BY <1>1 DEF MapInv
<1>5. FilesInv'
  <2>1. \A g \in Gen : FilesOf(g)' = FilesOf(g)
    BY <1>1 DEF FilesOf
  <2>2. QED
    BY <2>1 DEF FilesInv, ServiceInv
<1>6. QED
  BY <1>2, <1>3, <1>4, <1>5

LEMMA BootStep ==
    ASSUME ServiceInv, Boot
    PROVE  ThreadInv' /\ GenerationInv' /\ MapInv' /\ FilesInv'
<1>1. \A t \in Thread : at[t] = "idle" /\ registry # t /\ conv[t] = None
  BY DEF Boot, ServiceInv, ThreadInv, PlaceAt, HolderAt, Inside, Held
<1>2. /\ UNCHANGED <<dir, pointer, file, config, runtime, handles, sessions, object, lock, registry,
                     fresh, toScan, conv>>
      /\ up'
  BY DEF Boot, disk, memory, opening
<1>3. PICK t \in Thread : /\ job' = [job EXCEPT ![t] = [kind |-> "start", session |-> None]]
                          /\ at' = [at EXCEPT ![t] = "registry"]
  BY DEF Boot, Goto
<1>4. job'[t] \in Asks
  BY <1>3 DEF ServiceInv, TypeOK, Asks
<1>5. \A u \in Thread : at'[u] \in {"idle", "registry"} /\ (at'[u] = "registry" => u = t)
  BY <1>1, <1>3 DEF ServiceInv, TypeOK
<1>6. ThreadInv'
  <2>1. \A u \in Thread : HolderAt(u)'
    BY <1>1, <1>2, <1>5 DEF HolderAt, Inside, Held
  <2>2. \A u \in Thread : PlaceAt(u)'
    BY <1>2, <1>4, <1>5 DEF PlaceAt
  <2>3. \A u \in Thread : FreshAt(u)' /\ ConvAt(u)' /\ LockAt(u)'
    BY <1>1, <1>2, <1>5 DEF FreshAt, ConvAt, LockAt
  <2>4. QED
    BY <2>1, <2>2, <2>3 DEF ThreadInv
<1>7. GenerationInv'
  BY <1>1, <1>2, <1>5 DEF GenerationInv, ServiceInv
<1>8. MapInv'
  BY <1>2 DEF MapInv, ServiceInv, FilesOf
<1>9. FilesInv'
  BY <1>2 DEF FilesInv, ServiceInv, FilesOf
<1>10. QED
  BY <1>6, <1>7, <1>8, <1>9

LEMMA ServiceStep ==
    ASSUME ServiceInv, [Next]_vars
    PROVE  ServiceInv'
<1>1. TypeOK'
  BY TypeStep
<1>2. ASSUME UNCHANGED vars PROVE ThreadInv' /\ GenerationInv' /\ MapInv' /\ FilesInv'
  <2>1. UNCHANGED <<dir, pointer, file, up, config, runtime, handles, sessions, object, lock,
                    registry, fresh, toScan, at, job, conv>>
    BY <1>2 DEF vars, disk, process, memory, opening
  <2>2. ASSUME NEW t \in Thread
        PROVE  HolderAt(t)' /\ PlaceAt(t)' /\ FreshAt(t)' /\ ConvAt(t)' /\ LockAt(t)'
    <3>1. HolderAt(t) /\ PlaceAt(t) /\ FreshAt(t) /\ ConvAt(t) /\ LockAt(t)
      BY DEF ServiceInv, ThreadInv
    <3>2. HolderAt(t)' /\ FreshAt(t)'
      BY <2>1, <3>1 DEF HolderAt, FreshAt
    <3>3. PlaceAt(t)'
      BY <2>1, <3>1 DEF PlaceAt, FilesOf
    <3>4. ConvAt(t)' /\ LockAt(t)'
      BY <2>1, <3>1 DEF ConvAt, LockAt, InUse
    <3>5. QED
      BY <3>2, <3>3, <3>4
  <2>3. GenerationInv' /\ MapInv' /\ FilesInv'
    BY <2>1 DEF ServiceInv, GenerationInv, MapInv, FilesInv, FilesOf
  <2>4. QED
    BY <2>2, <2>3 DEF ThreadInv
<1>3. ASSUME NEW t \in Thread, Acts(t) PROVE ThreadInv' /\ GenerationInv' /\ MapInv' /\ FilesInv'
  BY <1>3, ActsStep
<1>4. QED
  BY <1>1, <1>2, <1>3, CrashStep, BootStep DEF Next, Acts, ServiceInv

LEMMA ServiceCorrect == Spec => []ServiceInv
<1>1. Init => ServiceInv
  BY ServiceInit
<1>2. ServiceInv /\ [Next]_vars => ServiceInv'
  BY ServiceStep
<1>3. QED
  BY <1>1, <1>2, PTL DEF Spec

-----------------------------------------------------------------------------
(* The theorems *)

\* What the disk, the service and the threads hold, whatever happens in whatever order.
THEOREM TypeCorrect == Spec => []TypeOK
<1>1. ServiceInv => TypeOK
  BY DEF ServiceInv
<1>2. QED
  BY <1>1, ServiceCorrect, PTL

\* A request works on the conversation in the map, alone with its session, on the
\* generation in use, which is the one named (aftersales_service/service.py:152-252).
THEOREM WorkCurrent == Spec => []WorkIsCurrent
<1>1. ServiceInv => WorkIsCurrent
  <2> SUFFICES ASSUME ServiceInv PROVE WorkIsCurrent
    OBVIOUS
  <2>1. ASSUME NEW t \in Thread, Working(t)
        PROVE  /\ lock[conv[t]] = t
               /\ sessions[object[conv[t]].session] = conv[t]
               /\ object[conv[t]].session \in FilesOf(runtime)
               /\ object[conv[t]].gen = runtime /\ runtime # None
    <3>1. at[t] \in Held
      BY <2>1 DEF Working, Held
    <3>2. lock[conv[t]] = t /\ ~object[conv[t]].closed
      BY <2>1 DEF Working, ServiceInv, ThreadInv, LockAt
    <3>3. QED
      BY <3>1, <3>2, OpenObject
  <2>2. ASSUME NEW t \in Thread, Working(t), NEW u \in Thread
        PROVE  at[u] # "swap" /\ at[u] # "switch"
    <3>1. ASSUME at[u] \in {"swap", "switch"} PROVE FALSE
      <4>1. conv[t] \in InUse
        <5>1. object[conv[t]].session \in Session /\ conv[t] # None
          BY <2>2, HeldObject, ServiceAssumption DEF Working, Held
        <5>2. QED
          BY <2>1, <2>2, <5>1 DEF InUse
      <4>2. lock[conv[t]] = u
        <5>1. LockAt(u) /\ runtime # None
          BY <2>1, <2>2 DEF ServiceInv, ThreadInv
        <5>2. QED
          BY <3>1, <4>1, <5>1 DEF LockAt
      <4>3. u = t
        BY <2>1, <2>2, <4>2
      <4>4. QED
        BY <2>2, <3>1, <4>3 DEF Working
    <3>2. QED
      BY <3>1
  <2>3. ASSUME NEW t \in Thread, Working(t)
        PROVE  runtime = pointer /\ runtime \in handles /\ dir[runtime] = "seeded"
    BY <2>1, <2>2, <2>3 DEF ServiceInv, GenerationInv
  <2>4. ASSUME NEW t \in Thread, Working(t), NEW u \in Thread, Working(u),
               object[conv[u]].session = object[conv[t]].session
        PROVE  u = t
    BY <2>1, <2>4
  <2>5. QED
    BY <2>1, <2>3, <2>4 DEF WorkIsCurrent
<1>2. QED
  BY <1>1, ServiceCorrect, PTL

\* generation.json names a complete directory, no database stays open that is not in
\* use, and no generation outgrows the limit (persistence.py:123-170, service.py:100-210).
THEOREM GenerationsKept == Spec => []GenerationsAreKept
<1>1. ServiceInv => GenerationsAreKept
  <2> SUFFICES ASSUME ServiceInv PROVE GenerationsAreKept
    OBVIOUS
  <2>1. registry = None => handles = {runtime} \ {None}
    <3>1. registry = None => \A t \in Thread : at[t] \notin Inside
      BY ServiceAssumption DEF ServiceInv, ThreadInv, HolderAt
    <3>2. QED
      BY <3>1 DEF ServiceInv, GenerationInv, Inside
  <2>2. QED
    BY <2>1 DEF GenerationsAreKept, ServiceInv, GenerationInv, FilesInv
<1>2. QED
  BY <1>1, ServiceCorrect, PTL

\* A session runs under the policy that it was created with, whatever policies the
\* processes that served it were configured for (service.py:212-236).
THEOREM PolicyBound == Spec => []PolicyIsBound
<1>1. ServiceInv => PolicyIsBound
  <2> SUFFICES ASSUME ServiceInv, NEW t \in Thread, Working(t)
               PROVE  file[object[conv[t]].session].policy = config
    BY DEF PolicyIsBound
  <2>1. at[t] \in Held
    BY DEF Working, Held
  <2>2. ~object[conv[t]].closed
    BY DEF Working, ServiceInv, ThreadInv, LockAt
  <2>3. QED
    BY <2>1, <2>2, OpenObject
<1>2. QED
  BY <1>1, ServiceCorrect, PTL

\* A reset that fails, a restart or a removal of what is not named loses no session of
\* the named generation.
THEOREM OnlyResets == Spec => OnlyResetsLose
<1>1. ASSUME ServiceInv, [Next]_vars, NEW s \in Session, file[s] # None, file'[s] = None
      PROVE  file[s].gen # pointer
  <2>1. PICK t \in Thread : Holders(t) /\ (RemoveUnnamed(t) \/ SwitchFails(t) \/ Retire(t))
    <3>1. ~SameFiles
      BY <1>1 DEF SameFiles
    <3>2. file' # file
      BY <1>1
    <3>3. ~Crash /\ ~Boot /\ ~UNCHANGED vars
      BY <3>2 DEF Crash, Boot, vars, disk
    <3>4. PICK t \in Thread : Acts(t)
      BY <1>1, <3>3 DEF Next, Acts
    <3>5. Holders(t)
      BY <1>1, <3>1, <3>4, StepsSplit, OwnFiles
    <3>6. ~CreateSession(t)
      <4>1. SUFFICES ASSUME CreateSession(t) PROVE FALSE
        OBVIOUS
      <4>2. PICK r \in Session : file[r] = None /\ Creates(r)
        BY <1>1, <4>1, EnterSteps
      <4>3. r # s
        BY <1>1, <4>2
      <4>4. file'[s] = file[s]
        BY <1>1, <4>2, <4>3 DEF Creates, ServiceInv, TypeOK
      <4>5. QED
        BY <1>1, <4>4
    <3>7. QED
      BY <1>1, <3>1, <3>5, <3>6, HoldersFiles
  <2>2. HolderFacts(t) /\ FreshAt(t) /\ TypeOK
    BY <1>1, HolderData DEF ServiceInv, ThreadInv
  <2>3. PICK gens \in SUBSET Gen : (\E left : Remove(gens, left)) /\ pointer \notin gens
    <3>1. CASE RemoveUnnamed(t)
      <4>1. PICK left : Remove(Gen \ {pointer}, left)
        BY <3>1 DEF RemoveUnnamed
      <4>2. PICK gens \in SUBSET Gen : gens = Gen \ {pointer}
        OBVIOUS
      <4>3. QED
        BY <4>1, <4>2
    <3>2. CASE SwitchFails(t) \/ Retire(t)
      <4>1. PICK left : Remove({fresh}, left)
        BY <3>2 DEF SwitchFails, Retire
      <4>2. PICK gens \in SUBSET Gen : gens = {fresh}
        BY <2>2, <3>2 DEF SwitchFails, Retire, HolderFacts
      <4>3. fresh # pointer
        BY <2>2, <3>2 DEF SwitchFails, Retire, FreshAt
      <4>4. QED
        BY <4>1, <4>2, <4>3
    <3>3. QED
      BY <2>1, <3>1, <3>2
  <2>4. file[s].gen \in gens
    BY <1>1, <2>2, <2>3, Removing
  <2>5. QED
    BY <2>3, <2>4
<1>2. ServiceInv /\ [Next]_vars =>
        [\A s \in Session : file[s] # None /\ file'[s] = None => file[s].gen # pointer]_vars
  BY <1>1
<1>3. QED
  BY <1>2, ServiceCorrect, PTL DEF Spec, OnlyResetsLose
=============================================================================
