-------------------------- MODULE ServiceGenerations --------------------------
(***************************************************************************)
(* The after-sales service over its data directory                         *)
(* (aftersales_service/service.py with persistence.py): the registry lock, *)
(* the locks of the conversations, the map of the sessions in use, reset   *)
(* and close, the generations on disk and the pointer to the active one,   *)
(* the first opening with its start-up scan, and a crash between any two   *)
(* durable steps.                                                          *)
(*                                                                         *)
(* A request goes through two critical sections: it finds its conversation *)
(* under the registry lock, gives that lock back, and only then waits for  *)
(* the conversation's.  What happens to the conversation in between is the *)
(* subject here; what it does under its lock is Conversation's, of which   *)
(* only the marker and the discarded object are left.                      *)
(*                                                                         *)
(* Generation and session ids are random: a fresh one is any that nothing  *)
(* on disk or in use has.                                                  *)
(***************************************************************************)
EXTENDS Naturals, FiniteSets

CONSTANTS
    Thread,      \* the server's request threads
    Session,     \* session ids
    Gen,         \* bound: generation ids, one for each failure and two
    Object,      \* bound: conversation objects in memory, numbers, one for each reference
    Policies,    \* decision policies a process may be configured for
    MaxSessions, \* MAX_SESSIONS
    Faults,      \* the kinds of failure that happen
    MaxFaults,   \* bound: how many of them
    None         \* no holder, no generation, no object, no file

FaultKinds == {"disk",   \* the data directory or a database cannot be written or opened
               "remove", \* a retired directory cannot be deleted
               "read",   \* a session file cannot be read
               "load",   \* a conversation cannot be loaded or recovered
               "turn",   \* a failure past the gateway: the object is discarded
               "crash"}  \* the process dies

\* A session file, and a conversation in memory.
Files == [gen: Gen, policy: Policies, marked: BOOLEAN]
Conversations == [session: Session, gen: Gen, policy: Policies, loaded: BOOLEAN, closed: BOOLEAN]

ASSUME ServiceAssumption ==
    /\ Faults \subseteq FaultKinds
    /\ Cardinality(Gen) >= MaxFaults + 2
    /\ MaxSessions \in Nat /\ MaxFaults \in Nat /\ Object \subseteq Nat
    /\ IsFiniteSet(Thread) /\ IsFiniteSet(Session) /\ IsFiniteSet(Object)
    /\ Cardinality(Object) >= Cardinality(Session) + Cardinality(Thread)
    /\ None \notin Thread \cup Session \cup Gen \cup Object \cup Files \cup Conversations

VARIABLES
    dir,      \* disk: each generation's directory
    pointer,  \* disk: generation.json
    file,     \* disk: the session files
    up,       \* whether the process runs
    config,   \* the decision policy it is configured for
    runtime,  \* _runtime: the generation in use
    handles,  \* the generations whose databases are open
    sessions, \* _sessions: the conversation object of each session in use
    object,   \* the conversation objects
    lock,     \* their locks
    registry, \* _lock
    fresh,    \* the generation that the registry's holder creates or retires
    toScan,   \* the marked sessions its scan has not reached
    at,       \* where each thread is
    job,      \* what it was asked for
    conv,     \* the object it found
    faults    \* history: the failures so far

disk     == <<dir, pointer, file>>
process  == <<up, config, runtime, handles>>
memory   == <<sessions, object>>
opening  == <<fresh, toScan>>
vars     == <<disk, process, memory, lock, registry, opening, at, job, conv, faults>>

Asks == [kind: {"request"}, session: Session] \cup
        [kind: {"create", "reset", "close", "start"}, session: {None}]

Fails(kind) == kind \in Faults /\ faults < MaxFaults /\ faults' = faults + 1

\* The sessions of a generation: the files in its directory.
FilesOf(g) == {s \in Session : file[s] # None /\ file[s].gen = g}

\* Seeded fault: the scan looks for markers among the conversations in memory.
InflightInMemory(g) == {s \in FilesOf(g) : file[s].marked /\ sessions[s] # None}

WithInflight(g) == {s \in FilesOf(g) : file[s].marked}

\* Seeded fault: a session runs under whatever policy is configured now.
AnyPolicy(policy) == policy \in Policies

\* require_configured_policy
Bound(policy) == policy = config

\* An object that neither the map nor a thread refers to.
Unused(o) == (\A s \in Session : sessions[s] # o) /\ (\A t \in Thread : conv[t] # o)
NewObject == CHOOSE o \in Object : Unused(o) /\ \A p \in Object : Unused(p) => o <= p

Conversation(s, g, loaded) ==
    [session |-> s, gen |-> g, policy |-> config, loaded |-> loaded, closed |-> FALSE]

InUse    == {sessions[s] : s \in Session} \ {None}
Goto(t, place) == at' = [at EXCEPT ![t] = place]

\* A thread that ends its request lets go of everything it holds; of the objects as
\* they then are, those that nobody refers to are gone.
Return(t, objects) ==
    /\ Goto(t, "idle")
    /\ registry' = IF registry = t THEN None ELSE registry
    /\ lock' = [o \in Object |-> IF lock[o] = t THEN None ELSE lock[o]]
    /\ job' = [job EXCEPT ![t] = None]
    /\ conv' = [conv EXCEPT ![t] = None]
    /\ object' = [o \in Object |-> IF o \in InUse \cup {conv[u] : u \in Thread \ {t}}
                                  THEN objects[o] ELSE None]

-----------------------------------------------------------------------------
\* A new data directory, and a process that has not opened it.
Init ==
    /\ dir = [g \in Gen |-> "none"] /\ pointer = None
    /\ file = [s \in Session |-> None]
    /\ up = TRUE /\ config \in Policies
    /\ runtime = None /\ handles = {}
    /\ sessions = [s \in Session |-> None]
    /\ object = [o \in Object |-> None] /\ lock = [o \in Object |-> None]
    /\ registry = None /\ fresh = None /\ toScan = {}
    /\ at = [t \in Thread |-> "idle"] /\ job = [t \in Thread |-> None]
    /\ conv = [t \in Thread |-> None]
    /\ faults = 0

\* close is for the owner of a service that has been used.
Ask(t, wanted) ==
    /\ up /\ at[t] = "idle"
    /\ wanted.kind = "close" => runtime # None
    /\ job' = [job EXCEPT ![t] = wanted]
    /\ Goto(t, "registry")
    /\ UNCHANGED <<disk, process, memory, lock, registry, opening, conv, faults>>

\* Everything but close opens the data directory on first use.
TakeRegistry(t) ==
    /\ at[t] = "registry" /\ registry = None
    /\ registry' = t
    /\ Goto(t, IF runtime # None \/ job[t].kind = "close" THEN "ready" ELSE "opening")
    /\ UNCHANGED <<disk, process, memory, lock, opening, job, conv, faults>>

-----------------------------------------------------------------------------
(* _require_runtime: open the active generation once *)

FindActive(t) ==
    /\ at[t] = "opening"
    /\ Goto(t, IF pointer = None THEN "create" ELSE "named")
    /\ UNCHANGED <<disk, process, memory, lock, registry, opening, job, conv, faults>>

\* DataDirectory.create: the directory first, then its database.
Create(t) ==
    /\ at[t] = "create"
    /\ \E g \in Gen :
         /\ dir[g] = "none"
         /\ fresh' = g
         /\ dir' = [dir EXCEPT ![g] = "partial"]
    /\ Goto(t, "seed")
    /\ UNCHANGED <<pointer, file, process, memory, lock, registry, toScan, job, conv, faults>>

\* Reset opens the fresh generation before it names it, the first use after.
Seed(t) ==
    /\ at[t] = "seed"
    /\ dir' = [dir EXCEPT ![fresh] = "seeded"]
    /\ Goto(t, IF runtime = None THEN "activate" ELSE "open fresh")
    /\ UNCHANGED <<pointer, file, process, memory, lock, registry, opening, job, conv, faults>>

\* Seeded fault: the directory is named as soon as it exists.
ActivateUnseeded(t) ==
    /\ at[t] \in {"seed", "activate"}
    /\ pointer' = fresh
    /\ fresh' = None
    /\ Goto(t, "named")
    /\ UNCHANGED <<dir, file, process, memory, lock, registry, toScan, job, conv, faults>>

Activate(t) ==
    /\ at[t] = "activate"
    /\ pointer' = fresh
    /\ fresh' = None
    /\ Goto(t, "named")
    /\ UNCHANGED <<dir, file, process, memory, lock, registry, toScan, job, conv, faults>>

\* rmtree takes the session files first; what then cannot be deleted, the directories
\* in "left", stays for the next opening.
Remove(gens, left) ==
    /\ dir' = [g \in Gen |-> IF g \notin gens THEN dir[g]
                            ELSE IF g \in left /\ dir[g] # "none" THEN "partial" ELSE "none"]
    /\ file' = [s \in Session |-> IF \E g \in gens : s \in FilesOf(g) THEN None ELSE file[s]]

RemoveUnnamed(t) ==
    /\ at[t] = "named"
    /\ \/ Remove(Gen \ {pointer}, {}) /\ UNCHANGED faults
       \/ Fails("remove") /\ \E g \in Gen \ {pointer} : Remove(Gen \ {pointer}, {g})
    /\ Goto(t, "open")
    /\ UNCHANGED <<pointer, process, memory, lock, registry, opening, job, conv>>

OpenGeneration(t) ==
    /\ at[t] = "open"
    /\ runtime' = pointer
    /\ handles' = handles \cup {pointer}
    /\ toScan' = WithInflight(pointer)
    /\ Goto(t, "scan")
    /\ UNCHANGED <<disk, up, config, memory, lock, registry, fresh, job, conv, faults>>

\* Whatever fails before the generation is open: the next request tries again.
OpenFails(t) ==
    /\ at[t] \in {"seed", "activate", "open"}
    /\ runtime = None
    /\ Fails("disk")
    /\ fresh' = None
    /\ Return(t, object)
    /\ UNCHANGED <<disk, process, sessions, toScan>>

\* Seeded fault: the scan goes on until no marker is left.
ScanUntilResolved(t) ==
    /\ at[t] = "scan"
    /\ \E s \in toScan :
         IF Bound(file[s].policy)
         THEN /\ object' = [object EXCEPT ![NewObject] = Conversation(s, runtime, TRUE)]
              /\ sessions' = [sessions EXCEPT ![s] = NewObject]
              /\ file' = [file EXCEPT ![s].marked = FALSE]
              /\ toScan' = toScan \ {s}
         ELSE UNCHANGED <<memory, file, toScan>>
    /\ UNCHANGED <<dir, pointer, process, lock, registry, fresh, at, job, conv, faults>>

\* One marked session of the start-up scan: recovered, left to another policy, or,
\* after a failure, cached unloaded or not found out about.
Scan(t) ==
    /\ at[t] = "scan"
    /\ \E s \in toScan :
         /\ toScan' = toScan \ {s}
         /\ \/ /\ Bound(file[s].policy)
               /\ object' = [object EXCEPT ![NewObject] = Conversation(s, runtime, TRUE)]
               /\ sessions' = [sessions EXCEPT ![s] = NewObject]
               /\ file' = [file EXCEPT ![s].marked = FALSE]
               /\ UNCHANGED faults
            \/ /\ ~Bound(file[s].policy)
               /\ UNCHANGED <<memory, file, faults>>
            \/ /\ Bound(file[s].policy) /\ Fails("load")
               /\ object' = [object EXCEPT ![NewObject] = Conversation(s, runtime, FALSE)]
               /\ sessions' = [sessions EXCEPT ![s] = NewObject]
               /\ UNCHANGED file
            \/ Fails("read") /\ UNCHANGED <<memory, file>>
    /\ UNCHANGED <<dir, pointer, process, lock, registry, fresh, at, job, conv>>

\* A request that opened the directory has already missed the map.
Scanned(t) ==
    /\ at[t] = "scan" /\ toScan = {}
    /\ Goto(t, IF job[t].kind = "request" THEN "missed" ELSE "ready")
    /\ UNCHANGED <<disk, process, memory, lock, registry, opening, job, conv, faults>>

Started(t) ==
    /\ at[t] = "ready" /\ job[t].kind = "start"
    /\ Return(t, object)
    /\ UNCHANGED <<disk, process, sessions, opening, faults>>

-----------------------------------------------------------------------------
(* Under the registry lock: create_session and _cached *)

\* The conversation is found; the registry lock goes before its own is taken.
Found(t, o) ==
    /\ conv' = [conv EXCEPT ![t] = o]
    /\ registry' = None
    /\ Goto(t, "lock")

Counted(g) == FilesOf(g)

CreateSession(t) ==
    /\ at[t] = "ready" /\ job[t].kind = "create"
    /\ Cardinality(Counted(runtime)) < MaxSessions
    /\ \E s \in Session :
         /\ file[s] = None
         /\ file' = [file EXCEPT ![s] = [gen |-> runtime, policy |-> config, marked |-> FALSE]]
         /\ object' = [object EXCEPT ![NewObject] = Conversation(s, runtime, TRUE)]
         /\ sessions' = [sessions EXCEPT ![s] = NewObject]
    /\ Found(t, NewObject)
    /\ UNCHANGED <<dir, pointer, process, lock, opening, job, faults>>

CreateRefused(t) ==
    /\ at[t] = "ready" /\ job[t].kind = "create"
    /\ IF Cardinality(Counted(runtime)) >= MaxSessions THEN UNCHANGED faults ELSE Fails("disk")
    /\ Return(t, object)
    /\ UNCHANGED <<disk, process, sessions, opening>>

Cached(t) ==
    LET o == sessions[job[t].session]
    IN  /\ at[t] = "ready" /\ job[t].kind = "request"
        /\ o # None
        /\ Bound(object[o].policy)
        /\ Found(t, o)
        /\ UNCHANGED <<disk, process, memory, lock, opening, job, faults>>

Missed(t) ==
    /\ job[t] # None /\ job[t].kind = "request"
    /\ \/ at[t] = "ready" /\ sessions[job[t].session] = None
       \/ at[t] = "missed"

\* The object is new and unloaded, and replaces one that the scan has cached.
Build(t) ==
    LET s == job[t].session
    IN  /\ Missed(t)
        /\ s \in FilesOf(runtime) /\ Bound(file[s].policy)
        /\ object' = [object EXCEPT ![NewObject] = Conversation(s, runtime, FALSE)]
        /\ sessions' = [sessions EXCEPT ![s] = NewObject]
        /\ Found(t, NewObject)
        /\ UNCHANGED <<disk, process, lock, opening, job, faults>>

\* session_not_found, or the policy of another process.
Refused(t) ==
    LET s == job[t].session
    IN  /\ Missed(t)
        /\ s \in FilesOf(runtime) => ~Bound(file[s].policy)
        /\ Return(t, object)
        /\ UNCHANGED <<disk, process, sessions, opening, faults>>

ReadFails(t) ==
    /\ Missed(t)
    /\ job[t].session \in FilesOf(runtime)
    /\ Fails("read")
    /\ Return(t, object)
    /\ UNCHANGED <<disk, process, sessions, opening>>

-----------------------------------------------------------------------------
(* Under the conversation's lock *)

TakeLock(t) ==
    /\ at[t] = "lock" /\ lock[conv[t]] = None
    /\ lock' = [lock EXCEPT ![conv[t]] = t]
    /\ Goto(t, IF job[t].kind = "create" THEN "viewing" ELSE "checking")
    /\ UNCHANGED <<disk, process, memory, registry, opening, job, conv, faults>>

\* create_session shows its conversation without another look at "closed".
ViewCreated(t) ==
    /\ at[t] = "viewing"
    /\ Return(t, object)
    /\ UNCHANGED <<disk, process, sessions, opening, faults>>

WasReset(t) ==
    /\ at[t] = "checking" /\ object[conv[t]].closed
    /\ Return(t, object)
    /\ UNCHANGED <<disk, process, sessions, opening, faults>>

\* ensure_loaded: nothing on a loaded object, else the file and its marker.
Load(t) ==
    LET o == conv[t]
    IN  /\ at[t] = "checking" /\ ~object[o].closed
        /\ IF object[o].loaded
           THEN UNCHANGED <<object, file>>
           ELSE /\ object' = [object EXCEPT ![o].loaded = TRUE]
                /\ file' = [file EXCEPT ![object[o].session].marked = FALSE]
        /\ Goto(t, "working")
        /\ UNCHANGED <<dir, pointer, process, sessions, lock, registry, opening, job, conv, faults>>

LoadFails(t) ==
    /\ at[t] = "checking" /\ ~object[conv[t]].closed /\ ~object[conv[t]].loaded
    /\ Fails("load")
    /\ Return(t, object)
    /\ UNCHANGED <<disk, process, sessions, opening>>

\* A view, a turn or a decision that leaves no marker behind.
Serve(t) ==
    /\ at[t] = "working"
    /\ Return(t, object)
    /\ UNCHANGED <<disk, process, sessions, opening, faults>>

Mark(t) ==
    /\ at[t] = "working"
    /\ file' = [file EXCEPT ![object[conv[t]].session].marked = TRUE]
    /\ Goto(t, "marked")
    /\ UNCHANGED <<dir, pointer, process, memory, lock, registry, opening, job, conv, faults>>

Commit(t) ==
    /\ at[t] = "marked"
    /\ file' = [file EXCEPT ![object[conv[t]].session].marked = FALSE]
    /\ Return(t, object)
    /\ UNCHANGED <<dir, pointer, process, sessions, opening, faults>>

\* The object stays in the map, unloaded: its lock stays the session's lock.
Discard(t) ==
    /\ at[t] \in {"working", "marked"}
    /\ Fails("turn")
    /\ Return(t, [object EXCEPT ![conv[t]].loaded = FALSE])
    /\ UNCHANGED <<disk, process, sessions, opening>>

-----------------------------------------------------------------------------
(* reset and close: the registry lock, then every conversation's *)

Locked(t) == \A o \in InUse : lock[o] = t

LockNext(t) ==
    /\ at[t] = "ready" /\ job[t].kind \in {"reset", "close"}
    /\ \E o \in InUse : lock[o] = None /\ lock' = [lock EXCEPT ![o] = t]
    /\ UNCHANGED <<disk, process, memory, registry, opening, at, job, conv, faults>>

AllLocked(t) ==
    /\ at[t] = "ready" /\ job[t].kind = "reset"
    /\ Locked(t)
    /\ Goto(t, "create")
    /\ UNCHANGED <<disk, process, memory, lock, registry, opening, job, conv, faults>>

OpenFresh(t) ==
    /\ at[t] = "open fresh"
    /\ handles' = handles \cup {fresh}
    /\ Goto(t, "switch")
    /\ UNCHANGED <<disk, up, config, runtime, memory, lock, registry, opening, job, conv, faults>>

\* The old generation goes on; the new one is left to the next opening.
ResetFails(t) ==
    /\ at[t] \in {"seed", "open fresh"}
    /\ runtime # None
    /\ Fails("disk")
    /\ fresh' = None
    /\ Return(t, object)
    /\ UNCHANGED <<disk, process, sessions, toScan>>

Switch(t) ==
    /\ at[t] = "switch"
    /\ pointer' = fresh
    /\ Goto(t, "swap")
    /\ UNCHANGED <<dir, file, process, memory, lock, registry, opening, job, conv, faults>>

\* Seeded fault: the wrong generation is removed when the switch fails.
SwitchFailsWrongly(t) ==
    /\ at[t] = "switch"
    /\ Fails("disk")
    /\ handles' = handles \ {fresh}
    /\ fresh' = None
    /\ Remove({runtime}, {})
    /\ Return(t, object)
    /\ UNCHANGED <<pointer, up, config, runtime, sessions, toScan>>

\* The pointer could not be replaced: the fresh generation is closed and removed.
SwitchFails(t) ==
    /\ at[t] = "switch"
    /\ Fails("disk")
    /\ handles' = handles \ {fresh}
    /\ fresh' = None
    /\ Remove({fresh}, {})
    /\ Return(t, object)
    /\ UNCHANGED <<pointer, up, config, runtime, sessions, toScan>>

\* Seeded fault: the conversations of the old generation are only forgotten.
Forgotten == object

Closed == [o \in Object |-> IF o \in InUse THEN [object[o] EXCEPT !.closed = TRUE] ELSE object[o]]

\* The conversations are closed, the service moves on, the old databases close.
Swap(t) ==
    /\ at[t] = "swap"
    /\ object' = Closed
    /\ sessions' = [s \in Session |-> None]
    /\ runtime' = fresh
    /\ handles' = handles \ {runtime}
    /\ fresh' = runtime
    /\ Goto(t, "retire")
    /\ UNCHANGED <<disk, up, config, lock, registry, toScan, job, conv, faults>>

Retire(t) ==
    /\ at[t] = "retire"
    /\ \/ Remove({fresh}, {}) /\ UNCHANGED faults
       \/ Remove({fresh}, {fresh}) /\ Fails("remove")
    /\ fresh' = None
    /\ Return(t, object)
    /\ UNCHANGED <<pointer, process, sessions, toScan>>

Close(t) ==
    /\ at[t] = "ready" /\ job[t].kind = "close"
    /\ Locked(t)
    /\ sessions' = [s \in Session |-> None]
    /\ runtime' = None
    /\ handles' = handles \ {runtime}
    /\ Return(t, Closed)
    /\ UNCHANGED <<disk, up, config, opening, faults>>

-----------------------------------------------------------------------------
(* The process *)

\* Everything in memory is lost; the next process may have another policy.
Crash ==
    /\ up
    /\ Fails("crash")
    /\ up' = FALSE
    /\ config' \in Policies
    /\ runtime' = None /\ handles' = {}
    /\ sessions' = [s \in Session |-> None]
    /\ object' = [o \in Object |-> None] /\ lock' = [o \in Object |-> None]
    /\ registry' = None /\ fresh' = None /\ toScan' = {}
    /\ at' = [t \in Thread |-> "idle"] /\ job' = [t \in Thread |-> None]
    /\ conv' = [t \in Thread |-> None]
    /\ UNCHANGED disk

\* on_startup calls start; requests may already arrive.
Boot ==
    /\ ~up
    /\ up' = TRUE
    /\ \E t \in Thread :
         /\ job' = [job EXCEPT ![t] = [kind |-> "start", session |-> None]]
         /\ Goto(t, "registry")
    /\ UNCHANGED <<disk, config, runtime, handles, memory, lock, registry, opening, conv, faults>>

-----------------------------------------------------------------------------
Opening(t) ==
    \/ FindActive(t) \/ Create(t) \/ Seed(t) \/ Activate(t) \/ RemoveUnnamed(t)
    \/ OpenGeneration(t) \/ Scan(t) \/ Scanned(t) \/ Started(t)

Registered(t) ==
    CreateSession(t) \/ CreateRefused(t) \/ Cached(t) \/ Build(t) \/ Refused(t)

UnderLock(t) ==
    TakeLock(t) \/ ViewCreated(t) \/ WasReset(t) \/ Load(t) \/ Serve(t) \/ Mark(t) \/ Commit(t)

Resetting(t) ==
    \/ LockNext(t) \/ AllLocked(t) \/ OpenFresh(t) \/ Switch(t) \/ Swap(t)
    \/ Retire(t) \/ Close(t)

Step(t) == TakeRegistry(t) \/ Opening(t) \/ Registered(t) \/ UnderLock(t) \/ Resetting(t)

Failure(t) ==
    \/ OpenFails(t) \/ ReadFails(t) \/ LoadFails(t) \/ Discard(t)
    \/ ResetFails(t) \/ SwitchFails(t)

Next ==
    \/ \E t \in Thread, wanted \in Asks : Ask(t, wanted)
    \/ \E t \in Thread : Step(t) \/ Failure(t)
    \/ Crash \/ Boot

\* Every thread is scheduled, and a process that died is started again.  The locks
\* are not fair: nothing is assumed of who gets one next.
Fairness ==
    /\ \A t \in Thread : WF_vars(Step(t))
    /\ WF_vars(Boot)

Spec == Init /\ [][Next]_vars
FairSpec == Spec /\ Fairness

-----------------------------------------------------------------------------
(* Properties *)

Places == {"idle", "registry", "ready", "opening", "create", "seed", "activate", "named", "open",
           "scan", "missed", "lock", "viewing", "checking", "working", "marked", "open fresh",
           "switch", "swap", "retire"}

\* TYPE: what the disk, the service and the threads hold.
TypeOK ==
    /\ dir \in [Gen -> {"none", "partial", "seeded"}] /\ pointer \in Gen \cup {None}
    /\ file \in [Session -> Files \cup {None}]
    /\ up \in BOOLEAN /\ config \in Policies
    /\ runtime \in Gen \cup {None} /\ handles \subseteq Gen
    /\ sessions \in [Session -> Object \cup {None}]
    /\ object \in [Object -> Conversations \cup {None}]
    /\ lock \in [Object -> Thread \cup {None}] /\ registry \in Thread \cup {None}
    /\ fresh \in Gen \cup {None} /\ toScan \subseteq Session
    /\ at \in [Thread -> Places]
    /\ job \in [Thread -> Asks \cup {None}] /\ conv \in [Thread -> Object \cup {None}]
    /\ faults \in 0..MaxFaults

Working(t) == at[t] \in {"working", "marked"}

\* WorkIsCurrent: a request that works on a conversation works on the one in the
\* map, with its lock, on the generation that the service uses and generation.json
\* names, whose databases are open, whatever resets, closings and restarts came
\* between the lookup and the lock; and two threads never work on one session, though
\* the lock belongs to an object that a request may replace in the map.
WorkIsCurrent ==
    \A t \in Thread : Working(t) =>
        LET o == conv[t]
        IN  /\ lock[o] = t
            /\ sessions[object[o].session] = o
            /\ object[o].session \in FilesOf(object[o].gen)
            /\ object[o].gen = runtime /\ runtime = pointer
            /\ runtime \in handles /\ dir[runtime] = "seeded"
            /\ \A u \in Thread :
                 Working(u) /\ object[conv[u]].session = object[o].session => u = t

\* GenerationsAreKept: generation.json never names a directory that is missing or not
\* completely seeded, wherever a process died; with the registry free, the open
\* databases are those of the generation in use, a failed reset leaks none and close
\* leaves none; and no generation has more session files than the limit, also across
\* restarts that forget which sessions were in use.
GenerationsAreKept ==
    /\ pointer # None => dir[pointer] = "seeded"
    /\ registry = None => handles = {runtime} \ {None}
    /\ \A g \in Gen : Cardinality(FilesOf(g)) <= MaxSessions

\* OnlyResetsLose: a session of the active generation is lost only after the pointer
\* has moved to a fresh generation: a reset that fails loses nothing.
OnlyResetsLose ==
    [][\A s \in Session : file[s] # None /\ file'[s] = None => file[s].gen # pointer]_vars

\* PolicyIsBound: a session only ever runs under the policy that it was created with.
PolicyIsBound ==
    \A t \in Thread : Working(t) => file[object[conv[t]].session].policy = config

\* RegistryIsReleased: whoever takes the registry lock gives it back, also a reset
\* that waits for every conversation: the lock order cannot deadlock.
RegistryIsReleased == \A t \in Thread : registry = t ~> registry # t

\* StartupRecovers: a submission that a crash left marked is resolved by the next
\* start, with nobody asking for it, unless that start is bound to another policy.
StartupRecovers ==
    \A s \in Session :
        ~up /\ file[s] # None /\ file[s].marked
            ~> file[s] = None \/ ~file[s].marked \/ file[s].policy # config

\* CreatedIsViewed: what the design promises of create_session, that the registry lock
\* serializes a reset against everything else: the conversation it shows is one of the
\* generation in use (it does not hold).
CreatedIsViewed ==
    \A t \in Thread : at[t] = "viewing" /\ runtime # None => object[conv[t]].gen = runtime
=============================================================================
