------------------------------ MODULE WikiRuntime ------------------------------
(***************************************************************************)
(* The wiki that compiles itself behind the knowledge base                 *)
(* (wiki_runtime.py, wiki_maintenance/maintainer.py and the knowledge      *)
(* operations of api.py): an upload replaces chunks of the index and       *)
(* queues a job; one worker compiles the job's documents into drafts, each *)
(* on the one before, publishes the last and retires what it superseded    *)
(* from the index; a clear empties the index, voids the jobs and retracts  *)
(* the wiki; requests read the live build through a cache.                 *)
(*                                                                         *)
(* The worker and the API call WikiRepository and take its steps one by    *)
(* one: the worker creates drafts without any lock, a publication, its     *)
(* undoing and a retraction hold the runtime's.  The index's lock is taken *)
(* by uploads and clears, which give up when it is held, and by the        *)
(* retirement, which waits.                                                *)
(***************************************************************************)
EXTENDS WikiRepository, Sequences, FiniteSets

CONSTANTS
    Reader,       \* requests that read the wiki
    Batches,      \* the uploads: sequences of different documents
    Drafting,     \* the values of hold_as_draft
    MaxVersion    \* bound: knowledge_version at which uploads and clears stop

ASSUME RuntimeAssumption ==
    /\ Caller = {"worker", "api"}
    /\ Batches \subseteq Seq(Doc)
    /\ \A batch \in Batches : \A i, j \in DOMAIN batch : batch[i] = batch[j] => i = j
    /\ Drafting \subseteq BOOLEAN /\ MaxVersion \in Nat
    /\ Reader \cap {"worker", "api", None} = {}

VARIABLES
    chunks,   \* the index: the knowledge version at which each document was uploaded
    uploaded, \* document_upload_versions
    version,  \* knowledge_version
    mutex,    \* knowledge_mutation_lock
    api,      \* the upload or clear that holds it
    jobs,     \* _jobs, in the order of their ids
    queue,    \* _queue
    epoch,    \* _epoch
    runlock,  \* _lock
    work,     \* what the worker has at hand
    cache,    \* _cached_build_id and _cached_pages
    reader,   \* published_pages, for each request
    hold,     \* hold_as_draft of the runtime
    anew,     \* history: whether the process was restarted
    era,      \* history: how often the index was cleared
    born,     \* history: the era and the job that each build comes from
    retired,  \* history: what the publication of each build had to retire
    stuck     \* history: the builds whose publication could not be taken back

index == <<chunks, uploaded, version>>
history == <<era, born, retired, stuck, hold, anew>>
vars == <<repositoryVars, index, mutex, api, jobs, queue, epoch, runlock, work, cache, reader, history>>

Idle == [at |-> "idle"]
Active == {"queued", "running"}

\* What the jobs are, what the worker has at hand once a job's documents are its concern,
\* what a request and the cache hold, and what the history remembers of a build.
Jobs == [batch : Batches, epoch : Nat, version : Nat,
         status : Active \cup {"draft", "ignored", "published", "failed", "cancelled"}]
Begun == {"document", "decide", "create", "publish", "retire", "retiring", "finish", "undo", "undoing"}
Works == [at : Begun, job : Nat, next : Nat \ {0}, start : Build \cup {None}, base : Build \cup {None},
          superseded : SUBSET Doc, saved : Version \cup {None}]
Readings == [at : {"named", "fill"}, build : Build]
Pages == [build : Build, pages : Citations]
Origin == [era : Nat, job : Nat]
Retirement == [docs : SUBSET Doc, version : Nat]

ASSUME NowhereAssumption ==
    None \notin {"worker", "api"} /\ None \notin Nat /\ None \notin Pages /\ None \notin Origin /\ None \notin Retirement

Elements(batch) == {batch[i] : i \in DOMAIN batch}
Cited(b) == {d \in Doc : builds[b][d] # None}

Init ==
    /\ RepositoryInit
    /\ chunks = [d \in Doc |-> None] /\ uploaded = [d \in Doc |-> None]
    /\ version = 0 /\ mutex = None /\ api = Idle
    /\ jobs = <<>> /\ queue = <<>> /\ epoch = 0 /\ runlock = None
    /\ work = Idle /\ cache = None
    /\ reader = [r \in Reader |-> Idle]
    /\ era = 0 /\ born = [b \in Build |-> None] /\ retired = [b \in Build |-> None]
    /\ stuck = {}
    /\ hold \in Drafting /\ anew = FALSE

-----------------------------------------------------------------------------
(* The knowledge base: upload and clear *)

\* A request that finds the lock held is refused, which changes nothing.  The chunks
\* that the upload keeps are copied before its own are embedded.
Upload(batch) ==
    /\ mutex = None /\ version < MaxVersion
    /\ mutex' = "api"
    /\ api' = [at |-> "embed", batch |-> batch,
               kept |-> [d \in Doc |-> IF d \in Elements(batch) THEN None ELSE chunks[d]]]
    /\ UNCHANGED <<repositoryVars, index, jobs, queue, epoch, runlock, work, cache, reader, history>>

\* A file that cannot be read, embedded or stored.
UploadFails ==
    /\ api.at = "embed"
    /\ Fails("upload")
    /\ mutex' = None /\ api' = Idle
    /\ UNCHANGED <<files, call, wasLive, index, jobs, queue, epoch, runlock, work, cache, reader, history>>

CommitUpload ==
    /\ api.at = "embed"
    /\ version' = version + 1
    /\ chunks' = [d \in Doc |-> IF d \in Elements(api.batch) THEN version' ELSE api.kept[d]]
    /\ uploaded' = [d \in Doc |-> IF d \in Elements(api.batch) THEN version' ELSE uploaded[d]]
    /\ api' = [at |-> "submit", batch |-> api.batch, version |-> version']
    /\ UNCHANGED <<repositoryVars, mutex, jobs, queue, epoch, runlock, work, cache, reader, history>>

Submit ==
    /\ api.at = "submit" /\ runlock = None
    /\ jobs' = Append(jobs, [batch |-> api.batch, epoch |-> epoch, version |-> api.version,
                             status |-> "queued"])
    /\ queue' = Append(queue, Len(jobs'))
    /\ mutex' = None /\ api' = Idle
    /\ UNCHANGED <<repositoryVars, index, epoch, runlock, work, cache, reader, history>>

ClearIndex ==
    /\ mutex = None /\ version < MaxVersion
    /\ mutex' = "api"
    /\ api' = [at |-> "withdraw"]
    /\ chunks' = [d \in Doc |-> None] /\ uploaded' = [d \in Doc |-> None]
    /\ version' = version + 1
    /\ era' = era + 1
    /\ UNCHANGED <<repositoryVars, jobs, queue, epoch, runlock, work, cache, reader, born, retired, stuck, hold, anew>>

\* WikiRuntime.clear, which holds the lock until the retraction has ended.
WithdrawWiki ==
    /\ api.at = "withdraw" /\ runlock = None
    /\ epoch' = epoch + 1
    /\ jobs' = [j \in DOMAIN jobs |->
                  IF jobs[j].status \in Active THEN [jobs[j] EXCEPT !.status = "cancelled"] ELSE jobs[j]]
    /\ IF current # None
       THEN /\ runlock' = "api" /\ api' = [at |-> "retract"]
            /\ Retract("api")
            /\ UNCHANGED <<mutex, cache>>
       ELSE /\ mutex' = None /\ api' = Idle /\ cache' = None
            /\ UNCHANGED <<repositoryVars, runlock>>
    /\ UNCHANGED <<index, queue, work, reader, history>>

\* A retraction that fails leaves the cache, and the request ends with an error.
Withdrawn ==
    /\ api.at = "retract" /\ Ended("api")
    /\ cache' = IF call["api"].at = "done" THEN None ELSE cache
    /\ Return("api")
    /\ runlock' = None /\ mutex' = None /\ api' = Idle
    /\ UNCHANGED <<index, jobs, queue, epoch, work, reader, history>>

-----------------------------------------------------------------------------
(* The worker *)

Job == jobs[work.job]
Stale(j) == jobs[j].epoch # epoch
SetStatus(status) == jobs' = [jobs EXCEPT ![work.job].status = status]

\* What is left of a job that is not stale ends with this status.
Ends(status) == SetStatus(status) /\ work' = Idle

\* The exception handler leaves a cancelled job cancelled.
JobFails ==
    Ends(IF Job.status = "cancelled" THEN "cancelled" ELSE "failed")

Take ==
    /\ work.at = "idle" /\ queue # <<>> /\ runlock = None
    /\ queue' = Tail(queue)
    /\ IF Stale(Head(queue))
       THEN /\ jobs' = [jobs EXCEPT ![Head(queue)].status = "cancelled"]
            /\ UNCHANGED work
       ELSE work' = [at |-> "accepted", job |-> Head(queue)] /\ UNCHANGED jobs
    /\ UNCHANGED <<repositoryVars, index, mutex, api, epoch, runlock, cache, reader, history>>

\* The check and the status take the lock one after the other.
Run ==
    /\ work.at = "accepted" /\ runlock = None
    /\ SetStatus("running")
    /\ work' = [at |-> "begin", job |-> work.job]
    /\ UNCHANGED <<repositoryVars, index, mutex, api, queue, epoch, runlock, cache, reader, history>>

Begin ==
    /\ work.at = "begin"
    /\ work' = [at |-> "document", job |-> work.job, next |-> 1, start |-> current,
                base |-> current, superseded |-> {}, saved |-> None]
    /\ UNCHANGED <<repositoryVars, index, mutex, api, jobs, queue, epoch, runlock, cache, reader, history>>

CancelDocument ==
    /\ work.at = "document" /\ runlock = None
    /\ Stale(work.job)
    /\ Ends("cancelled")
    /\ UNCHANGED <<repositoryVars, index, mutex, api, queue, epoch, runlock, cache, reader, history>>

NextDocument ==
    /\ work.at = "document" /\ runlock = None
    /\ work.next <= Len(Job.batch) /\ ~Stale(work.job)
    /\ \E c \in Content :
         /\ SaveSnapshot(Job.batch[work.next], c)
         /\ work' = [work EXCEPT !.at = "decide", !.saved = Short[c]]
    /\ UNCHANGED <<index, mutex, api, jobs, queue, epoch, runlock, cache, reader, history>>

\* The model ignores the document: nothing is written.
Ignore ==
    /\ work.at = "decide"
    /\ work' = [work EXCEPT !.at = "document", !.next = @ + 1]
    /\ UNCHANGED <<repositoryVars, index, mutex, api, jobs, queue, epoch, runlock, cache, reader, history>>

\* Without a draft of its own the job extends what is live now.
Base == IF work.base # None THEN work.base ELSE current
ActiveDocuments == IF Base = None THEN [d \in Doc |-> None] ELSE builds[Base]

EffectiveDocuments(incoming, superseded) ==
    [d \in Doc |-> IF d = incoming THEN work.saved
                   ELSE IF d \in superseded THEN None ELSE ActiveDocuments[d]]

\* The model has it update the wiki, superseding active documents other than its own.
Update ==
    LET incoming == Job.batch[work.next]
        candidates == {d \in Doc : ActiveDocuments[d] # None} \ {incoming}
    IN  /\ work.at = "decide"
        /\ \E superseded \in SUBSET candidates :
             /\ CreateBuild("worker", EffectiveDocuments(incoming, superseded), Base)
             /\ work' = [work EXCEPT !.at = "create", !.superseded = @ \cup superseded]
        /\ born' = [b \in Build |-> IF builds'[b] # builds[b]
                                    THEN [era |-> era, job |-> work.job] ELSE born[b]]
        /\ UNCHANGED <<index, mutex, api, jobs, queue, epoch, runlock, cache, reader, era, retired, stuck, hold, anew>>

\* A model that cannot be reached or answers what cannot be used.
CompilationFails ==
    /\ work.at = "decide"
    /\ Fails("compile")
    /\ JobFails
    /\ UNCHANGED <<files, call, wasLive, index, mutex, api, queue, epoch, runlock, cache, reader, history>>

Created ==
    /\ work.at = "create" /\ Ended("worker")
    /\ Return("worker")
    /\ IF call["worker"].at = "done"
       THEN /\ work' = [work EXCEPT !.at = "document", !.next = @ + 1, !.base = call["worker"].build]
            /\ UNCHANGED jobs
       ELSE JobFails
    /\ UNCHANGED <<index, mutex, api, queue, epoch, runlock, cache, reader, history>>

BatchDone == work.at = "document" /\ runlock = None /\ work.next > Len(Job.batch)

\* Every document was ignored, or drafts are held for review.
EndUnpublished ==
    /\ BatchDone /\ ~Stale(work.job)
    /\ \/ work.base = work.start /\ Ends("ignored")
       \/ work.base # work.start /\ hold /\ Ends("draft")
    /\ UNCHANGED <<repositoryVars, index, mutex, api, queue, epoch, runlock, cache, reader, history>>

\* Seeded fault: whether the job is stale is not asked again.
PublishAnyJob ==
    /\ BatchDone
    /\ work.base # work.start /\ ~hold
    /\ runlock' = "worker"
    /\ Publish("worker", work.base)
    /\ work' = [work EXCEPT !.at = "publish"]
    /\ UNCHANGED <<index, mutex, api, jobs, queue, epoch, cache, reader, history>>

\* Checked and published under one lock.
PublishJob ==
    /\ BatchDone /\ ~Stale(work.job)
    /\ work.base # work.start /\ ~hold
    /\ runlock' = "worker"
    /\ Publish("worker", work.base)
    /\ work' = [work EXCEPT !.at = "publish"]
    /\ UNCHANGED <<index, mutex, api, jobs, queue, epoch, cache, reader, history>>

\* What the publication superseded and no longer cites has to leave the index.
Candidates == work.superseded \ Cited(work.base)

Published ==
    /\ work.at = "publish" /\ Ended("worker")
    /\ Return("worker")
    /\ runlock' = None
    /\ IF call["worker"].at = "done"
       THEN /\ work' = [work EXCEPT !.at = "retire"]
            /\ cache' = None /\ UNCHANGED jobs
            /\ retired' = [retired EXCEPT ![work.base] =
                             [docs |-> work.superseded \ Cited(work.base), version |-> Job.version]]
       ELSE JobFails /\ UNCHANGED <<cache, retired>>
    /\ UNCHANGED <<index, mutex, api, queue, epoch, reader, era, born, stuck, hold, anew>>

NothingToRetire ==
    /\ work.at = "retire" /\ runlock = None
    /\ Candidates = {} \/ Stale(work.job)
    /\ work' = [work EXCEPT !.at = "finish"]
    /\ UNCHANGED <<repositoryVars, index, mutex, api, jobs, queue, epoch, runlock, cache, reader, history>>

\* Seeded fault: the runtime's lock is kept while the callback waits for the index's.
CallRetirementLocked ==
    /\ work.at = "retire" /\ runlock = None
    /\ Candidates # {} /\ ~Stale(work.job)
    /\ runlock' = "worker"
    /\ work' = [work EXCEPT !.at = "retiring"]
    /\ UNCHANGED <<repositoryVars, index, mutex, api, jobs, queue, epoch, cache, reader, history>>

\* The callback is called without the runtime's lock.
CallRetirement ==
    /\ work.at = "retire" /\ runlock = None
    /\ Candidates # {} /\ ~Stale(work.job)
    /\ work' = [work EXCEPT !.at = "retiring"]
    /\ UNCHANGED <<repositoryVars, index, mutex, api, jobs, queue, epoch, runlock, cache, reader, history>>

\* Seeded fault: a document goes however new it is.
RetirableAtAll == Candidates

\* What was uploaded after the job's own upload is left alone.
Retirable ==
    {d \in Candidates : uploaded[d] = None \/ uploaded[d] <= Job.version}

\* Seeded fault: the retirement does not wait for an upload.
RetireUnlocked ==
    /\ work.at = "retiring"
    /\ IF \E d \in Retirable : chunks[d] # None
       THEN /\ chunks' = [d \in Doc |-> IF d \in Retirable THEN None ELSE chunks[d]]
            /\ uploaded' = [d \in Doc |-> IF d \in Retirable THEN None ELSE uploaded[d]]
            /\ version' = version + 1
       ELSE UNCHANGED index
    /\ work' = [work EXCEPT !.at = "finish"]
    /\ UNCHANGED <<repositoryVars, mutex, api, jobs, queue, epoch, runlock, cache, reader, history>>

\* retire_superseded_documents, under the index's lock.
RetireDocuments ==
    /\ work.at = "retiring" /\ mutex = None
    /\ IF \E d \in Retirable : chunks[d] # None
       THEN /\ chunks' = [d \in Doc |-> IF d \in Retirable THEN None ELSE chunks[d]]
            /\ uploaded' = [d \in Doc |-> IF d \in Retirable THEN None ELSE uploaded[d]]
            /\ version' = version + 1
       ELSE UNCHANGED index
    /\ work' = [work EXCEPT !.at = "finish"]
    /\ UNCHANGED <<repositoryVars, mutex, api, jobs, queue, epoch, runlock, cache, reader, history>>

RetirementFails ==
    /\ work.at = "retiring" /\ mutex = None
    /\ Fails("retire")
    /\ work' = [work EXCEPT !.at = "undo"]
    /\ UNCHANGED <<files, call, wasLive, index, mutex, api, jobs, queue, epoch, runlock, cache, reader, history>>

Finish ==
    /\ work.at = "finish" /\ runlock = None
    /\ IF Stale(work.job) THEN UNCHANGED jobs ELSE SetStatus("published")
    /\ work' = Idle
    /\ UNCHANGED <<repositoryVars, index, mutex, api, queue, epoch, runlock, cache, reader, history>>

\* The wiki is somebody else's decision by now.
LeaveUndone ==
    /\ work.at = "undo" /\ runlock = None
    /\ Stale(work.job) \/ current # work.base
    /\ JobFails
    /\ UNCHANGED <<repositoryVars, index, mutex, api, queue, epoch, runlock, cache, reader, history>>

\* Seeded fault: only a first publication is taken back.
UndoFirstOnly ==
    /\ work.at = "undo" /\ runlock = None
    /\ ~Stale(work.job) /\ current = work.base
    /\ IF work.start # None
       THEN JobFails /\ UNCHANGED <<repositoryVars, runlock>>
       ELSE /\ runlock' = "worker" /\ Retract("worker")
            /\ work' = [work EXCEPT !.at = "undoing"] /\ UNCHANGED jobs
    /\ UNCHANGED <<index, mutex, api, queue, epoch, cache, reader, history>>

\* _restore_previous_build
Undo ==
    /\ work.at = "undo" /\ runlock = None
    /\ ~Stale(work.job) /\ current = work.base
    /\ runlock' = "worker"
    /\ IF work.start = None THEN Retract("worker") ELSE Rollback("worker", work.start)
    /\ work' = [work EXCEPT !.at = "undoing"]
    /\ UNCHANGED <<index, mutex, api, jobs, queue, epoch, cache, reader, history>>

Undone ==
    /\ work.at = "undoing" /\ Ended("worker")
    /\ Return("worker")
    /\ runlock' = None
    /\ JobFails
    /\ IF call["worker"].at = "done"
       THEN cache' = None /\ UNCHANGED stuck
       ELSE stuck' = stuck \cup {work.base} /\ UNCHANGED cache
    /\ UNCHANGED <<index, mutex, api, queue, epoch, reader, era, born, retired, hold, anew>>

-----------------------------------------------------------------------------
(* Requests: published_pages *)

\* Without a pointer the committed sample answers.
ReadPointer(r) ==
    /\ reader[r].at = "idle" /\ current # None
    /\ reader' = [reader EXCEPT ![r] = [at |-> "named", build |-> current]]
    /\ UNCHANGED <<repositoryVars, index, mutex, api, jobs, queue, epoch, runlock, work, cache, history>>

AskCache(r) ==
    /\ reader[r].at = "named" /\ runlock = None
    /\ reader' = [reader EXCEPT ![r] =
                    IF cache # None /\ cache.build = reader[r].build
                    THEN Idle ELSE [at |-> "fill", build |-> reader[r].build]]
    /\ UNCHANGED <<repositoryVars, index, mutex, api, jobs, queue, epoch, runlock, work, cache, history>>

\* A build never changes, so when it is loaded makes no difference.
FillCache(r) ==
    /\ reader[r].at = "fill" /\ runlock = None
    /\ cache' = [build |-> reader[r].build, pages |-> builds[reader[r].build]]
    /\ reader' = [reader EXCEPT ![r] = Idle]
    /\ UNCHANGED <<repositoryVars, index, mutex, api, jobs, queue, epoch, runlock, work, history>>

-----------------------------------------------------------------------------
\* The repository's own steps of a call that was made above.
Step(p) ==
    /\ CallStep(p) \/ WriteFails(p)
    /\ UNCHANGED <<index, mutex, api, jobs, queue, epoch, runlock, work, cache, reader, history>>

\* The index and the files survive; the versions of another life are never compared
\* with those of this one, so that they go on counting here.
Crash ==
    /\ RepositoryCrash
    /\ uploaded' = [d \in Doc |-> None]
    /\ mutex' = None /\ api' = Idle
    /\ jobs' = <<>> /\ queue' = <<>> /\ epoch' = 0 /\ runlock' = None
    /\ work' = Idle /\ cache' = None
    /\ reader' = [r \in Reader |-> Idle]
    /\ anew' = TRUE
    /\ UNCHANGED <<chunks, version, era, born, retired, stuck, hold>>

Api == CommitUpload \/ Submit \/ WithdrawWiki \/ Withdrawn
Compile == Take \/ Run \/ Begin \/ CancelDocument \/ NextDocument \/ Ignore \/ Update \/ Created
Conclude ==
    \/ EndUnpublished \/ PublishJob \/ Published \/ NothingToRetire \/ CallRetirement
    \/ RetireDocuments \/ Finish \/ LeaveUndone \/ Undo \/ Undone
Read(r) == ReadPointer(r) \/ AskCache(r) \/ FillCache(r)

Next ==
    \/ \E batch \in Batches : Upload(batch)
    \/ ClearIndex \/ Api \/ UploadFails
    \/ Compile \/ Conclude \/ CompilationFails \/ RetirementFails
    \/ \E p \in Caller : Step(p)
    \/ \E r \in Reader : Read(r)
    \/ Crash

Spec == Init /\ [][Next]_vars

\* The threads run, and the model answers or fails; who asks is not assumed to come.
Fairness ==
    /\ WF_vars(Api \/ UploadFails \/ Step("api"))
    /\ WF_vars(Compile \/ Conclude \/ CompilationFails \/ RetirementFails \/ Step("worker"))
    /\ \A r \in Reader : WF_vars(AskCache(r) \/ FillCache(r))

FairSpec == Spec /\ Fairness

-----------------------------------------------------------------------------
(* Properties *)

\* TYPE: what the index, the jobs and the threads hold.
TypeOK ==
    /\ RepositoryTypeOK
    /\ chunks \in [Doc -> Nat \cup {None}] /\ uploaded \in [Doc -> Nat \cup {None}]
    /\ version \in Nat /\ epoch \in Nat /\ era \in Nat
    /\ mutex \in {"api", None} /\ runlock \in {"api", "worker", None}
    /\ api.at \in {"idle", "embed", "submit", "withdraw", "retract"}
    /\ api.at \in {"embed", "submit"} => api.batch \in Batches
    /\ api.at = "submit" => api.version \in Nat
    /\ work.at \in {"idle", "accepted", "begin"} \cup Begun
    /\ work.at \in {"accepted", "begin"} => work.job \in Nat
    /\ work.at \in Begun => work \in Works
    /\ jobs \in Seq(Jobs) /\ queue \in Seq(Nat)
    /\ cache \in Pages \cup {None}
    /\ reader \in [Reader -> Readings \cup {Idle}]
    /\ born \in [Build -> Origin \cup {None}] /\ retired \in [Build -> Retirement \cup {None}]
    /\ stuck \subseteq Build /\ hold \in Drafting /\ anew \in BOOLEAN

Clearing == api.at \in {"withdraw", "retract"}

\* ClearedMeansCleared: once a clear has returned, no wiki from before it is live, and
\* no job from before it ever publishes one: neither a queued nor a running one, nor one
\* that is just undoing its own publication.  What the live wiki says rests on documents
\* that the index still holds: it does not outlive its sources.  A restart between the
\* two halves of a clear forgets the second one, so this is about one life of the process.
ClearedMeansCleared ==
    ~anew /\ ~Clearing /\ current # None =>
        /\ born[current].era = era
        /\ \A d \in Cited(current) : chunks[d] # None

\* StoresAgree: when nothing is in flight, a document that the live wiki superseded is
\* no longer in the index, unless it was uploaded again since, as long as the process
\* lives and no undoing failed; and whatever publications and clears pass a request that
\* loads pages, the cache holds the pages of the build it names.
StoresAgree ==
    /\ ~anew /\ work.at = "idle" /\ mutex = None /\ current \notin stuck \cup {None} =>
        (retired[current] # None =>
           \A d \in retired[current].docs :
             chunks[d] = None \/ chunks[d] > retired[current].version)
    /\ cache # None => cache.build \in Build /\ cache.pages = builds[cache.build]

\* NothingIsLost: a document leaves the index only by a clear or by a job that knew its
\* last upload, and comes back only by an upload of its own: no upload's commit writes
\* back what a retirement took out, or takes out what another one wrote.
NothingIsLost ==
    [][\A d \in Doc :
         /\ chunks[d] # None /\ chunks'[d] = None =>
              era' # era \/ (work.at = "retiring" /\ chunks[d] <= Job.version)
         /\ chunks'[d] \notin {None, chunks[d]} =>
              api.at = "embed" /\ d \in Elements(api.batch)]_vars

\* FailedIsNotLive: a job that reports a failure has not left its wiki live, wherever it
\* failed, unless the undoing itself did, as long as the process lives.
FailedIsNotLive ==
    ~anew /\ current \notin stuck \cup {None} => jobs[born[current].job].status # "failed"

\* LiveIsRightful: the wiki that is live was neither cleared nor left by a failed job.
LiveIsRightful == ClearedMeansCleared /\ FailedIsNotLive

\* JobsFinish: with the locks taken in the order they are, every upload's job ends, and
\* whoever changes the knowledge base lets the next one do so.
JobsFinish ==
    /\ \A j \in 1..MaxVersion :
         j \in DOMAIN jobs ~> (j \in DOMAIN jobs => jobs[j].status \notin Active)
    /\ mutex # None ~> mutex = None

\* HistoryIsKept: what the repository says: nothing that was recorded is forgotten
\* (it does not hold, a clear and the worker write the manifest at the same time).
HistoryIsKept ==
    [][\A b \in Recorded(manifest) : manifest'[b] # None]_vars
=============================================================================
