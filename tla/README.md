# Verification of knowledge-agent

TLA+ models of `knowledge-agent`: the after-sales action gateway
(`src/aftersales/`) and the conversation service around it
(`src/aftersales_service/`), the knowledge base with its self-compiling wiki
(`src/api.py`, `src/wiki_runtime.py`, `src/wiki_maintenance/`, `src/rag.py`), the
orchestrated chain (`src/orchestration/`), and the harnesses that judge them
(`src/eval_v2/`, `src/eval_m1/`, `src/eval_m3/`, `src/diagnostic_eval/`,
`src/tools/`). TLC checks the models on small instances; TLAPS proves
the safety of ten of them for every instance.

    tlc -workers 2 -config MCActionGatewayRaces.cfg MCActionGateway
    tlc -workers 2 -config MCConversationFaults.cfg MCConversation
    tlapm ActionGatewayProofs.tla

Sections: 1 the system, 2 the modules, 3 the runs, bounds and fairness,
4 disagreements met, 5 proofs, 6 what is not modelled, 7 plan.

## 1. The system

A customer talks to a language model that may read orders, ask back, answer, or
propose one of three actions: a return, an exchange, a handoff to staff. The
model is not trusted. A proposal passes a closed contract, a grounding gate and
a deterministic Guard, may wait for an operator, and takes effect in one
database transaction with a receipt. Beside that a knowledge base answers from
documents, and a wiki is compiled from them, published and searched. Four
evaluations drive these systems from outside, and what they conclude decides
which version is released.

| Component | State | Operations | Interacts by |
|---|---|---|---|
| Guard (`guard.py`, `guard_state.py`, `guard_snapshot.py`, `derived.py`) | none; reads orders, parcels, stock, cases, tickets, pendings, the policy build | `capture`, `decide`, `stale_reason` | called by the gateway inside its transaction |
| Action gateway (`action_gateway.py`, `action_store.py`, `action_schema.sql`) | `pending_actions`, `action_receipts`, `action_audit_events`, cases, tickets | `start_action`, `record_decision` (T1), `execute_approved` (T2), `resume_action`, `get_outcome` | one SQLite write transaction per operation |
| Conversation (`conversation.py`, `conversation_graph.py`, `conversation_state.py`) | messages, observations, transcript, open run, tracked actions, open pendings, submissions; the head checkpoint and the in-flight marker | `submit`, `submit_smalltalk`, `decide`, `view`, `ensure_loaded` (`_recover`, `_reconcile`) | calls the gateway, the graph's checkpointer and the session file |
| Control runs (`agent_core.py`, `decision_policy.py`, `answer_policy.py`, `action_loop.py`) | the steps of the open run, a queue of native calls | one decision per step, batches drained without the model | nodes of the graph |
| Grounding (`action_grounding.py`, `observation_provenance.py`) | ledger of reads, submission index | `ground_action`, `record`, `anchored`, `for_pending` | fields of the conversation |
| Service and generations (`service.py`, `persistence.py`, `routes.py`) | open generation, loaded conversations; session files, `generation.json`, generation directories | start-up scan, create, lock, reset, close | a registry lock, then a lock per conversation |
| Policy knowledge base (`aftersales_service/knowledge_base.py`, `embedding_cache.py`) | documents, passages, the cache of embeddings | load, search | called by a read tool |
| Policy lifecycle (`policy_lifecycle.py`, `policy_source.py`) | none; policy builds in a wiki repository | draft a corpus, read a build back, freeze, compare | an operator's command line; the Guard reads what is published |
| Business tools and evidence (`business_tools.py`, `executor.py`, `eval_v2/evidence.py`, `derived.py`) | none | queries, derived facts | reads the databases |
| Wiki repository (`wiki_maintenance/repository.py`) | builds, manifest, current pointer | create, publish, retract, roll back, mark failed | separate atomic files, no lock |
| Wiki runtime (`wiki_runtime.py`, `maintainer.py`) | jobs, epoch, page cache | submit, worker, clear, retire, undo | a lock; callbacks into the API |
| Wiki compiler and query (`compiler.py`, `source_spans.py`, `wiki_adapter.py`) | none | spans, plan and drafts to pages, ranking of claims | called by the worker, by a tool |
| Knowledge API (`api.py`, `storage.py`) | chunk index, version, conversations | ask, stream, upload, retire, clear, commit an exchange, delete | two locks, conversation locks, SQLite |
| Retrieval and answers (`rag.py`) | chunk index | compound retrieval, answer check, recheck, quantities | called by the API |
| Orchestration (`planner.py`, `executor.py`, `evidence_policy*.py`, adapters, `chat_orchestration.py`) | none that outlives a request | plan, availability, execute, judge | called by the API |
| Providers and traces (`llm_provider.py`, `agent_trace.py`) | the trace of a run | parse a reply or a stream; open and close spans | used everywhere |
| Evaluation V2 (`eval_v2/`, `eval/v2/`) | one case-run, its own database, fault counters | drive, inject, score | the gateway as a client |
| Evaluation M1, M3 (`eval_m1/`, `eval_m3/`) | records and verdicts in a directory | run, judge, score, rescore, summarise | the service as a client |
| Diagnosis and official scores (`diagnostic_eval/`, `evaluate_answerability.py`, ...) | none | labels, checks per stage, metrics, gates | read traces |
| Sealed holdout (`tools/unseal_v2_stage6_holdout.py`) | sealed files, receipt, opened files | seal, open | the file system, git |
| Front end, loaders, command lines | | | |

Behaviours that are hard here:

* transactions of several callers interleave, and one request spans several of
  them: request, decision (T1), execution (T2), compensation;
* the world the Guard looked at changes before the approval is executed: cases
  opened by staff, parcels, stock, policies, releases, days;
* the process dies or a write fails between the gateway's commit and the
  session file that records it, in a turn, in a decision or in the recovery;
* a recovery repeats a submission, and a reconciliation repeats a report;
* a run pauses for a clarification and is continued by a policy that knows
  nothing but what was recorded;
* reset and requests race over a generation; a clear races a compile job; a
  publication and its retirement of documents fail one without the other;
* a stream is closed at any of its yields, or dropped before its first;
* a model answers with anything, and what is made of it must still be true;
* an evaluation injects faults, restarts what it measures, and counts.

What makes each component correct: the Guard's unique indexes are never what
stops a request; an effect, its receipt and its row exist together; a row only
advances; an approval is executed on the very snapshot that was approved. A
conversation never loses a row of the gateway, never tells what is not so,
never takes back what it told, and comes back after any failure; nothing is
submitted that the latest reads of its run do not bear out. A generation
is complete before it is named and nobody works on a closed one; the wiki's
pointer names a loadable build; a cleared knowledge base answers from nothing; an
exchange is stored only over what it was answered from; a lock that a stream took
comes back. No clause of a question is lost, no source of a lower rank decides, no
answer is delivered that its evidence does not support. A score says what the run
did: a fault strikes on its call and once, a verdict is reached, a correct gateway
passes, and results that are saved give the same score again.

## 2. Modules

| Module | Models | Role |
|---|---|---|
| `Guard` | the pure decision: rule selection, the ordered checks, windows, the staleness comparison | operators of `ActionGateway`, `EvidenceEnrichment` |
| `ActionGateway` | every transaction of the gateway, its callers, the outside world | detailed specification |
| `ActionLifecycle` | what the gateway promises of a request | abstract specification |
| `ActionGatewayProofs` | | theorems about `ActionGateway` |
| `Conversation` | one conversation: turn, commit protocol, decision, load, recovery, reconciliation, start-up scan | specification |
| `ConversationProofs` | | theorems about `Conversation` |
| `ControlRun` | the control runs inside the turns: decisions, batches, pauses, grounding, pending requests | specification |
| `GroundingStudy` | the study of the grounding gate: wrapper, experiment, summary | specification |
| `ServiceGenerations` | the service over its data directory: locks, lookup, create, reset, close, scan, generations, crash | specification |
| `ServiceGenerationsProofs` | | theorems about `ServiceGenerations` |
| `WikiRepository` | builds, manifest and pointer, one step per file, crashes | detailed specification |
| `PublishedWiki` | what readers of the repository are promised | abstract specification |
| `WikiRuntime` | worker, jobs, clear, retirement, undo, page cache | extends and composes `WikiRepository` |
| `WikiRuntimeProofs` | | theorems about `WikiRepository` with one caller at a time and about `WikiRuntime` |
| `WikiCompiler`, `WikiQuery` | documents to spans to pages, policy corpora as builds; pages to answers | pure operators |
| `KnowledgeApi` | requests, streams, locks, commits, uploads and clears | specification |
| `KnowledgeApiProofs` | | theorems about `KnowledgeApi` |
| `AgentTrace`, `DiagnosticRules` | the trace of a request; the diagnosis by it | specification; pure operators |
| `AgentTraceProofs` | | theorems about `AgentTrace` and about `GroundingStudy` |
| `Retrieval`, `AnswerDelivery` | `rag.py`: evidence for a compound question, the chain of checks, the numbers of an answer | pure operators |
| `EvidencePolicy`, `Orchestration`, `PlanExecutor` | verdict and fact resolution; plan, preflight, execution; what a tool may be asked and may return | pure operators, one specification |
| `OrchestrationProofs` | | theorems about `ControlRun` and about `Orchestration`, with `EvidencePolicy` |
| `ModelProvider` | two model services behind one interface, secrets in traces | pure operators |
| `KnowledgeBase` | the policy documents of the after-sales service and their search | pure operators |
| `EvidenceEnrichment` | what collected evidence supports; the read tools and the facts derived of what they read | pure operators |
| `CaseRunner` | a control run of the V2 evaluation and its fault gateway; the native tool loop as its policy | specifications |
| `Stage6Case` | the action harness on its own database; its scorer | specification and operators |
| `ProductRun` | the evaluation of the product: driver, judge, scores, saved results | specification |
| `AnswerScores` | the official scores, gates and comparisons | pure operators |
| `SealedHoldout` | sealing and opening a holdout | specification |
| `EvaluationProofs` | | theorems about `SealedHoldout` and `CaseRunner` |
| `MC...` | values, inputs and symmetry for TLC; the modules that put several specifications in one instance | |

The pure operators are written as functions, folds and set expressions; those
that are recursive stay in modules without theorems.

### Guard and ActionGateway

The gateway opens every write with `BEGIN IMMEDIATE`, so one transaction is one
action. Each outcome of `start_action` is an action of its own (`StartReplay`,
`StartDenied`, `StartPending`, `StartExecuted`, `StartFailed`); T1 is
`RecordDecision` or `RepeatDecision`, T2 is `ExecuteReplay`, `ExecuteStale`,
`ExecuteDecided`, `ExecuteLost` or `ExecuteFailed`. What `resume_action` holds
between T1 and T2, or between a rolled-back T2 and its compensation, is the
volatile `worker`; `Restart` empties it. `pending`, `receipts`, `cases` and
`tickets` are the tables; ids are derived from the idempotency key in the code
(`ids.py`), so here the key indexes them. Orders, parcels, stock, staff cases,
tickets, days, publications and deployments change on their own as external
actions: the code only reads them.

`Guard` is pure. A decision is the first failing check of an ordered list, as
`_Decision.run` does with its `_Denied` exceptions; rule records carry the fields
the selection compares. Prose, evidence objects and message codes that no
property tells apart are left out.

`ActionLifecycle` says in sixty lines what the gateway is for: one undecided or
approved request per item, an effect only on an item without an open case,
once, and only while nothing else is waiting for it. `FollowsLifecycle` is the
refinement: `phase` is read off the row and the receipt, `openCases` off the
case table.

### Conversation

A request holds the conversation's lock throughout, so there is one thread of
control, `at`. Each durable write is a step: the marker (`Mark`), the gateway's
transaction (`RunGateway`, `RecordDecision`, `Execute`), the session file
(`Commit`, `ClearMarker`, `SaveDecision`, `SaveReconciled`). `file` is the
session file. A checkpoint is immutable and written before its id is used, so
the model puts the content where the code puts the id. `fields` are the
object's fields and `work` the state the graph carries from node to node;
`Failure` may strike between any two steps and does what the handler there does:
restore and answer `TurnFailed`, clear the marker, or discard the object.
`Crash` empties memory, `Restart` runs the start-up scan.

`first` is the submission index (the outcome of the first submission of a key),
`actions` the tracked pending actions, `open` the open-pending list and `log`
the entries that report an outcome, keyed as the code keys them. The gateway is
seen by one conversation: keys contain the session's request id, so no other
conversation moves their rows; what the Guard decides is left open. A policy's
decision and whether a proposal is grounded are left open here; `ControlRun` has them.
The kinds of failure are an infrastructure failure in a turn or in a decision, a
session file that cannot be written, an exception of the gateway, a FAILED outcome
and a death.

### ServiceGenerations

The level above: many threads, many conversations. `at` is a thread's place, and
every lock and every durable write is a step of its own. `_lock` is `registry`,
a conversation's lock is `lock` of its `object`: an object, not a session,
because `_cached` may put a new object in the map under the same session id.
A request takes the registry (`TakeRegistry`), opens the directory if nobody has
(`FindActive` ... `Scanned`, which is `_require_runtime`), looks its conversation
up (`Cached`, `Build`, `Refused`), gives the registry back, and then waits for the
conversation (`TakeLock`), where it looks at `closed` (`WasReset`) before it loads
and serves (`Load`, `Serve`, `Mark`, `Commit`). `reset` and `close` keep the
registry and collect the locks one by one (`LockNext`, `AllLocked`); a reset then
creates, opens and names a generation (`Create`, `Seed`, `OpenFresh`, `Switch`),
swaps (`Swap`) and removes the old one (`Retire`). `dir`, `pointer` and `file` are
what a crash leaves: a directory is `partial` until its database is seeded, the
pointer is `generation.json`, a session file carries its generation, its policy
and whether it has a marker.

The two modules share the conversation's lock: what happens under it is
`Conversation`'s, which may assume one thread of control because
`WorkIsCurrent` holds here (two threads never work on one session); of what it does, only the marker and
the discarded object are left. Conversely the start-up scan, one step of
`Conversation!Restart`, is the whole subject of `Scan` here.

### ControlRun

What one customer message makes the graph do between `begin_run` and the end of the
turn. `Decide(reply)` is one step with a model's answer: a read, a clarification
that pauses the run, an action, a final answer, or a batch of native calls, of
which `Drain` executes one a step. `conv` is what the conversation will commit and
`saved` the last commit, to which `TurnFails` returns; `core` is the gateway's
status of each action, and `OperatorDecides` moves it between two messages.
`sent` is history: what was submitted and what had been read. Conversation and
ControlRun are one program cut at the commit: `Conversation` leaves open which
proposal a turn makes and whether it is grounded, `ControlRun` leaves open where a
turn dies.

### GroundingStudy

`grounding_policy.py` puts the gate of the service around a policy of the harness and
reads its rules a second time (`GroundAction`, `Audit`). `CaseNext` is one
case-run, with observations that cannot be paired with a call, rejected
proposals, a run out of steps and one that is lost; `StudyNext` the experiment,
which runs every case once in either mode and stops at the first broken invariant;
`SummarizeRows` says whether the two modes may be compared. Admissions of a run that
was lost are not counted, as in the code.

### Wiki

`WikiRepository` has one step per file that a call writes, so a switch is
`manifest.json` and then `current.json`, and a failed write or a death may fall
between. `KeepsItsPromise` is the refinement of `PublishedWiki`. `WikiRuntime`
extends it: the worker's and the API's calls advance by the repository's own
steps (`Step`), so that a compile, a clear and a publication interleave file by
file. `WikiCompiler` is what happens inside a job: the spans, their identity under
edits, and the plan and the drafts of a model, of which a page takes what the
spans bear out. Its last section is the policy corpus: a source is front matter and
body, a draft (`CompilePolicyDraft`) the pages and a snapshot of each source, and
`LoadPolicySources` what a publication, a roll back and every reader begin with: it
recomputes every identity and digest, puts the spans together again and parses them.
`PoliciesAreKept` relates these: what was drafted is read back and compiles to the
same pages, an edited file is refused or says the same (`Edited`), and a review shows
a difference exactly where a frozen manifest refuses the build.

### KnowledgeApi, AgentTrace, DiagnosticRules

A request is a record with a place (`at`); it takes the conversation's lock,
snapshots index, history and version, answers and commits. A stream may be closed at
each yield, and dropped before its first step (`Drop`). `AgentTrace` is the trace
alone: spans on a stack, an exception in flight (`Unwind`, `Catch`, `RaiseAgain`,
`Abort`), a generator that is closed. The code in between is free. `DiagnosticRules`
are the checks that read such a trace.

### Orchestration

A question is a set of clauses and a clause the set of cues that the planner's
tables find in it, so that TLC enumerates every combination of rules. A request is
planned, checked against what is available, executed tool by tool while a wiki is
published or retracted, and judged.

### Evaluation

`CaseRunner` is the runner's loop under any policy with the fault gateway's
separate books, and the native tool loop as the policy that lets a model decide.
`Stage6Case` is the gateway as its harness drives it, with faults at injection points,
restarts and a clock; it then labels a case with what the gateway did and asks whether
the scorer agrees. `ProductRun` is the scripted customer, the operator, the judge and its
retries, the score of the database's rows, and the directory of saved lines.

The `MC` modules of several settings (`MCGatewayGuard`: world, policy, case, scores,
product, folder, tables; `MCOrchestration`: reads, requests, question;
`MCKnowledgeApi`: requests, trace; `MCEvaluation`: policy, model, gate, short,
study, diagnosis; `MCAlgorithms`: one for each algorithm, and the holdout) choose one of them in the
first state and let only that one move. The settings share nothing: their states add
up and do not multiply, and each is what a configuration of its own would check.

## 3. Runs

| Run | Checks | Bounds |
|---|---|---|
| `gateway_races` | Two callers, two returns of two conversations and an exchange of one item; decisions repeated and contradicted, executions repeated, failures, late compensations, restarts, staff cases, a policy that is retracted. `RowsAreWellFormed`, `EffectsAreReceipted`, `AnswersAreFirm`, `RequestsOnlyAdvance`, `FollowsLifecycle` | 3 keys, 2 callers, 1 item, 1 staff case |
| `gateway_guard` | World: a return and an exchange while orders, parcels and stock change. Policy: a routed return, an exchange and the same handoff from two conversations while builds, releases and days pass. `GuardKeepsTheIndexes`, `EffectsAreAllowed`, `SnapshotCoversTheGuard`. Five more settings for `CaseIsJudged`: the Stage 6 harness and its scorer, the official scores, the product's evaluation, its directory, two states of its database | 2 keys, 2 versions of each row, 4 parcel sets; 4 keys, 2 builds, 2 releases, 3 days; scripts of 3 events; 5 saved lines |
| `conversation_faults` | Every kind of failure, three times, between any two durable steps. `LoadedIsCurrent`, `EffectsAreAccounted`, `ToldIsTrue`, `NoForkPastMarker` | 2 keys, 3 messages, 2 steps, 3 failures |
| `conversation_recovery` | All failures but an answered FAILED. `EffectsAreRecorded`; under fairness `RecoveryCompletes` | 2 keys, 2 messages, 1 step, 3 failures |
| `service_races` | Requests, creations, resets and closings of two threads with every kind of failure, twice. `WorkIsCurrent`, `GenerationsAreKept`, `OnlyResetsLose`, no deadlock | 2 threads, 3 sessions of which 2 fit, 4 generations, 2 failures |
| `service_restarts` | A crash anywhere, then a process of the same or of another policy. `PolicyIsBound`; under fairness `RegistryIsReleased`, `StartupRecovers` | 2 threads, 1 session, 3 generations, 1 crash |
| `wiki_repository` | Create, publish, roll back, retract, fail, with failing writes and deaths. `PublishedIsLive`, the refinement `KeepsItsPromise` | 3 builds, 2 contents with one short version, 3 failures |
| `wiki_runtime` | Uploads, the worker, a clear, retirement, undo, readers, one failure. `LiveIsRightful`, `StoresAgree`, `NothingIsLost`; under fairness `JobsFinish` | 2 documents, 3 versions, 3 builds, 1 failure |
| `api` | Two requests of two clients in one conversation against uploads, clears and retirements; a trace. `StoredIsCurrent`, `CommitsExtendWhatWasRead`, `TracesBlameTheCulprit`; under fairness `LocksAreReleased` | 2 versions, 2 exchanges; 3 spans, 2 exceptions |
| `orchestration` | Reads, requests: two models of the control runs of three messages. `ActionsAreGrounded`, `RunsKeepTheProtocol`. Question: one clause of up to four cues, or two, every reply of every tool. `AnswersAreDue` | 2 orders, 2 items, 4 steps; 20 cues, 3 tools |
| `algorithms` | Every input of a bounded set for each pure algorithm, and two openings of a holdout with people and a crash. `EvidenceIsJudged`, `RepliesAreFounded` (`AnswersAreFounded`, `ModelsAreHeard`), `OpensOnce` | named in `MCAlgorithms` |
| `evaluation` | A policy that does anything, or a model that answers anything, under declared faults; gate, short, study: the study of the grounding gate; a diagnosis by a trace. `RecordIsSound`, `RecordsAreSound`; under fairness `RunsReachAVerdict` | 3 calls, 2 slots, 4 steps, 3 plans of faults; 2 reads, 2 policy runs, 2 cases, 2 rounds, 1 failure |

Most of these properties are conjunctions of named parts that are about the same
question; the parts and their comments stand where the property is defined.

Why the bounds are enough. Every rule of the gateway that relates rows relates
rows of one item, and the indexes are per item, so one item carries all
interference; three keys are a request, its competitor and one that arrives
when those two have ended, and two callers are one that waits and one that
overtakes. Versions only say "changed since", for which two suffice. The
windows last a day, so three days put a request before, at and after the end.
In a conversation two keys are an action and another one that must not be
confused with it; three messages are a submission, a clarification left open,
and a repetition; three failures are one in the turn, one in its recovery and
one after. In a control run two orders are the one acted on and one that an item
may be linked to by mistake, and four steps are a batch of two that meets a pause or
the cap of two identical calls. In the study two reads are one and a later one that
contradicts it; with one step fewer than reads the run ends on a read.
In the service two threads are one that waits and one that moves the world; a
third could only wait too. Two sessions that fit make a reset take several locks
while a request holds one, and the third is the one that must be refused. A reset
needs one generation beside the active one, and each failure can leave one
behind, hence `Cardinality(Gen) >= MaxFaults + 2`. An object exists while the map
or a thread refers to it, so `Object` has one number for each session and each
thread; the numbers of dead objects are used again.
In the wiki three builds are the live one, the one that replaces it and the one to
roll back to; two documents are one that a job supersedes and one uploaded
meanwhile. In the API one conversation carries all interference of its lock, and two
requests are one that answers while the other changes something. In the
orchestration four cues in a clause let every pair of rules meet within it, since a rule
looks at two cues at most; of two clauses one has a single cue or one of the pairs that
a rule looks at and the other any two, so every rule of one meets every rule of the
other. In the harnesses two identical and one other call are
what fault declarations can confuse.

Symmetry is used for callers and equal keys, and for threads, sessions and
generations, in runs without liveness.

Deadlock. The gateway's bounds (`MaxVersion`, `MaxDay`) stop the outside world, drawn
inputs have no successor, an evaluation ends, and the versions of the wiki and of
the API run out, so `gateway_*`, `algorithms`, `orchestration`, `evaluation`,
`wiki_runtime` and `api` do not check deadlock. A conversation, the service and the
repository never stop and their runs do.

Fairness (`Conversation!FairSpec`): `WF(Work)`, a request that holds the lock
runs on, because the code never waits for anything but the database and the
provider, both with timeouts; `WF(Restart)`, the process is started again;
`WF(Ask)`, somebody comes back to the conversation. Failures are not fair and
`MaxFaults` of them happen: the liveness says "once failures stop". No fairness
is assumed for any particular request, message or decision.

Fairness (`ServiceGenerations!FairSpec`): `WF(Step(t))` for every thread, the
operating system schedules it; `WF(Boot)`, the process is started again. The locks
are Python's, which promise no order, so nothing is assumed of who gets one;
no request has to arrive. `RegistryIsReleased` therefore says that a reset which
holds the registry meets only conversation locks whose holders need nothing it
holds. `StartupRecovers` leans on `on_startup`, which calls `start` before anybody asks.

Fairness (`WikiRuntime!FairSpec`): the worker's thread and the API's run, and a compile
ends or fails, since the provider has timeouts. `KnowledgeApi!FairSpec`: threads run
and the server steps the streams it has started, not those it dropped; nobody has
to ask, upload or disconnect. `EvaluationSpec`: the runner runs.

## 4. Disagreements met

Where the code does other than a doc, a comment or a docstring says, PROJECT.json
quotes both ("findings"). The runs state what the code keeps. A disagreement that is
an allowance in a property is reproduced by removing the allowance; the others by
the change of a configuration that is named here.

| | What the code does | Reproduced by |
|---|---|---|
| 1 | A recovery whose replay answers FAILED clears the marker, the only reference to the row the gateway had committed | `EffectsAreRecorded` in `MCConversationRecovery.cfg` with `Faults = {"failed", "crash"}`, `MaxFaults = 2` |
| 2 | An approval that was executed before a death is recorded by the next request, not by the start-up: `decide` writes no marker | `StartupRecords` of `Conversation` as PROPERTY, `Faults = {"crash"}` |
| 3 | A created conversation is shown without the look at `closed`: a reset may be in between | `CreatedIsViewed` of `ServiceGenerations`, 3 generations, 1 session, a crash |
| 4 | A build that was never live can be rolled back to: the manifest says published before the pointer's write fails | `RollbackTargetsWereLive` of `WikiRepository`, 3 builds |
| 5 | The worker and a clear write the manifest each from its own copy: a record is lost | PROPERTY `HistoryIsKept` of `WikiRuntime` |
| 6 | A death inside a clear leaves the wiki without its documents | the allowance in `ClearedMeansCleared` |
| 7 | A death between publication and retirement leaves the superseded document | `~anew` in `StoresAgree` |
| 8 | A stream that is dropped before its first step keeps the conversation's lock | PROPERTY `LocksAreAlwaysReleased` of `KnowledgeApi` |
| 9 | A clear counts the version before the wiki is offline: an answer of the old wiki is stored | PROPERTY `AnswersAreKnown`, `Drops = FALSE` |
| 10 | A greeting with a record's id and its status word is answered with the greeting | `GreetingsAskNothing` of `Orchestration` in `MCOrchestration`, `Questions <- FewQuestions` |
| 11 | A dropped clause and a lower-case SKU make a request raise after its tools ran | `ToolFailuresDoNotRaise`, `Questions <- FewQuestions`, `Fallbacks <- NoFallback` |
| 12-14 | The Stage 6 scorer fails a correct gateway: a decision lost in T1, a decision repeated by approve, a second request | each disjunct of `ScorerIsSilent` |
| 15 | The words beside a quantity of the question are read past its clause | `ToldOf` in `AnswerDelivery` |
| 16, 17 | Deleted copies of an opened holdout arm it again; of two openings one may remove the other's file | "rearmed" and "met" in `OpensOnce` |
| 18 | A `<think>` that is never closed stays in the content | `ThinkingIsKeptApart` |
| 19 | A page that a plan does not name as existing starts again at version 1.0 under its id | `IdentityIsKept` |
| 20 | Of two equal paragraphs, editing the first re-identifies the second | `SpansAreStable` states insertion only |
| 21 | A permission that is wrapped over two lines is not refused | `StatesEligibility` |
| 22 | Documents out of force count in the word statistics | scores are inputs of the search here |
| 23 | A policy that answers where it was to refuse is blamed on evidence, not reported as a label gap | BOOLEAN signals in `Overlays` of `MCEvaluation` |
| 24 | A missing corpus counts as a refusal by policy | `ClassifyBehavior`, `Passed` of `AnswerScores` |
| 25 | A judge's reply that rates an id twice is accepted, the last rating stands | `ParseVerdict` of `ProductRun` |
| 26 | A second command in a results directory mixes its lines with the first's | `RescoreAgrees` without its condition on `lines` |
| 27 | The digest of a frozen policy build depends on the versions of its pages, and so on the builds before it | `PoliciesAreKept` with another `existing` for the rebuild |

The fourth disjunct of `ScorerIsSilent` (`LateSubmission`: the first submission failed
and a later one waits for approval) contradicts no text of the repository and is no
finding.

## 5. Proofs

Eight modules of theorems about twelve specifications, for every value of their
constants: any number of requests, items, threads, sessions, documents, clients,
builds, steps and failures. Each has the same shape: an inductive invariant, a
conjunction of named parts; a lemma `...Init`; lemmas that a step preserves it, one for
each action; and theorems that read the properties of the runs off it. TLC
checked the invariants on the small instances before they were proved.

The theorem modules use no fairness and no ENABLED, and the specifications they
are about contain no recursive operator.

### ActionGatewayProofs

* `TypeCorrect`, `RowsCorrect`: `TypeInv` conjoins the types with the well-formedness
  of rows.
* `EffectsCorrect`, `RequestsAdvance`: `ReceiptInv` is `TypeInv` and
  `EffectsAreReceipted`. The step that matters is T2, which writes the receipt on a
  fresh snapshot where the theorem wants the approved one: `SameSnapshot` proves that
  two snapshots between which `StaleReason` finds nothing are equal. The late
  compensation keeps it because it writes only a row that is still APPROVED.
* `AnswersStayFirm`: `FirmInv` is `ReceiptInv` and the property: an ended row or a
  receipt is written by nobody again.
* `IndexesHold`, `EffectsAllowed`: `GuardedInv`. Their three parts (indexes,
  approvals, returned items) are inductive only together: a second request is kept out by the Guard's look at
  the open cases and requests, and that look is worth something in T2 only because
  the snapshot has not moved.
* `SnapshotSuffices`: `CoveredInv`. What the Guard decided at the request it decides
  again on an equal snapshot, so no approval is refused without a difference that the
  staleness check can name. Its longest part is about time: the earliest parcel of an
  item, whatever the other parcels do, decides the window.
* `ImplementsLifecycle`: `ActionGateway` implements `ActionLifecycle`, one lemma
  per action for a step or a stutter, from `GuardedInv`.

Assumed: actions and rules have the shapes their schemas admit; keys are not staff
ids; `None` is no row; parcels' times are numbers; the code of a changed decision is not
also the name of an infrastructure failure; no release asks for the approval of a
handoff (`HandoffChecks` does not look at other pendings, so such a release would run
into the unique index; none in the repository does).

### ConversationProofs

`TypeCorrect`, `LoadedCorrect`, `EffectsAccounted`, `ToldTrue`, `MarkersHold`, and
`EffectsRecorded` under the hypothesis `"failed" \notin Faults`. The invariant derives
everything from the one view that survives a death, the head of the session file:
`HeadInv` relates the head to the gateway's rows, `ObjectInv` the loaded object to the
head, `SubmissionInv` the marker and the work of the graph to it, `DecisionInv` an
operator's decision between its commit and its record. The hypothesis of
`EffectsRecorded` is that of its run: finding 1 is what happens without it.

### OrchestrationProofs

`TypeCorrect`, `ActionsGrounded`, `ProtocolKept`, for a model that answers with any
sequence of calls. `Sound` says what the books of a conversation say of each other, of
the working copy and of the one a failing turn restores; `TurnInv` that the first
continues the second; `NativeInv` that what the policy of a request remembers is
what was observed and what it still owes; `PendingInv` and `SentInv` are about the
pending requests and about what was submitted. The hard step is the batch: its calls
are accepted at once under the cap and executed one a step, so the invariant must
count the calls that wait with those that were made (`Allowed`), in every order.

`AnswersDue` is about a question of the orchestrated mode, for any set of questions. The
invariant (`QuestionInv`) carries from the plan to the verdict what the parts of the
property compare: `PlanInv` which plan the question got, `RanInv` that the wiki which the
preflight asks for is the one that was found there, however often it changed since, and
what each tool brought, `EndInv` that a request ends before anything ran, by the
judgement, or by an error that is not the preflight's. `PlanCovers` and `JudgedIs` say what the
planner and the policy make of that. `AuthorityDecides` is the resolution of facts
(`IsPartitioned`, `IsDecidedByAuthority`, `WeakerChangesNothing`) for any finite set of
assertions with any authorities; the run has four assertions and three of them.

Assumed of a question: the fallback chooses among the tools, and a tool ends in one of
the ways that the executor distinguishes.

### ServiceGenerationsProofs

`TypeCorrect`, `WorkCurrent`, `GenerationsKept`, `PolicyBound`, `OnlyResets`, for
any threads. `ServiceInv` says, place by place, what the holder of the registry lock is
alone with (`HolderAt`, `PlaceAt`, `FreshAt`) and what a thread may rely on that gave it
back and has, or waits for, its conversation's lock (`ConvAt`, `LockAt`). `ConvAt`
is the point of the design: an object that was found is in the map or has been closed
since, hence the look at `closed` under the second lock suffices. That a creation
always finds an object number is a counting argument over threads and sessions.

Assumed: finitely many threads and sessions, with a number of objects for each; as many
generations as failures can leave behind and two more; `None` is none of them. All of
these are bounds of the model and not of the code.

### WikiRuntimeProofs

`RepositoryTypeCorrect`, `LiveCanBeRead`, `PublishedCorrect`, and
`ImplementsPublishedWiki`: the refinement of `PublishedWiki`, for one caller at a time
(`RepositorySpec`). `RepositoryInv` says what the manifest a call is about to write has in
common with the one on disk, because between the two files anything may fail.

The runtime lets the worker and the API call the same repository, and then manifest and
pointer need not agree (finding 5). `RuntimeInv` therefore starts from the locks:
`CallInv` says whose call may be under way, `IndexInv` what an upload is about to
write back, `JobInv` which job comes before which clear, `BuildInv` and `BornInv` where
a build comes from. `RuntimeTypeCorrect`, `IndexCorrect` (`NothingIsLost`),
`LiveCorrect`, `StoresCorrect`. The last parts hold in one life of the process only
(`anew`): findings 6 and 7 are about what a restart forgets.

### KnowledgeApiProofs

`TypeCorrect`, `StoredCorrect`, `CommitsExtend`. `ApiInv`: `LockInv` says whose each
conversation's lock is, `ReadInv` what its holder may rely on as long as the version is
the one that it read. A request that reads while a clear has counted the version and not
yet withdrawn the wiki (finding 9) is why the wiki's sources are exempt.

### EvaluationProofs

`HoldoutOpensOnce`, for any number of openings and of edits. `HoldoutInv` starts from
what a run may rely on although everything it read may have been edited since: the seal,
once committed, is never another (`RunAt`). `AloneInv` says that before two runs met one
at most is under way; `BothInv` says, stage by stage, what such a run finds in the two
destinations, and that it takes away again whatever it placed; `OnceInv` that after a
success no run gets past the look at the repository, for each file is there or in the
history. A second success, or one file without the other, therefore takes what `marks`
records: files deleted before they were committed, or two runs together.

`RecordSound`, for any control policy, any declared faults and turns and any number of
steps. `CaseInv` numbers the calls in both books, `LedgerInv` by message and order, and says
of every declaration that its count is the number of calls in the ledger that it matches
(`CountInv`): the step that adds a call then shows that the fault that is due there, and no
other, finds its number. `DeliveredInv` pairs the k-th clarification with the turn after it,
and lets only the last one stay without.

`BatchesKept`, for any responses of a model: `LoopInv` is `CaseInv` with what the tool loop
keeps. `RoomInv` leaves the model a step beyond the calls that wait, `NativeInv` says that the
envelopes are those of the calls that were made and of those that wait, each at the step
where it will be made, and `CapInv` counts what waits as attempted already. A batch is
accepted only if it fits all three, so draining it breaks none, whatever its calls return.

Assumed: finitely many openings; a file that is not there is no dataset and no receipt; no
turn, no fault and no disposition have the value `None`; two declarations of a case do not
have both the same match and the same count, which the case contract and the gateway refuse.

### AgentTraceProofs

`TheCulpritIsBlamed`, for any number of spans, of exceptions and of catches, and any code
between the spans. `TraceInv`: `StackInv` says that the open spans stand in one another,
`WaysInv` that the spans an exception left form one chain from the one where it was raised
outwards, `LiveInv` that an exception in flight or caught left all that stood where it is now
(`Rides`), `RunInv` what the run says before it is finished, and `BlameInv` that the span it
blames is the origin of the error or of what the error was raised from. The hard steps are
`Unwind`, which makes a chain longer, and `Regroup`, which moves closed spans into a new one
and must not break any.

Two theorems about the study of the grounding gate, which shares no state with the trace.

`GateJudged`, for the case-runs. `StudyInv` says of each record what the gate made of its
action, and of the policy run it names what became of it (`Judges`); that records name
different runs, and that no admission is without one (`RecordInv`). `GateReads` compares the
two readings of the rules where each looks at the latest read of the order: they admit the
same, a rejection has a code that fits the rule that is not met, and of reads that all pair
the gate admits just what they support (`Supported`). `FixedIs` adds that reads which do not
all pair are not looked at, and that something was then diagnosed. The summary's search for
the one record with the run and the action of an admission then finds it (`DecisionIs`).

`SummaryWhole`, for the experiment. `SummaryInv`: the k-th row is of the k-th place, and
`PlaceIs` and `PlaceOf` are the arithmetic between a place and its round, mode and case. Rows
of one round and mode therefore differ in their case (`GroupIs`), so that as many scored rows
as cases are a row for each case; that the counts are right in every group makes the directory
whole (`CompleteIsWhole`), and the other way round (`WholeIsComplete`).

Assumed: `Nothing` is no number; `None` is no action, no code, no record and no directory with
rows; there is at least one case.

### Only model-checked

* Liveness (`RecoveryCompletes`, `RegistryIsReleased`, `StartupRecovers`, `JobsFinish`,
  `LocksAreReleased`, `RunsReachAVerdict`): it needs fairness and ENABLED, which are
  out of the prover's reach.
* `HistoryReplays` in `RecordsAreSound`: the replay of a turn walks the observations from
  batch to batch by recursion, and that it gets to the end is an induction over them.
* `CaseIsJudged`, `EvidenceIsJudged`, `RepliesAreFounded`, and of `RecordsAreSound` the
  diagnosis: what folds and recursive operators compute from every input is
  induction over data, for which the installed provers have no rule; TLC checks
  every input of a bounded set.
* Of `AnswersAreDue`, `GreetingsAskNothing` and `ToolFailuresDoNotRaise` are no part: they do
  not hold (findings 10 and 11).

## 6. Not modelled

* Wording, prompts, the marker tables and regular expressions themselves: a text is
  what the code's checks tell apart in it.
* Scores of rankings and embeddings as numbers: a ranking is an input or a sum of
  small numbers.
* The JSON schemas of cases, records and reports, command lines, and Markdown reports.
* Audit events of the gateway, except as writes that may fail and where the Stage 6
  scorer reads them.
* The display state of staff cases ("in progress"), the order of timestamps in
  a row, and the SHA of a snapshot (the snapshot itself is compared).
* Integrity failures of stored rows: they are one FAILED outcome of T2.
* Time of day in the gateway: windows are counted in days.
* Power loss and disk corruption: the code excludes them, an `os.replace` or a
  committed transaction is durable.
* A failure while a database is being closed.
* In `Conversation`, a change of the configured decision policy between two starts;
  `ServiceGenerations` has it.
* Single fields of a policy's front matter beyond identity, document, title, locator and
  one field that stands for the rule; the frozen manifest's provenance. For the Guard's
  world a publication is one external step.
* The loaders and seeds of the demonstration data, the front end, the smoke tests.

Noted while modelling, and stated in the models as the code has it: in the product's
evaluation the allowed new rows of a table (`_allowed_new_tables`) are those of a case
without operator decisions; the study of the gate does not count the admissions of a
run that was lost; a policy whose locator names a section without prose is drafted, and
can then never be read or published, because a heading without text leaves no span.

## 7. Plan

| Module | Next |
|---|---|
| `ServiceGenerations` | a map from session to its one generation as abstract specification, and the refinement as a theorem |
| policy lifecycle | its command line over `WikiRepository`: two operators between validation and publication |
