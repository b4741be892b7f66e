# DOBEDUB Studio backend: a TLA+ verification project

DOBEDUB Studio turns prompts into videos. Its FastAPI backend queues work for a
RunPod serverless endpoint, watches it from background threads, and keeps the
results in a PostgreSQL database and S3. This directory holds TLA+ models of that
backend, the TLC runs that check them on small instances, and proofs, checked by
TLAPS, of what holds for every instance.

Paths below are relative to `src/backend/app/` unless they start with `src/`.

## Inventory

### Processes and shared state

An application process runs (`main.py:88`) one **monitor thread** in an endless
loop, one **webtoon worker** thread, and a pool of threads for **HTTP handlers**.
There may be several processes on one database. They share

| state | where | who writes it |
|---|---|---|
| `WorkflowTask` rows | database | dispatcher, monitor, handlers of every process |
| `JOBS`, `JOB_LOCK` | memory of one process | monitor and handlers of that process; the lock is held over provider calls |
| provider jobs | RunPod | `POST /run`, `POST /cancel`, the provider itself |
| result manifests, output and input objects | S3 | RunPod workers, imports, uploads, dispatchers, migrations |
| `ImagePromptDraft`, `BatchJob` rows | database | monitor, handlers |
| `RunpodRequestItem`, `RunpodRequestBatch` rows | database | handlers, monitor (orphan recovery), every task record |
| `PromptGenerationRequest` rows | database | handlers, monitor |
| `WebtoonCutJob` rows | database | webtoon worker, handlers |
| sandbox pods | RunPod | handlers |
| workflow files, instruction file | files of the container | handlers, every start |
| users, roles, vocabulary, system prompt, collections | database | handlers |

### Components

`PROJECT.json` says of each component what is modelled and what is left out; the
share of its operations is why all of them are "partly".

| component | what is hard | what makes it correct | modules |
|---|---|---|---|
| RunPod task dispatch and monitoring (`job_service`, `task_tracking_service`, `runpod_dispatch_service`, `studio_api_service`, `task_policy_service`) | claims and crashes around a call that is not idempotent, stale copies, late manifests, 404s | no more runs than requests, an end is final and true, nothing is stranded, the policy's limits, every task ends | `TaskDispatch`, `TaskLifecycle` |
| Request batches and orphan recovery (`runpod_request_batch_service`, `request_item_recovery_service`) | a task is created and attached in two transactions; claims of orphans that expire under their holder | one task per draft, a claim is only taken back by its owner, every item settles and shows its task | `RequestItems` |
| Batch jobs and promotion (`batch_job_service`) | claims beside a task creation in another transaction, summaries written from old reads | one task per draft, no draft lost, COMPLETE means done, every batch closes | `BatchPromotion` |
| Prompt generation (`prompt_batch_service`) | a slow model call against finalization, edits and retries | as above | `BatchPromotion` |
| Lists, counters and retries of batches and tasks (the same services) | five functions sort the same statuses by tables of their own | pages, counters and offers agree with each other | `TaskViews` |
| Sandbox pods (`sandbox_pod_service`) | look-then-act against the provider, lost replies | one running pod per volume, only spares are deleted, every request ends | `SandboxPods` |
| Webtoon cut jobs (`webtoon_cut_worker`, `webtoon_cut_service`) | cancel against the last write, a worker that dies | a new job stands beside no active one its request could see, completed means whole, what is over stays over | `WebtoonCuts`, `CutSheets` |
| Prompt builder and LLM client (`prompt_builder_service`, `prompt_llm_client`) | a call whose reply is lost, a monitor in every process, editors at once | every prompt arrives or ends, scenes keep their limits | `PromptRequests`, `Vocabulary`, `SystemPrompt` |
| Assets, storage and uploads (`asset_service`, `upload_cleanup_service`, `output_import_service`, migrations) | rows and objects change in separate steps | every row has its object, every running job its input, no output is lost | `MediaAssets`, `OutputImport` |
| Workflow store, patching and release (`admin_service`, `workflow_patch_service`, `main`) | files and rows change in separate steps; starts copy what the image bundles; a graph is patched by the order of its fields | a selectable workflow has its files, a start keeps the operator's, a job gets what was asked | `WorkflowStore`, `WorkflowPatch`, `WorkflowJobs` |
| Batch ZIP import and download (`batch_job_service`) | names that collide, partial results | the archive out has the shape of the archive in | `BatchArchive` |
| Permissions, users, admin (`admin_service`, `auth_service`) | a save and its repair are two transactions | the default admin stands | `AccountAccess` |
| Dashboard, collections, manual, metadata, system status | a cache of four fields, costs split and rounded; a cascade | counts agree, costs are the provider's | `Dashboard`, `Collections` |
| Grok instruction set (`grok_instruction_service`) | one file, one temporary name, no lock | the file is always whole | `InstructionFile` |
| Panel engine, repositories and migrations, frontend, scripts | | | not modelled: numeric image code; schema and generated steps; a client that polls; tools outside the service |

The components meet at the rows: promotion and request items create
`WorkflowTask` rows through `create_job`, the dispatcher submits them, and
`record_job` reports every change back to batches and request items. A model
that needs a neighbour keeps the steps of it that it can tell apart: a task of
`BatchPromotion` is claimed, accepted, released and ends, one of `RequestItems`
shows three states; `TaskDispatch` has the rest.

`PROJECT.json` lists, under `hazards`, what is hard to test in this code, at the
line where it bites, with the properties that look for it.

## Modules

| module | what it is |
|---|---|
| `TaskLifecycle` | abstract: what the queue promises of one task |
| `TaskDispatch` | the task queue, detailed; implements `TaskLifecycle` |
| `RequestItems` | requests, their items, their handler and the recovery of orphans |
| `BatchPromotion` | batches, drafts, their generation and promotion into tasks |
| `SandboxPods` | operators' requests against the provider's pods |
| `WebtoonCuts` | cut jobs, their workers and their users |
| `PromptRequests` | prompts a language model writes at RunPod |
| `MediaAssets`, `OutputImport` | input images and outputs: rows against objects |
| `WorkflowStore` | one workflow's rows, files and the image's copies |
| `WorkflowPatch`, `WorkflowJobs` | how a payload becomes a graph; the jobs it is checked with |
| `Dashboard`, `DashboardCases` | counts, costs and caches; the questions they are checked with |
| `TaskViews`, `TaskViewCases` | lists, counters, retries; the batches they are checked with |
| `AccountAccess`, `BatchArchive`, `CutSheets`, `Vocabulary`, `InstructionFile`, `SystemPrompt`, `Collections` | as named in the inventory |
| `StudioParts`, `Studio` | the parts that share no state, side by side, one per behaviour; `StudioParts` declares what they share and instantiates those that keep state over several steps, so that the proofs about these need not load the rest |
| `MCTaskDispatch`, `MCRequestItems`, `MCBatchPromotion`, `MCSandboxPods`, `MCWebtoonCuts`, `MCStudio` | model values and functions for TLC |
| `TaskDispatchProofs`, `TaskFaultsProofs`, `RequestItemsProofs`, `BatchPromotionProofs`, `SandboxPodsProofs`, `WebtoonCutsProofs`, `StudioPartsProofs`, `StudioProofs` | theorems and proofs |

All models follow one rule: **a database transaction is one step**, and a
network call ends a step. What a thread read before a call it writes back after
it, and whatever does not need a lock it holds may happen in between. Where a
transaction reads without locks and later writes on the strength of what it
read, its read is a step of its own, too: the release of a failed submission, the
recovery of stale claims, both reworks, the creation and cancellation of a cut
job, promotions, refreshes and pages. What another transaction commits in
between is then written over. An `UPDATE` that repeats its condition, and a row
read `FOR UPDATE` until the commit, need no second step. One exception:
`record_job` loads the row, replaces every column the queue reads by what its
copy says and commits, in one step. A change of a file and a change of a row are
two steps; so are a copy and a deletion of an object.

### TaskDispatch

State:

| variable | code |
|---|---|
| `row` | the columns of `WorkflowTask` the queue reads (`db/models.py:387`), with what `runpod_status` remembers of a vanished job |
| `older` | the order of `created_at` (a requeue moves a row to the end) |
| `JOBS` | the dictionary of each process (`studio_api_service.py:57`) |
| `lock` | `JOB_LOCK`, when it is held over a call: which call, for whom, and what the provider answered |
| `mon` | where the monitor thread of a process is, with its lists, and the status it has `seen` of a row it is about to release |
| `ask` | per process, the rework or bulk rework under way: the rows it loaded, or those it committed and has not published to `JOBS` yet |
| `job`, `manifest` | the provider's jobs and the S3 manifest keys (external) |
| `gen` | ghost: the number of requests to run a task |

Actions:

| actions | code |
|---|---|
| `ClaimNext`, `DispatchNothing`, `DispatchPosts`, `DispatchFails`, `DispatchEnds` | `dispatch_next_pending_submission` with `claim_next_pending_submission`, the policy check, `POST /run`, the record of its id |
| `RecoverReads`, `RecoverWrites`, `ReleaseReads`, `ReleaseSubmission` | `_recover_stale_dispatching_submissions` and `release_pending_submission`: both load rows without a lock, test DISPATCHING, and update them later by their keys, over whatever was committed meanwhile |
| `ClaimLegacy`, `LegacyReads`, `LegacyEnds` | recovery of rows an older release failed |
| `ClaimActive`, `MonitorReads`, `MonitorMisses`, `MonitorFails`, `Reconcile`, `RecoverEnds`, `ReleaseActiveClaim` | `monitor_active_jobs`: lease, status call, 404 and its grace period |
| `PollEnds`, `ImportEnds` | the second halves of a status request: record the answer, import the manifest |
| `Create`, `GetStatus`, `CancelStarts`, `CancelEnds`, `ReworkReads`, `ReworkWrites`, `ReworkPublished`, `BulkReads`, `BulkWrites`, `DraftRequeue` | the HTTP handlers; only the draft's requeue reads its row `FOR UPDATE` |
| `Crash`, `ClaimAges`, `DeferralEnds` | a process dies; time |
| `Accept`, `JobEnds`, `PublishManifest`, `Forget` | the provider (external) |

Abstracted: `IN_QUEUE` and `RUNNING` stand with `IN_PROGRESS`, `TIMED_OUT` with
`FAILED`, `SUCCESS` with `COMPLETED`; ages of claims and deferrals are "fresh or
stale" and "deferred or not"; records that follow each other with no call in
between are one step; the provider's acceptance and its answer are taken at the
moment they are read; the limits of 10, 20 and 100 rows per query are left out;
`create_job` is one step because it runs under `JOB_LOCK`; outputs come from
manifests only; of database errors only the one `record_job` swallows is
modelled; a process serves one rework at a time, beside everything else. Left
out: `delete_task_record` (no route reaches it), adoption of tasks by existing drafts,
the storage of assets, history queries, and a change of a task's batch.

### BatchPromotion

State: `batch` (`BatchJob.status`), `draft` (status, whether there is a prompt,
whether a generation is older than the limit, promotion status, whose claim
stamp it carries, whether the stamp is 300 s old, whether the next attempt is
deferred), `task` (the rows of each draft: status, and whether its `POST /run`
is out), `mon` (program counter and lists of each monitor), `crashes` (bound).

| actions | code |
|---|---|
| `GenerateClaims`, `GenerateNothing`, `GenerateEnds`, `GenerateFails` | `process_next_prompt_generation_draft`: finalize the abandoned, take the oldest pending draft, call the model, store the answer or the error |
| `PromoteLists`, `PromoteClaims` | `claim_batch_drafts_for_promotion`: its reconciliation and query, then its conditional UPDATEs, which ask less than the query did |
| `PromoteRechecks` | `still_owns_claim`, once per batch |
| `PromoteReads`, `PromoteInserts` | `job_payload_from_prompt_draft` and `create_job`: look for a task, insert one |
| `PromoteMarks` | `_mark_promotion_task_created`, `_mark_promotion_failed`, by the owner of the claim only |
| `RefreshReads`, `RefreshCommits` | `refresh_batch_job_counters`: the look at every open batch, the one commit |
| `CreateBatch`, `CancelBatch`, `RetryBatch`, `RetryDraft`, `EditPrompt`, `RepairDraft`, `ReworkTask`, `ViewBatch`, `ListDrafts` | the handlers |
| `TaskClaimed`, `TaskAccepted`, `TaskReleased`, `TaskEnds` | a task's life as far as a batch can tell; `TaskDispatch` has the rest |
| `Crash`, `ClaimAges`, `GenerationAges`, `DeferralEnds` | a process dies; time |

Abstracted: the order in which drafts are taken and created is left open; the
limit of 20 drafts, the lengths of delays and the count of attempts are left out;
the select and the conditional update of a *generation* are one step (losing
that race only skips a cycle); what is read again after the model call is taken
at its end; the rows a reconciliation or an invalidation flushes are visible at
once, although they stay locked until the commit. Left out: counters, download
marks, a `promotion_status` of NULL, tasks that the ordinary request flow links
to a batch's draft, `repair_and_submit_prompt` and `release_promotion_claim`
(nothing calls them), `PromptGenerationBatch` and attempt rows (derived), drafts
without a batch.

### RequestItems

State: `item` (status, task, claim number and whether it expired, attempts),
`summary` (the batch's status), `task` (status and draft), `lock` (`JOB_LOCK` of
each process), `web` and `recovery` (where a handler and the recovery loop are),
`sync`, `rework` and `view` (a record, a request to run again and a page between
their reads and their commit).

| actions | code |
|---|---|
| `WebAccepts`, `WebPrepares`, `WebRecords`, `WebAttaches`, `WebFails`, `WebAnswers` | `create_runpod_request_batch` stores all items, then makes their tasks one by one |
| `RecoveryClaims`, `RecoveryLooks`, `RecoveryRechecks`, `RecoveryPrepares`, `RecoveryRecords`, `RecoveryAttaches`, `RecoveryExcepts` | `materialize_orphan_request_items`: a numbered claim, a look for an existing task, a recheck of the claim under the lock, the task, its attachment |
| `SyncReads`, `SyncCommits`, `ViewReads`, `ViewCommits` | `sync_request_batch_for_task` in a task's record; the page of a batch |
| `ReworkReads`, `ReworkCommits` | `requeue_prompt_draft_task`: the task is locked from the look to the commit, the batch's other items are not; task, item and the batch's summary change in one commit |
| `ItemAges`, `ClaimExpires`, `Crash` | time; a process dies |

### SandboxPods

State: `pod` (external: state and GPU of every pod), `settings`, `op` (what each
operator's thread is at: request, step, target, what it has `seen`, GPU), `count`
(bounds). `Lists` to `Deletes` are the stages of `start_sandbox_pod`,
`stop_sandbox_pod` and `terminate_sandbox_pod`, one provider call or wait each;
`Provider` finishes what the provider began. A start of a pod listed RUNNING that
has exited meanwhile is not looked at again by the code
(`sandbox_pod_service.py:184-197`); a list that falls into that gap would not see
it. The model takes such a pod to be awake when the next list is made (the guard
of `Lists`), unless `"late"` is among the faults.

### WebtoonCuts

State: `job`, `output` (per job, the display paths of its cuts), `worker` (what
each process's worker is at and what it has read), `request` (per request that is
handled, of one user or of several: what it has read), `looked` (history: which of
the user's jobs were there when a job's request looked), `crashes`. `Claims`,
`Opens`, `Begins`, `CutsUnit`, `StoresCut`, `StoresUnit`, `Excepts`, `FinishReads`,
`FinishCommits` are the worker of `webtoon_cut_worker.py`; `CreateReads` and
`CreateCommits`, `CancelReads` and `CancelCommits`, `Deletes` the requests. Nothing
keeps two requests of one user apart: there is no lock, and the index of
`models.py:147` is not unique. `OneActivePerUser` therefore says what the look does
give: a job its request could see is not active beside the one that is stored.

### The parts of Studio

Each states its actions, and the code they stand for, in its header and `map`
entries. `MediaAssets` and `OutputImport` move objects and rows step by step; an
output of `OutputImport` may have its name in its key but not in the manifest
(`Listed.called`), as `safe_filename` makes of every name that is not ASCII, and
is then copied to itself, which copies nothing, and deleted;
`WorkflowStore` stops between any two changes; `PromptRequests` has the handler,
the job and the monitor pass of each process; `AccountAccess`, `Vocabulary`,
`SystemPrompt`, `InstructionFile`, `Collections` and `CutSheets` have two
requests at once, each with a read and a commit; `WorkflowPatch`, `Dashboard`,
`TaskViews` and `BatchArchive` state pure functions of the code as operators and
compare them with a definition of what they are for, over the inputs of their
`Cases` modules. `Studio` picks a part at the beginning of a behaviour: the
parts share no state, so a product of them would show nothing more. Its
properties gather those of the parts: `WorkflowKept` and `OperatorKept` those of
`WorkflowStore`, `AdminStands` that of `AccountAccess`, `RulesKept` those of
`Vocabulary`, `InstructionFile` and `SystemPrompt`, `WorkKept` what users made
(`OutputImport`, `Collections`, the use of cuts in `CutSheets`), `ViewsAgree` what
is listed, counted, offered and downloaded.

## Runs

Twelve runs. States are distinct ones, seconds those of two TLC workers.

| run | instance | shows |
|---|---|---|
| `TaskDispatchOneProcess` (169 951 states, 1.5 min) | one process, three tasks of one owner: a legacy row, an interactive task, a batch task; late manifests, slow calls; create, cancel, status | `TypeOK`; `ActiveWithinPolicy`; `CancelStopsProvider`; `KeepsLifecycle`: the queue implements `TaskLifecycle`, the reopening of a task that was cancelled under a release included |
| `TaskDispatchRestarts` (351 316) | one process, one task; crashes, lost replies, swallowed errors, vanished jobs, late manifests, one requeue of a draft, cancel, status | `SuccessIsReal`, `EndIsFinal`, `PriorOutputKept` |
| `TaskDispatchTwoProcesses` (1 142 624 up to symmetry, 1.5 min) | two processes with their own copies and monitors, late manifests; create, status, rework, bulk rework; two runs of the task | `SubmittedOnce`, `NoStrandedTask` |
| `TaskDispatchProgress` (3 595) | two tasks of two owners with a total limit of one, late manifests, fairness | `EveryTaskEnds` |
| `RequestItems` (87 290, 1.5 min) | one process, two items of one batch, failing preparations, slow threads, one crash or rework, fairness | `OneTaskPerDraft`, `EveryItemSettles`, `ShownFollows` |
| `RequestItemsTwoProcesses` (about 1.4 million, 1.5 min) | two processes contend for one item, claims that expire under live threads, swallowed inserts, failing writes | `ClaimFenced` |
| `BatchPromotionRequests` (852 218, 1.5 min) | one process that may die, two drafts, slow and failing calls, every request but cancel | `TypeOK`, `OneTaskPerDraft`, `Promotable` |
| `BatchPromotionProgress` (25 967) | two processes that contend for a draft and may die twice, failing calls, cancel and view, fairness | `OneTaskUnlessCancelled`, `EveryBatchSettles`, `CompleteMeansDone` |
| `SandboxPods` (230 683, 1 min) | one operator with every request, one who stops pods beside it; every content of a volume of three pods; two GPUs; refused, rejected and slow calls, pods that vanish; fairness | `SingleRunning`, `DeletesOnlySpares`, `EveryRequestAnswers` |
| `SandboxPodsUnanswered` (violation) | one operator; replies may be lost | `SingleRunning` fails: the finding of `PROJECT.json` |
| `WebtoonCuts` (475 344, 2.5 min) | one user whose two requests may overlap, two jobs, two workers, sources that are empty, gone, unreadable or break, one crash, fairness | `TypeOK`, `OneActivePerUser`, `CompletedIsWhole`, `StoppedForGood`, `EveryJobEnds` |
| `Studio` (219 694, 3 min) | fifteen parts, one per behaviour | `StudioTypeOK` and what each part states: `WorkflowKept`, `OperatorKept`, `EveryAssetReadable`, `InputsReadable`, `PatchedAsAsked`, `DashboardTrue`, `AdminStands`, `ViewsAgree`, `RulesKept`, `WorkKept`, `PromptsArrive` |

### Bounds, and why they are enough

* *Tasks, drafts, items.* Tasks meet only in the policy's count and in the order
  of the queue; three tasks of one owner make the limit bite and the order
  matter. Drafts and items of a batch meet in the batch's summary, in a failure
  that hits all of a batch, and in the list a recheck covers: two are enough.
* *Processes.* Two make every race there is between a claim and a look; with
  one the in-memory copies and the lock are explored in depth.
* `MaxGen`, `MaxJobs`: a request and a repetition. A submission beyond `MaxJobs`
  is refused, as by a provider without idle workers; `TaskDispatchTwoProcesses` has
  room for one submission more than its requests ask for (with three runs of the task
  TLC meets no violation of `SubmittedOnce` in nine million states, without exhausting
  them). `MaxTasks` = 2: the second task of a draft is the violation. `MaxCrashes`,
  `MaxClaims`, `MaxReworks`, `MaxSpent`, `MaxRequests`, `MaxSaves`, `MaxChanges`,
  `MaxStops`, `MaxFaults`: one or two of each event is what the races need; each is
  named in its module.
* *Symmetry.* The two processes of `TaskDispatchTwoProcesses` are interchangeable
  (`EitherProcess`); that run has invariants only.
* *Pods.* Three pods and two GPUs: one that runs, one that is wanted, one that is
  spare; a GPU that is refused and its fallback.
* Faults are switched on run by run. Each passing run has the strongest set the
  code survives; the ones it does not survive are listed next.
* The theorems below have none of these bounds.

## What does not hold

Seen with TLC while the runs were chosen, and the reason why the runs and the
theorems leave these combinations out. None of these is weakened away silently:
each is a fault or request that is switched off by name.

### Tasks

* Two processes break `CancelStopsProvider`, `EndIsFinal` (stale copies) and, with
  two tasks, `ActiveWithinPolicy` (the count and the status change are separate
  transactions; the lock is per process).
* A release or a recovery of stale claims that loaded a row as DISPATCHING writes
  PENDING_SUBMIT over what the row has become (`task_tracking_service.py:1146-1162`,
  `1120-1143`): a task cancelled in between runs again, in one process and without
  any fault but a failed submission. `EndIsFinal` and `TaskLifecycle!Reopen` name
  this exception and no other. What is written over a row another process has
  submitted leaves PENDING_SUBMIT with a job id: the claim takes the row again, but
  should the thread that claimed it die, it stays DISPATCHING with a job id, which
  the recovery does not look for. `NoStrandedTask` holds, and is proved, for
  threads that live.
* `EndIsFinal` fails with a rework, without any fault: the run it asked for may end
  before its handler takes `JOB_LOCK`, and the PENDING copy that it loaded after
  its commit then covers the end in `JOBS`; a cancel of that copy writes CANCELLED
  over the end (`studio_api_service.py:1132`). It fails with a bulk rework, which
  loads its rows before it writes and leaves the copies alone, when a write is
  swallowed and a job vanishes. The run has the requeue of a draft instead, the
  theorem any request but these two.
* A crash between the provider's acceptance and its record, a lost reply or a
  swallowed error submits a request twice (against the docstring at
  `task_tracking_service.py:1053`), and so does a claim that expires under a live
  call in two processes.
* That each request has a run of its own fails in two processes with a third run
  of the task: a stale import of the first run's COMPLETED copy overwrites the row
  while it is claimed, a second bulk requeue makes it pending again, and both
  processes hold a claim and post for the third request, while the second has had
  none. `SubmittedOnce` therefore counts a task's jobs against its requests.
* `NoStrandedTask` fails with two processes and vanished jobs, with a requeue (a
  copy that waits for its reconciliation is re-read as DISPATCHING and recorded
  without a claim) and without one (a stale process cancels its pending copy and
  clears the job id of a running task; the other's reconciliation then reopens
  the row as IN_PROGRESS with no job to poll). It fails, too, after an answer
  without a status: UNKNOWN is in nobody's query.
* A rework commits the row before it replaces the copy; a status request in
  between writes the old result back, and the rework is answered with success and
  never submitted (`studio_api_service.py:1132`).
* The manifest key names the task and not the run: a requeued run may take the
  old run's output for its own; and the import retry skips a task that still has
  its preserved output, so a late manifest of the new run is never fetched.
* `reconcile_legacy_runpod_job_not_found` does not look at the row again: in one
  process it writes FAILED over a requeue that was cancelled meanwhile. This is
  why the theorems about faults exclude rows of an older release
  (`NoOldRows`). A crash between its two records leaves a FAILED row with an
  output for good.

### Batches, drafts and items

* A batch cancelled after the promotion's recheck still gets its task
  (`src/docs/superpowers/plans/2026-09-18-batch-cancellation.md:7`).
* Two processes make two tasks for a draft when a retry, an edit, a cancellation
  or a call longer than the claim frees a claim under a promotion
  (`src/docs/superpowers/specs/2026-09-04-batch-job-management-design.md:324`).
* `refresh_batch_job_counters` writes COMPLETE over what users did since it
  looked: over new work after an edit, a retry or a rework, and over CANCELLED;
  this is why `BatchPromotionRequests` has no cancel and `BatchPromotionProgress`
  no edits.
* A draft retried in a COMPLETE batch is not promoted until somebody views the
  batch; a draft that fails after a user typed its prompt keeps prompt and claim;
  a late reply makes a FAILED task active; a submission in flight when its batch
  is cancelled and then released is submitted again.

### Sandbox pods, cuts, prompts, assets, workflows

* A lost reply, or two operators who start at once, leaves two running pods; a
  recheck that cannot be read starts a second one (`"unread"`).
* Two overlapping requests of one user both look before either stores, and leave two
  active cut jobs (`webtoon_cut_service.py:39-70`), against
  `src/docs/superpowers/plans/2026-09-15-server-webtoon-cut-pipeline.md:1673`:
  neither `models.py:147-152` nor the migration `20260915_0039:53-58` makes the index
  of a user and a status unique.
* Webtoon jobs left running by a crash or an unreadable source stay so until
  their user cancels them.
* A dispatch hands out a staging key when a migration moves the row between its
  two looks; a process that dies within a move, or a migration that deletes its
  sources, leaves a row without an object.
* Two registrations of a revision write to one directory, and the loser deletes
  the winner's files; an activation or a bundled copy that is cut off leaves files
  and rows of different revisions.
* A prompt request whose handler dies before it records a provider id stays
  SUBMITTING, and one answered with a status the code has no name for is not asked
  for again.
* Patching: bundled chain workflows of 10 s share one positive node, so the later
  prompt wins; three Wan nodes are always refused, and so are several MiniMax
  nodes; steps, cfg and shift go to all samplers, so the last segment wins; the
  first segment's size overrides all; the pattern of `image_input_order` never
  matches `ref_image_N`; files of one name collide.
* An output whose key has its target name already, while its entry in the manifest
  has another `filename`, is lost: `studio_api_service.py:1007` returns early only if
  both agree, the copy of a key to itself copies nothing (`storage_backends.py:148`),
  and line 1017 deletes the object. A provider that repeats an import's own names
  under other file names, or a name that `safe_filename` changes, meets it;
  `OutputsKept` excepts it by name (`Misnamed`).
* Outputs of one role get one name and the second replaces the first; with local
  storage all tasks write into one directory.
* Archives: one named like a folder inside it merges with it; numbers differ
  between full and partial downloads; an import that fails midway leaves its
  assets.

### What is shown, counted and saved

* Dashboard: `created_at` is Korean wall-clock time but compared with UTC bounds,
  so the newest nine hours are left out of ranges and recent-hour alerts
  (`src/docs/superpowers/specs/2026-09-13-dashboard-landing-design.md:66,159`);
  costs are rounded each and need not add up as the docstring says; active and
  queued workers both include queued tasks; overlapping questions of two ranges
  can leave one with the other's bill for five minutes.
* Lists: a failed prompt that has a task is offered a retry that is refused; a
  failed task without a batch number one that finds nothing; `retryable` counts
  duplicates and `failedCount` counts a failed draft and its failed task; worker
  statistics count MANUAL_REQUIRED and CANCELLED as pending; status UNKNOWN is in
  no filter; a retry answers with the counters before it.
* Accounts: a save of the default admin is answered as saved and repaired at
  once; the audit log never tells the repair.
* Cuts: `list_outputs` with flags ignores the query that the selection applies;
  overlapping requests lose a use or pass the confirmation unasked; paths sort as
  the comment at `webtoon_cut_service.py:555` says only up to 99 cuts of a page.
* Vocabulary: a saved term keeps its earlier links; a removed group leaves its
  terms usable without a limit; a required category supplied by IMPLY is reported
  missing; implied terms are not examined for conflicts
  (`src/docs/prompt-ddl-and-generation-logic.md:441`).
* Instructions: overlapping saves lose one, tear the file or answer an error
  although saved; prompts are written by the instructions of the moment, while
  the draft records the version at its creation.
* System prompt: the upgrade of the first release's text overwrites one saved
  meanwhile; overlapping saves can leave another text in force than the newest
  listed version.
* Collections: an item added between a deletion's count and its commit is
  deleted with it; overlapping additions share a position; two processes that
  record one task may link its output twice.

## Fairness

* `TaskDispatch!Fairness`: weak fairness of each monitor, of the sections that
  hold the lock over a call and of the handlers' second halves, because the
  asyncio loop of `main.py:88` never stops, catches everything, and every network
  call has a timeout; weak fairness of time, of the provider's ends and of its
  workers' manifests. Strong fairness of what is tried again every cycle and may
  fail for reasons outside the model: the choice of a task and its submission (a
  worker is idle again and again, the owner below the limit), a status call, an
  import that finds the manifest, the end of the grace period.
* `BatchPromotion!Fairness`: weak fairness of each monitor and of time, strong
  fairness of a promotion that succeeds and is recorded (it is tried again after
  every deferral), weak or strong fairness of a task's claim, acceptance and end,
  which `EveryTaskEnds` shows of `TaskDispatch`.
* `RequestItems!Fairness`: weak fairness of handlers, time and of pages (the
  client polls the batch it shows), strong fairness of the recovery loop, which
  waits for `JOB_LOCK` and is called for ever, and of a task's next record.
* `SandboxPods!Fairness`: a request's thread goes on (its calls have timeouts),
  and the provider finishes what it began.
* `WebtoonCuts!LiveSpec`: the worker's loop and the second half of a request.
* `Studio!StudioSpec`: handlers and monitors go on; a job ends or its time
  passes; a status call that is made again and again is answered.

A crash, a fault or a user's request has no fairness anywhere.

## Theorems

All are proved for any number of processes, tasks, batches, drafts, items, pods,
jobs and users, for any policy and bounds, and with all faults and requests
switched on, except where a hypothesis says otherwise. The only assumptions are
the named `ASSUME`s on the constants, which TLC evaluates in every run. The
hypotheses are about which faults and requests are on, and how many processes
there are: each is met by an instance TLC has checked, and the section above says
what fails without it.

### The task queue

| theorem | under | states |
|---|---|---|
| `TaskDispatchProofs!TypeCorrect` | | `Spec => []TypeOK` |
| `TaskDispatchProofs!SuccessInvariant` | | `Spec => []SuccessIsReal` |
| `TaskFaultsProofs!NoneStranded` | no crash, no swallowed error; the provider answers with a status; no old rows; it forgets no job, or `Faulty` | `Spec => []NoStrandedTask` |
| `TaskFaultsProofs!SubmitsOnce` | no crash, swallowed error or lost reply; `Faulty`, or no requeue and no claim that outlives its 300 s under a live call | `Spec => []SubmittedOnce`: no more jobs than requests |
| `TaskFaultsProofs!EndFinal`, `OutputKept` | `Faulty`: one process, no old rows, every fault, every request but a rework or a bulk rework | `Spec => EndIsFinal`, `Spec => PriorOutputKept` |
| `TaskDispatchProofs!LifecycleKept` | `Undisturbed`: one process; late manifests, slow calls and vanished jobs, no other fault; no requeue | `Spec => KeepsLifecycle`: the refinement of `TaskLifecycle` |
| `TaskDispatchProofs!PolicyKept`, `CancelStops` | `Undisturbed` | `Spec => []ActiveWithinPolicy`, `Spec => []CancelStopsProvider` |

* *Types* (`TypesInvariant`). `TypeOK` is not inductive: `TypeInv` adds that a
  monitor or a lock that works on a task names one, and that a lock which waits
  for a reply has a job the provider accepted.
* *Truth* (`TruthInvariant`). A false success could come from a stale copy, so the
  invariant speaks of all places a claim can sit: rows, copies, locks and
  manifests only claim what the provider's jobs bear out. The jobs only grow: a
  job's task and its end never change. So what was true once stays true in any
  copy, however stale, and each action only moves claims from place to place.
* *Order* (`OrderlyInvariant`). Where nothing is lost, the row, its copy, the lock
  and the provider's jobs of a task stand in one of few relations: `SaneRows`,
  `CopiesAgree`, `LocksMean`, `JobsServe`, `RowsServed` and their companions. The
  refinement follows action by action: each maps to a step of `TaskLifecycle` or to
  a stutter, the number of runs being the cardinality of the jobs that serve the
  request. What a release has loaded is part of the order: its row waits without a job
  or was cancelled meanwhile (`Idle`), so that what it writes is a return to the queue
  or `Reopen`. A recovery finds nothing: the thread that recovers is the one that claims.
* *In step* (`InStepInvariant`). With crashes, failed writes and lost replies a
  copy and its row differ, but not in everything: a copy knows of its row's end,
  of the provider job its row has, and of a registered output. It may be behind a
  row that was asked to run again, and ahead of a row it could not be recorded in.
  That a record leaves a row's end alone follows; only what a release or a recovery
  has loaded (`WrittenOver`) may be put over it.
* *Nobody strands a row.* `NoneStranded` needs less (`Unstranded`). In any number of
  processes no copy is recorded as DISPATCHING, so only the claim puts a row there,
  with its stamp; and a copy or an answer that waits goes without a provider job, an
  active one with one (`RowsWhole`, `CopiesWhole`, `LocksWhole`). Rows may be written
  over by whoever looked at them before: a claimed row still has a thread that submits
  or releases it (`RowsHeld`), and what a rework is about to publish is whole
  (`AsksWhole`). What is left is the vanished jobs, which one process is alone to look
  for.
* *One submission* (`Once`). Under the hypotheses no two jobs serve one request (so a
  task has no more jobs than requests, by an injection: `OnceCounts`), a row that
  waits although it has a job is about to be told, and nobody who is about to submit,
  release or recover a task has one that is served (`HandsUnserved`). What keeps it is
  that a copy in the queue is never written over a row that has left it (`Late`), and
  that while one process is about to submit a task, no other is posting it (`Alone`).
  In one process both follow from `InStep`. In many, `Late` follows from `Past` (what
  is out of the queue and not cancelled has a job, and its submission is over: `Told`)
  and `Alone` from `Tokens`: a task has one holder from its claim to the record or the
  release of its submission, whose row is taken and whose claim is fresh, so that no
  recovery finds it.

### The other components

| theorem | under | states |
|---|---|---|
| `RequestItemsProofs!TypeCorrect`, `ClaimsFenced` | | `Spec => []TypeOK`, `Spec => ClaimFenced` |
| `RequestItemsProofs!OneTask` (by `LockHolds`) | one process | `Spec => []OneTaskPerDraft`: `JOB_LOCK` has one holder, and a draft whose lookup found no task has none until the holder inserts it |
| `BatchPromotionProofs!TypeCorrect` | | `Spec => []TypeOK` |
| `BatchPromotionProofs!OneTaskInvariant` | one process | `Spec => []OneTaskPerDraft`: every step but `PromoteInserts` leaves the set of tasks as it is, and a monitor about to insert has just seen that there is none |
| `BatchPromotionProofs!PromotableInvariant` | no cancellation | `Spec => []Promotable`: DISPATCHING always has an owner, whose stamp ages |
| `BatchPromotionProofs!OneTaskManyProcesses` | `Careful`: no call that outlives a claim; cancel, or edit, or retry and repair, each with rework and view | `Spec => []OneTaskUnlessCancelled`, in any number of processes |
| `BatchPromotionProofs!CompleteIsDone` | `Quiet`: no such call; cancel and view | `Spec => CompleteMeansDone`, in any number of processes |
| `SandboxPodsProofs!TypeCorrect` | | `Spec => []TypeOK` |
| `SandboxPodsProofs!OneRuns` (by `StartsAlone`) | replies arrive; one operator starts pods | `Spec => []SingleRunning`: the invariant says, per stage of a start, which pods may be up |
| `SandboxPodsProofs!SparesOnly` | replies arrive; one operator starts or deletes | `Spec => DeletesOnlySpares` |
| `WebtoonCutsProofs!TypeCorrect`, `OneActive`, `OneWorker` | | `[]TypeOK`, `[]OneActivePerUser` for overlapping requests as well, from the order of looks and stores and the finality of ends, without an index; no two workers at one job |
| `WebtoonCutsProofs!CompletedWhole`, `StaysOver` | | `[]CompletedIsWhole`, `StoppedForGood`: the invariant relates what a worker has stored to what it has left |
| `StudioPartsProofs!TypeCorrect` | | `Spec => []TypeOK` of `MediaAssets` |
| `StudioPartsProofs!AssetsReadable`, `InputsStay` | no process dies within a move; migrations keep their sources | `[]EveryAssetReadable`, `[]InputsReadable`: every place that names an object, a row, a plan or a running job, names one that nobody is about to delete |

* *The claim of a batch's draft* (`ClaimInv`). A process that has a draft to
  promote and finds no task holds a claim nobody else may take (`HeldBy`,
  `Proper`), from its recheck to the insertion; one that is about to insert has
  seen that there is none. What could take it away is a claim older than its lease,
  an edit, a retry or a cancellation. The first is a hypothesis (`slow`); a
  cancelled batch leaves the promise, and stays out of it because no process is
  about to write COMPLETE over it (`Loose`); an edit keeps the claim's owner and its
  stamp; a retry or a repair meets only drafts that failed. Mixed, they do harm: with
  an edit and a retry, or a draft's own retry and a cancellation, TLC makes two tasks.
  An edit beside a cancellation, and a cancellation beside a batch's retry or a
  repair, it finds harmless in two processes with one draft; the theorem leaves them
  out.
* *Complete* (`SeenHandled`, `RestInv`). Between the look of a refresh and its
  commit the batch changes under it. What a process found settled stays so: its
  drafts are at their end and have their tasks, so nobody writes, claims or inserts
  for them, and a task at its end stays there as long as nobody asks for more.

### The parts of Studio

Theorems of `StudioSpec`, for any number of administrators, prompts, processes,
importers and of requests at once, any bound on saves, changes, failures and
deaths, any image sequence and any document an admin may save, copy or delete.

| theorem | under | states |
|---|---|---|
| `StudioProofs!StudioTyped` | | `[]StudioTypeOK`: the types of the parts |
| `StudioProofs!SelectableHasFiles` | | `[]Workflow!SelectablePromoted`, with any number of admins |
| `StudioProofs!StoreKeeps` | `[]OneRegisters`: no two registrations or imports are between their read and their commit at once | `[]WorkflowKept` |
| `StudioProofs!OperatorsFilesKept` | | `OperatorKept` |
| `StudioProofs!AdministratorStands` | | `[]AdminStands` |
| `StudioProofs!RulesStand` | | `[]RulesKept` |
| `StudioProofs!WorkStands` | | `[]WorkKept` |

`StudioInv` is the conjunction of one inductive invariant per part (`StudioHolds`).
A step is one of a single part; that the others keep theirs is the stuttering case
of their own lemma (`OthersStay`). The parts' invariants, and why each is needed:

* *The store* (`StoreInv`, `IntactInv`). What a request has read is not taken back
  under it (`Reading`): a definition stays, a current revision stays current or is
  followed by another, so an activation acts on files and rows that are there
  whatever others did meanwhile; and of those who register, one inserts the
  definition. `ReleaseIntact` needs `Pending` as well: the files of a registration
  under way lie under the next number, as far as it has come. Two at once would
  share that number, which is the hypothesis. The runs have one admin.
* *Prompts* (`PromptInv`). An output is stored by a pass that read its request as
  waiting, once: `outputs[r]` and the passes that may still add one to it are
  together no more than the processes (`Adders`).
* *Accounts* (`AccessInv`). A save that has read the administrator's row found one,
  and once somebody has logged in, the account is good whenever no save is between
  its two commits.
* *Outputs* (`OutInv`). Each output is under its old name or its new one and neither
  holds another (`Standing`); an importer that deletes, or has gone past an output,
  leaves the new name behind it (`Behind`), whatever another importer has done; the
  outputs that are misnamed (see above) are excepted throughout.
* *Cuts* (`CutsInv`). What was counted is what was asked for (`CutTrue`), and the uses
  that went unasked with the requests that may still do so are no more than the
  requests there can be at once (`Unasking`).
* *Collections* (`ShelfInv`). Positions are bounded by the clock, an addition under
  way comes after everything put before it was asked for, and a deletion that
  counted nothing finds only what was put since.
* *Terms* (`WordsInv`). A category in use stands under a group, unless the save that
  brought it there overlapped the group's removal.
  `SceneKept` needs no invariant: a scene is within its limits, whatever is selected
  in whatever catalogue.
* *The system prompt* (`WordingInv`) *and the file* (`FileInv`). What a request has read
  is what is there, as long as no two overlap (`Doing`, `Knows`); the newest version
  is the text in force, and the file is what was last agreed on, its temporary file
  never the file itself. With overlaps the text in force is still listed.

### What is only model-checked

* Liveness: `EveryTaskEnds`, `EveryItemSettles`, `ShownFollows`,
  `EveryBatchSettles`, `EveryRequestAnswers`, `EveryJobEnds`, `PromptsArrive`. The
  prover has no rule for fairness that it can check here, and none for `ENABLED`.
* `PatchedAsAsked`, `DashboardTrue`, `ViewsAgree`: the pure functions of
  `WorkflowPatch`, `TaskViews`, `Dashboard`, `BatchArchive`, and the sorted and
  filtered lists of `CutSheets` and `Collections`. What a fold, a sort or a selection
  from a sequence computes for every input takes induction over data, and the
  library's induction theorems take an operator as a parameter, which the installed
  provers cannot instantiate. No module a theorem is about
  uses a RECURSIVE operator.
* What the hypotheses of the theorems leave out although the runs allow it:
  reworks in two processes (`SubmittedOnce`, up to two runs).

## What is not modelled, and why

The components marked `not_modelled` in `PROJECT.json`, and of the others: code no
route reaches (`delete_task_record`, `repair_and_submit_prompt`,
`release_promotion_claim`), adoption of tasks by drafts that exist already, limits
of 10, 20 and 100 rows per query, download marks, the audit log's entries, the
wording of prompts, streams and encodings, and reads that keep nothing.

## Plan

1. *(done)* The task queue, its lifecycle, the runs; the theorems above.
2. *(done)* Batches, requests, pods, cuts and the parts of `Studio`, their runs
   and theorems.
3. Theorems: *(done)* the parts of `Studio`. Left: `SubmittedOnce` in many processes
   with requeues that no stale copy meets; `OneTaskUnlessCancelled` with edits and
   cancellations side by side.
4. Modelling: adoption of tasks by drafts, the folder jobs' hold of a canceled
   batch.

## Running

    tlc -workers 2 -config TaskDispatchOneProcess.cfg MCTaskDispatch
    tlc -workers 2 -config Studio.cfg MCStudio
    tlapm TaskDispatchProofs.tla

From nothing, `TaskFaultsProofs` takes a quarter of an hour, `TaskDispatchProofs`,
`BatchPromotionProofs` and `StudioPartsProofs` ten to twelve minutes each, each other
proof module one to four minutes; the runs take up to four minutes each. Every
configuration checks for deadlock unless it says `CHECK_DEADLOCK FALSE`: those systems
stop when their bounded requests are answered. Operators named `<Operator>_<Fault>` in
the modules are seeded bugs: the same operator the way a plausible mistake would have
it. Put in its place, the property it is listed with in `PROJECT.json` fails.
