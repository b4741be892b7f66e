--------------------------- MODULE BatchPromotion ---------------------------
(***************************************************************************)
(* Batch jobs of the DOBEDUB Studio backend: a batch is a set of prompt    *)
(* drafts; the monitor loop of every application process writes the        *)
(* prompts, one draft at a time, promotes each draft whose prompt is ready *)
(* into a RunPod task, and closes the batch when nothing is left to do.    *)
(* Beside it users cancel and retry batches and retry, edit and repair     *)
(* their drafts.                                                           *)
(*                                                                         *)
(* A database transaction is one step, with exceptions: a generation       *)
(* is split by the call to the language model, and where a transaction     *)
(* reads without locks and then writes on the strength of it, without      *)
(* asking everything again, its reads are a step of their own.  A task's   *)
(* own life is TaskDispatch; here it is the few steps a batch can tell     *)
(* apart.                                                                  *)
(***************************************************************************)
EXTENDS Naturals, FiniteSets

CONSTANTS
    App,            \* application processes sharing the database
    NoApp,          \* "no process": the draft's promotion is not claimed
    Batch,
    Draft,
    NoDraft,
    BatchOf,        \* the batch of each draft
    Faults,         \* what may go wrong, a subset of FaultKinds
    Requests,       \* what users ask for, a subset of RequestKinds
    MaxTasks,       \* bound: tasks ever made for one draft
    MaxCrashes      \* bound: crashes

FaultKinds ==
    { "createError",    \* building or queueing a task raises an exception
      "dbError",        \* record_job fails and swallows the error
      "slow" }          \* claims and generations may get old under live threads

RequestKinds == {"cancel", "retry", "draftRetry", "edit", "repair", "rework", "view"}

ASSUME NoneAssumption    == NoApp \notin App /\ NoDraft \notin Draft
ASSUME BatchOfAssumption == BatchOf \in [Draft -> Batch]
ASSUME ChoiceAssumption  == Faults \subseteq FaultKinds /\ Requests \subseteq RequestKinds
ASSUME BoundsAssumption  == MaxTasks \in Nat /\ MaxCrashes \in Nat

VARIABLES
    batch,      \* BatchJob.status
    draft,      \* the ImagePromptDraft rows
    task,       \* the WorkflowTask rows of each draft
    mon,        \* per process, where its monitor thread is
    crashes

vars == <<batch, draft, task, mon, crashes>>

-----------------------------------------------------------------------------
(* MANUAL_REQUIRED stands with FAILED.  What is between QUEUED and the end *)
(* of a task is ACTIVE.                                                    *)
TERMINAL_DRAFT_STATES         == {"READY", "FAILED", "CANCELLED"}
REWORKABLE_TASK_STATES        == {"FAILED", "CANCELLED"}
TERMINAL_TASK_STATES          == {"COMPLETED"} \cup REWORKABLE_TASK_STATES
PRE_RUNPOD_SUBMISSION_STATES  == {"PENDING_SUBMIT", "DISPATCHING"}

Drafts ==
    [ status   : {"none", "PENDING", "GENERATING"} \cup TERMINAL_DRAFT_STATES,
      prompt   : BOOLEAN,           \* positive_prompt is not blank
      old      : BOOLEAN,           \* GENERATING for longer than any call takes
      promo    : {"PENDING", "DISPATCHING", "TASK_CREATED", "FAILED", "CANCELLED"},
      by       : App \cup {NoApp},  \* whose promotion_claimed_at stamp it carries
      stale    : BOOLEAN,           \* that stamp is at least 300 s old
      deferred : BOOLEAN ]          \* promotion_next_attempt_at > now

Tasks ==
    [ status  : {"none", "ACTIVE"} \cup PRE_RUNPOD_SUBMISSION_STATES
                \cup TERMINAL_TASK_STATES,
      posting : BOOLEAN ]           \* a dispatcher's POST /run is out

MonitorPc == {"generate", "generating", "promote", "claim", "recheck", "create", "insert",
              "created", "failed", "refresh", "settle"}
Monitors == [ pc    : MonitorPc,
              draft : Draft \cup {NoDraft},
              todo  : SUBSET Draft,     \* listed for promotion, then claimed
              own   : SUBSET Draft,     \* claimed and rechecked
              seen  : SUBSET Batch ]    \* found settled

TypeOK ==
    /\ batch \in [Batch -> {"none", "INCOMPLETE", "COMPLETE", "CANCELLED"}]
    /\ draft \in [Draft -> Drafts]
    /\ task \in [Draft -> [1..MaxTasks -> Tasks]]
    /\ mon \in [App -> Monitors]
    /\ crashes \in Nat

NoRow   == [ status |-> "none", prompt |-> FALSE, old |-> FALSE, promo |-> "PENDING",
             by |-> NoApp, stale |-> FALSE, deferred |-> FALSE ]
NoTask  == [ status |-> "none", posting |-> FALSE ]
Started == [ pc |-> "generate", draft |-> NoDraft, todo |-> {}, own |-> {}, seen |-> {} ]

Init ==
    /\ batch = [b \in Batch |-> "none"]
    /\ draft = [d \in Draft |-> NoRow]
    /\ task = [d \in Draft |-> [n \in 1..MaxTasks |-> NoTask]]
    /\ mon = [p \in App |-> Started]
    /\ crashes = 0

-----------------------------------------------------------------------------
(* Rows.                                                                   *)

Prompted(r) == r.status = "READY" /\ r.prompt

(* Seeded bug: a task that has failed does not count. *)
HasTask_NotFailed(ts) == \E n \in 1..MaxTasks : ts[n].status \notin {"none", "FAILED"}

HasTask(ts) == \E n \in 1..MaxTasks : ts[n].status # "none"

(* promotion_claimed_at and promotion_next_attempt_at are cleared. *)
Released(r, promo) ==
    [r EXCEPT !.promo = promo, !.by = NoApp, !.stale = FALSE, !.deferred = FALSE]
Claimed(r, p) == [Released(r, "DISPATCHING") EXCEPT !.by = p]

(* _reset_prompt_draft_for_retry, retry_prompt_draft *)
ResetPrompt(r) == [Released(r, "PENDING") EXCEPT !.status = "PENDING", !.prompt = FALSE]

SetStatus(ts, from, to) ==
    [n \in 1..MaxTasks |-> IF ts[n].status \in from THEN [ts[n] EXCEPT !.status = to]
                           ELSE ts[n]]
FailPreSubmit(ts) == SetStatus(ts, PRE_RUNPOD_SUBMISSION_STATES, "FAILED")

(* _reconcile_failed_prompt_submission_tasks: a draft without a prompt     *)
(* fails the tasks that were not submitted yet.                            *)
Invalid(r, ts) ==
    /\ r.status = "FAILED"
    /\ \E n \in 1..MaxTasks : ts[n].status \in PRE_RUNPOD_SUBMISSION_STATES
InvalidDraft(r, ts) ==
    IF Invalid(r, ts) THEN [Released(r, "FAILED") EXCEPT !.prompt = FALSE] ELSE r
InvalidTasks(r, ts) == IF Invalid(r, ts) THEN FailPreSubmit(ts) ELSE ts

(* Seeded bug: a ready draft that has no task yet does not count. *)
Settled_Unpromoted(b, rows, tasks) ==
    \A d \in Draft : BatchOf[d] = b =>
        /\ rows[d].status \in TERMINAL_DRAFT_STATES
        /\ \A n \in 1..MaxTasks : tasks[d][n].status \in {"none"} \cup TERMINAL_TASK_STATES

(* _batch_is_settled *)
Settled(b, rows, tasks) ==
    \A d \in Draft : BatchOf[d] = b =>
        /\ rows[d].status \in TERMINAL_DRAFT_STATES
        /\ Prompted(rows[d]) => HasTask(tasks[d])
        /\ \A n \in 1..MaxTasks : tasks[d][n].status \in {"none"} \cup TERMINAL_TASK_STATES

-----------------------------------------------------------------------------
(* Monitor loop: process_next_prompt_generation_draft.                     *)

(* Seeded bug: an abandoned draft gets a status of its own. *)
Finalized_Stale(r) ==
    IF r.status = "GENERATING" /\ r.old
    THEN [r EXCEPT !.status = IF r.prompt THEN "READY" ELSE "STALE", !.old = FALSE]
    ELSE r

(* finalize_stale_prompt_generation_drafts *)
Finalized(r) ==
    IF r.status = "GENERATING" /\ r.old
    THEN [r EXCEPT !.status = IF r.prompt THEN "READY" ELSE "FAILED", !.old = FALSE]
    ELSE r
Finalize == [d \in Draft |-> Finalized(draft[d])]

(* The oldest pending draft goes first; which one that is is left open. A  *)
(* draft of a cancelled batch is only cancelled.                           *)
GenerateClaims(p, d) ==
    /\ mon[p].pc = "generate"
    /\ Finalize[d].status = "PENDING"
    /\ IF batch[BatchOf[d]] = "CANCELLED"
       THEN /\ draft' = [Finalize EXCEPT ![d] =
                            [Released(@, "CANCELLED") EXCEPT !.status = "CANCELLED"]]
            /\ mon' = [mon EXCEPT ![p].pc = "promote"]
       ELSE /\ draft' = [Finalize EXCEPT ![d].status = "GENERATING", ![d].old = FALSE]
            /\ mon' = [mon EXCEPT ![p].pc = "generating", ![p].draft = d]
    /\ UNCHANGED <<batch, task, crashes>>

GenerateNothing(p) ==
    /\ mon[p].pc = "generate"
    /\ \A d \in Draft : Finalize[d].status # "PENDING"
    /\ draft' = Finalize
    /\ mon' = [mon EXCEPT ![p].pc = "promote"]
    /\ UNCHANGED <<batch, task, crashes>>

(* _process_draft after the call: the answer goes into the row whatever    *)
(* has become of it.                                                       *)
GenerateEnds(p) ==
    LET d == mon[p].draft IN
    /\ mon[p].pc = "generating"
    /\ \/ draft' = [draft EXCEPT ![d].status = "READY", ![d].prompt = TRUE, ![d].old = FALSE]
       \/ draft' = [draft EXCEPT ![d].status = "FAILED", ![d].old = FALSE]
    /\ mon' = [mon EXCEPT ![p].pc = "promote", ![p].draft = NoDraft]
    /\ UNCHANGED <<batch, task, crashes>>

(* _mark_draft_failed: the session writes the columns whose value it       *)
(* changes since it read them, and when it read them the draft had neither *)
(* a prompt nor a claim.  An error that would hit every draft (the         *)
(* provider refuses the key) fails the batch's other pending drafts, too.  *)
GenerateFails(p, blocking) ==
    LET d == mon[p].draft
        others == { e \in Draft : /\ blocking /\ e # d /\ BatchOf[e] = BatchOf[d]
                                  /\ draft[e].status = "PENDING" }
    IN
    /\ mon[p].pc = "generating"
    /\ draft' = [e \in Draft |->
           IF e = d THEN [draft[e] EXCEPT !.status = "FAILED", !.promo = "FAILED",
                                          !.old = FALSE]
           ELSE IF e \in others
                THEN [Released(draft[e], "FAILED") EXCEPT !.status = "FAILED",
                                                          !.prompt = FALSE]
           ELSE draft[e]]
    /\ task' = [e \in Draft |-> IF e \in others \cup {d} THEN FailPreSubmit(task[e])
                                ELSE task[e]]
    /\ mon' = [mon EXCEPT ![p].pc = "promote", ![p].draft = NoDraft]
    /\ UNCHANGED <<batch, crashes>>

-----------------------------------------------------------------------------
(* Monitor loop: promote_ready_batch_drafts.                               *)

(* _reconcile_existing_batch_task_promotions *)
Reconciled(r, ts) ==
    IF Prompted(r) /\ r.promo # "TASK_CREATED" /\ HasTask(ts)
    THEN Released(r, "TASK_CREATED") ELSE r

(* Seeded bug: a draft marked TASK_CREATED is taken at its word. *)
Unpromoted_TrustsMark(r, ts) ==
    /\ Prompted(r) /\ ~HasTask(ts)
    /\ r.promo \in {"PENDING", "FAILED", "DISPATCHING"}
    /\ ~r.deferred
    /\ IF r.by = NoApp THEN r.promo # "DISPATCHING" ELSE r.stale

(* _unpromoted_ready_drafts, but for the batch's status *)
Unpromoted(r, ts) ==
    /\ Prompted(r) /\ ~HasTask(ts)
    /\ r.promo \in {"PENDING", "FAILED", "TASK_CREATED", "DISPATCHING"}
    /\ ~r.deferred
    /\ IF r.by = NoApp THEN r.promo # "DISPATCHING" ELSE r.stale

(* claim_batch_drafts_for_promotion: first the reconciliation, whose rows  *)
(* stay locked until the commit, and the query.                            *)
PromoteLists(p) ==
    /\ mon[p].pc = "promote"
    /\ draft' = [d \in Draft |-> Reconciled(draft[d], task[d])]
    /\ mon' = [mon EXCEPT ![p].pc = "claim",
                          ![p].todo = { d \in Draft : /\ batch[BatchOf[d]] = "INCOMPLETE"
                                                      /\ Unpromoted(draft[d], task[d]) }]
    /\ UNCHANGED <<batch, task, crashes>>

(* Seeded bug: the update does not ask again who holds the draft. *)
Unclaimed_AnyClaim(r) == Prompted(r)

(* Then its update, which asks less of each draft on the list. *)
Unclaimed(r) == Prompted(r) /\ (r.by = NoApp \/ r.stale)

PromoteClaims(p) ==
    LET claims == { d \in mon[p].todo : Unclaimed(draft[d]) } IN
    /\ mon[p].pc = "claim"
    /\ draft' = [d \in Draft |-> IF d \in claims THEN Claimed(draft[d], p) ELSE draft[d]]
    /\ mon' = [mon EXCEPT ![p].todo = claims,
                          ![p].pc = IF claims = {} THEN "refresh" ELSE "recheck"]
    /\ UNCHANGED <<batch, task, crashes>>

NextPc(todo, own) == IF own # {} THEN "create" ELSE IF todo # {} THEN "recheck"
                     ELSE "refresh"

(* still_owns_claim, once for all the claimed drafts of a batch *)
PromoteRechecks(p, b) ==
    LET ds == { d \in mon[p].todo : BatchOf[d] = b }
        owned == { d \in ds : /\ draft[d].by = p /\ draft[d].promo = "DISPATCHING"
                              /\ Prompted(draft[d]) }
    IN
    /\ mon[p].pc = "recheck"
    /\ ds # {}
    /\ mon' = [mon EXCEPT ![p].todo = @ \ ds, ![p].own = owned,
                          ![p].pc = NextPc(mon[p].todo \ ds, owned)]
    /\ UNCHANGED <<batch, draft, task, crashes>>

(* job_payload_from_prompt_draft and the first half of create_job: the     *)
(* draft must still be ready, and a task it has already is returned.       *)
PromoteReads(p, d) ==
    /\ mon[p].pc = "create"
    /\ d \in mon[p].own
    /\ \/ /\ Prompted(draft[d])
          /\ mon' = [mon EXCEPT ![p].pc = IF HasTask(task[d]) THEN "created" ELSE "insert",
                                ![p].draft = d, ![p].own = @ \ {d}]
       \/ /\ "createError" \in Faults \/ ~Prompted(draft[d])
          /\ mon' = [mon EXCEPT ![p].pc = "failed", ![p].draft = d, ![p].own = @ \ {d}]
    /\ UNCHANGED <<batch, draft, task, crashes>>

(* The second half, queue_job: record_job swallows a database error.       *)
PromoteInserts(p) ==
    LET d == mon[p].draft IN
    /\ mon[p].pc = "insert"
    /\ \/ \E n \in 1..MaxTasks :
            /\ task[d][n].status = "none"
            /\ \A m \in 1..MaxTasks : m < n => task[d][m].status # "none"
            /\ task' = [task EXCEPT ![d][n].status = "PENDING_SUBMIT"]
       \/ "dbError" \in Faults /\ UNCHANGED task
    /\ mon' = [mon EXCEPT ![p].pc = "created"]
    /\ UNCHANGED <<batch, draft, crashes>>

(* Seeded bug: a promotion that failed stays in dispatch. *)
Marked_StaysOpen(r, pc) ==
    IF pc = "created" THEN Released(r, "TASK_CREATED")
    ELSE [Released(r, "DISPATCHING") EXCEPT !.deferred = TRUE]

(* _mark_promotion_task_created, _mark_promotion_failed *)
Marked(r, pc) ==
    IF pc = "created" THEN Released(r, "TASK_CREATED")
    ELSE [Released(r, "FAILED") EXCEPT !.deferred = TRUE]
PromoteMarks(p) ==
    LET d == mon[p].draft IN
    /\ mon[p].pc \in {"created", "failed"}
    /\ draft' = IF draft[d].by = p
                THEN [draft EXCEPT ![d] = Marked(@, mon[p].pc)] ELSE draft
    /\ mon' = [mon EXCEPT ![p].draft = NoDraft,
                          ![p].pc = NextPc(mon[p].todo, mon[p].own)]
    /\ UNCHANGED <<batch, task, crashes>>

-----------------------------------------------------------------------------
(* Monitor loop: refresh_batch_job_counters, its reads and its commit.  The*)
(* rows _reconcile_failed_prompt_submission_tasks flushes stay locked.     *)

Open(b) == batch[b] = "INCOMPLETE"

RefreshReads(p) ==
    /\ mon[p].pc = "refresh"
    /\ draft' = [d \in Draft |-> IF Open(BatchOf[d]) THEN InvalidDraft(draft[d], task[d])
                                 ELSE draft[d]]
    /\ task' = [d \in Draft |-> IF Open(BatchOf[d]) THEN InvalidTasks(draft[d], task[d])
                                ELSE task[d]]
    /\ mon' = [mon EXCEPT ![p].pc = "settle",
                          ![p].seen = { b \in Batch : Open(b) /\ Settled(b, draft', task') }]
    /\ UNCHANGED <<batch, crashes>>

RefreshCommits(p) ==
    /\ mon[p].pc = "settle"
    /\ batch' = [b \in Batch |-> IF b \in mon[p].seen THEN "COMPLETE" ELSE batch[b]]
    /\ mon' = [mon EXCEPT ![p] = Started]
    /\ UNCHANGED <<draft, task, crashes>>

Monitor(p) ==
    \/ \E d \in Draft : GenerateClaims(p, d)
    \/ GenerateNothing(p)
    \/ GenerateEnds(p)
    \/ \E blocking \in BOOLEAN : GenerateFails(p, blocking)
    \/ PromoteLists(p)
    \/ PromoteClaims(p)
    \/ \E b \in Batch : PromoteRechecks(p, b)
    \/ \E d \in Draft : PromoteReads(p, d)
    \/ PromoteInserts(p)
    \/ PromoteMarks(p)
    \/ RefreshReads(p)
    \/ RefreshCommits(p)

Crash(p) ==
    /\ crashes < MaxCrashes
    /\ crashes' = crashes + 1
    /\ mon' = [mon EXCEPT ![p] = Started]
    /\ UNCHANGED <<batch, draft, task>>

-----------------------------------------------------------------------------
(* HTTP handlers.                                                          *)

(* create_batch_job: the batch and its drafts in one transaction. *)
(* The row create_prompt_generation_batch adds for an image.               *)
NewDraft == [NoRow EXCEPT !.status = "PENDING"]

CreateBatch(b) ==
    /\ batch[b] = "none"
    /\ batch' = [batch EXCEPT ![b] = "INCOMPLETE"]
    /\ draft' = [d \in Draft |-> IF BatchOf[d] = b THEN NewDraft ELSE draft[d]]
    /\ UNCHANGED <<task, mon, crashes>>

(* What cancel_batch_job makes of a draft. *)
CancelledDraft(r) ==
    IF r.status = "PENDING"
    THEN [Released(r, "CANCELLED") EXCEPT !.status = "CANCELLED"]
    ELSE IF r.status = "READY" /\ r.promo # "TASK_CREATED" THEN Released(r, "CANCELLED")
    ELSE r

CancelBatch(b) ==
    LET rows  == [d \in Draft |-> IF BatchOf[d] = b THEN CancelledDraft(draft[d])
                                  ELSE draft[d]]
        tasks == [d \in Draft |-> IF BatchOf[d] = b
                                  THEN SetStatus(task[d], {"PENDING_SUBMIT"}, "CANCELLED")
                                  ELSE task[d]]
    IN
    /\ "cancel" \in Requests
    /\ batch[b] = "INCOMPLETE"
    /\ batch' = [batch EXCEPT ![b] = "CANCELLED"]
    /\ draft' = [d \in Draft |-> IF BatchOf[d] = b THEN InvalidDraft(rows[d], tasks[d])
                                 ELSE draft[d]]
    /\ task' = [d \in Draft |-> IF BatchOf[d] = b THEN InvalidTasks(rows[d], tasks[d])
                                ELSE task[d]]
    /\ UNCHANGED <<mon, crashes>>

(* retry_failed_batch_items: of the drafts the user picks, failed prompts  *)
(* without a task are written again, failed promotions tried again, and    *)
(* failed or cancelled tasks run again, unless the draft has several.      *)
RetryBatch(b, picked) ==
    LET single(d) == \A m, n \in 1..MaxTasks : m = n \/ task[d][m].status = "none"
                                                     \/ task[d][n].status = "none" IN
    /\ "retry" \in Requests
    /\ batch[b] \in {"INCOMPLETE", "COMPLETE"}
    /\ \A d \in picked : BatchOf[d] = b
    /\ batch' = [batch EXCEPT ![b] = "INCOMPLETE"]
    /\ draft' = [d \in Draft |->
           IF BatchOf[d] # b THEN draft[d]
           ELSE IF d \in picked /\ ~HasTask(task[d]) /\ draft[d].status = "FAILED"
                THEN ResetPrompt(draft[d])
           ELSE IF d \in picked /\ ~HasTask(task[d]) /\ draft[d].status = "READY"
                   /\ draft[d].promo = "FAILED"
                THEN Released(draft[d], "PENDING")
           ELSE InvalidDraft(draft[d], task[d])]
    /\ task' = [d \in Draft |->
           IF BatchOf[d] # b THEN task[d]
           ELSE IF Invalid(draft[d], task[d]) THEN InvalidTasks(draft[d], task[d])
           ELSE IF d \in picked /\ single(d)
                THEN SetStatus(task[d], REWORKABLE_TASK_STATES, "PENDING_SUBMIT")
           ELSE task[d]]
    /\ UNCHANGED <<mon, crashes>>

(* POST /prompts/image-drafts/{id}/retry, in whatever state the draft is.  *)
RetryDraft(d) ==
    /\ "draftRetry" \in Requests
    /\ draft[d].status # "none"
    /\ draft' = [draft EXCEPT ![d] = ResetPrompt(@)]
    /\ UNCHANGED <<batch, task, mon, crashes>>

(* PATCH /prompts/image-drafts/{id}: a prompt, or the deletion of one.     *)
EditPrompt(d, prompt) ==
    /\ "edit" \in Requests
    /\ draft[d].status # "none"
    /\ draft' = [draft EXCEPT ![d].prompt = prompt,
                              ![d].status = IF prompt /\ @ \in {"PENDING", "GENERATING", "FAILED"}
                                            THEN "READY" ELSE @]
    /\ UNCHANGED <<batch, task, mon, crashes>>

(* The same with repairFailed: only a failed draft nobody has a task for.  *)
RepairDraft(d) ==
    /\ "repair" \in Requests
    /\ draft[d].status = "FAILED" /\ ~HasTask(task[d])
    /\ draft' = [draft EXCEPT ![d] = [Released(@, "PENDING") EXCEPT !.status = "READY",
                                                                    !.prompt = TRUE]]
    /\ UNCHANGED <<batch, task, mon, crashes>>

(* POST /history/{id}/rework and its kin never look at the batch.          *)
ReworkTask(d, n) ==
    /\ "rework" \in Requests
    /\ task[d][n].status \in TERMINAL_TASK_STATES
    /\ task' = [task EXCEPT ![d][n].status = "PENDING_SUBMIT"]
    /\ UNCHANGED <<batch, draft, mon, crashes>>

(* GET /batch-jobs/{id} settles a batch, or opens it again. *)
ViewBatch(b) ==
    /\ "view" \in Requests
    /\ batch[b] \in {"INCOMPLETE", "COMPLETE"}
    /\ draft' = [d \in Draft |-> IF BatchOf[d] = b THEN InvalidDraft(draft[d], task[d])
                                 ELSE draft[d]]
    /\ task' = [d \in Draft |-> IF BatchOf[d] = b THEN InvalidTasks(draft[d], task[d])
                                ELSE task[d]]
    /\ batch' = [batch EXCEPT ![b] = IF Settled(b, draft', task') THEN "COMPLETE"
                                     ELSE "INCOMPLETE"]
    /\ UNCHANGED <<mon, crashes>>

(* GET /prompts/image-drafts and its kin finalize first. *)
ListDrafts ==
    /\ "view" \in Requests
    /\ draft' = Finalize
    /\ UNCHANGED <<batch, task, mon, crashes>>

Handler ==
    \/ ListDrafts
    \/ \E b \in Batch : \/ CreateBatch(b) \/ CancelBatch(b) \/ ViewBatch(b)
                        \/ \E picked \in SUBSET Draft : RetryBatch(b, picked)
    \/ \E d \in Draft : \/ RetryDraft(d) \/ RepairDraft(d)
                        \/ \E prompt \in BOOLEAN : EditPrompt(d, prompt)
                        \/ \E n \in 1..MaxTasks : ReworkTask(d, n)

-----------------------------------------------------------------------------
(* The tasks, as far as a batch can tell (TaskDispatch has the rest), and  *)
(* time.                                                                   *)

TaskSteps(d, n, status, posting) ==
    /\ task' = [task EXCEPT ![d][n] = [status |-> status, posting |-> posting]]
    /\ UNCHANGED <<batch, draft, mon, crashes>>

TaskClaimed(d, n) == /\ task[d][n].status = "PENDING_SUBMIT" /\ ~task[d][n].posting
                     /\ TaskSteps(d, n, "DISPATCHING", TRUE)

(* The reply of POST /run is recorded whatever the row says by then.       *)
TaskAccepted(d, n) == task[d][n].posting /\ TaskSteps(d, n, "ACTIVE", FALSE)

(* The submission failed, or its process died. *)
TaskReleased(d, n) ==
    /\ task[d][n].posting
    /\ TaskSteps(d, n, IF task[d][n].status = "DISPATCHING" THEN "PENDING_SUBMIT"
                       ELSE task[d][n].status, FALSE)

TaskEnds(d, n) ==
    /\ task[d][n].status = "ACTIVE"
    /\ \E status \in TERMINAL_TASK_STATES : TaskSteps(d, n, status, task[d][n].posting)

Queue == \E d \in Draft, n \in 1..MaxTasks :
    TaskClaimed(d, n) \/ TaskAccepted(d, n) \/ TaskReleased(d, n) \/ TaskEnds(d, n)

WorksOn(p, d) == d \in mon[p].todo \cup mon[p].own \cup {mon[p].draft}

ClaimAges(d) ==
    /\ draft[d].by # NoApp /\ ~draft[d].stale
    /\ "slow" \in Faults \/ ~WorksOn(draft[d].by, d)
    /\ draft' = [draft EXCEPT ![d].stale = TRUE]
    /\ UNCHANGED <<batch, task, mon, crashes>>

GenerationAges(d) ==
    /\ draft[d].status = "GENERATING" /\ ~draft[d].old
    /\ "slow" \in Faults \/ \A p \in App : mon[p].pc # "generating" \/ mon[p].draft # d
    /\ draft' = [draft EXCEPT ![d].old = TRUE]
    /\ UNCHANGED <<batch, task, mon, crashes>>

DeferralEnds(d) ==
    /\ draft[d].deferred
    /\ draft' = [draft EXCEPT ![d].deferred = FALSE]
    /\ UNCHANGED <<batch, task, mon, crashes>>

Time == \E d \in Draft : ClaimAges(d) \/ GenerationAges(d) \/ DeferralEnds(d)

Next ==
    \/ \E p \in App : Monitor(p) \/ Crash(p)
    \/ Handler
    \/ Queue
    \/ Time

Spec == Init /\ [][Next]_vars

-----------------------------------------------------------------------------
(* Properties.                                                             *)

(* A draft is promoted into one task, whatever happens between the claim,  *)
(* the task and the mark.                                                  *)
OneTask(d) == \A m, n \in 1..MaxTasks :
    task[d][m].status # "none" /\ task[d][n].status # "none" => m = n

OneTaskPerDraft == \A d \in Draft : OneTask(d)

(* Where processes promote beside each other, the claims keep it so, but   *)
(* for a cancellation: that frees the draft, and a process that listed it  *)
(* before the first claim may then claim it, too.                          *)
OneTaskUnlessCancelled == \A d \in Draft : batch[BatchOf[d]] = "CANCELLED" \/ OneTask(d)

(* A ready draft of an open batch that has no task yet can be promoted,    *)
(* now or when a claim or a deferral has run out.                          *)
Promotable ==
    \A d \in Draft :
        Open(BatchOf[d]) /\ Prompted(draft[d]) /\ ~HasTask(task[d]) =>
            \/ draft[d].promo \in {"PENDING", "FAILED", "TASK_CREATED"}
            \/ draft[d].promo = "DISPATCHING" /\ draft[d].by # NoApp

(* A batch is called COMPLETE only when all its work is done: no prompt to *)
(* write, no ready draft without a task, no task that waits or runs.       *)
Busy(d) == \/ draft[d].status \in {"PENDING", "GENERATING"}
           \/ /\ Prompted(draft[d])
              /\ \A n \in 1..MaxTasks : task[d][n].status = "none"
           \/ \E n \in 1..MaxTasks :
                 task[d][n].status \in PRE_RUNPOD_SUBMISSION_STATES \cup {"ACTIVE"}

CompleteMeansDone ==
    [][\A d \in Draft :
          batch[BatchOf[d]] # "COMPLETE" /\ batch'[BatchOf[d]] = "COMPLETE" => ~Busy(d)']_vars

-----------------------------------------------------------------------------
(* Progress: the monitor loop runs forever, time passes, accepted tasks    *)
(* end, and neither a submission nor a promotion fails every time it is    *)
(* tried.                                                                  *)
QueuesJob(p)     == \E d \in Draft : PromoteReads(p, d) /\ mon'[p].pc # "failed"
JobIsRecorded(p) == PromoteInserts(p) /\ task' # task

Fairness ==
    /\ \A p \in App : /\ WF_vars(Monitor(p))
                      /\ SF_vars(QueuesJob(p)) /\ SF_vars(JobIsRecorded(p))
    /\ WF_vars(\E d \in Draft, n \in 1..MaxTasks : TaskClaimed(d, n))
    /\ SF_vars(\E d \in Draft, n \in 1..MaxTasks : TaskAccepted(d, n))
    /\ WF_vars(\E d \in Draft, n \in 1..MaxTasks : TaskEnds(d, n))
    /\ WF_vars(Time)

LiveSpec == Spec /\ Fairness

(* Every batch is closed in the end, whatever dies on the way.             *)
EveryBatchSettles == \A b \in Batch : batch[b] = "INCOMPLETE" ~> batch[b] # "INCOMPLETE"
=============================================================================
