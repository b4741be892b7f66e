------------------------------- MODULE TaskViews -------------------------------
(***************************************************************************)
(* What users are shown of the prompts and tasks of a batch, and what they *)
(* may do there: the task history and its filters (task_tracking_service), *)
(* the prompt history (prompt_batch_service), the request queue            *)
(* (runpod_request_batch_service), the counters, the completion and the    *)
(* failure list of a batch with the retries it offers (batch_job_service). *)
(* Each of them sorts the same statuses by tables of its own.              *)
(*                                                                         *)
(* Drafts are numbered by their slot, tasks by their creation.             *)
(***************************************************************************)
EXTENDS Integers, Sequences, FiniteSets, FiniteSetsExt, SequencesExt

VARIABLES
    batch,      \* its status and counters, its drafts, and the tasks of either
    did         \* the last thing done to it: by which request, to which row, and what came of it

TERMINAL_STATES   == {"COMPLETED", "SUCCESS", "FAILED", "CANCELLED", "TIMED_OUT"}
SUCCESS_STATES    == {"COMPLETED", "SUCCESS"}
REWORKABLE_STATES == TERMINAL_STATES \ SUCCESS_STATES
ACTIVE_STATES     == {"PENDING_SUBMIT", "DISPATCHING", "QUEUED", "IN_QUEUE", "IN_PROGRESS", "RUNNING"}
PRE_SUBMIT_STATES == {"PENDING_SUBMIT", "DISPATCHING"}
TERMINAL_DRAFTS   == {"READY", "FAILED", "MANUAL_REQUIRED", "CANCELLED"}
FAILED_DRAFTS     == {"FAILED", "MANUAL_REQUIRED"}

Drafts == DOMAIN batch.drafts
Live == {i \in DOMAIN batch.tasks : ~batch.tasks[i].deleted}
Own == {i \in Live : batch.tasks[i].batch = "this"}
Linked(d) == {i \in Live : batch.tasks[i].draft = d}
Blank(d) == batch.drafts[d].prompt = "none"

-----------------------------------------------------------------------------
(* The task history and the status of a single job.                        *)

StatKey(status) ==
    CASE status \in SUCCESS_STATES          -> "completed"
      [] status \in {"FAILED", "TIMED_OUT"} -> "failed"
      [] status = "CANCELLED"               -> "cancelled"
      [] status \in PRE_SUBMIT_STATES       -> "pendingSubmit"
      [] OTHER                              -> "active"

HistoryFilters == {"COMPLETED", "FAILED", "CANCELLED", "ACTIVE"}
Matches(filter, status) ==
    CASE filter = "COMPLETED" -> status \in SUCCESS_STATES
      [] filter = "FAILED"    -> status \in {"FAILED", "TIMED_OUT"}
      [] filter = "CANCELLED" -> status = "CANCELLED"
      [] filter = "ACTIVE"    -> status \notin TERMINAL_STATES

\* A task is in the history of its own batch, and of that of its draft.
History == {i \in Live : batch.tasks[i].batch = "this" \/ batch.tasks[i].draft # 0}
Selectable == {i \in History : batch.tasks[i].status \in TERMINAL_STATES}
Stats == [k \in {"completed", "failed", "cancelled", "pendingSubmit", "active"} |->
             Cardinality({i \in History : StatKey(batch.tasks[i].status) = k})]

ApiStatus(status) ==
    CASE status \in SUCCESS_STATES -> "success"
      [] status = "FAILED"         -> "fail"
      [] status = "CANCELLED"      -> "cancelled"
      [] status = "TIMED_OUT"      -> "timed_out"
      [] status \in {"IN_QUEUE", "QUEUED"} \cup PRE_SUBMIT_STATES -> "queued"
      [] OTHER                     -> "running"

Label(status) ==
    CASE status \in SUCCESS_STATES -> "Completed"
      [] status = "CANCELLED"      -> "Cancelled"
      [] status = "TIMED_OUT"      -> "Timed Out"
      [] status = "FAILED"         -> "Failed"
      [] OTHER                     -> status

-----------------------------------------------------------------------------
(* The prompt history and the request queue.                               *)

\* The last of a draft's tasks, whatever its batch.
RunpodStatus(d) == batch.tasks[Max(Linked(d))].status
PromptFilters == {"PENDING", "IN_PROGRESS", "SUCCESS", "FAILED", "CANCELLED"}
FilterStates(filter) ==
    CASE filter = "PENDING"     -> PRE_SUBMIT_STATES \cup {"QUEUED", "IN_QUEUE"}
      [] filter = "IN_PROGRESS" -> {"IN_PROGRESS", "RUNNING"}
      [] filter = "SUCCESS"     -> SUCCESS_STATES
      [] filter = "FAILED"      -> {"FAILED", "TIMED_OUT"}
      [] filter = "CANCELLED"   -> {"CANCELLED"}
Filtered(filter) ==
    IF filter = "UNREQUESTED" THEN {d \in Drafts : Linked(d) = {}}
    ELSE {d \in Drafts : Linked(d) # {} /\ RunpodStatus(d) \in FilterStates(filter)}

Generated(filter) == {d \in Drafts : batch.drafts[d].status \in IF filter = "SUCCESS" THEN {"READY"} ELSE FAILED_DRAFTS}

\* Two kinds of ended drafts are counted as pending here.
WorkerStats ==
    LET Of(status) == Cardinality({d \in Drafts : batch.drafts[d].status = status}) IN
    [ready |-> Of("READY"), failed |-> Of("FAILED"), generating |-> Of("GENERATING"),
     pending |-> Of("PENDING") + Of("MANUAL_REQUIRED") + Of("CANCELLED")]

RequeueRequired(d) ==
    /\ Cardinality(Linked(d)) = 1
    /\ RunpodStatus(d) \in UNION {FilterStates(f) : f \in {"SUCCESS", "FAILED", "CANCELLED"}}
    /\ batch.drafts[d].status = "READY" /\ ~Blank(d)
    /\ batch.drafts[d].prompt # batch.tasks[Max(Linked(d))].prompt

Requeueable(d) ==
    /\ Cardinality(Linked(d)) = 1 /\ RunpodStatus(d) \in TERMINAL_STATES
    /\ batch.drafts[d].status = "READY" /\ ~Blank(d)

QueueFilters == {"pendingsubmit", "runpodqueued", "inprogress", "failed", "cancelled", "completed"}
InQueue(filter, status) ==
    CASE filter = "pendingsubmit" -> status \in PRE_SUBMIT_STATES
      [] filter = "runpodqueued"  -> status \in {"QUEUED", "IN_QUEUE"}
      [] filter = "inprogress"    -> status \in {"IN_PROGRESS", "RUNNING"}
      [] filter = "failed"        -> status \in {"FAILED", "TIMED_OUT"}
      [] filter = "cancelled"     -> status = "CANCELLED"
      [] filter = "completed"     -> status \in SUCCESS_STATES

-----------------------------------------------------------------------------
(* The status of the prompts of the batch, as it is stored with each of    *)
(* them that ends and as it is shown: a batch that has begun is GENERATING *)
(* only to the latter.                                                     *)

InStatus(states) == {d \in Drafts : batch.drafts[d].status \in states}
PromptsEnded ==
    IF InStatus({"CANCELLED"}) # {} THEN "CANCELLED"
    ELSE IF InStatus(FAILED_DRAFTS) # {} THEN "COMPLETED_WITH_ERRORS" ELSE "COMPLETED"
PromptsStored ==
    IF Drafts = InStatus(TERMINAL_DRAFTS) THEN PromptsEnded
    ELSE IF InStatus({"GENERATING"}) # {} THEN "GENERATING" ELSE "PENDING"
PromptsShown ==
    IF Drafts = InStatus(TERMINAL_DRAFTS) THEN PromptsEnded
    ELSE IF InStatus({"GENERATING", "READY"} \cup FAILED_DRAFTS) # {} THEN "GENERATING" ELSE "PENDING"

-----------------------------------------------------------------------------
(* The counters of the batch, and when it is complete.                     *)

TasksIn(b, states) == Cardinality({i \in DOMAIN b.tasks : /\ ~b.tasks[i].deleted /\ b.tasks[i].batch = "this"
                                                          /\ b.tasks[i].status \in states})
CountsFor(b) ==
    LET In(states) == {d \in DOMAIN b.drafts : b.drafts[d].status \in states}
        blankReady == {d \in In({"READY"}) : b.drafts[d].prompt = "none"}
    IN [promptWaiting      |-> Cardinality(In({"PENDING"})),
        promptGenerating   |-> Cardinality(In({"GENERATING"})),
        promptReady        |-> Cardinality(In({"READY"}) \ blankReady),
        promptFailed       |-> Cardinality(In(FAILED_DRAFTS) \cup blankReady),
        promptCancelled    |-> Cardinality(In({"CANCELLED"})),
        videoRequested     |-> Cardinality({i \in DOMAIN b.tasks : ~b.tasks[i].deleted /\ b.tasks[i].batch = "this"}),
        videoPendingSubmit |-> TasksIn(b, PRE_SUBMIT_STATES),
        videoQueued        |-> TasksIn(b, {"QUEUED", "IN_QUEUE"}),
        videoInProgress    |-> TasksIn(b, {"IN_PROGRESS", "RUNNING"}),
        videoCompleted     |-> TasksIn(b, SUCCESS_STATES),
        videoFailed        |-> TasksIn(b, {"FAILED", "TIMED_OUT"}),
        videoCancelled     |-> TasksIn(b, {"CANCELLED"})]
UnderWay(counts) == counts.promptWaiting + counts.promptGenerating + counts.videoPendingSubmit + counts.videoQueued + counts.videoInProgress

Settled_Drafts(b) ==
    /\ \A d \in DOMAIN b.drafts :
          /\ b.drafts[d].status \in TERMINAL_DRAFTS
          /\ b.drafts[d].status = "READY" /\ b.drafts[d].prompt # "none" =>
                \E i \in DOMAIN b.tasks : b.tasks[i].draft = d /\ b.tasks[i].batch = "this" /\ ~b.tasks[i].deleted
Settled(b) ==
    /\ \A d \in DOMAIN b.drafts :
          /\ b.drafts[d].status \in TERMINAL_DRAFTS
          /\ b.drafts[d].status = "READY" /\ b.drafts[d].prompt # "none" =>
                \E i \in DOMAIN b.tasks : b.tasks[i].draft = d /\ b.tasks[i].batch = "this" /\ ~b.tasks[i].deleted
    /\ \A i \in DOMAIN b.tasks : ~b.tasks[i].deleted /\ b.tasks[i].batch = "this" => b.tasks[i].status \in TERMINAL_STATES

(* A draft that failed fails the tasks that are not yet submitted.         *)
Failing(b) ==
    {i \in DOMAIN b.tasks : /\ ~b.tasks[i].deleted /\ b.tasks[i].batch = "this" /\ b.tasks[i].status \in PRE_SUBMIT_STATES
                            /\ b.tasks[i].draft # 0 /\ b.drafts[b.tasks[i].draft].status \in FAILED_DRAFTS}
Reconciled(b, failing) ==
    [b EXCEPT !.tasks = [i \in DOMAIN @ |-> IF i \in failing THEN [@[i] EXCEPT !.status = "FAILED"] ELSE @[i]],
              !.drafts = [d \in DOMAIN @ |-> IF d \in {b.tasks[i].draft : i \in failing}
                                             THEN [@[d] EXCEPT !.prompt = "none", !.promotion = "FAILED"] ELSE @[d]]]

(* The session writes its changes when it is told to, and reads the rows   *)
(* as written: what it changed to "after" is counted only if there was     *)
(* something to reconcile.                                                 *)
Counted(before, after) == IF Failing(before) = {} THEN before ELSE Reconciled(after, Failing(before))
Refreshed(before, after) == [Reconciled(after, Failing(before)) EXCEPT !.counts = CountsFor(Counted(before, after))]

-----------------------------------------------------------------------------
(* The failure list.                                                       *)

PromotionFailed(d) == batch.drafts[d].status = "READY" /\ batch.drafts[d].promotion = "FAILED"
FailingDrafts ==
    {d \in Drafts : \/ batch.drafts[d].status \in FAILED_DRAFTS \/ PromotionFailed(d)
                    \/ \E i \in Linked(d) : batch.tasks[i].batch \in {"this", "none"} /\ batch.tasks[i].status \in REWORKABLE_STATES}
Orphans == {i \in Own : batch.tasks[i].draft = 0 /\ batch.tasks[i].status \in REWORKABLE_STATES}

RetryKind(d) ==
    IF Cardinality(Linked(d)) > 1 THEN "none"
    ELSE IF batch.drafts[d].status \in FAILED_DRAFTS THEN "prompt"
    ELSE IF Linked(d) = {} THEN IF PromotionFailed(d) THEN "promotion" ELSE "none"
    ELSE IF RunpodStatus(d) \in REWORKABLE_STATES THEN "runpod" ELSE "none"

DraftRow(d) == [draft |-> d, task |-> IF Linked(d) = {} THEN 0 ELSE Max(Linked(d)), kind |-> RetryKind(d)]
OrphanRow(i) == [draft |-> 0, task |-> i, kind |-> "none"]
InOrder(set) == SetToSortSeq(set, <)

(* A page has its share of the drafts, and is filled up with orphans.      *)
FailureDetail(page, size) ==
    LET offset == (page - 1) * size
        drafts == Cardinality(FailingDrafts)
        limit == Max({0, Min({size, drafts - offset})})
        rows == SubSeq(InOrder(FailingDrafts), offset + 1, offset + limit)
        skip == Max({0, offset - drafts})
        orphans == SubSeq(InOrder(Orphans), skip + 1, Min({Cardinality(Orphans), skip + size - Len(rows)}))
    IN  [n \in 1..Len(rows) |-> DraftRow(rows[n])] \o [n \in 1..Len(orphans) |-> OrphanRow(orphans[n])]
Total == Cardinality(FailingDrafts) + Cardinality(Orphans)

(* Of the stored counters and the rows, what the lists of batches show.    *)
Payload == [failed    |-> batch.counts.promptFailed + TasksIn(batch, {"FAILED", "TIMED_OUT"}) + Cardinality({d \in Drafts : PromotionFailed(d)}),
            cancelled |-> TasksIn(batch, {"CANCELLED"})]
Summary == [promptFailed |-> Cardinality(InStatus(FAILED_DRAFTS)),
            runpodFailed |-> Max({0, Total - Cardinality(InStatus(FAILED_DRAFTS))}),
            retryable    |-> Total - Cardinality(Orphans)]

-----------------------------------------------------------------------------
(* Retrying: the drafts and tasks that were selected, or all.              *)

OwnLinked(d) == Linked(d) \cap Own
Duplicated == {d \in Drafts : Cardinality(OwnLinked(d)) > 1}

PromptsRetried(selected) == {d \in Drafts \cap selected : batch.drafts[d].status \in FAILED_DRAFTS /\ OwnLinked(d) = {}}
PromotionsRetried(selected) == {d \in Drafts \cap selected : PromotionFailed(d) /\ OwnLinked(d) = {}}
TasksReworked(selected) ==
    {i \in Own \cap selected : /\ batch.tasks[i].status \in REWORKABLE_STATES
                               /\ batch.tasks[i].draft \notin {0} \cup Duplicated}

Retried(drafts, tasks) ==
    [batch EXCEPT
        !.status = "INCOMPLETE",
        !.drafts = [d \in Drafts |->
            IF d \in PromptsRetried(drafts) THEN [@[d] EXCEPT !.status = "PENDING", !.prompt = "none", !.promotion = "PENDING"]
            ELSE IF d \in PromotionsRetried(drafts) THEN [@[d] EXCEPT !.promotion = "PENDING"] ELSE @[d]],
        !.tasks = [i \in DOMAIN @ |-> IF i \in TasksReworked(tasks) THEN [@[i] EXCEPT !.status = "PENDING_SUBMIT"] ELSE @[i]]]

Retry(by, row, drafts, tasks) ==
    /\ batch.status # "CANCELLED"
    /\ batch' = Refreshed(batch, Retried(drafts, tasks))
    /\ did' = [by |-> by, row |-> row,
               drafts |-> PromptsRetried(drafts) \cup PromotionsRetried(drafts), tasks |-> TasksReworked(tasks),
               left |-> did.left - 1]

RetryOne(row) ==
    /\ row.kind # "none"
    /\ Retry("one", row, IF row.kind = "runpod" THEN {} ELSE {row.draft}, IF row.kind = "runpod" THEN {row.task} ELSE {})
RetryAll == Retry("all", OrphanRow(0), Drafts, DOMAIN batch.tasks)

Completed(b) == IF Settled(b) THEN "COMPLETE" ELSE "INCOMPLETE"

Refresh ==
    /\ batch.status = "INCOMPLETE"
    /\ batch' = [Refreshed(batch, batch) EXCEPT !.status = Completed(Counted(batch, batch))]
    /\ did' = [did EXCEPT !.by = "refresh", !.left = @ - 1]

\* The whole of a batch, where the tasks that lack its number are given it.
Repaired(b) ==
    [b EXCEPT !.tasks = [i \in DOMAIN @ |-> IF @[i].draft # 0 /\ @[i].batch = "none" /\ ~@[i].deleted
                                            THEN [@[i] EXCEPT !.batch = "this"] ELSE @[i]]]
Detail ==
    /\ batch' = IF batch.status = "CANCELLED" THEN Repaired(batch)
                ELSE Repaired([Refreshed(batch, batch) EXCEPT !.status = Completed(Counted(batch, batch))])
    /\ did' = [did EXCEPT !.by = "detail", !.left = @ - 1]

\* Bound: two things are done to a batch.
Next ==
    /\ did.left > 0
    /\ \/ \E row \in ToSet(FailureDetail(1, Total)) : RetryOne(row)
       \/ RetryAll \/ Refresh \/ Detail

Start == did = [by |-> "none", row |-> OrphanRow(0), drafts |-> {}, tasks |-> {}, left |-> 2]

-----------------------------------------------------------------------------
Statuses == {batch.tasks[i].status : i \in Live}
Known(status) == status \in TERMINAL_STATES \cup ACTIVE_STATES

(* Every table sorts a status as the others do: what the history counts    *)
(* under a heading is what its filter finds, only what has ended can be    *)
(* selected and is reported as ended, and a known status is in exactly one *)
(* of the filters of the prompt history, of the queue's and of the batch's *)
(* counters.  (A status that RunPod did not say is in none of the latter.) *)
StatusesAgree ==
    /\ \A s \in Statuses :
          /\ \A f \in HistoryFilters : Matches(f, s) <=> StatKey(s) \in
                CASE f = "COMPLETED" -> {"completed"} [] f = "FAILED" -> {"failed"}
                  [] f = "CANCELLED" -> {"cancelled"} [] f = "ACTIVE" -> {"pendingSubmit", "active"}
          /\ s \in TERMINAL_STATES <=> ApiStatus(s) \notin {"queued", "running"}
          /\ s \in TERMINAL_STATES <=> Label(s) # s
          /\ Known(s) => /\ Cardinality({f \in PromptFilters : s \in FilterStates(f)}) = 1
                         /\ Cardinality({f \in QueueFilters : InQueue(f, s)}) = 1
    /\ Selectable = {i \in History : Matches("COMPLETED", batch.tasks[i].status) \/ batch.tasks[i].status \in REWORKABLE_STATES}
    /\ MapThenSumSet(LAMBDA k : Stats[k], DOMAIN Stats) = Cardinality(History)
    /\ \A d \in Drafts : Linked(d) = {} \/ Known(RunpodStatus(d)) =>
          Cardinality({f \in PromptFilters \cup {"UNREQUESTED"} : d \in Filtered(f)}) = 1

(* The counters of a batch count every draft and every known task once,    *)
(* and one that is complete shows nothing under way; one that is not, yet  *)
(* shows nothing, waits for a promotion or for a status it does not know.  *)
(* The prompts' status is that of the drafts, stored or shown.  No row of  *)
(* the failure list goes uncounted in the list of batches, though one with *)
(* a failed prompt and a failed task counts twice there.                   *)
CountersAgree ==
    LET c == CountsFor(batch) IN
    /\ c.promptWaiting + c.promptGenerating + c.promptReady + c.promptFailed + c.promptCancelled = Cardinality(Drafts)
    /\ TasksIn(batch, {s \in Statuses : Known(s)}) =
          c.videoPendingSubmit + c.videoQueued + c.videoInProgress + c.videoCompleted + c.videoFailed + c.videoCancelled
    /\ Settled(batch) => UnderWay(c) = 0
    /\ ~Settled(batch) /\ UnderWay(c) = 0 =>
          \/ \E i \in Own : ~Known(batch.tasks[i].status)
          \/ \E d \in Drafts : batch.drafts[d].status = "READY" /\ ~Blank(d) /\ OwnLinked(d) = {}
    /\ PromptsStored # PromptsShown => PromptsStored = "PENDING" /\ PromptsShown = "GENERATING"
    /\ MapThenSumSet(LAMBDA k : WorkerStats[k], DOMAIN WorkerStats) = Cardinality(Drafts)
    /\ did.by \in {"none", "refresh"} /\ (\A i \in Live : batch.tasks[i].batch = "this") => Total <= Payload.failed + Payload.cancelled
    /\ did.by = "refresh" /\ batch.status = "COMPLETE" => UnderWay(batch.counts) = 0

(* The failure list shows each failing row once, on whatever pages.        *)
PagesComplete ==
    \A size \in 1..(Total + 1) :
        FlattenSeq([n \in 1..(Total \div size + 1) |-> FailureDetail(n, size)])
            = [n \in 1..Cardinality(FailingDrafts) |-> DraftRow(InOrder(FailingDrafts)[n])]
              \o [n \in 1..Cardinality(Orphans) |-> OrphanRow(InOrder(Orphans)[n])]

(* A row is offered a retry that the server refuses: a failed prompt which *)
(* has a task, and a failed task without the number of the batch.          *)
Refused(row) ==
    \/ row.kind = "prompt" /\ row.task # 0 /\ batch.tasks[row.task].batch = "this"
    \/ row.kind = "runpod" /\ batch.tasks[row.task].batch # "this"

(* A retry that a row offers is made when it is asked for, but for these,  *)
(* and it is made of nothing else; a retry of all that failed leaves no    *)
(* row with such an offer.  A prompt that may be requested again is not    *)
(* refused.                                                                *)
OffersKept ==
    /\ did.by = "one" =>
          \/ Refused(did.row) /\ did.drafts = {} /\ did.tasks = {}
          \/ IF did.row.kind = "runpod" THEN did.tasks = {did.row.task} /\ did.drafts = {}
                                        ELSE did.drafts = {did.row.draft} /\ did.tasks = {}
    /\ did.by = "all" => \A row \in ToSet(FailureDetail(1, Total)) : row.kind = "none" \/ Refused(row)
    /\ \A d \in Drafts : RequeueRequired(d) => Requeueable(d)
=============================================================================
