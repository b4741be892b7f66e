---------------------------- MODULE RequestItems ----------------------------
(***************************************************************************)
(* RunPod requests of the DOBEDUB Studio backend.  A request is a batch of *)
(* items, one prompt draft each, that are all stored before any task is    *)
(* made for them.  The request's handler then makes the tasks one by one,  *)
(* holding its process's JOB_LOCK; an item it does not come to, because it *)
(* fails or dies, is an orphan that the monitor's recovery loop claims,    *)
(* five minutes later, to make the task itself.  Meanwhile tasks run, and  *)
(* whatever is recorded of a task is copied to its item and summed up in   *)
(* its batch.                                                              *)
(*                                                                         *)
(* Each database transaction is a step.  A transaction that records a task *)
(* or shows a batch reads other rows without locking them, so that its     *)
(* reads and its commit are two steps.                                     *)
(***************************************************************************)
EXTENDS Naturals, FiniteSets

CONSTANTS
    App,            \* processes that share the database
    Item,           \* the rows a request may store, numbered in their order
    Draft,
    Batch,
    DraftOf,        \* the prompt draft of each item
    BatchOf,        \* the request batch of each item
    Folder,         \* batches of a folder job: each draft once, more to come
    MAX_MATERIALIZE_ATTEMPTS,
    Faults,         \* what may go wrong, a subset of FaultKinds
    MaxTask,        \* bound: tasks
    MaxClaims,      \* bound: claims of an item
    MaxCrashes,     \* bound: crashes
    MaxReworks,     \* bound: ended tasks a user sends again
    MaxSpent        \* bound: crashes and reworks together

FaultKinds ==
    { "prepareError",   \* the payload or the workflow of an item is unusable
      "recordError",    \* record_job fails and swallows the error
      "writeError",     \* writing a failure down fails too
      "slow" }          \* items and claims may get old under a live thread

Task    == 1..MaxTask
NoTask  == 0
Unknown == MaxTask + 1      \* a task that is in the process's memory only

ASSUME ItemAssumption   == Batch # {} /\ Item \subseteq Nat \ {0} /\ DraftOf \in [Item -> Draft] /\ BatchOf \in [Item -> Batch]
ASSUME ChoiceAssumption == Folder \subseteq Batch /\ Faults \subseteq FaultKinds
ASSUME BoundsAssumption ==
    /\ MAX_MATERIALIZE_ATTEMPTS \in Nat \ {0}
    /\ {MaxTask, MaxClaims, MaxCrashes, MaxReworks, MaxSpent} \subseteq Nat

VARIABLES
    item,       \* the RunpodRequestItem rows
    summary,    \* RunpodRequestBatch.status
    task,       \* the WorkflowTask rows
    lock,       \* who holds JOB_LOCK in each process
    web,        \* per process, the handler of a request
    recovery,   \* per process, the recovery loop
    sync,       \* per process, a transaction that records a task
    rework,     \* per process, a transaction that sends a task again
    view,       \* per process, a transaction that shows a batch
    spent       \* crashes and reworks so far

vars == <<item, summary, task, lock, web, recovery, sync, rework, view, spent>>

-----------------------------------------------------------------------------
(* CANCELLED and TIMED_OUT stand with FAILED; what is between the          *)
(* submission and the end of a task is IN_PROGRESS.                        *)
Ended      == {"COMPLETED", "FAILED"}
TaskStatus == {"none", "PENDING_SUBMIT", "IN_PROGRESS"} \cup Ended
Status     == [Item -> TaskStatus]

(* A claim is the attempt it began: no two claims of an item are made at   *)
(* the same time, so that the time stamp tells them apart as well.         *)
Items == [status: TaskStatus, task: {NoTask} \cup Task, old: BOOLEAN,
          claim: 0..MaxClaims, expired: BOOLEAN, attempts: 0..MaxClaims]

Tasks == [status: TaskStatus, item: Item \cup {0}]

Web == [pc: {"idle", "prepare", "record", "attach", "fail", "answer"},
        batch: Batch, todo: SUBSET Item, job: {NoTask, Unknown} \cup Task]

Recovery == [pc: {"idle", "look", "recheck", "prepare", "record", "attach", "except"},
             claims: [Item -> 0..MaxClaims], job: {NoTask, Unknown} \cup Task]

Nothing == [i \in Item |-> "none"]
Sync    == [task: {NoTask} \cup Task, status: TaskStatus, seen: Status]
Rework  == [task: {NoTask} \cup Task, seen: Status]
View    == [on: BOOLEAN, before: Status, after: Status]

NewItem      == [status |-> "PENDING_SUBMIT", task |-> NoTask, old |-> FALSE,
                 claim |-> 0, expired |-> FALSE, attempts |-> 0]
IdleWeb      == [pc |-> "idle", batch |-> CHOOSE b \in Batch : TRUE, todo |-> {}, job |-> NoTask]
IdleRecovery == [pc |-> "idle", claims |-> [i \in Item |-> 0], job |-> NoTask]
IdleSync     == [task |-> NoTask, status |-> "none", seen |-> Nothing]
IdleRework   == [task |-> NoTask, seen |-> Nothing]
IdleView     == [on |-> FALSE, before |-> Nothing, after |-> Nothing]

TypeOK ==
    /\ item \in [Item -> Items]
    /\ summary \in [Batch -> {"DRAFT", "QUEUED", "IN_PROGRESS", "PARTIAL_FAILED"} \cup Ended]
    /\ task \in [Task -> Tasks]
    /\ lock \in [App -> {"free", "web", "recovery", "sync"}]
    /\ web \in [App -> Web]
    /\ recovery \in [App -> Recovery]
    /\ sync \in [App -> Sync]
    /\ rework \in [App -> Rework]
    /\ view \in [App -> View]
    /\ spent \in [crashes: 0..MaxCrashes, reworks: 0..MaxReworks]

Init ==
    /\ item = [i \in Item |-> [NewItem EXCEPT !.status = "none"]]
    /\ summary = [b \in Batch |-> "DRAFT"]
    /\ task = [t \in Task |-> [status |-> "none", item |-> 0]]
    /\ lock = [a \in App |-> "free"]
    /\ web = [a \in App |-> IdleWeb]
    /\ recovery = [a \in App |-> IdleRecovery]
    /\ sync = [a \in App |-> IdleSync]
    /\ rework = [a \in App |-> IdleRework]
    /\ view = [a \in App |-> IdleView]
    /\ spent = [crashes |-> 0, reworks |-> 0]

-----------------------------------------------------------------------------
First(S)  == CHOOSE i \in S : \A j \in S : i <= j
Live(t)   == t \in Task /\ task[t].status # "none"
Statuses  == [i \in Item |-> item[i].status]
Exists(i) == item[i].status # "none"

(* refresh_request_batch_summary over the statuses st of the items.        *)
Summary(st, b) ==
    LET all    == {i \in Item : BatchOf[i] = b /\ st[i] # "none"}
        In(S)  == {i \in all : st[i] \in S}
    IN  CASE all = {}                             -> "DRAFT"
          [] In({"IN_PROGRESS"}) # {}             -> "IN_PROGRESS"
          [] In({"PENDING_SUBMIT"}) # {}          -> "QUEUED"
          [] In({"COMPLETED"}) = all              -> "COMPLETED"
          [] In({"COMPLETED"}) \notin {{}, all}   -> "PARTIAL_FAILED"
          [] OTHER                                -> "FAILED"

(* Write item i, refresh its batch and commit.                             *)
Put(i, row) ==
    /\ item' = [item EXCEPT ![i] = row]
    /\ summary' = [summary EXCEPT ![BatchOf[i]] =
                     Summary([Statuses EXCEPT ![i] = row.status], BatchOf[i])]

(* The tasks restore_existing_job_for_prompt_draft finds.                  *)
TasksOfDraft(d) == {t \in Task : Live(t) /\ DraftOf[task[t].item] = d}
TasksOfItem(i)  == {t \in Task : Live(t) /\ task[t].item = i}
FreeTask        == {t \in Task : ~Live(t)}
LockFree_Ignored(a) == TRUE
LockFree(a)     == lock[a] = "free"

Attached(i, t) == [item[i] EXCEPT !.task = t, !.status = "PENDING_SUBMIT", !.old = FALSE,
                                  !.claim = 0, !.expired = FALSE]
Failed(i)      == [item[i] EXCEPT !.status = "FAILED", !.old = FALSE, !.claim = 0, !.expired = FALSE]

(* The task of item i is inserted and, in the same transaction, copied to  *)
(* the item: the claim of a recovery is not touched.                       *)
Insert(i, t) ==
    /\ task' = [task EXCEPT ![t] = [status |-> "PENDING_SUBMIT", item |-> i]]
    /\ Put(i, [item[i] EXCEPT !.task = t, !.status = "PENDING_SUBMIT", !.old = FALSE, !.expired = FALSE])

-----------------------------------------------------------------------------
(* The request's handler                                                   *)

WebGoes(a, pc, job) == web' = [web EXCEPT ![a].pc = pc, ![a].job = job]

(* Handler a is done with its first item.                                  *)
WebNext(a) ==
    LET rest == web[a].todo \ {First(web[a].todo)}
    IN  web' = [web EXCEPT ![a].pc = IF rest = {} THEN "answer" ELSE "prepare",
                           ![a].todo = rest, ![a].job = NoTask]

(* A request stores the items S of a batch.  A batch is a new one unless   *)
(* it is that of a folder job, which takes each draft once.                *)
WebAccepts(a, b, S) ==
    LET there == {i \in Item : BatchOf[i] = b /\ Exists(i)}
    IN  /\ web[a].pc = "idle" /\ LockFree(a)
        /\ S # {} /\ \A i \in S : BatchOf[i] = b /\ ~Exists(i)
        /\ \A i, j \in S : DraftOf[i] = DraftOf[j] => i = j
        /\ IF b \in Folder THEN \A i \in S, j \in there : DraftOf[i] # DraftOf[j]
                           ELSE there = {}
        /\ item' = [i \in Item |-> IF i \in S THEN NewItem ELSE item[i]]
        /\ summary' = [summary EXCEPT ![b] = Summary([i \in Item |-> item'[i].status], b)]
        /\ lock' = [lock EXCEPT ![a] = "web"]
        /\ web' = [web EXCEPT ![a] = [pc |-> "prepare", batch |-> b, todo |-> S, job |-> NoTask]]
        /\ UNCHANGED <<task, recovery, sync, rework, view, spent>>

(* The item's payload is built; a draft that has a task gets that one.     *)
WebPrepares(a) ==
    LET i == First(web[a].todo)
    IN  /\ web[a].pc = "prepare"
        /\ \/ "prepareError" \in Faults /\ WebGoes(a, "fail", NoTask)
           \/ \E t \in TasksOfDraft(DraftOf[i]) : WebGoes(a, "attach", t)
           \/ TasksOfDraft(DraftOf[i]) = {} /\ WebGoes(a, "record", NoTask)
        /\ UNCHANGED <<item, summary, task, lock, recovery, sync, rework, view, spent>>

WebRecords(a) ==
    /\ web[a].pc = "record"
    /\ \/ \E t \in FreeTask :
            /\ \A u \in FreeTask : t <= u
            /\ Insert(First(web[a].todo), t)
            /\ WebGoes(a, "attach", t)
       \/ /\ "recordError" \in Faults
          /\ WebGoes(a, "attach", Unknown)
          /\ UNCHANGED <<item, summary, task>>
    /\ UNCHANGED <<lock, recovery, sync, rework, view, spent>>

(* A task that is not in the database breaks the item's foreign key.       *)
WebAttaches(a) ==
    LET i == First(web[a].todo)
    IN  /\ web[a].pc = "attach"
        /\ \/ web[a].job \in Task /\ Put(i, Attached(i, web[a].job)) /\ WebNext(a)
           \/ /\ web[a].job = Unknown \/ "writeError" \in Faults
              /\ WebGoes(a, "fail", NoTask) /\ UNCHANGED <<item, summary>>
        /\ UNCHANGED <<task, lock, recovery, sync, rework, view, spent>>

(* Whatever went wrong, also after the task was made.  When even this      *)
(* cannot be written the handler gives up, and the rest are orphans.       *)
WebFails(a) ==
    LET i == First(web[a].todo)
    IN  /\ web[a].pc = "fail"
        /\ \/ Put(i, Failed(i)) /\ WebNext(a) /\ UNCHANGED lock
           \/ /\ "writeError" \in Faults
              /\ web' = [web EXCEPT ![a] = IdleWeb] /\ lock' = [lock EXCEPT ![a] = "free"]
              /\ UNCHANGED <<item, summary>>
        /\ UNCHANGED <<task, recovery, sync, rework, view, spent>>

(* _reconcile_task_links_from_snapshot: an item takes the status of its    *)
(* task if the task was made for it.                                       *)
Reconciled == [i \in Item |->
    IF Live(item[i].task) /\ task[item[i].task].item = i THEN task[item[i].task].status ELSE item[i].status]

WebAnswers(a) ==
    LET b == web[a].batch
    IN  /\ web[a].pc = "answer"
        /\ item' = [i \in Item |-> IF BatchOf[i] = b THEN [item[i] EXCEPT !.status = Reconciled[i]] ELSE item[i]]
        /\ summary' = [summary EXCEPT ![b] = Summary(Reconciled, b)]
        /\ web' = [web EXCEPT ![a] = IdleWeb] /\ lock' = [lock EXCEPT ![a] = "free"]
        /\ UNCHANGED <<task, recovery, sync, rework, view, spent>>

-----------------------------------------------------------------------------
(* The recovery of orphans                                                 *)

Todo(a)      == {i \in Item : recovery[a].claims[i] # 0}
Current(a)   == First(Todo(a))
Owns_Always(a) == TRUE
Owns(a)      == item[Current(a)].claim = recovery[a].claims[Current(a)]
Orphan_Unclaimed(i) ==
    item[i].status = "PENDING_SUBMIT" /\ item[i].task = NoTask /\ item[i].old /\ item[i].claim = 0
Orphan(i)    == /\ item[i].status = "PENDING_SUBMIT" /\ item[i].task = NoTask /\ item[i].old
                /\ item[i].claim = 0 \/ item[i].expired

RecoveryGoes(a, pc, job) == recovery' = [recovery EXCEPT ![a].pc = pc, ![a].job = job]

RecoveryNext(a) ==
    recovery' = [recovery EXCEPT ![a] =
        [pc |-> IF Todo(a) = {Current(a)} THEN "idle" ELSE "look",
         claims |-> [recovery[a].claims EXCEPT ![Current(a)] = 0], job |-> NoTask]]

RecoveryClaims(a) ==
    LET orphans == {i \in Item : Orphan(i) /\ item[i].attempts < MaxClaims}
    IN  /\ recovery[a].pc = "idle" /\ orphans # {}
        /\ item' = [i \in Item |-> IF i \in orphans
                      THEN [item[i] EXCEPT !.attempts = @ + 1, !.claim = item[i].attempts + 1, !.expired = FALSE]
                      ELSE item[i]]
        /\ recovery' = [recovery EXCEPT ![a].pc = "look",
                          ![a].claims = [i \in Item |-> IF i \in orphans THEN item[i].attempts + 1 ELSE 0]]
        /\ UNCHANGED <<summary, task, lock, web, sync, rework, view, spent>>

(* Attach task t to the item if it has none and the claim is still this one. *)
AttachClaimed(a, t) ==
    LET i == Current(a)
    IN  IF Owns(a) /\ item[i].task = NoTask THEN Put(i, Attached(i, t)) ELSE UNCHANGED <<item, summary>>

(* A task that was made for the item before is attached, whatever became   *)
(* of it.                                                                  *)
RecoveryLooks(a) ==
    /\ recovery[a].pc = "look"
    /\ \/ \E t \in TasksOfItem(Current(a)) : AttachClaimed(a, t) /\ RecoveryNext(a)
       \/ /\ TasksOfItem(Current(a)) = {}
          /\ RecoveryGoes(a, "recheck", NoTask) /\ UNCHANGED <<item, summary>>
    /\ UNCHANGED <<task, lock, web, sync, rework, view, spent>>

RecoveryRechecks(a) ==
    /\ recovery[a].pc = "recheck"
    /\ IF Owns(a) THEN RecoveryGoes(a, "prepare", NoTask) ELSE RecoveryNext(a)
    /\ UNCHANGED <<item, summary, task, lock, web, sync, rework, view, spent>>

(* The rest of the attempt takes JOB_LOCK, in create_job.                  *)
RecoveryPrepares(a) ==
    /\ recovery[a].pc = "prepare"
    /\ \/ "prepareError" \in Faults /\ RecoveryGoes(a, "except", NoTask) /\ UNCHANGED lock
       \/ /\ LockFree(a) /\ UNCHANGED lock
          /\ \E t \in TasksOfDraft(DraftOf[Current(a)]) : RecoveryGoes(a, "attach", t)
       \/ /\ LockFree(a) /\ TasksOfDraft(DraftOf[Current(a)]) = {}
          /\ RecoveryGoes(a, "record", NoTask) /\ lock' = [lock EXCEPT ![a] = "recovery"]
    /\ UNCHANGED <<item, summary, task, web, sync, rework, view, spent>>

RecoveryRecords(a) ==
    /\ recovery[a].pc = "record"
    /\ \/ \E t \in FreeTask :
            /\ \A u \in FreeTask : t <= u
            /\ Insert(Current(a), t)
            /\ RecoveryGoes(a, "attach", t)
       \/ /\ "recordError" \in Faults
          /\ RecoveryGoes(a, "attach", Unknown)
          /\ UNCHANGED <<item, summary, task>>
    /\ lock' = [lock EXCEPT ![a] = "free"]
    /\ UNCHANGED <<web, sync, rework, view, spent>>

RecoveryAttaches(a) ==
    /\ recovery[a].pc = "attach"
    /\ \/ /\ recovery[a].job \in Task \/ ~Owns(a) \/ item[Current(a)].task # NoTask
          /\ AttachClaimed(a, recovery[a].job) /\ RecoveryNext(a)
       \/ /\ recovery[a].job = Unknown \/ "writeError" \in Faults
          /\ RecoveryGoes(a, "except", NoTask) /\ UNCHANGED <<item, summary>>
    /\ UNCHANGED <<task, lock, web, sync, rework, view, spent>>

(* The claim is given back or, with the last attempt, the item is given    *)
(* up: in both cases only if the claim is still this one.  If that cannot  *)
(* be written the loop leaves the rest of its claims to expire.            *)
RecoveryExcepts(a) ==
    LET i == Current(a)
    IN  /\ recovery[a].pc = "except"
        /\ \/ /\ IF ~Owns(a) THEN UNCHANGED <<item, summary>>
                 ELSE IF recovery[a].claims[i] >= MAX_MATERIALIZE_ATTEMPTS THEN Put(i, Failed(i))
                 ELSE item' = [item EXCEPT ![i].claim = 0, ![i].expired = FALSE] /\ UNCHANGED summary
              /\ RecoveryNext(a)
           \/ /\ "writeError" \in Faults
              /\ recovery' = [recovery EXCEPT ![a] = IdleRecovery] /\ UNCHANGED <<item, summary>>
        /\ UNCHANGED <<task, lock, web, sync, rework, view, spent>>

-----------------------------------------------------------------------------
(* Tasks run, and users look                                               *)

Follows == [none |-> {}, PENDING_SUBMIT |-> {"IN_PROGRESS", "FAILED"},
            IN_PROGRESS |-> Ended, COMPLETED |-> {}, FAILED |-> {}]

(* record_job, with JOB_LOCK: what has become of a task, and what the      *)
(* other items of its batch were when the transaction began.               *)
SyncReads(a, t) ==
    /\ LockFree(a)
    /\ \A c \in App : sync[c].task # t
    /\ \E s \in Follows[task[t].status] :
          sync' = [sync EXCEPT ![a] = [task |-> t, status |-> s, seen |-> Statuses]]
    /\ lock' = [lock EXCEPT ![a] = "sync"]
    /\ UNCHANGED <<item, summary, task, web, recovery, rework, view, spent>>

SyncCommits(a) ==
    LET t == sync[a].task
        i == task[t].item
    IN  /\ t # NoTask
        /\ task' = [task EXCEPT ![t].status = sync[a].status]
        /\ item' = [item EXCEPT ![i].task = t, ![i].status = sync[a].status]
        /\ summary' = [summary EXCEPT ![BatchOf[i]] =
                         Summary([sync[a].seen EXCEPT ![i] = sync[a].status], BatchOf[i])]
        /\ sync' = [sync EXCEPT ![a] = IdleSync] /\ lock' = [lock EXCEPT ![a] = "free"]
        /\ UNCHANGED <<web, recovery, rework, view, spent>>

(* requeue_prompt_draft_task, without JOB_LOCK: a prompt whose task has    *)
(* ended is sent again.  The task is locked from the look at it to the     *)
(* commit, the other items are not.                                        *)
ReworkReads(a, t) ==
    /\ rework[a].task = NoTask                           \* bound: one per process
    /\ task[t].status \in Ended /\ \A c \in App : rework[c].task # t
    /\ spent.reworks < MaxReworks /\ spent.crashes + spent.reworks < MaxSpent
    /\ rework' = [rework EXCEPT ![a] = [task |-> t, seen |-> Statuses]]
    /\ spent' = [spent EXCEPT !.reworks = @ + 1]
    /\ UNCHANGED <<item, summary, task, lock, web, recovery, sync, view>>

(* The item has its task again, and a claim on it ends.                    *)
Reopened(a) ==
    LET t == rework[a].task
        i == task[t].item
    IN  /\ t # NoTask
        /\ task' = [task EXCEPT ![t].status = "PENDING_SUBMIT"]
        /\ item' = [item EXCEPT ![i].task = t, ![i].status = "PENDING_SUBMIT",
                                ![i].claim = 0, ![i].expired = FALSE]
        /\ rework' = [rework EXCEPT ![a] = IdleRework]
        /\ UNCHANGED <<lock, web, recovery, sync, view, spent>>

(* The batch is summed up in the same transaction.                        *)
ReworkCommits(a) ==
    LET i == task[rework[a].task].item
    IN  /\ Reopened(a)
        /\ summary' = [summary EXCEPT ![BatchOf[i]] =
                         Summary([rework[a].seen EXCEPT ![i] = "PENDING_SUBMIT"], BatchOf[i])]

OfBatch(b, st) == [i \in Item |-> IF BatchOf[i] = b THEN st[i] ELSE "none"]
Differs_ItemsOnly(b) == OfBatch(b, Statuses) # OfBatch(b, Reconciled)
Differs(b)     == OfBatch(b, Statuses) # OfBatch(b, Reconciled) \/ summary[b] # Summary(Statuses, b)

(* request_batch_payload of a user who looks at a batch: what differs from *)
(* what was read is written; where nothing does, the look is no step.      *)
ViewReads(a, b) ==
    /\ ~view[a].on
    /\ \E i \in Item : BatchOf[i] = b /\ Exists(i)
    /\ Differs(b)
    /\ view' = [view EXCEPT ![a] = [on |-> TRUE, before |-> OfBatch(b, Statuses), after |-> OfBatch(b, Reconciled)]]
    /\ UNCHANGED <<item, summary, task, lock, web, recovery, sync, rework, spent>>

ViewCommits(a) ==
    LET Changed(i) == view[a].before[i] # view[a].after[i]
        shown      == {b \in Batch : \E i \in Item : BatchOf[i] = b /\ view[a].after[i] # "none"}
    IN  /\ view[a].on
        /\ item' = [i \in Item |-> IF Changed(i) THEN [item[i] EXCEPT !.status = view[a].after[i]] ELSE item[i]]
        /\ summary' = [b \in Batch |-> IF b \in shown THEN Summary(view[a].after, b) ELSE summary[b]]
        /\ view' = [view EXCEPT ![a] = IdleView]
        /\ UNCHANGED <<task, lock, web, recovery, sync, rework, spent>>

-----------------------------------------------------------------------------
(* Time and crashes                                                        *)

(* Five minutes have passed since the item was stored or claimed, which is *)
(* asked of items that wait for a task only.                               *)
Waiting(i) == item[i].status = "PENDING_SUBMIT" /\ item[i].task = NoTask

ItemAges(i) ==
    /\ Waiting(i) /\ ~item[i].old
    /\ "slow" \in Faults \/ \A a \in App : i \notin web[a].todo
    /\ item' = [item EXCEPT ![i].old = TRUE]
    /\ UNCHANGED <<summary, task, lock, web, recovery, sync, rework, view, spent>>

ClaimExpires(i) ==
    /\ Waiting(i) /\ item[i].claim # 0 /\ ~item[i].expired
    /\ "slow" \in Faults \/ \A a \in App : recovery[a].claims[i] # item[i].claim
    /\ item' = [item EXCEPT ![i].expired = TRUE]
    /\ UNCHANGED <<summary, task, lock, web, recovery, sync, rework, view, spent>>

Crash(a) ==
    /\ spent.crashes < MaxCrashes /\ spent.crashes + spent.reworks < MaxSpent
    /\ lock' = [lock EXCEPT ![a] = "free"]
    /\ web' = [web EXCEPT ![a] = IdleWeb]
    /\ recovery' = [recovery EXCEPT ![a] = IdleRecovery]
    /\ sync' = [sync EXCEPT ![a] = IdleSync]
    /\ rework' = [rework EXCEPT ![a] = IdleRework]
    /\ view' = [view EXCEPT ![a] = IdleView]
    /\ spent' = [spent EXCEPT !.crashes = @ + 1]
    /\ UNCHANGED <<item, summary, task>>

-----------------------------------------------------------------------------
WebStep(a) ==
    WebPrepares(a) \/ WebRecords(a) \/ WebAttaches(a) \/ WebFails(a) \/ WebAnswers(a)

RecoveryStep(a) ==
    \/ RecoveryClaims(a) \/ RecoveryLooks(a) \/ RecoveryRechecks(a) \/ RecoveryPrepares(a)
    \/ RecoveryRecords(a) \/ RecoveryAttaches(a) \/ RecoveryExcepts(a)

Next ==
    \/ \E a \in App, b \in Batch, S \in SUBSET Item : WebAccepts(a, b, S)
    \/ \E a \in App : WebStep(a) \/ RecoveryStep(a) \/ SyncCommits(a) \/ ReworkCommits(a)
                      \/ ViewCommits(a) \/ Crash(a)
    \/ \E a \in App, t \in Task : SyncReads(a, t) \/ ReworkReads(a, t)
    \/ \E a \in App, b \in Batch : ViewReads(a, b)
    \/ \E i \in Item : ItemAges(i) \/ ClaimExpires(i)

Spec == Init /\ [][Next]_vars

(* Threads go on, time passes, tasks are polled until they end, and the    *)
(* page of a batch asks for it every two seconds.                          *)
Fairness ==
    /\ \A a \in App :
         /\ WF_vars(WebStep(a)) /\ SF_vars(RecoveryStep(a))
         /\ WF_vars(SyncCommits(a)) /\ WF_vars(ReworkCommits(a)) /\ WF_vars(ViewCommits(a))
    /\ \A t \in Task : SF_vars(\E a \in App : SyncReads(a, t))
    /\ \A b \in Batch : WF_vars(\E a \in App : ViewReads(a, b))
    /\ \A i \in Item : WF_vars(ItemAges(i)) /\ WF_vars(ClaimExpires(i))

LiveSpec == Spec /\ Fairness

-----------------------------------------------------------------------------
(* A draft is never run twice at once or twice in a row by requests: with  *)
(* JOB_LOCK, the look for a task and its insertion are one, whichever of   *)
(* handler and recovery asks, and however old items and claims get.        *)
OneTaskPerDraft == \A d \in Draft : Cardinality(TasksOfDraft(d)) <= 1

(* A claim ends with its holder's doing, with the handler's or a rework's  *)
(* write to the item, or by expiring and being taken by a later attempt: a *)
(* recovery that was overtaken takes nothing from the one that overtook it. *)
ClaimFenced ==
    [][\A i \in Item : item[i].claim \notin {0, item'[i].claim} =>
         \/ item[i].expired /\ item'[i].claim = item[i].claim + 1
         \/ \E a \in App : recovery[a].claims[i] = item[i].claim /\ recovery'[a].claims[i] = 0
         \/ \E a \in App : i \in web[a].todo /\ i \notin web'[a].todo
         \/ \E a \in App : rework[a].task # NoTask /\ rework'[a].task = NoTask /\ task[rework[a].task].item = i]_vars

(* Each stored item gets a task or is given up, though its handler fails   *)
(* or dies and recoveries fail or die.                                     *)
EveryItemSettles ==
    \A i \in Item : Exists(i) ~> (item[i].task # NoTask \/ item[i].status = "FAILED")

(* When the task made for an item has ended, the item says so in the end,  *)
(* whatever the handler or a recovery wrote over it meanwhile.             *)
Lags(t) == task[t].status \in Ended /\ item[task[t].item].status # task[t].status
ItemFollowsTask == \A t \in Task : Lags(t) ~> ~Lags(t)

(* When the items of a batch have all ended, the batch does not stay open, *)
(* unless one of them is sent again or more are stored; and while one of   *)
(* them waits for its run, the batch does not stay closed: though two      *)
(* transactions that sum up at once each miss what the other did.          *)
Stored(b)   == { i \in Item : BatchOf[i] = b /\ Exists(i) }
AllEnded(b) == Stored(b) # {} /\ \A i \in Stored(b) : item[i].status \in Ended
Closed      == {"PARTIAL_FAILED"} \cup Ended
SummaryFollows ==
    \A b \in Batch :
        /\ AllEnded(b) ~> (~AllEnded(b) \/ summary[b] \in Closed)
        /\ (Stored(b) # {} /\ ~AllEnded(b)) ~> (AllEnded(b) \/ summary[b] \notin Closed)

(* What users are shown of items and batches comes to what has become of   *)
(* their tasks.                                                            *)
ShownFollows == ItemFollowsTask /\ SummaryFollows
=============================================================================
