---------------------------- MODULE TaskDispatch ----------------------------
(***************************************************************************)
(* The life of a RunPod task in the DOBEDUB Studio backend: the durable    *)
(* WorkflowTask rows of the database, the JOBS dictionary each application *)
(* process keeps in memory, the monitor loop every process runs, the HTTP  *)
(* handlers beside it, and the RunPod provider with the result manifests   *)
(* its workers leave in S3.                                                *)
(*                                                                         *)
(* A database transaction is one step, unless it tests in Python what it   *)
(* read without a lock: then its read is a step and its write another, and *)
(* whatever is committed in between is written over.  A network call to    *)
(* the provider splits a handler in two: what was read before the call is  *)
(* written back after it, and everything that does not need the JOB_LOCK   *)
(* of the same process may happen in between.                              *)
(***************************************************************************)
EXTENDS Naturals, FiniteSets

CONSTANTS
    App,            \* application processes sharing the database
    Task,           \* task ids (each the one task of its prompt draft)
    NoTask,         \* "no task" in a monitor's program state
    Batch,          \* the tasks that carry a batch_job_id
    User,           \* task owners
    Owner,          \* the owner of each task
    MaxPerUser,     \* TaskExecutionPolicy.max_active_tasks_per_user
    MaxTotal,       \* TaskExecutionPolicy.max_active_tasks_total
    MinAttempts,    \* RUNPOD_NOT_FOUND_MIN_ATTEMPTS
    Faults,         \* what may go wrong, a subset of FaultKinds
    Requests,       \* what users ask for, a subset of RequestKinds
    LegacyJob,      \* the provider job of a row an older release failed
    MaxGen,         \* bound: requests to run a task (the first one included)
    MaxJobs         \* bound: jobs the provider ever accepts

FaultKinds ==
    { "crash",      \* a process dies and starts again
      "dbError",    \* record_job fails and swallows the error
      "gone",       \* the provider forgets a job: its status answers 404
      "late",       \* a manifest may appear after the job's COMPLETED
      "lostReply",  \* POST /run is accepted but its reply never arrives
      "slowCall",   \* a claim may get older than 300 s under a live process
      "unknown" }   \* the provider answers without a status

RequestKinds == {"create", "cancel", "status", "rework", "bulk", "draft"}

ASSUME TaskAssumption     == NoTask \notin Task /\ Batch \subseteq Task
ASSUME OwnerAssumption    == Owner \in [Task -> User]
ASSUME PolicyAssumption   == MaxPerUser \in Nat \ {0} /\ MaxTotal \in Nat \ {0}
ASSUME AttemptsAssumption == MinAttempts \in Nat \ {0}
ASSUME FeatureAssumption  == Faults \subseteq FaultKinds
                             /\ Requests \subseteq RequestKinds
ASSUME BoundAssumption    == MaxGen \in Nat /\ MaxJobs \in Nat
ASSUME LegacyAssumption   ==
    /\ LegacyJob \in [Task -> 0..MaxJobs]
    /\ \A s, t \in Task : LegacyJob[s] = LegacyJob[t] => s = t \/ LegacyJob[s] = 0

VARIABLES
    row,        \* the WorkflowTask row of each task
    older,      \* pairs <<s, t>>: s has the smaller created_at
    gen,        \* ghost: how often t was asked to run (0: never created)
    JOBS,       \* per process, its in-memory copy of each task
    mon,        \* per process, where its monitor thread is
    lock,       \* per process, the section that holds JOB_LOCK over a call
    ask,        \* per process, the request to run tasks again under way
    job,        \* the provider's jobs
    manifest    \* S3: the job whose result the task's manifest key holds

vars == <<row, older, gen, JOBS, mon, lock, ask, job, manifest>>
dbVars == <<row, older, gen>>
providerVars == <<job, manifest>>

-----------------------------------------------------------------------------
(* Statuses.  IN_QUEUE and RUNNING stand with IN_PROGRESS, TIMED_OUT with  *)
(* FAILED, SUCCESS with COMPLETED: the code never tells them apart here.   *)

ACTIVE_STATES   == {"QUEUED", "IN_PROGRESS"}
TERMINAL_STATES == {"COMPLETED", "FAILED", "CANCELLED"}
PENDING_STATES  == {"PENDING_SUBMIT", "DISPATCHING"}
Status          == ACTIVE_STATES \cup TERMINAL_STATES \cup PENDING_STATES
                   \cup {"UNKNOWN"}

NoJob == 0
Job   == 1..MaxJobs

(* What runpodStatus remembers about a vanished provider job: the number   *)
(* of reconciliation attempts (capped where the code stops to care), and   *)
(* whether the row is a final NOT_FOUND or one an older release left.      *)
Misses  == 0..MinAttempts
Verdict == {"none", "legacy", "final"}

Rows ==
    [ exists   : BOOLEAN,
      status   : Status,
      job      : Job \cup {NoJob},             \* runpod_job_id
      claim    : {"none", "fresh", "stale"},   \* dispatch_claimed_at
      deferred : BOOLEAN,                      \* next_dispatch_at > now
      outs     : Job \cup {NoJob},             \* whose output is registered
      keep     : BOOLEAN,                      \* preserveOutputAssetsUntilSuccess
      misses   : Misses,
      verdict  : Verdict ]

Entries ==
    [ held    : BOOLEAN,
      status  : Status,
      job     : Job \cup {NoJob},
      outs    : Job \cup {NoJob},              \* outputAssets / outputsSaved
      keep    : BOOLEAN,
      misses  : Misses,
      verdict : Verdict ]

MonitorPc == {"dispatch", "recover", "claimed", "release", "releasing",
              "legacy", "relegacy", "active", "poll", "gone", "failed"}
Monitors  == [ pc   : MonitorPc,
               task : Task \cup {NoTask},
               seen : Status,                    \* of the row to release
               todo : SUBSET Task,
               skip : SUBSET Task ]
Asks      == [ op   : {"none", "rework", "bulk", "publish"},
               seen : [Task -> Rows] ]           \* the rows as loaded

Answer == {"IN_PROGRESS", "COMPLETED", "FAILED", "CANCELLED", "UNKNOWN"}
Locks  == [ op   : {"free", "post", "poll", "import", "cancel", "legacy", "recover"},
            by   : {"nobody", "monitor", "http"},
            task : Task \cup {NoTask},
            got  : Answer,                     \* what GET /status answered
            sub  : Job \cup {NoJob} ]          \* what POST /run returned

ProviderJobs ==
    [ task  : Task \cup {NoTask},
      gen   : Nat,                             \* ghost: the request it serves
      state : {"none", "IN_PROGRESS", "COMPLETED", "FAILED", "CANCELLED"},
      known : BOOLEAN,                         \* GET /status finds it
      wrote : BOOLEAN ]                        \* its manifest was published

NoRow == [ exists |-> FALSE, status |-> "PENDING_SUBMIT", job |-> NoJob,
           claim |-> "none", deferred |-> FALSE, outs |-> NoJob,
           keep |-> FALSE, misses |-> 0, verdict |-> "none" ]
NewRow == [NoRow EXCEPT !.exists = TRUE]
NoEntry == [ held |-> FALSE, status |-> "PENDING_SUBMIT", job |-> NoJob,
             outs |-> NoJob, keep |-> FALSE, misses |-> 0, verdict |-> "none" ]
NewEntry == [NoEntry EXCEPT !.held = TRUE]
Unlocked == [ op |-> "free", by |-> "nobody", task |-> NoTask,
              got |-> "UNKNOWN", sub |-> NoJob ]
Started  == [ pc |-> "dispatch", task |-> NoTask, seen |-> "PENDING_SUBMIT",
              todo |-> {}, skip |-> {} ]
Quiet    == [ op |-> "none", seen |-> [t \in Task |-> NoRow] ]
NoSuchJob == [ task |-> NoTask, gen |-> 0, state |-> "none", known |-> FALSE,
               wrote |-> FALSE ]

TypeOK ==
    /\ row \in [Task -> Rows]
    /\ older \subseteq Task \X Task
    /\ gen \in [Task -> Nat]
    /\ JOBS \in [App -> [Task -> Entries]]
    /\ mon \in [App -> Monitors]
    /\ lock \in [App -> Locks]
    /\ ask \in [App -> Asks]
    /\ job \in [Job -> ProviderJobs]
    /\ manifest \in [Task -> Job \cup {NoJob}]

(* The service starts on an empty queue, beside the rows an older release  *)
(* marked FAILED when the provider answered NOT_FOUND: that release left   *)
(* no reconciliation envelope, and their jobs may still publish a result.  *)
LegacyRow(j) == [NoRow EXCEPT !.exists = TRUE, !.status = "FAILED",
                              !.job = j, !.verdict = "legacy"]
ForgottenJob(t) == [ task |-> t, gen |-> 1, state |-> "IN_PROGRESS",
                     known |-> FALSE, wrote |-> FALSE ]

Init ==
    /\ row = [t \in Task |-> IF LegacyJob[t] = NoJob THEN NoRow
                             ELSE LegacyRow(LegacyJob[t])]
    /\ older = {}
    /\ gen = [t \in Task |-> IF LegacyJob[t] = NoJob THEN 0 ELSE 1]
    /\ JOBS = [p \in App |-> [t \in Task |-> NoEntry]]
    /\ mon = [p \in App |-> Started]
    /\ lock = [p \in App |-> Unlocked]
    /\ ask = [p \in App |-> Quiet]
    /\ job = [j \in Job |-> IF \E t \in Task : LegacyJob[t] = j
                            THEN ForgottenJob(CHOOSE t \in Task : LegacyJob[t] = j)
                            ELSE NoSuchJob]
    /\ manifest = [t \in Task |-> NoJob]

-----------------------------------------------------------------------------
(* Rows and their in-memory copies.                                        *)

(* restore_job_from_task: a row whose old output is kept for a run that    *)
(* has not ended yet is restored without that output.                      *)
Restore(r) ==
    [ held |-> TRUE, status |-> r.status, job |-> r.job,
      outs |-> IF r.keep /\ r.status \notin TERMINAL_STATES THEN NoJob ELSE r.outs,
      keep |-> r.keep, misses |-> r.misses, verdict |-> r.verdict ]

(* Seeded bug: a job without output clears the kept one, too. *)
Recorded_DropsKept(c, r) ==
    LET submitted == c.status \in ACTIVE_STATES \cup TERMINAL_STATES IN
    [ exists |-> TRUE, status |-> c.status, job |-> c.job,
      claim |-> IF submitted THEN "none" ELSE r.claim,
      deferred |-> IF submitted THEN FALSE ELSE r.deferred,
      outs |-> c.outs, keep |-> c.keep /\ c.outs = NoJob,
      misses |-> c.misses, verdict |-> c.verdict ]

(* _record_job_status over _upsert_task: the row becomes what the job in   *)
(* memory says, whatever it was; only a pending status leaves claim and    *)
(* backoff alone, and only kept outputs survive a job without any.         *)
Recorded(c, r) ==
    LET submitted == c.status \in ACTIVE_STATES \cup TERMINAL_STATES IN
    [ exists   |-> TRUE,
      status   |-> c.status,
      job      |-> c.job,
      claim    |-> IF submitted THEN "none" ELSE r.claim,
      deferred |-> IF submitted THEN FALSE ELSE r.deferred,
      outs     |-> IF c.outs # NoJob \/ ~c.keep THEN c.outs ELSE r.outs,
      keep     |-> c.keep /\ c.outs = NoJob,
      misses   |-> c.misses,
      verdict  |-> c.verdict ]

(* _reset_task_for_rework on a row loaded as s that is r by now.  Only the *)
(* columns that differ from what was loaded are written, and only links to *)
(* outputs that were loaded are deleted.                                   *)
Reset(r, s, preserve) ==
    [ exists   |-> TRUE,
      status   |-> "PENDING_SUBMIT",
      job      |-> IF s.job = NoJob THEN r.job ELSE NoJob,
      claim    |-> IF s.claim = "none" THEN r.claim ELSE "none",
      deferred |-> r.deferred /\ ~s.deferred,
      outs     |-> IF preserve \/ r.outs # s.outs THEN r.outs ELSE NoJob,
      keep     |-> preserve,
      misses   |-> 0,
      verdict  |-> "none" ]

(* record_job: p's copy of t becomes c, and so does the row unless the     *)
(* database call fails, which record_job swallows.                         *)
Record(p, t, c) ==
    /\ JOBS' = [JOBS EXCEPT ![p][t] = c]
    /\ \/ row' = [row EXCEPT ![t] = Recorded(c, row[t])]
       \/ "dbError" \in Faults /\ UNCHANGED row

Cache(p, t, c) == JOBS' = [JOBS EXCEPT ![p][t] = c] /\ UNCHANGED row

(* What a handler finds for t under the lock: p's copy, else the row.      *)
Found(p, t)  == JOBS[p][t].held \/ row[t].exists
Loaded(p, t) == IF JOBS[p][t].held THEN JOBS[p][t] ELSE Restore(row[t])

(* The tasks of S are (re)created now: they are the youngest rows, in no   *)
(* particular order among themselves.                                      *)
Youngest(S) == { e \in older : e[1] \notin S /\ e[2] \notin S } \cup
               { e \in (Task \ S) \X S : gen[e[1]] > 0 }

-----------------------------------------------------------------------------
(* JOB_LOCK.                                                               *)

(* Seeded bug: the lock is not held while POST /run is out. *)
LockFree_DuringPost(p) == lock[p].op \in {"free", "post"}

LockFree(p)    == lock[p].op = "free"
MonitorAt(p, pc) == mon[p].pc = pc /\ lock[p].by # "monitor"
Goto(p, pc)    == mon' = [mon EXCEPT ![p].pc = pc]
Hold(p, by, op, t, got, sub) ==
    lock' = [lock EXCEPT ![p] = [op |-> op, by |-> by, task |-> t,
                                 got |-> got, sub |-> sub]]
Unlock(p)      == lock' = [lock EXCEPT ![p] = Unlocked]

-----------------------------------------------------------------------------
(* The provider, RunPod Serverless, and its workers' S3 manifests.         *)

FreshJob(j) == job[j].state = "none" /\ \A i \in Job : i < j => job[i].state # "none"
Accept(j, t) ==
    job' = [job EXCEPT ![j] = [task |-> t, gen |-> gen[t], state |-> "IN_PROGRESS",
                               known |-> TRUE, wrote |-> FALSE]]

(* A job ends.  A worker publishes its manifest before it returns, unless  *)
(* S3 or the worker is late.                                               *)
JobEnds(j, outcome) ==
    /\ job[j].state = "IN_PROGRESS"
    /\ job' = [job EXCEPT ![j].state = outcome,
                          ![j].wrote = outcome = "COMPLETED" /\ "late" \notin Faults]
    /\ manifest' = IF job'[j].wrote THEN [manifest EXCEPT ![job[j].task] = j]
                   ELSE manifest
    /\ UNCHANGED <<dbVars, JOBS, mon, lock, ask>>

(* The manifest key names the task, not the job.                           *)
PublishManifest(j) ==
    /\ job[j].state = "COMPLETED" /\ ~job[j].wrote
    /\ job' = [job EXCEPT ![j].wrote = TRUE]
    /\ manifest' = [manifest EXCEPT ![job[j].task] = j]
    /\ UNCHANGED <<dbVars, JOBS, mon, lock, ask>>

Forget(j) ==
    /\ "gone" \in Faults
    /\ job[j].known
    /\ job' = [job EXCEPT ![j].known = FALSE]
    /\ UNCHANGED <<dbVars, JOBS, mon, lock, ask, manifest>>

Provider == \E j \in Job : \/ \E outcome \in {"COMPLETED", "FAILED"} : JobEnds(j, outcome)
                           \/ PublishManifest(j)
                           \/ Forget(j)

(* Seeded bug: a provider state the code has no name for is taken as it is. *)
Answers_Raw(j) == {job[j].state, "RETRYING"}

(* GET /status of a job the provider knows. *)
Answers(j) == {job[j].state} \cup (IF "unknown" \in Faults THEN {"UNKNOWN"} ELSE {})
Known(j)   == j # NoJob /\ job[j].known

-----------------------------------------------------------------------------
(* Time.  Ages are abstract: a claim is fresh until 300 s have passed, and *)
(* a deferral ends after its 15 s.  Unless calls may be slow, a claim only *)
(* ages once no live thread works on the task any more.                    *)

WorksOn(p, t) == t = mon[p].task \/ t \in mon[p].todo \/ t = lock[p].task

ClaimAges(t) ==
    /\ row[t].claim = "fresh"
    /\ "slowCall" \in Faults \/ \A p \in App : ~WorksOn(p, t)
    /\ row' = [row EXCEPT ![t].claim = "stale"]
    /\ UNCHANGED <<older, gen, JOBS, mon, lock, ask, providerVars>>

DeferralEnds(t) ==
    /\ row[t].deferred
    /\ row' = [row EXCEPT ![t].deferred = FALSE]
    /\ UNCHANGED <<older, gen, JOBS, mon, lock, ask, providerVars>>

Time == \E t \in Task : ClaimAges(t) \/ DeferralEnds(t)

-----------------------------------------------------------------------------
(* Monitor loop, part 1: dispatch_next_pending_submission.                 *)

StaleDispatch(r) == /\ r.exists /\ r.status = "DISPATCHING"
                    /\ r.job = NoJob /\ r.claim = "stale"
StaleRows == { t \in Task : StaleDispatch(row[t]) }

(* _recover_stale_dispatching_submissions selects the rows of stale claims *)
RecoverReads(p) ==
    /\ MonitorAt(p, "dispatch") /\ StaleRows # {}
    /\ mon' = [mon EXCEPT ![p].pc = "recover", ![p].todo = StaleRows]
    /\ UNCHANGED <<dbVars, JOBS, lock, ask, providerVars>>

(* and updates them by their keys, whatever they have become.              *)
RecoverWrites(p) ==
    /\ MonitorAt(p, "recover")
    /\ row' = [t \in Task |->
                  IF t \in mon[p].todo
                  THEN [row[t] EXCEPT !.status = "PENDING_SUBMIT", !.claim = "none"]
                  ELSE row[t]]
    /\ mon' = [mon EXCEPT ![p].pc = "dispatch", ![p].todo = {}]
    /\ UNCHANGED <<older, gen, JOBS, lock, ask, providerVars>>

(* Seeded bug: the claiming update does not test the status again. *)
Eligible_Unconditional(r) == r.exists /\ r.status \in PENDING_STATES /\ ~r.deferred

Eligible(r) == r.exists /\ r.status = "PENDING_SUBMIT" /\ ~r.deferred

(* Interactive tasks go before batch tasks, older before younger.          *)
Before(s, t) == \/ s \notin Batch /\ t \in Batch
                \/ (s \in Batch <=> t \in Batch) /\ <<s, t>> \in older

(* claim_next_pending_submission, once an idle worker is confirmed; it     *)
(* recovers what has become stale by then, too, and its update tests the   *)
(* status again.                                                           *)
ClaimNext(p, t) ==
    /\ MonitorAt(p, "dispatch") /\ StaleRows = {}
    /\ Eligible(row[t])
    /\ \A s \in Task : Eligible(row[s]) => ~Before(s, t)
    /\ row' = [row EXCEPT ![t].status = "DISPATCHING", ![t].claim = "fresh"]
    /\ mon' = [mon EXCEPT ![p].pc = "claimed", ![p].task = t]
    /\ UNCHANGED <<older, gen, JOBS, lock, ask, providerVars>>

(* No idle worker, an unknown capacity, or nothing to submit.              *)
DispatchNothing(p) ==
    /\ MonitorAt(p, "dispatch") /\ StaleRows = {}
    /\ Goto(p, "legacy")
    /\ UNCHANGED <<dbVars, JOBS, lock, ask, providerVars>>

(* assert_task_submission_allowed *)
ActiveOf(users) == { t \in Task : /\ row[t].exists /\ row[t].status \in ACTIVE_STATES
                                  /\ Owner[t] \in users }
(* Seeded bug: the limits are off by one. *)
SubmissionAllowed_OneMore(t) == /\ Cardinality(ActiveOf({Owner[t]})) <= MaxPerUser
                                /\ Cardinality(ActiveOf(User)) <= MaxTotal

SubmissionAllowed(t) == /\ Cardinality(ActiveOf({Owner[t]})) < MaxPerUser
                        /\ Cardinality(ActiveOf(User)) < MaxTotal

(* _dispatch_pending_job up to the reply of POST /run: accepted, or not,   *)
(* or accepted although the caller sees an error.                          *)
DispatchPosts(p, j) ==
    LET t == mon[p].task  c == Restore(row[t]) IN
    /\ MonitorAt(p, "claimed") /\ LockFree(p)
    /\ row[t].exists /\ SubmissionAllowed(t) /\ c.status \in PENDING_STATES
    /\ FreshJob(j) /\ Accept(j, t)
    /\ Cache(p, t, c)
    /\ \/ /\ Hold(p, "monitor", "post", t, "UNKNOWN", j)
          /\ mon' = [mon EXCEPT ![p].pc = "legacy", ![p].task = NoTask]
       \/ /\ "lostReply" \in Faults
          /\ Goto(p, "release")
          /\ UNCHANGED lock
    /\ UNCHANGED <<older, gen, ask, manifest>>

DispatchFails(p) ==
    LET t == mon[p].task  c == Restore(row[t]) IN
    /\ MonitorAt(p, "claimed") /\ LockFree(p)
    /\ row[t].exists
    /\ IF SubmissionAllowed(t) THEN Cache(p, t, c) ELSE UNCHANGED <<JOBS, row>>
    /\ Goto(p, "release")
    /\ UNCHANGED <<older, gen, lock, ask, providerVars>>

(* Seeded bug: the accepted job's id is not recorded. *)
DispatchEnds_WithoutId(p) ==
    LET t == lock[p].task IN
    /\ lock[p].op = "post"
    /\ Record(p, t, [JOBS[p][t] EXCEPT !.status = "QUEUED"])
    /\ Unlock(p)
    /\ UNCHANGED <<older, gen, mon, ask, providerVars>>

(* dispatch_queued_job after the reply. *)
DispatchEnds(p) ==
    LET t == lock[p].task IN
    /\ lock[p].op = "post"
    /\ Record(p, t, [JOBS[p][t] EXCEPT !.status = "QUEUED", !.job = lock[p].sub])
    /\ Unlock(p)
    /\ UNCHANGED <<older, gen, mon, ask, providerVars>>

(* release_pending_submission loads the row,                               *)
ReleaseReads(p) ==
    /\ MonitorAt(p, "release")
    /\ mon' = [mon EXCEPT ![p].pc = "releasing", ![p].seen = row[mon[p].task].status]
    /\ UNCHANGED <<dbVars, JOBS, lock, ask, providerVars>>

(* Seeded bug: the row is written back whatever it was loaded as. *)
ReleaseSubmission_AnyStatus(p) ==
    LET t == mon[p].task IN
    /\ MonitorAt(p, "releasing")
    /\ row' = [row EXCEPT ![t].status = "PENDING_SUBMIT", ![t].claim = "none",
                          ![t].deferred = TRUE]
    /\ mon' = [mon EXCEPT ![p] = [Started EXCEPT !.pc = "legacy"]]
    /\ UNCHANGED <<older, gen, JOBS, lock, ask, providerVars>>

(* returns if it was not DISPATCHING - any DISPATCHING row of that id will *)
(* do -, and otherwise updates it by its key, whatever it has become.      *)
ReleaseSubmission(p) ==
    LET t == mon[p].task IN
    /\ MonitorAt(p, "releasing")
    /\ row' = IF mon[p].seen = "DISPATCHING"
              THEN [row EXCEPT ![t].status = "PENDING_SUBMIT", ![t].claim = "none",
                               ![t].deferred = TRUE]
              ELSE row
    /\ mon' = [mon EXCEPT ![p] = [Started EXCEPT !.pc = "legacy"]]
    /\ UNCHANGED <<older, gen, JOBS, lock, ask, providerVars>>

-----------------------------------------------------------------------------
(* Seeded bug: CANCELLED is not among the terminal states. *)
StatusSections_PollsCancelled(p, t, by) ==
    LET c == Loaded(p, t) IN
    \/ /\ c.status \in PENDING_STATES \cup {"COMPLETED", "FAILED"}
       /\ IF c.status = "COMPLETED" /\ c.outs = NoJob
          THEN Hold(p, by, "import", t, "UNKNOWN", NoJob)
          ELSE UNCHANGED lock
    \/ /\ c.status \notin PENDING_STATES \cup {"COMPLETED", "FAILED"}
       /\ Known(c.job)
       /\ \E a \in Answers(c.job) : Hold(p, by, "poll", t, a, NoJob)

(* job_status, shared by the monitor and GET /jobs/{id}: a pending copy is *)
(* returned as it is, a COMPLETED copy without output starts its import,   *)
(* any other terminal copy is returned, the rest is polled.                *)
StatusSections(p, t, by) ==
    LET c == Loaded(p, t) IN
    \/ /\ c.status \in PENDING_STATES \cup TERMINAL_STATES
       /\ IF c.status = "COMPLETED" /\ c.outs = NoJob
          THEN Hold(p, by, "import", t, "UNKNOWN", NoJob)
          ELSE UNCHANGED lock
    \/ /\ c.status \notin PENDING_STATES \cup TERMINAL_STATES
       /\ Known(c.job)
       /\ \E a \in Answers(c.job) : Hold(p, by, "poll", t, a, NoJob)

Polls(c) == c.status \notin PENDING_STATES \cup TERMINAL_STATES

(* poll_runpod_job after the answer: the copy and the row take the         *)
(* provider's state, and a fresh runpodStatus; then a completed job's      *)
(* output is imported, in a section of its own.                            *)
PollEnds(p) ==
    LET t == lock[p].task
        c == [JOBS[p][t] EXCEPT !.status = lock[p].got, !.misses = 0,
                                !.verdict = "none"] IN
    /\ lock[p].op = "poll"
    /\ Record(p, t, c)
    /\ IF lock[p].got = "COMPLETED" /\ c.outs = NoJob
       THEN lock' = [lock EXCEPT ![p].op = "import"]
       ELSE Unlock(p)
    /\ UNCHANGED <<older, gen, mon, ask, providerVars>>

(* save_runpod_outputs: the manifest under the task's key, if it is there. *)
Imports(t) == {manifest[t]} \cup (IF "late" \in Faults THEN {NoJob} ELSE {})

(* _save_completed_outputs_safely records the copy whether or not the      *)
(* import succeeded.                                                       *)
ImportEnds(p) ==
    LET t == lock[p].task IN
    /\ lock[p].op = "import"
    /\ \E m \in Imports(t) : Record(p, t, [JOBS[p][t] EXCEPT !.outs = m])
    /\ Unlock(p)
    /\ UNCHANGED <<older, gen, mon, ask, providerVars>>

(* A vanished job's output, registered before or importable now.           *)
Outputs(p, t) == IF JOBS[p][t].outs # NoJob THEN {JOBS[p][t].outs} ELSE Imports(t)

(* Seeded bug: a probe that found no manifest passes for a recovery. *)
RecoversFrom_Nothing(p, t, m) ==
    /\ IF JOBS[p][t].outs = NoJob THEN Record(p, t, [JOBS[p][t] EXCEPT !.outs = m])
       ELSE UNCHANGED <<JOBS, row>>
    /\ Hold(p, "monitor", "recover", t, "UNKNOWN", NoJob)

(* It is recorded as it is imported, the new status in a second record.    *)
RecoversFrom(p, t, m) ==
    /\ m # NoJob
    /\ IF JOBS[p][t].outs = NoJob THEN Record(p, t, [JOBS[p][t] EXCEPT !.outs = m])
       ELSE UNCHANGED <<JOBS, row>>
    /\ Hold(p, "monitor", "recover", t, "UNKNOWN", NoJob)

RecoverEnds(p) ==
    LET t == lock[p].task IN
    /\ lock[p].op = "recover"
    /\ Record(p, t, [JOBS[p][t] EXCEPT !.status = "COMPLETED", !.misses = 0,
                                       !.verdict = "none"])
    /\ Unlock(p)
    /\ UNCHANGED <<older, gen, mon, ask, providerVars>>

-----------------------------------------------------------------------------
(* Monitor loop, part 2: the rows an older release failed on a 404.        *)

FreeClaim(r) == r.claim # "fresh"

(* claim_runpod_not_found_recovery_task_ids *)
LegacyRows == { t \in Task : /\ row[t].exists /\ row[t].status = "FAILED"
                             /\ row[t].job # NoJob /\ row[t].outs = NoJob
                             /\ row[t].verdict = "legacy" /\ FreeClaim(row[t]) }
ClaimLegacy(p) ==
    /\ MonitorAt(p, "legacy")
    /\ row' = [t \in Task |-> IF t \in LegacyRows
                              THEN [row[t] EXCEPT !.claim = "fresh"] ELSE row[t]]
    /\ mon' = [mon EXCEPT ![p].pc = IF LegacyRows = {} THEN "active" ELSE "relegacy",
                          ![p].todo = LegacyRows, ![p].skip = LegacyRows]
    /\ UNCHANGED <<older, gen, JOBS, lock, ask, providerVars>>

LegacyReads(p, t) ==
    /\ MonitorAt(p, "relegacy") /\ LockFree(p)
    /\ t \in mon[p].todo
    /\ Cache(p, t, Restore(row[t]))
    /\ Hold(p, "monitor", "legacy", t, "UNKNOWN", NoJob)
    /\ mon' = [mon EXCEPT ![p].pc = IF mon[p].todo = {t} THEN "active" ELSE "relegacy",
                          ![p].todo = mon[p].todo \ {t}]
    /\ UNCHANGED <<older, gen, ask, providerVars>>

(* reconcile_legacy_runpod_job_not_found: the durable output decides.      *)
LegacyEnds(p) ==
    LET t == lock[p].task IN
    /\ lock[p].op = "legacy"
    /\ \E m \in Outputs(p, t) :
         \/ RecoversFrom(p, t, m)
         \/ /\ m = NoJob
            /\ Record(p, t, [JOBS[p][t] EXCEPT !.status = "FAILED", !.misses = 0,
                                               !.verdict = "final"])
            /\ Unlock(p)
    /\ UNCHANGED <<older, gen, mon, ask, providerVars>>

-----------------------------------------------------------------------------
(* Monitor loop, part 3: refresh every active task it can lease.           *)

(* claim_active_task_ids *)
ActiveRows == { t \in Task : /\ row[t].exists /\ row[t].status \in ACTIVE_STATES
                             /\ row[t].job # NoJob /\ FreeClaim(row[t]) }
(* Seeded bug: the retry of an import looks for outputs that are there. *)
ImportRows_Inverted == { t \in Task : /\ row[t].exists /\ row[t].status = "COMPLETED"
                                      /\ row[t].job # NoJob /\ row[t].outs # NoJob }

(* pending_output_import_task_ids *)
ImportRows == { t \in Task : /\ row[t].exists /\ row[t].status = "COMPLETED"
                             /\ row[t].job # NoJob /\ row[t].outs = NoJob }
ClaimActive(p) ==
    LET ids == (ActiveRows \cup ImportRows) \ mon[p].skip IN
    /\ MonitorAt(p, "active")
    /\ row' = [t \in Task |-> IF t \in ActiveRows
                              THEN [row[t] EXCEPT !.claim = "fresh"] ELSE row[t]]
    /\ mon' = [mon EXCEPT ![p] = [Started EXCEPT !.pc = IF ids = {} THEN "dispatch"
                                                         ELSE "poll",
                                                 !.todo = ids]]
    /\ UNCHANGED <<older, gen, JOBS, lock, ask, providerVars>>

Done(p, t) == mon' = [mon EXCEPT ![p] =
    [Started EXCEPT !.pc = IF mon[p].todo \subseteq {t} THEN "dispatch" ELSE "poll",
                    !.todo = mon[p].todo \ {t}]]

MonitorReads(p, t) ==
    /\ MonitorAt(p, "poll") /\ LockFree(p)
    /\ t \in mon[p].todo
    /\ Cache(p, t, Loaded(p, t))
    /\ StatusSections(p, t, "monitor")
    /\ Done(p, t)
    /\ UNCHANGED <<older, gen, ask, providerVars>>

(* The status call answered 404: the lock is left before it is taken again.*)
MonitorMisses(p, t) ==
    /\ MonitorAt(p, "poll") /\ LockFree(p)
    /\ t \in mon[p].todo
    /\ Polls(Loaded(p, t)) /\ ~Known(Loaded(p, t).job)
    /\ Cache(p, t, Loaded(p, t))
    /\ mon' = [mon EXCEPT ![p].pc = "gone", ![p].task = t]
    /\ UNCHANGED <<older, gen, lock, ask, providerVars>>

(* The status call failed otherwise: release_active_task_claim, later and  *)
(* without the lock.                                                       *)
MonitorFails(p, t) ==
    /\ MonitorAt(p, "poll") /\ LockFree(p)
    /\ t \in mon[p].todo
    /\ Polls(Loaded(p, t))
    /\ Cache(p, t, Loaded(p, t))
    /\ mon' = [mon EXCEPT ![p].pc = "failed", ![p].task = t]
    /\ UNCHANGED <<older, gen, lock, ask, providerVars>>

ReleaseActiveClaim(p) ==
    LET t == mon[p].task IN
    /\ MonitorAt(p, "failed")
    /\ row' = IF row[t].status \in ACTIVE_STATES
              THEN [row EXCEPT ![t].claim = "none"] ELSE row
    /\ Done(p, t)
    /\ UNCHANGED <<older, gen, JOBS, lock, ask, providerVars>>

(* reconcile_runpod_job_not_found, on whatever copy JOBS holds by now: a   *)
(* durable output completes the task, too few attempts or too little time  *)
(* keep it open, otherwise it has failed for good.                         *)
Reconcile(p) ==
    LET t == mon[p].task
        c == JOBS[p][t]
        attempts == IF c.misses < MinAttempts THEN c.misses + 1 ELSE MinAttempts
    IN
    /\ MonitorAt(p, "gone") /\ LockFree(p)
    /\ \E m \in Outputs(p, t) :
         \/ RecoversFrom(p, t, m)
         \/ /\ m = NoJob                      \* attempts or grace period left
            /\ Record(p, t, [c EXCEPT !.status = IF c.status \in TERMINAL_STATES
                                                 THEN "IN_PROGRESS" ELSE c.status,
                                      !.misses = attempts, !.verdict = "none"])
            /\ UNCHANGED lock
         \/ /\ m = NoJob /\ attempts = MinAttempts
            /\ Record(p, t, [c EXCEPT !.status = "FAILED", !.misses = 0,
                                      !.verdict = "final"])
            /\ UNCHANGED lock
    /\ Done(p, t)
    /\ UNCHANGED <<older, gen, ask, providerVars>>

Monitor(p) ==
    \/ RecoverReads(p)
    \/ RecoverWrites(p)
    \/ DispatchNothing(p)
    \/ \E t \in Task : ClaimNext(p, t)
    \/ \E j \in Job : DispatchPosts(p, j)
    \/ DispatchFails(p)
    \/ ReleaseReads(p)
    \/ ReleaseSubmission(p)
    \/ ClaimLegacy(p)
    \/ \E t \in Task : LegacyReads(p, t)
    \/ ClaimActive(p)
    \/ \E t \in Task : \/ MonitorReads(p, t)
                       \/ MonitorMisses(p, t)
                       \/ MonitorFails(p, t)
    \/ ReleaseActiveClaim(p)
    \/ Reconcile(p)

(* The second half of a section that holds the lock over a call.           *)
SectionEnds(p) == \/ DispatchEnds(p) \/ PollEnds(p) \/ ImportEnds(p)
                  \/ LegacyEnds(p) \/ RecoverEnds(p)

-----------------------------------------------------------------------------
(* HTTP handlers.                                                          *)

(* POST /jobs: create_job.  A prompt draft that has its task already gets  *)
(* that task back, read afresh from the database.                          *)
Create(p, t) ==
    /\ "create" \in Requests
    /\ LockFree(p)
    /\ \/ /\ row[t].exists
          /\ Cache(p, t, Restore(row[t]))
          /\ UNCHANGED <<older, gen>>
       \/ /\ gen[t] = 0 /\ MaxGen > 0
          /\ Record(p, t, NewEntry)
          /\ gen' = [gen EXCEPT ![t] = 1]
          /\ older' = Youngest({t})
    /\ UNCHANGED <<mon, lock, ask, providerVars>>

(* GET /jobs/{id}.  A failed status call changes nothing but the copy.     *)
GetStatus(p, t) ==
    /\ "status" \in Requests
    /\ LockFree(p) /\ Found(p, t)
    /\ Cache(p, t, Loaded(p, t))
    /\ \/ StatusSections(p, t, "http")
       \/ Polls(Loaded(p, t)) /\ UNCHANGED lock
    /\ UNCHANGED <<older, gen, mon, ask, providerVars>>

(* POST /jobs/{id}/cancel, on the copy this process has: a terminal copy   *)
(* is only reported; without a provider job the cancellation is local;     *)
(* otherwise the provider is told first, and if that fails nothing is.     *)
CancelStarts(p, t) ==
    LET c == Loaded(p, t) IN
    /\ "cancel" \in Requests
    /\ LockFree(p) /\ Found(p, t)
    /\ \/ /\ c.status \in TERMINAL_STATES
          /\ Cache(p, t, c)
          /\ StatusSections(p, t, "http")
          /\ UNCHANGED job
       \/ /\ c.status \notin TERMINAL_STATES /\ c.job = NoJob
          /\ Record(p, t, [c EXCEPT !.status = "CANCELLED", !.misses = 0,
                                    !.verdict = "none"])
          /\ UNCHANGED <<lock, job>>
       \/ /\ c.status \notin TERMINAL_STATES /\ Known(c.job)
          /\ Cache(p, t, c)
          /\ job' = IF job[c.job].state = "IN_PROGRESS"
                    THEN [job EXCEPT ![c.job].state = "CANCELLED"] ELSE job
          /\ Hold(p, "http", "cancel", t, "UNKNOWN", NoJob)
       \/ /\ c.status \notin TERMINAL_STATES /\ c.job # NoJob
          /\ Cache(p, t, c)
          /\ UNCHANGED <<lock, job>>
    /\ UNCHANGED <<older, gen, mon, ask, manifest>>

CancelEnds(p) ==
    LET t == lock[p].task IN
    /\ lock[p].op = "cancel"
    /\ Record(p, t, [JOBS[p][t] EXCEPT !.status = "CANCELLED", !.misses = 0,
                                       !.verdict = "none"])
    /\ Unlock(p)
    /\ UNCHANGED <<older, gen, mon, ask, providerVars>>

(* A new request for the rows loaded: they become pending, youngest last.  *)
Load(S)     == [t \in Task |-> IF t \in S THEN row[t] ELSE NoRow]
Asked(seen) == { t \in Task : seen[t].exists }
UnderWay(t) == { p \in App : ask[p].op \in {"rework", "bulk"} /\ t \in Asked(ask[p].seen) }
Replayable(t) ==
    /\ row[t].exists /\ row[t].status \in TERMINAL_STATES
    /\ gen[t] + Cardinality(UnderWay(t)) < MaxGen     \* bound
Requeue(seen, preserve) ==
    /\ row' = [t \in Task |-> IF t \in Asked(seen) THEN Reset(row[t], seen[t], preserve)
                              ELSE row[t]]
    /\ gen' = [t \in Task |-> IF t \in Asked(seen) THEN gen[t] + 1 ELSE gen[t]]
    /\ older' = Youngest(Asked(seen))

(* POST /history/{id}/rework loads the row without a lock and tests it.    *)
ReworkReads(p, t) ==
    /\ "rework" \in Requests
    /\ ask[p].op = "none"                    \* bound: one request per process
    /\ Replayable(t)
    /\ ask' = [ask EXCEPT ![p] = [op |-> "rework", seen |-> Load({t})]]
    /\ UNCHANGED <<dbVars, JOBS, mon, lock, providerVars>>

ReworkWrites(p) ==
    /\ ask[p].op = "rework"
    /\ Requeue(ask[p].seen, FALSE)
    /\ ask' = [ask EXCEPT ![p] = [op |-> "publish",
                                  seen |-> [t \in Task |-> IF t \in Asked(ask[p].seen)
                                                           THEN row'[t] ELSE NoRow]]]
    /\ UNCHANGED <<JOBS, mon, lock, providerVars>>

(* Only then is the lock taken to replace this process's copy by the one   *)
(* restored from the row, some time after the commit.                      *)
ReworkPublished(p) ==
    /\ ask[p].op = "publish" /\ LockFree(p)
    /\ \E t \in Asked(ask[p].seen) :
         \E c \in {Restore(ask[p].seen[t]), Restore(row[t])} : Cache(p, t, c)
    /\ ask' = [ask EXCEPT ![p] = Quiet]
    /\ UNCHANGED <<older, gen, mon, lock, providerVars>>

(* POST /history/runpod/rework: no process's copy is touched.              *)
BulkReads(p, S) ==
    /\ "bulk" \in Requests
    /\ ask[p].op = "none" /\ S # {}
    /\ \A t \in S : Replayable(t)
    /\ ask' = [ask EXCEPT ![p] = [op |-> "bulk", seen |-> Load(S)]]
    /\ UNCHANGED <<dbVars, JOBS, mon, lock, providerVars>>

BulkWrites(p) ==
    /\ ask[p].op = "bulk"
    /\ Requeue(ask[p].seen, FALSE)
    /\ ask' = [ask EXCEPT ![p] = Quiet]
    /\ UNCHANGED <<JOBS, mon, lock, providerVars>>

(* POST /prompts/image-drafts/{id}/requeue-runpod: nor here, and the old   *)
(* output stays until the new run has one.  The row is read FOR UPDATE.    *)
DraftRequeue(t) ==
    /\ "draft" \in Requests
    /\ Replayable(t)
    /\ Requeue(Load({t}), TRUE)
    /\ UNCHANGED <<JOBS, mon, lock, ask, providerVars>>

Handler(p) ==
    \/ CancelEnds(p)
    \/ ReworkWrites(p) \/ ReworkPublished(p) \/ BulkWrites(p)
    \/ \E S \in SUBSET Task : BulkReads(p, S)
    \/ \E t \in Task : \/ Create(p, t) \/ GetStatus(p, t) \/ CancelStarts(p, t)
                       \/ ReworkReads(p, t)

(* A process dies with its memory, its locks and its threads, and starts   *)
(* over.                                                                   *)
Crash(p) ==
    /\ "crash" \in Faults
    /\ JOBS' = [JOBS EXCEPT ![p] = [t \in Task |-> NoEntry]]
    /\ mon' = [mon EXCEPT ![p] = Started]
    /\ lock' = [lock EXCEPT ![p] = Unlocked]
    /\ ask' = [ask EXCEPT ![p] = Quiet]
    /\ UNCHANGED <<dbVars, providerVars>>

Next ==
    \/ \E p \in App : Monitor(p) \/ SectionEnds(p) \/ Handler(p) \/ Crash(p)
    \/ \E t \in Task : DraftRequeue(t)
    \/ Provider
    \/ Time

Spec == Init /\ [][Next]_vars

-----------------------------------------------------------------------------
(* Properties.                                                             *)

Created(j) == job[j].state # "none"

(* A task is only ever reported COMPLETED when some run of that very task  *)
(* completed at the provider, and the output registered for a task is one  *)
(* a completed run of that task published - whatever processes crash,      *)
(* replies get lost, writes fail or copies are stale.                      *)
SuccessIsReal ==
    \A t \in Task : row[t].exists =>
        /\ row[t].status = "COMPLETED" =>
              \E j \in Job : job[j].task = t /\ job[j].state = "COMPLETED"
        /\ row[t].outs # NoJob =>
              /\ job[row[t].outs].task = t
              /\ job[row[t].outs].state = "COMPLETED" /\ job[row[t].outs].wrote

(* No row is stranded: whatever has not ended is found again by the query  *)
(* that moves it on - a DISPATCHING row has a claim to expire and no job,  *)
(* or a thread that still submits it, an active row has the provider job   *)
(* to poll.  (A row written over after it was looked at may wait with the  *)
(* job of an earlier run; the next claim takes it, but the recovery would  *)
(* not find it should the claiming thread die.)                            *)
Submits(p, t) ==
    \/ mon[p].pc \in {"claimed", "release"} /\ mon[p].task = t
    \/ mon[p].pc = "releasing" /\ mon[p].task = t /\ mon[p].seen = "DISPATCHING"
    \/ lock[p].op = "post" /\ lock[p].task = t
NoStrandedTask ==
    \A t \in Task : row[t].exists =>
        /\ row[t].status = "DISPATCHING" =>
              /\ row[t].claim # "none"
              /\ row[t].job = NoJob \/ \E p \in App : Submits(p, t)
        /\ row[t].status \in ACTIVE_STATES => row[t].job # NoJob
        /\ row[t].status # "UNKNOWN"

(* A task is never submitted more often than it was asked to run,          *)
(* whichever processes claim it and however the requests overlap.          *)
SubmittedOnce ==
    \A t \in Task : Cardinality({ j \in Job : Created(j) /\ job[j].task = t }) <= gen[t]

(* The active rows never exceed the execution policy. *)
ActiveWithinPolicy ==
    /\ Cardinality(ActiveOf(User)) <= MaxTotal
    /\ \A o \in User : Cardinality(ActiveOf({o})) <= MaxPerUser

(* Once a task is cancelled, no provider job of that request still runs. *)
CancelStopsProvider ==
    \A t \in Task : row[t].exists /\ row[t].status = "CANCELLED" =>
        ~\E j \in Job : job[j].task = t /\ job[j].gen = gen[t]
                        /\ job[j].state = "IN_PROGRESS"

(* A terminal row leaves its status only for a new request to run it, when *)
(* a result turns up for a failure an older release wrote down, or when it *)
(* ended just after a release or a recovery had loaded it as DISPATCHING:  *)
(* that write does not look again, and the task waits to be run once more. *)
WrittenOver(t) == \E p \in App :
    \/ mon[p].pc = "releasing" /\ mon[p].task = t /\ mon[p].seen = "DISPATCHING"
    \/ mon[p].pc = "recover" /\ t \in mon[p].todo
EndIsFinal ==
    [][\A t \in Task : row[t].exists /\ row[t].status \in TERMINAL_STATES =>
          \/ row'[t].status = row[t].status
          \/ gen'[t] > gen[t]
          \/ WrittenOver(t) /\ row'[t].status = "PENDING_SUBMIT"
          \/ row[t].verdict = "legacy" /\ row'[t].status = "COMPLETED"]_vars

(* An output kept for a requeued prompt is only ever replaced by a         *)
(* completed run's output.                                                 *)
PriorOutputKept ==
    [][\A t \in Task : row[t].keep /\ row[t].outs # NoJob =>
          row'[t].outs # NoJob \/ gen'[t] > gen[t]]_vars

(* The queue keeps the promise of TaskLifecycle: a row and the provider's  *)
(* jobs of its current request, seen as one phase and a number of runs.    *)
PhaseOf(t) == IF ~row[t].exists THEN "new"
              ELSE IF row[t].status \in PENDING_STATES THEN "waiting"
              ELSE IF row[t].status \in ACTIVE_STATES THEN "running"
              ELSE row[t].status
RunsOf(t) == Cardinality({ j \in Job : /\ Created(j) /\ job[j].task = t
                                       /\ job[j].gen = gen[t] })
Lifecycle == INSTANCE TaskLifecycle
             WITH Amendable <- { t \in Task : LegacyJob[t] # NoJob },
                  asked     <- gen,
                  phase     <- [t \in Task |-> PhaseOf(t)],
                  runs      <- [t \in Task |-> RunsOf(t)]
KeepsLifecycle == Lifecycle!Spec

-----------------------------------------------------------------------------
(* Progress.  The monitor threads and the sections that hold a lock keep   *)
(* going (asyncio runs the loop forever and every network call has a       *)
(* timeout), time passes, the provider ends what it runs and its workers   *)
(* publish; a worker is idle again and again, no submission, status call   *)
(* or import that is tried again and again always fails, and the grace     *)
(* period of a vanished job ends.                                          *)
ImportSucceeds(p) == ImportEnds(p) /\ JOBS'[p][lock[p].task].outs # NoJob
GraceEnds(p) == Reconcile(p) /\ JOBS'[p][mon[p].task].status \in TERMINAL_STATES

Fairness ==
    /\ \A p \in App :
          /\ WF_vars(Monitor(p))
          /\ WF_vars(SectionEnds(p))
          /\ WF_vars(CancelEnds(p))
          /\ WF_vars(ReworkWrites(p) \/ BulkWrites(p) \/ ReworkPublished(p))
          /\ SF_vars(ImportSucceeds(p)) /\ SF_vars(GraceEnds(p))
          /\ SF_vars(\E t \in Task : ClaimNext(p, t))
          /\ SF_vars(\E j \in Job : DispatchPosts(p, j))
          /\ \A t \in Task : SF_vars(MonitorReads(p, t) \/ MonitorMisses(p, t))
    /\ \A j \in Job : /\ WF_vars(\E o \in {"COMPLETED", "FAILED"} : JobEnds(j, o))
                      /\ WF_vars(PublishManifest(j))
    /\ \A t \in Task : WF_vars(ClaimAges(t)) /\ WF_vars(DeferralEnds(t))

LiveSpec == Spec /\ Fairness

(* Every task that was accepted ends, with nobody looking at it; and a     *)
(* completed one gets its own output, however late the manifest is: it     *)
(* neither stays without one nor keeps that of an earlier run forever.     *)
EveryTaskEnds == \A t \in Task :
    /\ row[t].exists ~> row[t].exists /\ row[t].status \in TERMINAL_STATES
    /\ (row[t].exists /\ row[t].status = "COMPLETED") ~>
         (row[t].status # "COMPLETED" \/ (row[t].outs # NoJob /\ ~row[t].keep))
=============================================================================
