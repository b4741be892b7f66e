----------------------------- MODULE WebtoonCuts -----------------------------
(***************************************************************************)
(* Webtoon cut jobs: a user asks for the cuts of a PDF, an image or a ZIP; *)
(* one worker in each process claims the oldest pending job, cuts the      *)
(* source unit by unit (a page of a PDF, an image of a ZIP) and stores     *)
(* each cut in a transaction of its own.  Users cancel and delete jobs     *)
(* meanwhile.                                                              *)
(*                                                                         *)
(* Each read that is written back later, by a request or by the worker, is *)
(* a step of its own; the database commits one transaction at a time.      *)
(***************************************************************************)
EXTENDS Naturals, FiniteSets, Sequences

CONSTANTS
    Job,            \* the jobs that may be created, in this order
    User,
    Request,        \* requests that may be handled at once, of the same user or not
    App,            \* processes, each with one worker
    Path,           \* display paths of cuts
    Source,         \* sources: per unit, the paths of the cuts the engine makes of it
    Faults,         \* what may go wrong, a subset of FaultKinds
    MaxCrashes      \* bound: times a process dies

FaultKinds ==
    { "noSource",   \* the source's asset is gone
      "unreadable", \* the source cannot be fetched, or its pages not be counted
      "breaks" }    \* the engine or the storage of a cut raises

NoJob == 0

ASSUME JobAssumption    == Job \subseteq Nat \ {NoJob} /\ IsFiniteSet(Job)
ASSUME UserAssumption   == User # {}
ASSUME SourceAssumption == Source \subseteq Seq(Seq(Path)) /\ Source # {}
ASSUME FaultsAssumption == Faults \subseteq FaultKinds
ASSUME BoundsAssumption == MaxCrashes \in Nat

VARIABLES
    job,        \* webtoon_cut_jobs
    output,     \* webtoon_cut_outputs: per job, the paths of its cuts
    worker,     \* per process, what its worker is at
    request,    \* what was read for each request that is handled
    looked,     \* history: the user's jobs that were there when a job's request looked
    crashes     \* crashes so far

vars == <<job, output, worker, request, looked, crashes>>

-----------------------------------------------------------------------------
Terminal == {"completed", "failed", "cancelled"}
Active   == {"pending", "running"}
Stopped  == {"cancel_requested", "cancelled", "failed"}

Jobs == [status: {"none"} \cup Active \cup Terminal, by: User, source: Source, deleted: BOOLEAN,
         total: Nat, done: Nat, made: Nat]

Workers ==
    [pc: {"idle", "open", "begin", "cut", "store", "except", "finish", "end"},
     job: Job \cup {NoJob}, unit: Nat, cut: Nat, completes: BOOLEAN]

Requests == [pc: {"idle", "create", "cancel"}, by: User, job: Job \cup {NoJob}, seen: SUBSET Job]

TypeOK ==
    /\ job \in [Job -> Jobs]
    /\ output \in [Job -> SUBSET Path]
    /\ worker \in [App -> Workers]
    /\ request \in [Request -> Requests]
    /\ looked \in [Job -> SUBSET Job]
    /\ crashes \in 0..MaxCrashes

SomeUser == CHOOSE u \in User : TRUE
NoRow    == [status |-> "none", by |-> SomeUser, source |-> CHOOSE s \in Source : TRUE,
             deleted |-> FALSE, total |-> 0, done |-> 0, made |-> 0]
IdleWorker == [pc |-> "idle", job |-> NoJob, unit |-> 1, cut |-> 1, completes |-> FALSE]
IdleRequest == [pc |-> "idle", by |-> SomeUser, job |-> NoJob, seen |-> {}]

Init ==
    /\ job = [j \in Job |-> NoRow]
    /\ output = [j \in Job |-> {}]
    /\ worker = [a \in App |-> IdleWorker]
    /\ request = [q \in Request |-> IdleRequest]
    /\ looked = [j \in Job |-> {}]
    /\ crashes = 0

Oldest(S) == CHOOSE j \in S : \A k \in S : j <= k

-----------------------------------------------------------------------------
(* Requests                                                                *)

IsIdle(q)     == request[q].pc = "idle"
Answered(q)   == request' = [request EXCEPT ![q] = IdleRequest]
Visible(u, j) == job[j].status # "none" /\ ~job[j].deleted /\ job[j].by = u

Free        == {j \in Job : job[j].status = "none"}
JobsOf(u)   == {j \in Job : job[j].status # "none" /\ job[j].by = u}
ActiveOf(u) == {j \in Job : Visible(u, j) /\ job[j].status \in Active}

(* create_job: the user's active jobs are looked up, then the job stored.  *)
(* Nothing keeps a second request of his from looking in between.          *)
CreateReads(q, u) ==
    /\ IsIdle(q) /\ ActiveOf(u) = {}
    /\ Cardinality(Free) > Cardinality({o \in Request : request[o].pc = "create"})
    /\ request' = [request EXCEPT ![q] = [IdleRequest EXCEPT !.pc = "create", !.by = u, !.seen = JobsOf(u)]]
    /\ UNCHANGED <<job, output, worker, looked, crashes>>

CreateCommits(q) ==
    /\ request[q].pc = "create" /\ Oldest(Free) \in Free
    /\ \E s \in Source : job' = [job EXCEPT ![Oldest(Free)] =
                                    [NoRow EXCEPT !.status = "pending", !.by = request[q].by, !.source = s]]
    /\ looked' = [looked EXCEPT ![Oldest(Free)] = request[q].seen]
    /\ Answered(q)
    /\ UNCHANGED <<output, worker, crashes>>

Cancelled_Requested == "cancel_requested"
Cancelled           == "cancelled"

(* cancel_job: "cancelled" is written over what the job has become.        *)
CancelReads(q, u) ==
    /\ IsIdle(q)
    /\ \E j \in ActiveOf(u) : request' = [request EXCEPT ![q] = [IdleRequest EXCEPT !.pc = "cancel", !.by = u, !.job = j]]
    /\ UNCHANGED <<job, output, worker, looked, crashes>>

CancelCommits(q) ==
    /\ request[q].pc = "cancel"
    /\ job' = [job EXCEPT ![request[q].job].status = Cancelled]
    /\ Answered(q)
    /\ UNCHANGED <<output, worker, looked, crashes>>

Deletable_Any(j) == TRUE
Deletable(j)     == job[j].status \in Terminal

(* delete_job                                                              *)
Deletes(u) ==
    /\ \E j \in Job : Visible(u, j) /\ Deletable(j) /\ job' = [job EXCEPT ![j].deleted = TRUE]
    /\ UNCHANGED <<output, worker, request, looked, crashes>>

-----------------------------------------------------------------------------
(* The worker                                                              *)

Goes(a, pc) == worker' = [worker EXCEPT ![a].pc = pc]
Ends(a)     == worker' = [worker EXCEPT ![a] = IdleWorker]
Mine(a)     == worker[a].job
Cuts(a)     == job[Mine(a)].source[worker[a].unit]
IsStopped(a) == job[Mine(a)].status \in Stopped

(* _pending_job_claim_statement: locked, so that nobody else claims it.    *)
Pending        == {j \in Job : job[j].status = "pending" /\ ~job[j].deleted}

NextOf_InOrder(S) == Oldest(S \cup {j \in Job : job[j].status = "running"})
NextOf(S)         == Oldest(S)

Claims(a) ==
    /\ worker[a].pc = "idle"
    /\ Pending # {} /\ NextOf(Pending) \in Pending
    /\ job' = [job EXCEPT ![NextOf(Pending)].status = "running"]
    /\ worker' = [worker EXCEPT ![a] = [IdleWorker EXCEPT !.pc = "open", !.job = NextOf(Pending)]]
    /\ UNCHANGED <<output, request, looked, crashes>>

Units(s) == IF s = <<>> THEN 1 ELSE Len(s)

Opened_Running(r) == [r EXCEPT !.total = Units(r.source), !.status = "running"]

(* The number of units; of a ZIP without images it is one.                 *)
Opened(r) == [r EXCEPT !.total = Units(r.source)]

(* process_job up to the first unit.  What it raises here leaves the job   *)
(* as it is: the loop of the process logs it and goes on.                  *)
Opens(a) ==
    /\ worker[a].pc = "open"
    /\ \/ job' = [job EXCEPT ![Mine(a)] = Opened(@)] /\ Goes(a, "begin")
       \/ "noSource" \in Faults /\ job' = [job EXCEPT ![Mine(a)].status = "failed"] /\ Ends(a)
       \/ "unreadable" \in Faults /\ UNCHANGED job /\ Ends(a)
    /\ UNCHANGED <<output, request, looked, crashes>>

(* Before a unit is cut, and again before its cuts are stored, the worker  *)
(* looks whether the job was cancelled.                                    *)
Begins(a) ==
    /\ worker[a].pc = "begin"
    /\ Goes(a, IF worker[a].unit > Len(job[Mine(a)].source) \/ IsStopped(a) THEN "finish" ELSE "cut")
    /\ UNCHANGED <<job, output, request, looked, crashes>>

CutsUnit(a) ==
    /\ worker[a].pc = "cut"
    /\ \/ IsStopped(a) /\ Goes(a, "finish")
       \/ ~IsStopped(a) /\ Goes(a, "store")
       \/ "breaks" \in Faults /\ Goes(a, "except")
    /\ UNCHANGED <<job, output, request, looked, crashes>>

(* register_output: a path that the job has already is not stored again.   *)
Registered(r, o, p) == IF p \in o THEN r ELSE [r EXCEPT !.made = @ + 1]

(* _store_result, one cut: a deleted job is not found any more.            *)
StoresCut(a) ==
    LET p == Cuts(a)[worker[a].cut]
    IN  /\ worker[a].pc = "store" /\ worker[a].cut <= Len(Cuts(a))
        /\ \/ /\ ~job[Mine(a)].deleted
              /\ job' = [job EXCEPT ![Mine(a)] = Registered(@, output[Mine(a)], p)]
              /\ output' = [output EXCEPT ![Mine(a)] = @ \cup {p}]
              /\ worker' = [worker EXCEPT ![a].cut = @ + 1]
           \/ /\ job[Mine(a)].deleted \/ "breaks" \in Faults
              /\ Goes(a, "except") /\ UNCHANGED <<job, output>>
        /\ UNCHANGED <<request, looked, crashes>>

StoresUnit(a) ==
    /\ worker[a].pc = "store" /\ worker[a].cut > Len(Cuts(a))
    /\ job' = [job EXCEPT ![Mine(a)].done = @ + 1]
    /\ worker' = [worker EXCEPT ![a].pc = "begin", ![a].unit = @ + 1, ![a].cut = 1]
    /\ UNCHANGED <<output, request, looked, crashes>>

(* _fail_job: "failed" is written over what the job has become.            *)
Excepts(a) ==
    /\ worker[a].pc = "except"
    /\ job' = [job EXCEPT ![Mine(a)].status = "failed"]
    /\ Ends(a)
    /\ UNCHANGED <<output, request, looked, crashes>>

Completes_UnlessFailed(r) == r.status # "failed"
Completes(r)              == r.status \notin {"failed", "cancelled"}

FinishReads(a) ==
    /\ worker[a].pc = "finish"
    /\ worker' = [worker EXCEPT ![a].pc = "end", ![a].completes = Completes(job[Mine(a)])]
    /\ UNCHANGED <<job, output, request, looked, crashes>>

FinishCommits(a) ==
    /\ worker[a].pc = "end"
    /\ job' = IF worker[a].completes THEN [job EXCEPT ![Mine(a)].status = "completed"] ELSE job
    /\ Ends(a)
    /\ UNCHANGED <<output, request, looked, crashes>>

(* A process dies, with its worker and the requests it was handling.       *)
Crash(a) ==
    /\ crashes < MaxCrashes
    /\ crashes' = crashes + 1
    /\ Ends(a)
    /\ \E lost \in SUBSET Request : request' = [q \in Request |-> IF q \in lost THEN IdleRequest ELSE request[q]]
    /\ UNCHANGED <<job, output, looked>>

-----------------------------------------------------------------------------
Commits(q)  == CreateCommits(q) \/ CancelCommits(q)
Reads(q, u) == CreateReads(q, u) \/ CancelReads(q, u)
Works(a)   ==
    \/ Claims(a) \/ Opens(a) \/ Begins(a) \/ CutsUnit(a) \/ StoresCut(a) \/ StoresUnit(a)
    \/ Excepts(a) \/ FinishReads(a) \/ FinishCommits(a)

Next ==
    \/ \E q \in Request, u \in User : Reads(q, u)
    \/ \E q \in Request : Commits(q)
    \/ \E u \in User : Deletes(u)
    \/ \E a \in App : Works(a) \/ Crash(a)

Spec == Init /\ [][Next]_vars

(* monitor_webtoon_cut_jobs calls the worker for ever, and a handler that  *)
(* was called goes on.                                                     *)
LiveSpec ==
    /\ Spec
    /\ \A a \in App : WF_vars(Works(a))
    /\ \A q \in Request : WF_vars(Commits(q))

-----------------------------------------------------------------------------
(* create_job: a job that a request has looked past is not active beside   *)
(* the one it stores, however cancellations, deletions and the worker's    *)
(* last writes fall: a user has two active jobs only if he asked for both  *)
(* at once, the second request looking before the first one's job was      *)
(* stored.  (That can happen: the table's index is not a unique one.)      *)
OneActivePerUser ==
    \A j, k \in Job : j < k /\ {job[j].status, job[k].status} \subseteq Active /\ job[j].by = job[k].by
                       => j \notin looked[k]

(* process_next_pending_job: a job is worked on by one worker, ever.       *)
ClaimedOnce == \A a, b \in App : Mine(a) = Mine(b) /\ Mine(a) # NoJob => a = b

AllPaths(s) == UNION {{s[n][k] : k \in DOMAIN s[n]} : n \in DOMAIN s}

(* process_job: what is shown as completed has all its units and all their *)
(* cuts, also when it was cancelled, failed or deleted on the way.         *)
CompletedIsWhole ==
    \A j \in Job : job[j].status = "completed" =>
        job[j].done = Len(job[j].source) /\ output[j] = AllPaths(job[j].source)

(* A job that is over stays over: the worker that still works on it writes *)
(* nothing that makes it active again.                                     *)
StoppedForGood == [][\A j \in Job : job[j].status \in Terminal => job'[j].status \in Terminal]_vars

Abandoned(j) == job[j].status = "running" /\ \A a \in App : Mine(a) # j

(* Every job is claimed and ends, past any job that was left running by a  *)
(* crash or by a source that could not be read, and left so itself only    *)
(* for one of these reasons.                                               *)
EveryJobEnds ==
    \A j \in Job : job[j].status \in Active ~> job[j].status \in Terminal \/ Abandoned(j)

=============================================================================
