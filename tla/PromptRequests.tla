---------------------------- MODULE PromptRequests ----------------------------
(***************************************************************************)
(* Prompts that a language model writes at RunPod: the request is stored,  *)
(* submitted and recorded by its handler, and followed to its end by the   *)
(* monitor loop of every process, which asks for all requests that are     *)
(* under way and commits what it heard at the end of its pass.             *)
(***************************************************************************)
EXTENDS Naturals, FiniteSets

CONSTANTS
    Request, App,
    Faults      \* subset of {"lostReply", "noReply", "crash", "cold", "unnamed"}

Asked    == {"SUBMITTING", "SUBMITTED", "IN_QUEUE", "QUEUED", "IN_PROGRESS", "RUNNING"}
Failed   == {"FAILED", "CANCELLED", "TIMED_OUT"}
Ended    == {"COMPLETED"} \cup Failed
Statuses == Asked \cup Ended \cup {"none", "UNKNOWN"}

VARIABLES
    row,      \* prompt_generation_requests: status, and whether it has a job id
    outputs,  \* prompt_generation_outputs: how many each request has
    handler,  \* POST /prompts/generate: where the request's handler is
    job,      \* RunPod's job for the request
    old,      \* requests older than prompt_llm_cold_start_timeout
    pass      \* the monitor's pass of each process

vars == <<row, outputs, handler, job, old, pass>>

Alive == {"IN_QUEUE", "IN_PROGRESS"}
Ends  == {"COMPLETED", "GARBLED"} \cup Failed     \* GARBLED: it answers, but no prompt
NewPass == [busy |-> FALSE, todo |-> {}, given |-> {}, adds |-> {},
            read |-> [r \in Request |-> "none"], status |-> [r \in Request |-> "none"]]

Rows == [status: Statuses, job: BOOLEAN]

TypeOK ==
    /\ row \in [Request -> Rows]
    /\ outputs \in [Request -> 0..Cardinality(App)]
    /\ handler \in [Request -> {"none", "submits", "accepted", "fails", "over"}]
    /\ job \in [Request -> {"none"} \cup Alive \cup Ends]
    /\ old \in SUBSET Request
    /\ pass \in [App -> [busy: BOOLEAN, todo: SUBSET Request, given: SUBSET Request, adds: SUBSET Request,
                         read: [Request -> Statuses], status: [Request -> Statuses]]]

Init ==
    /\ row = [r \in Request |-> [status |-> "none", job |-> FALSE]]
    /\ outputs = [r \in Request |-> 0]
    /\ handler = [r \in Request |-> "none"]
    /\ job = [r \in Request |-> "none"]
    /\ old = {}
    /\ pass = [p \in App |-> NewPass]

-----------------------------------------------------------------------------
(* The handler: _submit_async_runpod_prompt_generation                     *)

At(r, pc, next) == handler[r] = pc /\ handler' = [handler EXCEPT ![r] = next]

Stores(r) ==
    /\ At(r, "none", "submits")
    /\ row' = [row EXCEPT ![r].status = "SUBMITTING"]
    /\ UNCHANGED <<outputs, job, old, pass>>

(* submit_runpod_vllm_job, one call without a retry: it is refused, or the *)
(* job is made and its id comes back or gets lost.                         *)
Submits(r) ==
    /\ \/ At(r, "submits", "accepted") /\ job' = [job EXCEPT ![r] = "IN_QUEUE"]
       \/ At(r, "submits", "fails") /\ UNCHANGED job
       \/ "lostReply" \in Faults /\ At(r, "submits", "fails") /\ job' = [job EXCEPT ![r] = "IN_QUEUE"]
    /\ UNCHANGED <<row, outputs, old, pass>>

Records(r) ==
    /\ \/ At(r, "accepted", "over") /\ row' = [row EXCEPT ![r] = [status |-> "IN_QUEUE", job |-> TRUE]]
       \/ At(r, "fails", "over") /\ row' = [row EXCEPT ![r].status = "FAILED"]
    /\ UNCHANGED <<outputs, job, old, pass>>

-----------------------------------------------------------------------------
(* The monitor: monitor_active_prompt_generations                          *)

Active_WithoutProgress == {"SUBMITTING", "SUBMITTED", "IN_QUEUE", "QUEUED"}
Active                 == Asked

(* The rows are read at the start; the outputs are seen as of that moment. *)
Lists(p) ==
    /\ ~pass[p].busy
    /\ LET listed == { r \in Request : row[r].job /\ row[r].status \in Active }
           status == [r \in Request |-> IF r \in listed THEN row[r].status ELSE "none"]
       IN  /\ listed # {}
           /\ pass' = [pass EXCEPT ![p] = [busy |-> TRUE, todo |-> listed, adds |-> {}, read |-> status,
                                           given |-> { r \in listed : outputs[r] > 0 }, status |-> status]]
    /\ UNCHANGED <<row, outputs, handler, job, old>>

Heard(p, r, s) == pass' = [pass EXCEPT ![p].todo = @ \ {r}, ![p].status[r] = s]

(* A request past its time is cancelled, whatever the call answers, and    *)
(* given up.                                                               *)
GivesUp(p, r) ==
    /\ r \in pass[p].todo /\ r \in old
    /\ \/ UNCHANGED job
       \/ job[r] \in Alive /\ job' = [job EXCEPT ![r] = "CANCELLED"]
    /\ Heard(p, r, "TIMED_OUT")
    /\ UNCHANGED <<row, outputs, handler, old>>

(* A prompt is stored once, so far as this pass can see.                   *)
Takes(p, r) ==
    pass' = [pass EXCEPT ![p].todo = @ \ {r}, ![p].status[r] = "COMPLETED",
                         ![p].adds = IF r \in pass[p].given THEN @ ELSE @ \cup {r}]

Hears(p, r) ==
    /\ r \in pass[p].todo /\ r \notin old
    /\ \/ job[r] \in Alive \cup Failed /\ Heard(p, r, job[r])
       \/ job[r] = "COMPLETED" /\ Takes(p, r)
       \/ job[r] = "GARBLED" /\ Heard(p, r, "FAILED")
       \/ "unnamed" \in Faults /\ job[r] \in Alive /\ Heard(p, r, "UNKNOWN")
    /\ UNCHANGED <<row, outputs, handler, job, old>>

(* The call fails, or RunPod does not know the job any more.               *)
HearsNothing(p, r) ==
    /\ "noReply" \in Faults /\ r \in pass[p].todo /\ r \notin old
    /\ pass' = [pass EXCEPT ![p].todo = @ \ {r}]
    /\ UNCHANGED <<row, outputs, handler, job, old>>

(* One commit for the whole pass, of the statuses that it changed and the  *)
(* prompts that it adds.                                                   *)
Commits(p) ==
    /\ pass[p].busy /\ pass[p].todo = {}
    /\ row' = [r \in Request |-> IF pass[p].status[r] = pass[p].read[r] THEN row[r]
                                 ELSE [row[r] EXCEPT !.status = pass[p].status[r]]]
    /\ outputs' = [r \in Request |-> outputs[r] + IF r \in pass[p].adds THEN 1 ELSE 0]
    /\ pass' = [pass EXCEPT ![p] = NewPass]
    /\ UNCHANGED <<handler, job, old>>

(* A process dies: its pass is lost, and the handlers it may have.         *)
Crash(p) ==
    /\ "crash" \in Faults /\ (pass[p].busy \/ \E r \in Request : handler[r] \in {"submits", "accepted", "fails"})
    /\ pass' = [pass EXCEPT ![p] = NewPass]
    /\ \E lost \in SUBSET { r \in Request : handler[r] \in {"submits", "accepted", "fails"} } :
          handler' = [r \in Request |-> IF r \in lost THEN "over" ELSE handler[r]]
    /\ UNCHANGED <<row, outputs, job, old>>

-----------------------------------------------------------------------------
(* RunPod, and time                                                        *)

JobStarts(r) ==
    /\ job[r] = "IN_QUEUE" /\ job' = [job EXCEPT ![r] = "IN_PROGRESS"]
    /\ UNCHANGED <<row, outputs, handler, old, pass>>

JobEnds(r) ==
    /\ job[r] \in Alive
    /\ \E s \in Ends : job' = [job EXCEPT ![r] = s]
    /\ UNCHANGED <<row, outputs, handler, old, pass>>

(* prompt_llm_cold_start_timeout passes before the job has ended.          *)
Ages(r) ==
    /\ "cold" \in Faults /\ row[r].status # "none" /\ r \notin old
    /\ old' = old \cup {r}
    /\ UNCHANGED <<row, outputs, handler, job, pass>>

Generates(r) == Stores(r) \/ Submits(r) \/ Records(r)
Monitor(p) == Lists(p) \/ Commits(p) \/ \E r \in Request : GivesUp(p, r) \/ Hears(p, r) \/ HearsNothing(p, r)

Next ==
    \/ \E r \in Request : Generates(r) \/ JobStarts(r) \/ JobEnds(r) \/ Ages(r)
    \/ \E p \in App : Monitor(p) \/ Crash(p)

Spec == Init /\ [][Next]_vars

-----------------------------------------------------------------------------
(* monitor_active_prompt_generations refreshes requests "independently of  *)
(* browser/API request lifetime": a stored request comes to an end.        *)
RequestEnds(r) == row[r].status # "none" ~> row[r].status \in Ended

(* An answer that is stored is shown in the end: what a monitor of another *)
(* process heard earlier and writes later does not hide it for good.       *)
AnswerShown(r) == <>[](outputs[r] > 0 => row[r].status = "COMPLETED")
=============================================================================
