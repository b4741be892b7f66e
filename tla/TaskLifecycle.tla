--------------------------- MODULE TaskLifecycle ---------------------------
(***************************************************************************)
(* What the task queue promises its users, without processes, claims or    *)
(* copies: every request to run a task is served by at most one run at the *)
(* provider and ends once, with an outcome that stays until the next       *)
(* request.  Two outcomes are amended: a failure that an older release     *)
(* wrote down too early, when its result turns up after all, and a         *)
(* cancellation that met the task on its way back to the queue, which      *)
(* forgets it (the one thing a user would not expect).                     *)
(***************************************************************************)
EXTENDS Naturals

CONSTANTS
    Task,
    Amendable       \* tasks whose recorded failure may prove premature

VARIABLES
    asked,          \* requests to run the task so far
    phase,          \* "new", "waiting", "running", or the outcome
    runs            \* runs the provider was given for the current request

vars == <<asked, phase, runs>>

Outcome == {"COMPLETED", "FAILED", "CANCELLED"}
Phase   == {"new", "waiting", "running"} \cup Outcome

Init ==
    /\ asked = [t \in Task |-> IF t \in Amendable THEN 1 ELSE 0]
    /\ phase = [t \in Task |-> IF t \in Amendable THEN "FAILED" ELSE "new"]
    /\ runs = [t \in Task |-> IF t \in Amendable THEN 1 ELSE 0]

Request(t) ==
    /\ phase[t] \in {"new"} \cup Outcome
    /\ asked' = [asked EXCEPT ![t] = @ + 1]
    /\ phase' = [phase EXCEPT ![t] = "waiting"]
    /\ runs' = [runs EXCEPT ![t] = 0]

(* The provider accepts the task; the queue learns of it in a second step. *)
Submit(t) ==
    /\ phase[t] = "waiting" /\ runs[t] = 0
    /\ runs' = [runs EXCEPT ![t] = 1]
    /\ UNCHANGED <<asked, phase>>

Moves(t, from, to) ==
    /\ phase[t] = from
    /\ phase' = [phase EXCEPT ![t] = to]
    /\ UNCHANGED <<asked, runs>>

Start(t) == runs[t] = 1 /\ Moves(t, "waiting", "running")

Finish(t, outcome) == Moves(t, "running", outcome)

(* A task cancelled before it is submitted never runs for this request.    *)
CancelWaiting(t) == runs[t] = 0 /\ Moves(t, "waiting", "CANCELLED")

(* Cancelled while the queue gave the task back to wait: it waits again.   *)
Reopen(t) == runs[t] = 0 /\ Moves(t, "CANCELLED", "waiting")

Amend(t) == t \in Amendable /\ Moves(t, "FAILED", "COMPLETED")

Next == \E t \in Task :
    \/ Request(t) \/ Submit(t) \/ Start(t)
    \/ \E outcome \in Outcome : Finish(t, outcome)
    \/ CancelWaiting(t) \/ Reopen(t) \/ Amend(t)

Spec == Init /\ [][Next]_vars
=============================================================================
