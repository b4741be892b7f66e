----------------------------- MODULE SandboxPods -----------------------------
(***************************************************************************)
(* The sandbox pods of DOBEDUB Studio: RunPod machines on one network      *)
(* volume, of which at most one may run.  Operators start, stop, delete    *)
(* and select pods; a start stops the pod that runs, starts the one that   *)
(* is wanted, or another stopped one, or creates one, trying the GPUs in   *)
(* their order, and then deletes the stopped pods the new one replaces.    *)
(*                                                                         *)
(* The provider is external: each of its calls and each wait between two   *)
(* calls is a step, and what an operator's thread has read of the pods is  *)
(* `seen', which nothing brings up to date but the thread itself.          *)
(***************************************************************************)
EXTENDS Naturals, FiniteSets, Sequences

CONSTANTS
    Pod,            \* the pods there are or may be created
    NoPod,
    Volume,         \* the pods that may be on the volume at the beginning
    GPUs,           \* the GPUs a creation tries: the primary one, then the fallbacks
    LowVram,        \* fallbacks that have less memory than the setting asks
    StartRetries,   \* sandbox_pod_start_retry_count
    Operator,       \* threads that handle operators' requests
    May,            \* the kinds of request each operator makes
    Faults,         \* what may go wrong, a subset of FaultKinds
    MaxRequests,    \* bound: requests of an operator
    MaxWrites       \* bound: settings an operator saves

FaultKinds ==
    { "refused",    \* the provider has no capacity, or no such pod
      "config",     \* it rejects the call or the key
      "lost",       \* a call is carried out but its reply is lost
      "unread",     \* a look at a pod fails
      "slow",       \* a pod takes longer to stop than we wait
      "late",       \* a pod that was started may wake up after the next look
      "vanishes" }  \* a stopping pod is taken away by the provider

Kinds == {"start", "stop", "terminate"}
Gpu   == {GPUs[n] : n \in 1..Len(GPUs)}

ASSUME PodAssumption    == NoPod \notin Pod
ASSUME GPUsAssumption   == GPUs \in Seq(Gpu) /\ GPUs # <<>>
ASSUME VolumeAssumption ==
    /\ Volume \subseteq [Pod -> [state: {"none", "EXITED", "RUNNING"}, gpu: Gpu]]
    /\ \A v \in Volume : \A p, q \in Pod : v[p].state = "RUNNING" /\ v[q].state = "RUNNING" => p = q
ASSUME ChoiceAssumption == May \in [Operator -> SUBSET Kinds] /\ Faults \subseteq FaultKinds
ASSUME BoundsAssumption == {StartRetries, MaxRequests, MaxWrites} \subseteq Nat

VARIABLES
    pod,        \* external: the provider's pods
    settings,   \* the row of sandbox_pod_settings
    op,         \* per operator, the request that is handled
    count       \* requests begun, and writes to the settings

vars == <<pod, settings, op, count>>

-----------------------------------------------------------------------------
(* A waking pod is shown EXITED, a stopping one RUNNING.                   *)
PodStates == {"none", "EXITED", "waking", "RUNNING", "stopping"}
Shown(p)  == CASE pod[p].state \in {"EXITED", "waking"}   -> "EXITED"
               [] pod[p].state \in {"RUNNING", "stopping"} -> "RUNNING"
               [] OTHER                                     -> "none"
Runs(p)   == pod[p].state \in {"RUNNING", "stopping"}

Settings == [selected: Pod \cup {NoPod}, autoSwitch: BOOLEAN, replace: BOOLEAN]

Requests ==
    [pc: {"idle", "list", "nudge", "others", "wait", "start", "recheck", "switch",
          "create", "save", "replace", "stop", "delete"},
     kind: Kinds, asked: Pod \cup {NoPod}, prefs: Settings,
     seen: [Pod -> {"none", "EXITED", "RUNNING"}],
     target: Pod \cup {NoPod}, tried: SUBSET Pod, tries: 0..StartRetries, gpu: 0..Len(GPUs)]

TypeOK ==
    /\ pod \in [Pod -> [state: PodStates, gpu: Gpu]]
    /\ settings \in Settings
    /\ op \in [Operator -> Requests]
    /\ count \in [begun: [Operator -> 0..MaxRequests], writes: 0..MaxWrites]

NewSettings == [selected |-> NoPod, autoSwitch |-> TRUE, replace |-> TRUE]
Idle        == [pc |-> "idle", kind |-> "start", asked |-> NoPod, prefs |-> NewSettings,
                seen |-> [p \in Pod |-> "none"], target |-> NoPod, tried |-> {}, tries |-> 0, gpu |-> 0]

Init ==
    /\ pod \in Volume
    /\ settings = NewSettings
    /\ op = [o \in Operator |-> Idle]
    /\ count = [begun |-> [o \in Operator |-> 0], writes |-> 0]

-----------------------------------------------------------------------------
(* The provider                                                            *)

Set(p, s) == pod' = [pod EXCEPT ![p].state = s]

(* What a call does to pod p, and how it is answered.  A refused call does *)
(* nothing; a pod that is gone refuses every call.                         *)
Woken(p) ==
    IF pod[p].state # "EXITED" THEN {pod[p].state} ELSE {"waking", "RUNNING"}
Halted(p) ==
    IF pod[p].state = "RUNNING" THEN "stopping" ELSE IF pod[p].state = "waking" THEN "EXITED" ELSE pod[p].state

Refuses(p) == "refused" \in Faults \/ pod[p].state = "none"
Answers(p) == pod[p].state # "none"

PodWakes(p)  == pod[p].state = "waking" /\ \E s \in {"RUNNING", "EXITED"} : Set(p, s)
PodExits(p)  == pod[p].state = "stopping" /\ Set(p, "EXITED")
PodVanishes(p) == "vanishes" \in Faults /\ pod[p].state = "stopping" /\ Set(p, "none")

Provider(p) == (PodWakes(p) \/ PodExits(p) \/ PodVanishes(p)) /\ UNCHANGED <<settings, op, count>>

-----------------------------------------------------------------------------
(* Requests                                                                *)

Goes(o, pc) == op' = [op EXCEPT ![o].pc = pc]
Ends(o)     == op' = [op EXCEPT ![o] = Idle]

Asks(o, kind, p) ==
    /\ op[o].pc = "idle" /\ kind \in May[o] /\ count.begun[o] < MaxRequests
    /\ kind = "terminate" => p # NoPod
    /\ op' = [op EXCEPT ![o] = [Idle EXCEPT !.pc = "list", !.kind = kind, !.asked = p, !.prefs = settings]]
    /\ count' = [count EXCEPT !.begun[o] = @ + 1]
    /\ UNCHANGED <<pod, settings>>

Listed(seen) == {p \in Pod : seen[p] # "none"}
Active(seen) == {p \in Pod : seen[p] = "RUNNING"}

(* _pick_target; any listed pod may be the most recent one.                *)
Targets(o, seen) ==
    LET r == op[o]
    IN  CASE r.asked # NoPod                        -> Listed(seen) \cap {r.asked}
          [] r.asked = NoPod /\ r.prefs.selected \in Listed(seen) -> {r.prefs.selected}
          [] OTHER -> IF Cardinality(Active(seen)) = 1 THEN Active(seen) ELSE Listed(seen)

(* Every request begins with the provider's list, never the cached one.    *)
(* What it does not look at again is forgotten.  A nudge (below) does not  *)
(* look again at the pod it started: without "late" the next list does not *)
(* come before that pod is awake.                                          *)
Lists(o) ==
    LET seen == [p \in Pod |-> Shown(p)]
        As(pc, t) == op' = [op EXCEPT ![o] =
            [Idle EXCEPT !.pc = pc, !.kind = op[o].kind, !.target = t, !.tried = {t} \ {NoPod},
                         !.prefs = CASE pc = "stop"   -> NewSettings
                                     [] pc = "delete" -> [NewSettings EXCEPT !.selected = op[o].prefs.selected]
                                     [] OTHER         -> [op[o].prefs EXCEPT !.selected = NoPod],
                         !.seen = IF pc = "stop" THEN Idle.seen ELSE seen]]
        StartGoes ==
            /\ Cardinality(Active(seen)) <= 1
            /\ \/ \E t \in Targets(o, seen) : As(IF seen[t] = "RUNNING" THEN "nudge" ELSE "others", t)
               \/ op[o].asked = NoPod /\ Listed(seen) = {} /\ As("create", NoPod)
        StopGoes ==
            \/ op[o].asked \in Listed(seen) /\ As("stop", op[o].asked)
            \/ op[o].asked = NoPod /\ Cardinality(Active(seen)) = 1 /\ \E t \in Active(seen) : As("stop", t)
        TerminateGoes == op[o].asked \in Listed(seen) \ Active(seen) /\ As("delete", op[o].asked)
        Refused ==
            \/ "unread" \in Faults
            \/ op[o].kind = "start" /\ Cardinality(Active(seen)) > 1
            \/ op[o].asked # NoPod /\ op[o].asked \notin Listed(seen)
            \/ op[o].kind = "stop" /\ op[o].asked = NoPod /\ Cardinality(Active(seen)) # 1
            \/ op[o].kind = "terminate" /\ op[o].asked \in Active(seen)
    IN  /\ op[o].pc = "list"
        /\ "late" \in Faults \/ \A p \in Pod : pod[p].state # "waking"
        /\ \/ op[o].kind = "start" /\ StartGoes
           \/ op[o].kind = "stop" /\ StopGoes
           \/ op[o].kind = "terminate" /\ TerminateGoes
           \/ Refused /\ Ends(o)
        /\ UNCHANGED <<pod, settings, count>>

(* The pod that is wanted already runs: it is started all the same.        *)
Nudges(o) ==
    LET t == op[o].target
    IN  /\ op[o].pc = "nudge"
        /\ \/ Answers(t) /\ (\E s \in Woken(t) : Set(t, s)) /\ Goes(o, "save")
           \/ "lost" \in Faults /\ Answers(t) /\ (\E s \in Woken(t) : Set(t, s)) /\ Ends(o)
           \/ Refuses(t) /\ UNCHANGED pod /\ Ends(o)
        /\ UNCHANGED <<settings, count>>

(* _switch_off_others: at most one other pod was seen running.             *)
Others(o) == Active(op[o].seen) \ {op[o].target}

StopsOthers(o) ==
    /\ op[o].pc = "others"
    /\ \/ Others(o) = {} /\ Goes(o, "start") /\ UNCHANGED pod
       \/ \E q \in Others(o) :
            \/ Answers(q) /\ Set(q, Halted(q)) /\ Goes(o, "wait")
            \/ "lost" \in Faults /\ Answers(q) /\ Set(q, Halted(q)) /\ Ends(o)
            \/ Refuses(q) /\ UNCHANGED pod /\ Ends(o)
    /\ UNCHANGED <<settings, count>>

(* The other pod is polled until it is not shown running any more, or for  *)
(* too long; a look at a pod that is gone fails, as others may.            *)
Exited_Accepted(q)    == TRUE
Exited(q)             == Shown(q) = "EXITED"
GivesUp_NoDeadline(q) == FALSE
GivesUp(q)            == "slow" \in Faults \/ ~Answers(q)

Waits(o) ==
    /\ op[o].pc = "wait"
    /\ \E q \in Others(o) :
         \/ Exited(q) /\ op' = [op EXCEPT ![o].pc = "start", ![o].seen[q] = "EXITED"]
         \/ GivesUp(q) /\ Ends(o)
    /\ UNCHANGED <<pod, settings, count>>

(* The target is tried again, and then another pod, or a new one.          *)
TryAgain(o) ==
    op' = [op EXCEPT ![o].pc = IF op[o].tries < StartRetries THEN "start" ELSE "switch",
                     ![o].tries = IF op[o].tries < StartRetries THEN @ + 1 ELSE 0]

(* _attempt_start                                                          *)
Starts(o) ==
    LET t == op[o].target
    IN  /\ op[o].pc = "start"
        /\ \/ Answers(t) /\ (\E s \in Woken(t) : Set(t, s)) /\ Goes(o, "recheck")
           \/ "lost" \in Faults /\ Answers(t) /\ (\E s \in Woken(t) : Set(t, s)) /\ TryAgain(o)
           \/ Refuses(t) /\ UNCHANGED pod /\ TryAgain(o)
           \/ "config" \in Faults /\ UNCHANGED pod /\ Ends(o)
        /\ UNCHANGED <<settings, count>>

(* Three seconds later: a pod that cannot be read is as it was listed.     *)
Rechecks(o) ==
    LET t == op[o].target
    IN  /\ op[o].pc = "recheck"
        /\ "late" \in Faults \/ pod[t].state # "waking"
        /\ \/ Shown(t) = "RUNNING" /\ Goes(o, "save")
           \/ (Shown(t) # "RUNNING" \/ "unread" \in Faults) /\ TryAgain(o)
        /\ UNCHANGED <<pod, settings, count>>

Candidates(o) == {p \in Pod : op[o].seen[p] = "EXITED"} \ op[o].tried

Switches(o) ==
    /\ op[o].pc = "switch"
    /\ \/ /\ op[o].prefs.autoSwitch
          /\ \E c \in Candidates(o) :
               op' = [op EXCEPT ![o].pc = "start", ![o].target = c, ![o].tried = @ \cup {c}]
       \/ /\ ~op[o].prefs.autoSwitch \/ Candidates(o) = {}
          /\ op' = [op EXCEPT ![o].pc = "create", ![o].target = NoPod]
    /\ UNCHANGED <<pod, settings, count>>

(* _gpu_candidates: the next GPU after the n-th that has the memory.       *)
NextGpus(n) == {m \in n+1..Len(GPUs) : m = 1 \/ GPUs[m] \notin LowVram}
NextGpu(n)  == CHOOSE m \in NextGpus(n) : \A k \in NextGpus(n) : m <= k
Fresh       == {p \in Pod : pod[p].state = "none" /\ \A o \in Operator : op[o].seen[p] = "none"}

(* _attempt_create, one GPU at a time.                                     *)
Creates(o) ==
    LET n       == NextGpu(op[o].gpu)
        Makes(p) == pod' = [pod EXCEPT ![p] = [state |-> "RUNNING", gpu |-> GPUs[n]]]
    IN  /\ op[o].pc = "create"
        /\ \/ NextGpus(op[o].gpu) = {} /\ UNCHANGED pod /\ Ends(o)
           \/ /\ NextGpus(op[o].gpu) # {}
              /\ \/ \E p \in Fresh : /\ Makes(p)
                                     /\ op' = [op EXCEPT ![o].pc = "save", ![o].target = p, ![o].gpu = n]
                 \/ /\ "lost" \in Faults
                    /\ \E p \in Fresh : Makes(p)
                    /\ op' = [op EXCEPT ![o].gpu = n]
                 \/ /\ "refused" \in Faults \/ Fresh = {}
                    /\ op' = [op EXCEPT ![o].gpu = n] /\ UNCHANGED pod
                 \/ "config" \in Faults /\ UNCHANGED pod /\ Ends(o)
        /\ UNCHANGED <<settings, count>>

(* _persist_selection; a pod that was just created replaces others.        *)
Saves(o) ==
    /\ op[o].pc = "save"
    /\ settings' = [settings EXCEPT !.selected = op[o].target]
    /\ IF op[o].gpu # 0 /\ op[o].prefs.replace THEN Goes(o, "replace") ELSE Ends(o)
    /\ UNCHANGED <<pod, count>>

Replaced_AnyGpu(o) == {p \in Pod : op[o].seen[p] = "EXITED"} \ {op[o].target}

(* _terminate_replaced_pods: the pods with the new one's GPU that were seen *)
(* stopped when the request began.  A delete that fails is passed over.    *)
Replaced(o) == {p \in Pod : op[o].seen[p] = "EXITED" /\ pod[p].gpu = GPUs[op[o].gpu]} \ {op[o].target}

Replaces(o) ==
    LET Over(p) == op' = [op EXCEPT ![o].seen[p] = "none"]
    IN  /\ op[o].pc = "replace"
        /\ \/ Replaced(o) = {} /\ UNCHANGED pod /\ Ends(o)
           \/ \E p \in Replaced(o) : Set(p, "none") /\ Over(p)
           \/ \E p \in Replaced(o) : Refuses(p) /\ UNCHANGED pod /\ Over(p)
        /\ UNCHANGED <<settings, count>>

(* stop_sandbox_pod                                                        *)
Stops(o) ==
    LET t == op[o].target
    IN  /\ op[o].pc = "stop"
        /\ \/ Answers(t) /\ Set(t, Halted(t)) /\ Ends(o)
           \/ "lost" \in Faults /\ Answers(t) /\ Set(t, Halted(t)) /\ Ends(o)
           \/ Refuses(t) /\ UNCHANGED pod /\ Ends(o)
        /\ UNCHANGED <<settings, count>>

(* terminate_sandbox_pod: if the pod was selected, the most recent one of  *)
(* the others that were listed is.                                         *)
Deletes(o) ==
    LET t    == op[o].target
        rest == Listed(op[o].seen) \ {t}
    IN  /\ op[o].pc = "delete"
        /\ \/ /\ Answers(t) /\ Set(t, "none") /\ Ends(o)
              /\ IF op[o].prefs.selected # t THEN UNCHANGED settings
                 ELSE \E s \in IF rest = {} THEN {NoPod} ELSE rest : settings' = [settings EXCEPT !.selected = s]
           \/ "lost" \in Faults /\ Answers(t) /\ Set(t, "none") /\ Ends(o) /\ UNCHANGED settings
           \/ Refuses(t) /\ UNCHANGED <<pod, settings>> /\ Ends(o)
        /\ UNCHANGED count

-----------------------------------------------------------------------------
(* The settings are written while requests run; no pod is looked up.       *)
Writes ==
    /\ count.writes < MaxWrites
    /\ count' = [count EXCEPT !.writes = @ + 1]
    /\ UNCHANGED <<pod, op>>

Selects(p)      == Writes /\ settings' = [settings EXCEPT !.selected = p]
UpdatesSettings == Writes /\ \E a, r \in BOOLEAN : settings' = [settings EXCEPT !.autoSwitch = a, !.replace = r]

-----------------------------------------------------------------------------
Step(o) ==
    \/ Lists(o) \/ Nudges(o) \/ StopsOthers(o) \/ Waits(o) \/ Starts(o) \/ Rechecks(o)
    \/ Switches(o) \/ Creates(o) \/ Saves(o) \/ Replaces(o) \/ Stops(o) \/ Deletes(o)

Next ==
    \/ \E o \in Operator, kind \in Kinds, p \in Pod \cup {NoPod} : Asks(o, kind, p)
    \/ \E o \in Operator : Step(o)
    \/ \E p \in Pod : Provider(p) \/ Selects(p)
    \/ UpdatesSettings

Spec == Init /\ [][Next]_vars

(* A request's thread goes on, and the provider finishes what it began.    *)
Fairness ==
    /\ \A o \in Operator : WF_vars(Step(o))
    /\ WF_vars(\E p \in Pod : Provider(p))

LiveSpec == Spec /\ Fairness

-----------------------------------------------------------------------------
(* start_sandbox_pod: never two pods of the volume at once, also not while *)
(* one is stopped for another, a start is retried, switched or replaced by *)
(* a creation.                                                             *)
SingleRunning == \A p, q \in Pod : Runs(p) /\ Runs(q) => p = q

(* _terminate_replaced_pods, terminate_sandbox_pod: what is deleted was    *)
(* asked for or has the GPU of the pod that replaces it, and does not run, *)
(* although the list that says so was read long before.                    *)
DeletesOnlySpares ==
    [][\A p \in Pod : pod[p].state # "none" /\ pod'[p].state = "none" =>
         \/ pod[p].state = "stopping" /\ op' = op
         \/ /\ pod[p].state = "EXITED"
            /\ \E o \in Operator :
                 \/ op[o].pc = "delete" /\ op[o].target = p
                 \/ op[o].pc = "replace" /\ pod[op[o].target].gpu = pod[p].gpu]_vars

(* Every request is answered: it waits, retries, switches and tries GPUs   *)
(* only so often.                                                          *)
EveryRequestAnswers == \A o \in Operator : op[o].pc # "idle" ~> op[o].pc = "idle"
=============================================================================
