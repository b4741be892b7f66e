-------------------------- MODULE SandboxPodsProofs --------------------------
(***************************************************************************)
(* Proofs about SandboxPods, for any number of pods, GPUs, operators,      *)
(* requests and retries: type correctness; one running pod, and the        *)
(* deletion of spares only, where one operator starts (and deletes) pods   *)
(* and the provider's replies can be relied on.                            *)
(***************************************************************************)
EXTENDS SandboxPods, NaturalsInduction, WellFoundedInduction, TLAPS

(* No reply is lost, no look fails, and a started pod is awake, or refused *)
(* its GPU, when it is next looked at.                                     *)
Reliable   == Faults \cap {"lost", "unread", "late"} = {}
OneStarter == \A a, b \in Operator : "start" \in May[a] /\ "start" \in May[b] => a = b
OneKeeper  == \A a, b \in Operator : ~(May[a] \subseteq {"stop"}) /\ ~(May[b] \subseteq {"stop"}) => a = b

Up(p) == pod[p].state \in {"waking", "RUNNING", "stopping"}

(* What kind of request is where.                                          *)
Kinded == \A o \in Operator :
    /\ op[o].pc # "idle" => op[o].kind \in May[o]
    /\ op[o].pc \notin {"idle", "list", "stop", "delete"} => op[o].kind = "start"
    /\ op[o].pc = "delete" => op[o].kind = "terminate"
    /\ op[o].pc \notin {"idle", "list", "create"} => op[o].target \in Pod

Base == TypeOK /\ Kinded

(* Where a start has got to, and which pods are up.                        *)
OneUp     == \A p, q \in Pod : Up(p) /\ Up(q) => p = q
Alone(o)  == op[o].pc \in {"nudge", "recheck", "save", "replace"} => \A p \in Pod : Up(p) => p = op[o].target
NoneUp(o) == op[o].pc \in {"start", "switch", "create"} => \A p \in Pod : ~Up(p)
SeenUp(o) == op[o].pc \in {"others", "wait"} =>
    /\ \A p \in Pod : Up(p) => op[o].seen[p] = "RUNNING"
    /\ \A p \in Pod : pod[p].state # "waking"
    /\ \A p, q \in Pod : op[o].seen[p] = "RUNNING" /\ op[o].seen[q] = "RUNNING" => p = q
    /\ op[o].seen[op[o].target] # "RUNNING"
PhasedAt(o) == Alone(o) /\ NoneUp(o) /\ SeenUp(o)
Phased == OneUp /\ \A o \in Operator : PhasedAt(o)

(* What is about to be deleted, and the GPU of the pod that replaces it.   *)
Spare(o) ==
    /\ op[o].pc = "delete" => pod[op[o].target].state = "EXITED"
    /\ op[o].pc \in {"save", "replace"} /\ op[o].gpu # 0 => pod[op[o].target].gpu = GPUs[op[o].gpu]
    /\ op[o].pc \notin {"create", "save", "replace"} => op[o].gpu = 0
    /\ op[o].pc = "replace" => op[o].gpu # 0
Spares == \A o \in Operator : Spare(o)

-----------------------------------------------------------------------------
(* Types                                                                   *)

LEMMA Constants ==
    /\ NoPod \notin Pod /\ GPUs \in Seq(Gpu) /\ Len(GPUs) \in Nat \ {0}
    /\ StartRetries \in Nat /\ MaxRequests \in Nat /\ MaxWrites \in Nat
    /\ \A n \in 1..Len(GPUs) : GPUs[n] \in Gpu
<1>1. GPUs \in Seq(Gpu) /\ GPUs # <<>>
  BY GPUsAssumption
<1>2. Len(GPUs) \in Nat \ {0}
  BY <1>1
<1> QED
  BY <1>1, <1>2, PodAssumption, BoundsAssumption DEF Gpu

LEMMA NextGpuIn ==
    ASSUME NEW n \in 0..Len(GPUs), NextGpus(n) # {}
    PROVE  NextGpu(n) \in NextGpus(n) /\ NextGpu(n) \in 1..Len(GPUs)
<1>1. NextGpus(n) \subseteq Nat /\ NextGpus(n) \subseteq 1..Len(GPUs)
  BY Constants DEF NextGpus
<1> DEFINE Less == {p \in Nat \X Nat : p[1] < p[2]}
<1>2. IsWellFoundedOn(Less, Nat)
  <2>1. Less = OpToRel(<, Nat)
    BY DEF OpToRel
  <2> QED
    BY <2>1, NatLessThanWellFounded
<1>3. PICK m \in NextGpus(n) : \A k \in NextGpus(n) : ~(<<k, m>> \in Less)
  BY <1>1, <1>2, WFMin
<1>4. \A k \in NextGpus(n) : m <= k
  <2> TAKE k \in NextGpus(n)
  <2>1. <<k, m>> \in Nat \X Nat /\ ~(<<k, m>> \in Less)
    BY <1>1, <1>3
  <2>2. ~(k < m)
    BY <2>1
  <2> QED
    BY <1>1, <2>2
<1>5. NextGpu(n) \in NextGpus(n)
  BY <1>4 DEF NextGpu
<1> QED
  BY <1>1, <1>5

Shows == {"none", "EXITED", "RUNNING"}

LEMMA IdleType == Idle \in Requests
<1>1. NewSettings \in Settings
  BY DEF NewSettings, Settings
<1>2. 0 \in 0..StartRetries /\ 0 \in 0..Len(GPUs)
  BY Constants
<1> QED
  BY <1>1, <1>2 DEF Idle, Requests, Kinds

LEMMA ShownType == ASSUME NEW p PROVE Shown(p) \in Shows
  BY DEF Shown, Shows

LEMMA SetType ==
    ASSUME pod \in [Pod -> [state: PodStates, gpu: Gpu]], NEW p \in Pod, NEW s \in PodStates, Set(p, s)
    PROVE  pod' \in [Pod -> [state: PodStates, gpu: Gpu]]
  BY DEF Set

LEMMA CallTypes ==
    ASSUME pod \in [Pod -> [state: PodStates, gpu: Gpu]], NEW p \in Pod
    PROVE  Woken(p) \subseteq PodStates /\ Halted(p) \in PodStates
  BY DEF Woken, Halted, PodStates

PCs == {"idle", "list", "nudge", "others", "wait", "start", "recheck", "switch",
        "create", "save", "replace", "stop", "delete"}

LEMMA RequestPc ==
    ASSUME NEW r \in Requests, NEW pc \in PCs
    PROVE  [r EXCEPT !.pc = pc] \in Requests
  BY DEF Requests, PCs

LEMMA RequestTries ==
    ASSUME NEW r \in Requests, NEW pc \in PCs, NEW n \in 0..StartRetries
    PROVE  [r EXCEPT !.pc = pc, !.tries = n] \in Requests
  BY DEF Requests, PCs

LEMMA GoesType ==
    ASSUME op \in [Operator -> Requests], NEW o \in Operator, NEW pc \in PCs, Goes(o, pc)
    PROVE  op' \in [Operator -> Requests]
<1>1. op' = [op EXCEPT ![o] = [op[o] EXCEPT !.pc = pc]]
  BY DEF Goes
<1>2. op[o] \in Requests
  OBVIOUS
<1> QED
  BY <1>1, <1>2, RequestPc

LEMMA EndsType ==
    ASSUME op \in [Operator -> Requests], NEW o \in Operator, Ends(o)
    PROVE  op' \in [Operator -> Requests]
  BY IdleType DEF Ends

LEMMA TryAgainType ==
    ASSUME op \in [Operator -> Requests], NEW o \in Operator, TryAgain(o)
    PROVE  op' \in [Operator -> Requests]
<1> DEFINE tries == IF op[o].tries < StartRetries THEN op[o].tries + 1 ELSE 0
           pc    == IF op[o].tries < StartRetries THEN "start" ELSE "switch"
<1>1. op[o].tries \in 0..StartRetries /\ op[o] \in Requests
  BY DEF Requests
<1>2. tries \in 0..StartRetries /\ pc \in PCs
  BY <1>1, Constants DEF PCs
<1>3. op' = [op EXCEPT ![o] = [op[o] EXCEPT !.pc = pc, !.tries = tries]]
  BY DEF TryAgain
<1> HIDE DEF tries, pc
<1> QED
  BY <1>1, <1>2, <1>3, RequestTries

-----------------------------------------------------------------------------
(* What the steps of a request change                                      *)

Only(o) == \A w \in Operator \ {o} : op'[w] = op[w]

(* The place in the request changes, and nothing else.                     *)
LEMMA GoesTo ==
    ASSUME op \in [Operator -> Requests], NEW o \in Operator, NEW pc, Goes(o, pc)
    PROVE  /\ Only(o) /\ op'[o].pc = pc /\ op'[o].kind = op[o].kind /\ op'[o].target = op[o].target
           /\ op'[o].seen = op[o].seen /\ op'[o].gpu = op[o].gpu
<1>1. op' = [op EXCEPT ![o] = [op[o] EXCEPT !.pc = pc]]
  BY DEF Goes
<1>2. op'[o] = [op[o] EXCEPT !.pc = pc] /\ Only(o) /\ op[o] \in Requests
  BY <1>1 DEF Only
<1> QED
  BY <1>2 DEF Requests

LEMMA EndsAt ==
    ASSUME op \in [Operator -> Requests], NEW o \in Operator, Ends(o)
    PROVE  Only(o) /\ op'[o] = Idle /\ op'[o].pc = "idle" /\ op'[o].gpu = 0
  BY DEF Ends, Only, Idle

LEMMA TriesAgain ==
    ASSUME op \in [Operator -> Requests], NEW o \in Operator, TryAgain(o)
    PROVE  /\ Only(o) /\ op'[o].pc \in {"start", "switch"} /\ op'[o].kind = op[o].kind
           /\ op'[o].target = op[o].target /\ op'[o].seen = op[o].seen /\ op'[o].gpu = op[o].gpu
<1> DEFINE tries == IF op[o].tries < StartRetries THEN op[o].tries + 1 ELSE 0
           pc    == IF op[o].tries < StartRetries THEN "start" ELSE "switch"
<1>1. op' = [op EXCEPT ![o] = [op[o] EXCEPT !.pc = pc, !.tries = tries]]
  BY DEF TryAgain
<1>2. pc \in {"start", "switch"}
  OBVIOUS
<1> HIDE DEF tries, pc
<1>3. op'[o] = [op[o] EXCEPT !.pc = pc, !.tries = tries] /\ Only(o) /\ op[o] \in Requests
  BY <1>1 DEF Only
<1> QED
  BY <1>2, <1>3 DEF Requests

(* As Goes, but for what else the wait, the switch, the creation and the   *)
(* replacement set.                                                        *)
Moves(o, pc, t, n) ==
    /\ Only(o) /\ op' \in [Operator -> Requests]
    /\ op'[o].pc = pc /\ op'[o].kind = op[o].kind /\ op'[o].target = t /\ op'[o].gpu = n

LEMMA MovesTo ==
    ASSUME op \in [Operator -> Requests], NEW o \in Operator, NEW r \in Requests, op' = [op EXCEPT ![o] = r],
           NEW pc, NEW t, NEW n, r.pc = pc, r.kind = op[o].kind, r.target = t, r.gpu = n
    PROVE  Moves(o, pc, t, n)
  BY DEF Moves, Only

LEMMA WaitMoves ==
    ASSUME op \in [Operator -> Requests], NEW o \in Operator, NEW q \in Pod,
           op' = [op EXCEPT ![o].pc = "start", ![o].seen[q] = "EXITED"]
    PROVE  Moves(o, "start", op[o].target, op[o].gpu)
<1> DEFINE r == [op[o] EXCEPT !.pc = "start", !.seen[q] = "EXITED"]
<1>1. op' = [op EXCEPT ![o] = r] /\ op[o] \in Requests
  OBVIOUS
<1>2. r \in Requests /\ r.pc = "start" /\ r.kind = op[o].kind /\ r.target = op[o].target /\ r.gpu = op[o].gpu
  BY <1>1 DEF Requests
<1> HIDE DEF r
<1> QED
  BY <1>1, <1>2, MovesTo

LEMMA SwitchMoves ==
    ASSUME op \in [Operator -> Requests], NEW o \in Operator, Switches(o)
    PROVE  Moves(o, "create", NoPod, op[o].gpu) \/ \E c \in Pod : Moves(o, "start", c, op[o].gpu)
<1>1. op[o] \in Requests
  OBVIOUS
<1>2. ASSUME NEW c \in Pod, op' = [op EXCEPT ![o].pc = "start", ![o].target = c, ![o].tried = @ \cup {c}]
      PROVE  Moves(o, "start", c, op[o].gpu)
  <2> DEFINE r == [op[o] EXCEPT !.pc = "start", !.target = c, !.tried = @ \cup {c}]
  <2>1. op' = [op EXCEPT ![o] = r]
    BY <1>2
  <2>2. r \in Requests /\ r.pc = "start" /\ r.kind = op[o].kind /\ r.target = c /\ r.gpu = op[o].gpu
    BY <1>1 DEF Requests
  <2> HIDE DEF r
  <2> QED
    BY <2>1, <2>2, MovesTo
<1>3. ASSUME op' = [op EXCEPT ![o].pc = "create", ![o].target = NoPod]
      PROVE  Moves(o, "create", NoPod, op[o].gpu)
  <2> DEFINE r == [op[o] EXCEPT !.pc = "create", !.target = NoPod]
  <2>1. op' = [op EXCEPT ![o] = r]
    BY <1>3
  <2>2. r \in Requests /\ r.pc = "create" /\ r.kind = op[o].kind /\ r.target = NoPod /\ r.gpu = op[o].gpu
    BY <1>1 DEF Requests
  <2> HIDE DEF r
  <2> QED
    BY <2>1, <2>2, MovesTo
<1> QED
  BY <1>2, <1>3 DEF Switches, Candidates

LEMMA CreateMoves ==
    ASSUME op \in [Operator -> Requests], NEW o \in Operator, op[o].pc = "create", NextGpus(op[o].gpu) # {}
    PROVE  LET n == NextGpu(op[o].gpu) IN
           /\ n \in 1..Len(GPUs)
           /\ \A p \in Pod : op' = [op EXCEPT ![o].pc = "save", ![o].target = p, ![o].gpu = n]
                               => Moves(o, "save", p, n)
           /\ op' = [op EXCEPT ![o].gpu = n] => Moves(o, "create", op[o].target, n)
<1> DEFINE n == NextGpu(op[o].gpu)
<1>1. op[o] \in Requests /\ op[o].gpu \in 0..Len(GPUs)
  BY DEF Requests
<1>2. n \in 1..Len(GPUs) /\ n \in 0..Len(GPUs)
  <2>1. n \in 1..Len(GPUs)
    BY <1>1, NextGpuIn
  <2> QED
    BY <2>1, Constants
<1> HIDE DEF n
<1>3. ASSUME NEW p \in Pod, op' = [op EXCEPT ![o].pc = "save", ![o].target = p, ![o].gpu = n]
      PROVE  Moves(o, "save", p, n)
  <2> DEFINE r == [op[o] EXCEPT !.pc = "save", !.target = p, !.gpu = n]
  <2>1. op' = [op EXCEPT ![o] = r]
    BY <1>3
  <2>2. r \in Requests /\ r.pc = "save" /\ r.kind = op[o].kind /\ r.target = p /\ r.gpu = n
    BY <1>1, <1>2 DEF Requests
  <2> HIDE DEF r
  <2> QED
    BY <2>1, <2>2, MovesTo
<1>4. ASSUME op' = [op EXCEPT ![o].gpu = n] PROVE Moves(o, "create", op[o].target, n)
  <2> DEFINE r == [op[o] EXCEPT !.gpu = n]
  <2>1. op' = [op EXCEPT ![o] = r]
    BY <1>4
  <2>2. r \in Requests /\ r.pc = "create" /\ r.kind = op[o].kind /\ r.target = op[o].target /\ r.gpu = n
    BY <1>1, <1>2 DEF Requests
  <2> HIDE DEF r
  <2> QED
    BY <2>1, <2>2, MovesTo
<1> QED
  BY <1>2, <1>3, <1>4 DEF n

LEMMA ReplaceMoves ==
    ASSUME op \in [Operator -> Requests], NEW o \in Operator, op[o].pc = "replace", NEW p \in Pod,
           op' = [op EXCEPT ![o].seen[p] = "none"]
    PROVE  Moves(o, "replace", op[o].target, op[o].gpu)
<1> DEFINE r == [op[o] EXCEPT !.seen[p] = "none"]
<1>1. op' = [op EXCEPT ![o] = r] /\ op[o] \in Requests
  OBVIOUS
<1>2. r \in Requests /\ r.pc = "replace" /\ r.kind = op[o].kind /\ r.target = op[o].target /\ r.gpu = op[o].gpu
  BY <1>1 DEF Requests
<1> HIDE DEF r
<1> QED
  BY <1>1, <1>2, MovesTo

(* What a request looks like when it has read the list.                    *)
Read == [p \in Pod |-> Shown(p)]
Begun(o, pc, t, prefs) ==
    /\ Only(o) /\ op' \in [Operator -> Requests]
    /\ op'[o].pc = pc /\ op'[o].kind = op[o].kind /\ op'[o].target = t /\ op'[o].gpu = 0
    /\ op'[o].prefs = prefs /\ op'[o].seen = IF pc = "stop" THEN Idle.seen ELSE Read

LEMMA Begins ==
    ASSUME op \in [Operator -> Requests], NEW o \in Operator, NEW pc \in PCs,
           NEW t \in Pod \cup {NoPod}, NEW prefs \in Settings, NEW tried \in SUBSET Pod,
           op' = [op EXCEPT ![o] =
                    [Idle EXCEPT !.pc = pc, !.kind = op[o].kind, !.target = t, !.tried = tried, !.prefs = prefs,
                                 !.seen = IF pc = "stop" THEN Idle.seen ELSE Read]]
    PROVE  Begun(o, pc, t, prefs)
<1> DEFINE seen == IF pc = "stop" THEN Idle.seen ELSE Read
           r    == [Idle EXCEPT !.pc = pc, !.kind = op[o].kind, !.target = t, !.tried = tried, !.prefs = prefs,
                                !.seen = seen]
<1>1. seen \in [Pod -> {"none", "EXITED", "RUNNING"}]
  BY ShownType DEF Read, Idle, Shows
<1>2. Idle \in Requests /\ op[o].kind \in Kinds /\ Idle.gpu = 0
  BY IdleType DEF Requests, Idle
<1>3. op'[o] = r /\ Only(o) /\ op' = [op EXCEPT ![o] = r]
  BY DEF Only
<1> HIDE DEF seen
<1>4. /\ r \in Requests /\ r.pc = pc /\ r.kind = op[o].kind /\ r.target = t /\ r.gpu = 0
      /\ r.prefs = prefs /\ r.seen = seen
  BY <1>1, <1>2 DEF Requests, PCs
<1> HIDE DEF r
<1> QED
  BY <1>3, <1>4 DEF Begun, seen

LEMMA ListSteps ==
    ASSUME TypeOK, NEW o \in Operator, Lists(o)
    PROVE  \/ Ends(o)
           \/ \E t \in Pod, prefs \in Settings : /\ op[o].kind = "start" /\ Read[t] = "RUNNING"
                                                 /\ Begun(o, "nudge", t, prefs)
           \/ \E t \in Pod, prefs \in Settings : /\ op[o].kind = "start" /\ Read[t] # "RUNNING"
                                                 /\ Begun(o, "others", t, prefs)
           \/ \E prefs \in Settings : /\ op[o].kind = "start" /\ (\A p \in Pod : Read[p] = "none")
                                      /\ Begun(o, "create", NoPod, prefs)
           \/ \E t \in Pod, prefs \in Settings : op[o].kind = "stop" /\ Begun(o, "stop", t, prefs)
           \/ \E t \in Pod, prefs \in Settings : /\ op[o].kind = "terminate" /\ Read[t] = "EXITED"
                                                 /\ Begun(o, "delete", t, prefs)
<1> DEFINE prefs(pc) == CASE pc = "stop"   -> NewSettings
                          [] pc = "delete" -> [NewSettings EXCEPT !.selected = op[o].prefs.selected]
                          [] OTHER         -> [op[o].prefs EXCEPT !.selected = NoPod]
           As(pc, t) == op' = [op EXCEPT ![o] =
               [Idle EXCEPT !.pc = pc, !.kind = op[o].kind, !.target = t, !.tried = {t} \ {NoPod},
                            !.prefs = prefs(pc), !.seen = IF pc = "stop" THEN Idle.seen ELSE Read]]
<1>1. op \in [Operator -> Requests] /\ op[o].prefs \in Settings
  BY DEF TypeOK, Requests
<1>2. \A pc : prefs(pc) \in Settings
  BY <1>1 DEF Settings, NewSettings
<1>3. ASSUME NEW pc \in PCs, NEW t \in Pod \cup {NoPod}, As(pc, t) PROVE Begun(o, pc, t, prefs(pc))
  <2>1. {t} \ {NoPod} \in SUBSET Pod
    OBVIOUS
  <2> HIDE DEF prefs
  <2> QED
    BY <1>1, <1>2, <1>3, <2>1, Begins
<1>4. \/ Ends(o)
      \/ op[o].kind = "start" /\ \E t \in Targets(o, Read) : As(IF Read[t] = "RUNNING" THEN "nudge" ELSE "others", t)
      \/ op[o].kind = "start" /\ op[o].asked = NoPod /\ Listed(Read) = {} /\ As("create", NoPod)
      \/ op[o].kind = "stop" /\ op[o].asked \in Listed(Read) /\ As("stop", op[o].asked)
      \/ op[o].kind = "stop" /\ \E t \in Active(Read) : As("stop", t)
      \/ op[o].kind = "terminate" /\ op[o].asked \in Listed(Read) \ Active(Read) /\ As("delete", op[o].asked)
  BY DEF Lists, Read
<1>5. Targets(o, Read) \subseteq Pod /\ Listed(Read) \subseteq Pod /\ Active(Read) \subseteq Pod
  BY DEF Targets, Listed, Active
<1>6. \A t \in Pod : Read[t] \in Shows
  BY ShownType DEF Read
<1> HIDE DEF prefs, As
<1>7. CASE \E t \in Targets(o, Read) : op[o].kind = "start" /\ As(IF Read[t] = "RUNNING" THEN "nudge" ELSE "others", t)
  BY <1>2, <1>3, <1>5, <1>7 DEF PCs
<1>8. CASE op[o].kind = "start" /\ Listed(Read) = {} /\ As("create", NoPod)
  BY <1>2, <1>3, <1>8 DEF PCs, Listed
<1>9. CASE op[o].kind = "stop" /\ \E t \in Pod : As("stop", t)
  BY <1>2, <1>3, <1>9 DEF PCs
<1>10. CASE op[o].kind = "terminate" /\ op[o].asked \in Listed(Read) \ Active(Read) /\ As("delete", op[o].asked)
  BY <1>2, <1>3, <1>6, <1>10 DEF PCs, Listed, Active, Shows
<1> QED
  BY <1>4, <1>5, <1>7, <1>8, <1>9, <1>10

-----------------------------------------------------------------------------
(* Types and kinds                                                         *)

KindedAt(o) ==
    /\ op[o].pc # "idle" => op[o].kind \in May[o]
    /\ op[o].pc \notin {"idle", "list", "stop", "delete"} => op[o].kind = "start"
    /\ op[o].pc = "delete" => op[o].kind = "terminate"
    /\ op[o].pc \notin {"idle", "list", "create"} => op[o].target \in Pod

LEMMA KindedOne ==
    ASSUME Kinded, NEW o \in Operator, Only(o), KindedAt(o)'
    PROVE  Kinded'
  BY DEF Kinded, Only, KindedAt

Starting == {"nudge", "others", "wait", "start", "recheck", "switch", "create", "save", "replace"}

LEMMA PodsType ==
    ASSUME TypeOK, NEW p \in Pod
    PROVE  /\ \A s \in Woken(p) : Set(p, s) => pod' \in [Pod -> [state: PodStates, gpu: Gpu]]
           /\ Set(p, Halted(p)) => pod' \in [Pod -> [state: PodStates, gpu: Gpu]]
           /\ Set(p, "none") => pod' \in [Pod -> [state: PodStates, gpu: Gpu]]
           /\ Set(p, "EXITED") => pod' \in [Pod -> [state: PodStates, gpu: Gpu]]
           /\ Set(p, "RUNNING") => pod' \in [Pod -> [state: PodStates, gpu: Gpu]]
<1>1. {"none", "EXITED", "RUNNING"} \subseteq PodStates
  BY DEF PodStates
<1> QED
  BY <1>1, CallTypes, SetType DEF TypeOK

(* A step of the start goes on to a place of the start, tries again or     *)
(* ends.                                                                   *)
LEMMA PlainBase ==
    ASSUME Base, NEW o \in Operator, op[o].pc \in Starting,
           \/ Ends(o)
           \/ TryAgain(o) /\ op[o].pc # "create"
           \/ \E pc \in Starting : Goes(o, pc) /\ op[o].pc # "create"
    PROVE  op' \in [Operator -> Requests] /\ Kinded'
<1>1. op \in [Operator -> Requests] /\ Starting \subseteq PCs
  BY DEF Base, TypeOK, Starting, PCs
<1>2. op' \in [Operator -> Requests]
  BY <1>1, EndsType, TryAgainType, GoesType
<1>3. op[o].kind \in May[o] /\ op[o].kind = "start" /\ (op[o].pc # "create" => op[o].target \in Pod)
  BY DEF Base, Kinded, Starting
<1>4. KindedAt(o)' /\ Only(o)
  <2>1. CASE Ends(o)
    BY <1>1, <2>1, EndsAt DEF KindedAt
  <2>2. CASE TryAgain(o) /\ op[o].pc # "create"
    BY <1>1, <1>3, <2>2, TriesAgain DEF KindedAt
  <2>3. ASSUME NEW pc \in Starting, Goes(o, pc), op[o].pc # "create" PROVE KindedAt(o)' /\ Only(o)
    BY <1>1, <1>3, <2>3, GoesTo DEF KindedAt, Starting
  <2> QED
    BY <2>1, <2>2, <2>3
<1> QED
  BY <1>2, <1>4, KindedOne DEF Base

LEMMA AsksBase ==
    ASSUME Base, NEW o \in Operator, NEW kind \in Kinds, NEW p \in Pod \cup {NoPod}, Asks(o, kind, p)
    PROVE  /\ Base' /\ Only(o) /\ op'[o].pc = "list" /\ op'[o].gpu = 0 /\ UNCHANGED pod
<1> DEFINE r == [Idle EXCEPT !.pc = "list", !.kind = kind, !.asked = p, !.prefs = settings]
<1>1. op' = [op EXCEPT ![o] = r] /\ kind \in May[o] /\ op \in [Operator -> Requests] /\ settings \in Settings
  BY DEF Asks, Base, TypeOK
<1>2. Idle \in Requests /\ Idle.gpu = 0
  BY IdleType DEF Idle
<1>3. r \in Requests /\ r.pc = "list" /\ r.kind = kind /\ r.gpu = 0
  BY <1>1, <1>2 DEF Requests
<1> HIDE DEF r
<1>4. Only(o) /\ op'[o] = r /\ op' \in [Operator -> Requests]
  BY <1>1, <1>3 DEF Only
<1>5. Kinded'
  BY <1>1, <1>3, <1>4, KindedOne DEF KindedAt, Base
<1>6. count' \in [begun: [Operator -> 0..MaxRequests], writes: 0..MaxWrites]
  <2> DEFINE n == count.begun[o] + 1
  <2>1. /\ count \in [begun: [Operator -> 0..MaxRequests], writes: 0..MaxWrites]
        /\ count.begun[o] < MaxRequests /\ count' = [count EXCEPT !.begun[o] = n]
    BY DEF Asks, Base, TypeOK
  <2>2. n \in 0..MaxRequests
    BY <2>1, Constants
  <2> HIDE DEF n
  <2> QED
    BY <2>1, <2>2
<1>7. TypeOK'
  BY <1>4, <1>6 DEF Asks, Base, TypeOK
<1> QED
  BY <1>3, <1>4, <1>5, <1>7 DEF Base, Asks

LEMMA ListsBase ==
    ASSUME Base, NEW o \in Operator, Lists(o)
    PROVE  Base'
<1>1. op \in [Operator -> Requests] /\ UNCHANGED <<pod, settings, count>> /\ op[o].kind \in May[o]
  BY DEF Base, TypeOK, Lists, Kinded
<1>2. CASE Ends(o)
  <2>1. op' \in [Operator -> Requests] /\ Kinded'
    BY <1>1, <1>2, EndsType, EndsAt, KindedOne DEF KindedAt, Base
  <2> QED
    BY <1>1, <2>1 DEF Base, TypeOK
<1>3. ASSUME NEW pc \in PCs, NEW t \in Pod \cup {NoPod}, NEW prefs, Begun(o, pc, t, prefs),
             pc # "create" => t \in Pod, pc \notin {"idle", "list"},
             pc \notin {"stop", "delete"} => op[o].kind = "start",
             pc = "delete" => op[o].kind = "terminate"
      PROVE  Base'
  <2>1. op' \in [Operator -> Requests]
    BY <1>3 DEF Begun
  <2>2. Kinded'
    BY <1>1, <1>3, KindedOne DEF Begun, KindedAt, Base
  <2> QED
    BY <1>1, <2>1, <2>2 DEF Base, TypeOK
<1> QED
  BY <1>2, <1>3, ListSteps DEF Base, PCs

LEMMA MovesBase ==
    ASSUME Base, NEW o \in Operator, op[o].pc \in Starting,
           NEW pc \in Starting, NEW t, NEW n, Moves(o, pc, t, n), pc # "create" => t \in Pod
    PROVE  op' \in [Operator -> Requests] /\ Kinded'
<1>1. op[o].kind \in May[o] /\ op[o].kind = "start"
  BY DEF Base, Kinded, Starting
<1>2. KindedAt(o)'
  BY <1>1 DEF Moves, KindedAt, Starting
<1> QED
  BY <1>2, KindedOne DEF Moves, Base

LEMMA StepBase ==
    ASSUME Base, NEW o \in Operator, Step(o)
    PROVE  Base'
<1> DEFINE t == op[o].target
           Pods == [Pod -> [state: PodStates, gpu: Gpu]]
<1>0. /\ TypeOK /\ Kinded /\ op \in [Operator -> Requests] /\ pod \in Pods /\ op[o] \in Requests
      /\ op[o].pc \notin {"idle", "list", "create"} => t \in Pod
  BY DEF Base, TypeOK, Kinded
<1>1. CASE Lists(o)
  BY <1>1, ListsBase
<1>2. CASE Nudges(o)
  <2>1. pod' \in Pods
    BY <1>0, <1>2, PodsType DEF Nudges
  <2>2. op' \in [Operator -> Requests] /\ Kinded'
    BY <1>2, PlainBase DEF Nudges, Starting
  <2> QED
    BY <1>0, <1>2, <2>1, <2>2 DEF Nudges, Base, TypeOK
<1>3. CASE StopsOthers(o)
  <2>1. pod' \in Pods
    BY <1>0, <1>3, PodsType DEF StopsOthers, Others, Active
  <2>2. op' \in [Operator -> Requests] /\ Kinded'
    BY <1>3, PlainBase DEF StopsOthers, Starting
  <2> QED
    BY <1>0, <1>3, <2>1, <2>2 DEF StopsOthers, Base, TypeOK
<1>4. CASE Waits(o)
  <2>1. op' \in [Operator -> Requests] /\ Kinded'
    <3>1. CASE Ends(o)
      BY <1>4, <3>1, PlainBase DEF Waits, Starting
    <3>2. CASE \E q \in Pod : op' = [op EXCEPT ![o].pc = "start", ![o].seen[q] = "EXITED"]
      BY <1>0, <1>4, <3>2, WaitMoves, MovesBase DEF Waits, Starting
    <3> QED
      BY <1>4, <3>1, <3>2 DEF Waits, Others, Active
  <2> QED
    BY <1>0, <1>4, <2>1 DEF Waits, Base, TypeOK
<1>5. CASE Starts(o)
  <2>1. pod' \in Pods
    BY <1>0, <1>5, PodsType DEF Starts
  <2>2. op' \in [Operator -> Requests] /\ Kinded'
    BY <1>5, PlainBase DEF Starts, Starting
  <2> QED
    BY <1>0, <1>5, <2>1, <2>2 DEF Starts, Base, TypeOK
<1>6. CASE Rechecks(o)
  <2>1. op' \in [Operator -> Requests] /\ Kinded'
    BY <1>6, PlainBase DEF Rechecks, Starting
  <2> QED
    BY <1>0, <1>6, <2>1 DEF Rechecks, Base, TypeOK
<1>7. CASE Switches(o)
  <2>1. op' \in [Operator -> Requests] /\ Kinded'
    BY <1>0, <1>7, SwitchMoves, MovesBase DEF Switches, Starting
  <2> QED
    BY <1>0, <1>7, <2>1 DEF Switches, Base, TypeOK
<1>8. CASE Creates(o)
  <2> DEFINE n == NextGpu(op[o].gpu)
  <2>1. pod' \in Pods
    <3>1. ASSUME NextGpus(op[o].gpu) # {}, NEW p \in Pod,
                 pod' = [pod EXCEPT ![p] = [state |-> "RUNNING", gpu |-> GPUs[n]]]
          PROVE  pod' \in Pods
      <4>1. GPUs[n] \in Gpu
        BY <1>0, <1>8, <3>1, CreateMoves, Constants DEF Creates
      <4> QED
        BY <1>0, <3>1, <4>1 DEF PodStates
    <3> QED
      BY <1>0, <1>8, <3>1 DEF Creates, Fresh
  <2>2. op' \in [Operator -> Requests] /\ Kinded'
    <3>1. op[o].pc = "create" /\ op[o].pc \in Starting
      BY <1>8 DEF Creates, Starting
    <3>2. CASE Ends(o)
      BY <3>1, <3>2, PlainBase
    <3>3. CASE /\ NextGpus(op[o].gpu) # {}
               /\ \/ \E p \in Pod : op' = [op EXCEPT ![o].pc = "save", ![o].target = p, ![o].gpu = n]
                  \/ op' = [op EXCEPT ![o].gpu = n]
      <4>1. (\E p \in Pod : Moves(o, "save", p, n)) \/ Moves(o, "create", t, n)
        BY <1>0, <3>1, <3>3, CreateMoves
      <4> QED
        BY <3>1, <4>1, MovesBase DEF Starting
    <3> QED
      BY <1>8, <3>2, <3>3 DEF Creates, Fresh
  <2> QED
    BY <1>0, <1>8, <2>1, <2>2 DEF Creates, Base, TypeOK
<1>9. CASE Saves(o)
  <2>1. op' \in [Operator -> Requests] /\ Kinded'
    BY <1>9, PlainBase DEF Saves, Starting
  <2>2. settings' \in Settings
    BY <1>0, <1>9 DEF Saves, TypeOK, Settings
  <2> QED
    BY <1>0, <1>9, <2>1, <2>2 DEF Saves, Base, TypeOK
<1>10. CASE Replaces(o)
  <2>1. pod' \in Pods
    BY <1>0, <1>10, PodsType DEF Replaces, Replaced
  <2>2. op' \in [Operator -> Requests] /\ Kinded'
    <3>1. CASE Ends(o)
      BY <1>10, <3>1, PlainBase DEF Replaces, Starting
    <3>2. CASE \E p \in Pod : op' = [op EXCEPT ![o].seen[p] = "none"]
      BY <1>0, <1>10, <3>2, ReplaceMoves, MovesBase DEF Replaces, Starting
    <3> QED
      BY <1>10, <3>1, <3>2 DEF Replaces, Replaced
  <2> QED
    BY <1>0, <1>10, <2>1, <2>2 DEF Replaces, Base, TypeOK
<1>11. ASSUME Stops(o) \/ Deletes(o) PROVE Base'
  <2>1. pod' \in Pods
    BY <1>0, <1>11, PodsType DEF Stops, Deletes
  <2>2. settings' \in Settings
    <3>1. ASSUME NEW s \in Pod \cup {NoPod}, settings' = [settings EXCEPT !.selected = s] PROVE settings' \in Settings
      BY <1>0, <3>1 DEF TypeOK, Settings
    <3>2. settings \in Settings
      BY <1>0 DEF TypeOK
    <3> QED
      BY <1>11, <3>1, <3>2 DEF Stops, Deletes, Listed
  <2>3. op' \in [Operator -> Requests] /\ Kinded'
    <3>1. Ends(o)
      BY <1>11 DEF Stops, Deletes
    <3> QED
      BY <1>0, <3>1, EndsType, EndsAt, KindedOne DEF KindedAt
  <2> QED
    BY <1>0, <1>11, <2>1, <2>2, <2>3 DEF Stops, Deletes, Base, TypeOK
<1> QED
  BY <1>1, <1>2, <1>3, <1>4, <1>5, <1>6, <1>7, <1>8, <1>9, <1>10, <1>11 DEF Step

LEMMA OtherBase ==
    ASSUME Base, (\E p \in Pod : Provider(p) \/ Selects(p)) \/ UpdatesSettings
    PROVE  Base' /\ UNCHANGED op
<1>0. TypeOK /\ Kinded
  BY DEF Base
<1>1. ASSUME NEW p \in Pod, Provider(p) PROVE Base' /\ UNCHANGED op
  <2>1. pod' \in [Pod -> [state: PodStates, gpu: Gpu]]
    BY <1>0, <1>1, PodsType DEF Provider, PodWakes, PodExits, PodVanishes
  <2> QED
    BY <1>0, <1>1, <2>1 DEF Provider, Base, TypeOK, Kinded
<1>2. ASSUME Writes, settings' \in Settings PROVE Base' /\ UNCHANGED op
  <2>1. count' \in [begun: [Operator -> 0..MaxRequests], writes: 0..MaxWrites]
    BY <1>0, <1>2, Constants DEF Writes, TypeOK
  <2> QED
    BY <1>0, <1>2, <2>1 DEF Writes, Base, TypeOK, Kinded
<1>3. ASSUME NEW p \in Pod, Selects(p) PROVE Base' /\ UNCHANGED op
  BY <1>0, <1>2, <1>3 DEF Selects, TypeOK, Settings
<1>4. CASE UpdatesSettings
  BY <1>0, <1>2, <1>4 DEF UpdatesSettings, TypeOK, Settings
<1> QED
  BY <1>1, <1>3, <1>4

LEMMA BaseInit == Init => Base
<1> SUFFICES ASSUME Init PROVE Base
  OBVIOUS
<1>1. pod \in [Pod -> [state: PodStates, gpu: Gpu]]
  BY VolumeAssumption DEF Init, PodStates
<1>2. NewSettings \in Settings
  BY DEF NewSettings, Settings
<1>3. [begun |-> [o \in Operator |-> 0], writes |-> 0] \in [begun: [Operator -> 0..MaxRequests], writes: 0..MaxWrites]
  BY Constants
<1>4. Kinded
  BY DEF Init, Kinded, Idle
<1> QED
  BY <1>1, <1>2, <1>3, <1>4, IdleType DEF Init, Base, TypeOK

LEMMA BaseStep == Base /\ [Next]_vars => Base'
<1> SUFFICES ASSUME Base, [Next]_vars PROVE Base'
  OBVIOUS
<1>1. CASE Next
  BY <1>1, AsksBase, StepBase, OtherBase DEF Next
<1>2. CASE UNCHANGED vars
  BY <1>2 DEF vars, Base, TypeOK, Kinded
<1> QED
  BY <1>1, <1>2

(* What is asked is of the kinds its operator makes, and what is done to a *)
(* pod is what its request is for.                                         *)
THEOREM BaseInvariant == Spec => []Base
  BY BaseInit, BaseStep, PTL DEF Spec

(* TypeOK holds for any number of pods, operators and requests.            *)
THEOREM TypeCorrect == Spec => []TypeOK
<1>1. Base => TypeOK
  BY DEF Base
<1> QED
  BY <1>1, BaseInvariant, PTL

-----------------------------------------------------------------------------
(* One pod up                                                              *)

(* A step that starts no pod.                                              *)
Lowers == \A p \in Pod : (Up(p)' => Up(p)) /\ (pod'[p].state = "waking" => pod[p].state = "waking")

LEMMA ShownIs ==
    ASSUME TypeOK, NEW p \in Pod
    PROVE  /\ Shown(p) = "RUNNING" <=> pod[p].state \in {"RUNNING", "stopping"}
           /\ Shown(p) = "EXITED" <=> pod[p].state \in {"EXITED", "waking"}
           /\ Shown(p) = "none" <=> pod[p].state = "none"
<1>1. pod[p].state \in PodStates
  BY DEF TypeOK
<1> QED
  BY <1>1 DEF Shown, PodStates

LEMMA SetOne ==
    ASSUME TypeOK, NEW p \in Pod, NEW s, Set(p, s)
    PROVE  pod'[p].state = s /\ pod'[p].gpu = pod[p].gpu /\ \A q \in Pod \ {p} : pod'[q] = pod[q]
  BY DEF TypeOK, Set

LEMMA LowersOne ==
    ASSUME TypeOK
    PROVE  /\ \A p \in Pod : Set(p, Halted(p)) => Lowers
           /\ \A p \in Pod : Set(p, "none") => Lowers
           /\ UNCHANGED pod => Lowers
<1>1. ASSUME NEW p \in Pod, Set(p, Halted(p)) PROVE Lowers
  BY <1>1, SetOne DEF Halted, Lowers, Up
<1>2. ASSUME NEW p \in Pod, Set(p, "none") PROVE Lowers
  BY <1>2, SetOne DEF Lowers, Up
<1>3. ASSUME UNCHANGED pod PROVE Lowers
  BY <1>3 DEF Lowers, Up
<1> QED
  BY <1>1, <1>2, <1>3

LEMMA LowersPhased ==
    ASSUME Phased, Lowers
    PROVE  /\ OneUp'
           /\ \A w \in Operator : op'[w] = op[w] => PhasedAt(w)'
<1>1. OneUp'
  BY DEF Phased, OneUp, Lowers
<1>2. ASSUME NEW w \in Operator, op'[w] = op[w] PROVE PhasedAt(w)'
  BY <1>2 DEF Phased, PhasedAt, Lowers, Alone, NoneUp, SeenUp
<1> QED
  BY <1>1, <1>2

(* While one operator's start goes on, no other's does.                    *)
LEMMA OthersRest ==
    ASSUME OneStarter, Base, NEW o \in Operator, op[o].pc \in Starting \/ (op[o].pc = "list" /\ op[o].kind = "start")
    PROVE  \A w \in Operator \ {o} : op[w].pc \notin Starting
  BY DEF OneStarter, Base, Kinded, Starting

LEMMA RestPhased ==
    ASSUME NEW w \in Operator, op'[w].pc \notin Starting
    PROVE  PhasedAt(w)'
  BY DEF PhasedAt, Alone, NoneUp, SeenUp, Starting

LEMMA StarterPhased ==
    ASSUME OneStarter, Base, NEW o \in Operator, Only(o),
           op[o].pc \in Starting \/ (op[o].pc = "list" /\ op[o].kind = "start"),
           OneUp', PhasedAt(o)'
    PROVE  Phased'
  BY OthersRest, RestPhased DEF Phased, Only

LEMMA EndsPhased ==
    ASSUME Base, Phased, NEW o \in Operator, Ends(o), Lowers
    PROVE  Phased'
<1>1. Only(o) /\ op'[o].pc \notin Starting
  BY EndsAt DEF Base, TypeOK, Starting
<1> QED
  BY <1>1, LowersPhased, RestPhased DEF Phased, Only

LEMMA OnlyUp ==
    ASSUME NEW t, \A p \in Pod : Up(p)' => p = t
    PROVE  OneUp'
  BY DEF OneUp

LEMMA ListsPhased ==
    ASSUME Reliable, OneStarter, Base, Phased, NEW o \in Operator, Lists(o)
    PROVE  Phased'
<1>1. /\ TypeOK /\ op[o].pc = "list" /\ UNCHANGED pod /\ \A p \in Pod : pod[p].state # "waking"
  BY DEF Base, Lists, Reliable
<1>2. Lowers
  BY <1>1, LowersOne
<1>3. \A p \in Pod : Read[p] = Shown(p)
  BY DEF Read
<1>4. \A p \in Pod : (Read[p] = "RUNNING" <=> Up(p)) /\ (Up(p)' <=> Up(p))
  BY <1>1, <1>3, ShownIs DEF Up
<1>5. ASSUME NEW pc, NEW t, NEW prefs, Begun(o, pc, t, prefs), op[o].kind = "start", PhasedAt(o)' PROVE Phased'
  BY <1>1, <1>2, <1>5, LowersPhased, StarterPhased DEF Begun
<1>6. ASSUME NEW t \in Pod, NEW prefs, Read[t] = "RUNNING", Begun(o, "nudge", t, prefs) PROVE PhasedAt(o)'
  BY <1>4, <1>6 DEF Begun, PhasedAt, Alone, NoneUp, SeenUp, Phased, OneUp
<1>7. ASSUME NEW t \in Pod, NEW prefs, Read[t] # "RUNNING", Begun(o, "others", t, prefs) PROVE PhasedAt(o)'
  BY <1>1, <1>4, <1>7 DEF Begun, PhasedAt, Alone, NoneUp, SeenUp, Phased, OneUp
<1>8. ASSUME NEW t, NEW prefs, \A p \in Pod : Read[p] = "none", Begun(o, "create", t, prefs) PROVE PhasedAt(o)'
  BY <1>4, <1>8 DEF Begun, PhasedAt, Alone, NoneUp, SeenUp
<1>9. ASSUME NEW pc \in {"stop", "delete"}, NEW t, NEW prefs, Begun(o, pc, t, prefs) PROVE Phased'
  <2>1. Only(o) /\ op'[o].pc \notin Starting
    BY <1>9 DEF Begun, Starting
  <2> QED
    BY <1>2, <2>1, LowersPhased, RestPhased DEF Phased, Only
<1> QED
  BY <1>1, <1>2, <1>5, <1>6, <1>7, <1>8, <1>9, ListSteps, EndsPhased

LEMMA StepPhased ==
    ASSUME Reliable, OneStarter, Base, Phased, NEW o \in Operator, Step(o)
    PROVE  Phased'
<1> DEFINE t == op[o].target
<1>0. /\ TypeOK /\ op \in [Operator -> Requests] /\ PhasedAt(o) /\ OneUp
      /\ op[o].pc \notin {"idle", "list", "create"} => t \in Pod
      /\ \A f \in {"lost", "unread", "late"} : f \notin Faults
  BY DEF Base, TypeOK, Kinded, Phased, Reliable
<1>1. CASE Lists(o)
  BY <1>1, ListsPhased
<1>2. ASSUME Ends(o), Lowers PROVE Phased'
  BY <1>2, EndsPhased
<1>3. ASSUME op[o].pc \in Starting, Only(o), op'[o].target = t, op'[o].pc \in {"recheck", "save", "replace"},
             \A p \in Pod : Up(p)' => p = t
      PROVE  Phased'
  <2>1. PhasedAt(o)'
    BY <1>3 DEF PhasedAt, Alone, NoneUp, SeenUp
  <2> QED
    BY <1>3, <2>1, OnlyUp, StarterPhased
<1>4. ASSUME op[o].pc \in Starting, Only(o), op'[o].pc \in {"start", "switch", "create"}, \A p \in Pod : ~Up(p)'
      PROVE  Phased'
  <2>1. PhasedAt(o)' /\ OneUp'
    BY <1>4 DEF PhasedAt, Alone, NoneUp, SeenUp, OneUp
  <2> QED
    BY <1>4, <2>1, StarterPhased
<1>5. ASSUME NEW p \in Pod, NEW s, Set(p, s) PROVE \A q \in Pod \ {p} : Up(q)' <=> Up(q)
  BY <1>0, <1>5, SetOne DEF Up
<1>6. UNCHANGED pod => Lowers /\ \A p \in Pod : Up(p)' <=> Up(p)
  BY <1>0, LowersOne DEF Up
<1>7. CASE Nudges(o)
  <2>1. op[o].pc = "nudge" /\ t \in Pod /\ (\A p \in Pod : Up(p) => p = t)
    BY <1>0, <1>7 DEF Nudges, PhasedAt, Alone
  <2>2. CASE (\E s \in Woken(t) : Set(t, s)) /\ Goes(o, "save")
    BY <1>0, <1>3, <1>5, <2>1, <2>2, GoesTo DEF Starting
  <2> QED
    BY <1>0, <1>2, <1>6, <1>7, <2>2 DEF Nudges
<1>8. CASE StopsOthers(o)
  <2>1. /\ op[o].pc = "others" /\ op[o].seen[t] # "RUNNING" /\ \A p \in Pod : Up(p) => op[o].seen[p] = "RUNNING"
    BY <1>0, <1>8 DEF StopsOthers, PhasedAt, SeenUp
  <2>2. CASE Others(o) = {} /\ Goes(o, "start") /\ UNCHANGED pod
    <3>1. \A p \in Pod : ~Up(p)
      BY <2>1, <2>2 DEF Others, Active
    <3> QED
      BY <1>0, <1>4, <1>6, <2>1, <2>2, <3>1, GoesTo DEF Starting
  <2>3. CASE \E q \in Others(o) : Set(q, Halted(q)) /\ Goes(o, "wait")
    <3>1. Lowers
      BY <1>0, <2>3, LowersOne DEF Others, Active
    <3>2. Only(o) /\ op'[o].pc = "wait" /\ op'[o].target = t /\ op'[o].seen = op[o].seen
      BY <1>0, <2>3, GoesTo
    <3>3. PhasedAt(o)'
      BY <1>0, <2>1, <3>1, <3>2 DEF PhasedAt, Alone, NoneUp, SeenUp, Lowers
    <3> QED
      BY <2>1, <3>1, <3>2, <3>3, LowersPhased, StarterPhased DEF Starting
  <2>4. CASE (\E q \in Others(o) : Set(q, Halted(q)) \/ UNCHANGED pod) /\ Ends(o)
    BY <1>0, <1>2, <2>4, LowersOne DEF Others, Active
  <2> QED
    BY <1>0, <1>8, <2>2, <2>3, <2>4 DEF StopsOthers
<1>9. CASE Waits(o)
  <2>1. /\ op[o].pc = "wait" /\ UNCHANGED pod
        /\ \A p \in Pod : Up(p) => op[o].seen[p] = "RUNNING"
        /\ \A p \in Pod : pod[p].state # "waking"
        /\ \A p, q \in Pod : op[o].seen[p] = "RUNNING" /\ op[o].seen[q] = "RUNNING" => p = q
    BY <1>0, <1>9 DEF Waits, PhasedAt, SeenUp
  <2>2. ASSUME NEW q \in Others(o), Exited(q), op' = [op EXCEPT ![o].pc = "start", ![o].seen[q] = "EXITED"]
        PROVE  Phased'
    <3>1. q \in Pod /\ op[o].seen[q] = "RUNNING" /\ pod[q].state = "EXITED"
      BY <1>0, <2>1, <2>2, ShownIs DEF Others, Active, Exited
    <3>2. \A p \in Pod : ~Up(p)
      BY <2>1, <3>1 DEF Up
    <3>3. Only(o) /\ op'[o].pc = "start"
      BY <1>0, <2>2, <3>1, WaitMoves DEF Moves
    <3> QED
      BY <1>4, <1>6, <2>1, <3>2, <3>3 DEF Starting
  <2> QED
    BY <1>2, <1>6, <1>9, <2>1, <2>2 DEF Waits
<1>10. CASE Starts(o)
  <2>1. op[o].pc = "start" /\ t \in Pod /\ \A p \in Pod : ~Up(p)
    BY <1>0, <1>10 DEF Starts, PhasedAt, NoneUp
  <2>2. CASE (\E s \in Woken(t) : Set(t, s)) /\ Goes(o, "recheck")
    BY <1>0, <1>3, <1>5, <2>1, <2>2, GoesTo DEF Starting
  <2>3. CASE UNCHANGED pod /\ TryAgain(o)
    BY <1>0, <1>4, <1>6, <2>1, <2>3, TriesAgain DEF Starting
  <2> QED
    BY <1>0, <1>2, <1>6, <1>10, <2>2, <2>3 DEF Starts
<1>11. CASE Rechecks(o)
  <2>1. /\ op[o].pc = "recheck" /\ t \in Pod /\ (\A p \in Pod : Up(p) => p = t)
        /\ pod[t].state # "waking" /\ UNCHANGED pod
    BY <1>0, <1>11 DEF Rechecks, PhasedAt, Alone
  <2>2. CASE Goes(o, "save")
    BY <1>0, <1>3, <1>6, <2>1, <2>2, GoesTo DEF Starting
  <2>3. CASE Shown(t) # "RUNNING" /\ TryAgain(o)
    <3>1. \A p \in Pod : ~Up(p)
      BY <1>0, <2>1, <2>3, ShownIs DEF Up
    <3> QED
      BY <1>0, <1>4, <1>6, <2>1, <2>3, <3>1, TriesAgain DEF Starting
  <2> QED
    BY <1>0, <1>11, <2>2, <2>3 DEF Rechecks
<1>12. CASE Switches(o)
  <2>1. op[o].pc = "switch" /\ UNCHANGED pod /\ (\A p \in Pod : ~Up(p))
    BY <1>0, <1>12 DEF Switches, PhasedAt, NoneUp
  <2>2. Only(o) /\ op'[o].pc \in {"start", "create"}
    BY <1>0, <1>12, SwitchMoves DEF Moves
  <2> QED
    BY <1>4, <1>6, <2>1, <2>2 DEF Starting
<1>13. CASE Creates(o)
  <2> DEFINE n == NextGpu(op[o].gpu)
  <2>1. op[o].pc = "create" /\ (\A p \in Pod : ~Up(p))
    BY <1>0, <1>13 DEF Creates, PhasedAt, NoneUp
  <2>2. ASSUME NEW p \in Pod, NextGpus(op[o].gpu) # {},
               pod' = [pod EXCEPT ![p] = [state |-> "RUNNING", gpu |-> GPUs[n]]],
               op' = [op EXCEPT ![o].pc = "save", ![o].target = p, ![o].gpu = n]
        PROVE  Phased'
    <3>1. Only(o) /\ op'[o].pc = "save" /\ op'[o].target = p
      BY <1>0, <2>1, <2>2, CreateMoves DEF Moves
    <3>2. \A q \in Pod : Up(q)' => q = p
      BY <1>0, <2>1, <2>2 DEF Up, TypeOK
    <3>3. PhasedAt(o)'
      BY <3>1, <3>2 DEF PhasedAt, Alone, NoneUp, SeenUp
    <3> QED
      BY <2>1, <3>1, <3>2, <3>3, OnlyUp, StarterPhased DEF Starting
  <2>3. ASSUME NextGpus(op[o].gpu) # {}, UNCHANGED pod, op' = [op EXCEPT ![o].gpu = n]
        PROVE  Phased'
    <3>1. Only(o) /\ op'[o].pc = "create"
      BY <1>0, <2>1, <2>3, CreateMoves DEF Moves
    <3> QED
      BY <1>4, <1>6, <2>1, <2>3, <3>1 DEF Starting
  <2> QED
    BY <1>0, <1>2, <1>6, <1>13, <2>2, <2>3 DEF Creates, Fresh
<1>14. CASE Saves(o)
  <2>1. op[o].pc = "save" /\ t \in Pod /\ (\A p \in Pod : Up(p) => p = t) /\ UNCHANGED pod
    BY <1>0, <1>14 DEF Saves, PhasedAt, Alone
  <2>2. CASE Goes(o, "replace")
    BY <1>0, <1>3, <1>6, <2>1, <2>2, GoesTo DEF Starting
  <2> QED
    BY <1>2, <1>6, <1>14, <2>1, <2>2 DEF Saves
<1>15. CASE Replaces(o)
  <2>1. op[o].pc = "replace" /\ t \in Pod /\ (\A p \in Pod : Up(p) => p = t)
    BY <1>0, <1>15 DEF Replaces, PhasedAt, Alone
  <2>2. ASSUME NEW p \in Pod, Set(p, "none") \/ UNCHANGED pod, op' = [op EXCEPT ![o].seen[p] = "none"]
        PROVE  Phased'
    <3>1. Only(o) /\ op'[o].pc = "replace" /\ op'[o].target = t
      BY <1>0, <2>1, <2>2, ReplaceMoves DEF Moves
    <3>2. \A q \in Pod : Up(q)' => Up(q)
      BY <1>0, <2>2, LowersOne DEF Lowers
    <3> QED
      BY <1>3, <2>1, <3>1, <3>2 DEF Starting
  <2> QED
    BY <1>2, <1>6, <1>15, <2>2 DEF Replaces, Replaced
<1>16. CASE Stops(o) \/ Deletes(o)
  <2>1. Ends(o) /\ t \in Pod /\ (Set(t, Halted(t)) \/ Set(t, "none") \/ UNCHANGED pod)
    BY <1>0, <1>16 DEF Stops, Deletes
  <2> QED
    BY <1>0, <1>2, <2>1, LowersOne
<1> QED
  BY <1>1, <1>7, <1>8, <1>9, <1>10, <1>11, <1>12, <1>13, <1>14, <1>15, <1>16 DEF Step

LEMMA ProviderLowers ==
    ASSUME TypeOK, NEW p \in Pod, Provider(p)
    PROVE  /\ Lowers /\ UNCHANGED op
           /\ \A q \in Pod : /\ pod'[q].gpu = pod[q].gpu
                             /\ pod[q].state = "EXITED" => pod'[q].state = "EXITED"
<1>1. PICK s : /\ Set(p, s)
               /\ \/ s \in {"RUNNING", "EXITED"} /\ pod[p].state = "waking"
                  \/ s \in {"EXITED", "none"} /\ pod[p].state = "stopping"
  BY DEF Provider, PodWakes, PodExits, PodVanishes
<1>2. pod'[p].state = s /\ pod'[p].gpu = pod[p].gpu /\ \A q \in Pod \ {p} : pod'[q] = pod[q]
  BY <1>1, SetOne
<1> QED
  BY <1>1, <1>2 DEF Lowers, Up, Provider

LEMMA PhasedStep ==
    ASSUME Reliable, OneStarter, Base, Phased, [Next]_vars
    PROVE  Phased'
<1>1. ASSUME UNCHANGED op, Lowers PROVE Phased'
  BY <1>1, LowersPhased DEF Phased
<1>2. UNCHANGED pod => Lowers
  BY LowersOne DEF Base
<1>3. ASSUME NEW o \in Operator, NEW kind \in Kinds, NEW p \in Pod \cup {NoPod}, Asks(o, kind, p) PROVE Phased'
  <2>1. Only(o) /\ op'[o].pc \notin Starting /\ UNCHANGED pod
    BY <1>3, AsksBase DEF Starting
  <2> QED
    BY <1>2, <2>1, LowersPhased, RestPhased DEF Phased, Only
<1>4. ASSUME NEW p \in Pod, Provider(p) PROVE Phased'
  BY <1>1, <1>4, ProviderLowers DEF Base
<1>5. CASE (\E p \in Pod : Selects(p)) \/ UpdatesSettings \/ UNCHANGED vars
  BY <1>1, <1>2, <1>5 DEF Selects, UpdatesSettings, Writes, vars
<1> QED
  BY <1>3, <1>4, <1>5, StepPhased DEF Next

LEMMA PhasedInit == Init => Phased
<1> SUFFICES ASSUME Init PROVE Phased
  OBVIOUS
<1>1. OneUp
  <2>1. pod \in Volume /\ pod \in [Pod -> [state: {"none", "EXITED", "RUNNING"}, gpu: Gpu]]
    BY VolumeAssumption DEF Init
  <2>2. \A p, q \in Pod : pod[p].state = "RUNNING" /\ pod[q].state = "RUNNING" => p = q
    BY <2>1, VolumeAssumption
  <2>3. \A p \in Pod : pod[p].state \in {"none", "EXITED", "RUNNING"}
    BY <2>1
  <2> QED
    BY <2>2, <2>3 DEF OneUp, Up
<1>2. \A o \in Operator : PhasedAt(o)
  BY DEF Init, Idle, PhasedAt, Alone, NoneUp, SeenUp
<1> QED
  BY <1>1, <1>2 DEF Phased

(* start_sandbox_pod goes on only with every other pod down: it has waited *)
(* for the one that ran, and has seen the one it tried before stay down.   *)
THEOREM StartsAlone ==
    ASSUME Reliable, OneStarter
    PROVE  Spec => []Phased
<1>1. Base /\ Phased /\ [Next]_vars => Phased'
  BY PhasedStep
<1> QED
  BY <1>1, PhasedInit, BaseInvariant, PTL DEF Spec

(* Never two pods of the volume run at once, however many requests are     *)
(* made, pods are stopped or taken away meanwhile and starts are refused.  *)
THEOREM OneRuns ==
    ASSUME Reliable, OneStarter
    PROVE  Spec => []SingleRunning
<1>1. Phased => SingleRunning
  BY DEF Phased, OneUp, Up, SingleRunning, Runs
<1> QED
  BY <1>1, StartsAlone, PTL

-----------------------------------------------------------------------------
(* Deletions                                                               *)

LEMMA KeeperStarts == OneKeeper => OneStarter
  BY DEF OneKeeper, OneStarter

(* While one operator starts or deletes a pod, others can only stop some.  *)
LEMMA KeepersRest ==
    ASSUME OneKeeper, Base, NEW o \in Operator, op[o].pc \in Starting \cup {"delete"}
    PROVE  \A w \in Operator \ {o} : op[w].pc \in {"idle", "list", "stop"}
<1> SUFFICES ASSUME NEW w \in Operator \ {o}, op[w].pc \notin {"idle", "list", "stop"} PROVE FALSE
  OBVIOUS
<1>1. {op[o].kind, op[w].kind} \subseteq {"start", "terminate"}
  BY DEF Base, Kinded, Starting
<1>2. op[o].kind \in May[o] /\ op[w].kind \in May[w]
  BY DEF Base, Kinded, Starting
<1> QED
  BY <1>1, <1>2 DEF OneKeeper

Gentle == \A p \in Pod : /\ pod'[p].gpu = pod[p].gpu
                         /\ pod[p].state = "EXITED" => pod'[p].state = "EXITED"

LEMMA GentleSpare ==
    ASSUME Base, Gentle, NEW w \in Operator, op'[w] = op[w], Spare(w)
    PROVE  Spare(w)'
<1>1. op[w].pc \in {"delete", "save", "replace"} => op[w].target \in Pod
  BY DEF Base, Kinded
<1> QED
  BY <1>1 DEF Spare, Gentle

LEMMA RestSpare ==
    ASSUME NEW w \in Operator, op'[w] = op[w], op[w].pc \in {"idle", "list", "stop"}, Spare(w)
    PROVE  Spare(w)'
  BY DEF Spare

LEMMA ListsSpare ==
    ASSUME Reliable, Base, Spares, NEW o \in Operator, Lists(o)
    PROVE  Spares'
<1>1. TypeOK /\ op \in [Operator -> Requests] /\ UNCHANGED pod /\ (\A p \in Pod : pod[p].state # "waking") /\ Gentle
  BY DEF Base, TypeOK, Lists, Reliable, Gentle
<1>2. ASSUME NEW pc \in {"nudge", "others", "create", "stop"}, NEW t, NEW prefs, Begun(o, pc, t, prefs)
      PROVE  Spare(o)' /\ Only(o)
  BY <1>2 DEF Begun, Spare
<1>3. ASSUME NEW t \in Pod, NEW prefs, Read[t] = "EXITED", Begun(o, "delete", t, prefs) PROVE Spare(o)' /\ Only(o)
  <2>1. pod[t].state = "EXITED"
    BY <1>1, <1>3, ShownIs DEF Read
  <2> QED
    BY <1>1, <1>3, <2>1 DEF Begun, Spare
<1>4. ASSUME Ends(o) PROVE Spare(o)' /\ Only(o)
  BY <1>1, <1>4, EndsAt DEF Spare
<1>5. Spare(o)' /\ Only(o)
  BY <1>1, <1>2, <1>3, <1>4, ListSteps
<1> QED
  BY <1>1, <1>5, GentleSpare DEF Spares, Only

LEMMA StepSpare ==
    ASSUME Reliable, OneKeeper, Base, Spares, NEW o \in Operator, Step(o)
    PROVE  Spares'
<1> DEFINE t == op[o].target
<1>0. /\ TypeOK /\ op \in [Operator -> Requests] /\ Spare(o) /\ (\A w \in Operator : Spare(w))
      /\ op[o].pc \notin {"idle", "list", "create"} => t \in Pod
  BY DEF Base, TypeOK, Kinded, Spares
<1>1. CASE Lists(o)
  BY <1>1, ListsSpare
<1>2. ASSUME op[o].pc \in Starting \cup {"delete"}, Only(o), Spare(o)' PROVE Spares'
  BY <1>0, <1>2, KeepersRest, RestSpare DEF Spares, Only
<1>3. ASSUME Ends(o) PROVE Only(o) /\ Spare(o)'
  BY <1>0, <1>3, EndsAt DEF Spare
<1>4. CASE Nudges(o) \/ StopsOthers(o) \/ Starts(o) \/ Rechecks(o)
  <2>1. op[o].pc \in Starting /\ op[o].pc \notin {"create", "save", "replace"} /\ op[o].gpu = 0
    BY <1>0, <1>4 DEF Nudges, StopsOthers, Starts, Rechecks, Starting, Spare
  <2>2. ASSUME Only(o), op'[o].gpu = 0, op'[o].pc \in Starting, op'[o].pc # "replace" PROVE Spare(o)'
    BY <2>2 DEF Spare, Starting
  <2>3. CASE \E pc \in {"save", "start", "wait", "recheck"} : Goes(o, pc)
    BY <1>0, <1>2, <2>1, <2>2, <2>3, GoesTo DEF Starting
  <2>4. CASE TryAgain(o)
    BY <1>0, <1>2, <2>1, <2>2, <2>4, TriesAgain DEF Starting
  <2> QED
    BY <1>2, <1>3, <1>4, <2>1, <2>3, <2>4 DEF Nudges, StopsOthers, Starts, Rechecks
<1>5. CASE Waits(o) \/ Switches(o)
  <2>1. op[o].pc \in Starting /\ op[o].gpu = 0
    BY <1>0, <1>5 DEF Waits, Switches, Starting, Spare
  <2>2. ASSUME NEW pc \in {"start", "create"}, NEW u, Moves(o, pc, u, 0) PROVE Only(o) /\ Spare(o)'
    BY <2>2 DEF Moves, Spare
  <2>3. Only(o) /\ Spare(o)'
    BY <1>0, <1>3, <1>5, <2>1, <2>2, WaitMoves, SwitchMoves DEF Waits, Others, Active
  <2> QED
    BY <1>2, <2>1, <2>3
<1>6. CASE Creates(o)
  <2> DEFINE n == NextGpu(op[o].gpu)
  <2>1. op[o].pc = "create" /\ op[o].pc \in Starting
    BY <1>6 DEF Creates, Starting
  <2>2. ASSUME NEW p \in Pod, NextGpus(op[o].gpu) # {},
               pod' = [pod EXCEPT ![p] = [state |-> "RUNNING", gpu |-> GPUs[n]]],
               op' = [op EXCEPT ![o].pc = "save", ![o].target = p, ![o].gpu = n]
        PROVE  Only(o) /\ Spare(o)'
    <3>1. Moves(o, "save", p, n)
      BY <1>0, <2>1, <2>2, CreateMoves
    <3>2. pod'[p].gpu = GPUs[n]
      BY <1>0, <2>2 DEF TypeOK
    <3> QED
      BY <3>1, <3>2 DEF Moves, Spare
  <2>3. ASSUME NextGpus(op[o].gpu) # {}, op' = [op EXCEPT ![o].gpu = n] PROVE Only(o) /\ Spare(o)'
    <3>1. Moves(o, "create", t, n)
      BY <1>0, <2>1, <2>3, CreateMoves
    <3> QED
      BY <3>1 DEF Moves, Spare
  <2> QED
    BY <1>2, <1>3, <1>6, <2>1, <2>2, <2>3 DEF Creates, Fresh
<1>7. CASE Saves(o)
  <2>1. op[o].pc = "save" /\ op[o].pc \in Starting /\ UNCHANGED pod
    BY <1>7 DEF Saves, Starting
  <2>2. CASE op[o].gpu # 0 /\ Goes(o, "replace")
    BY <1>0, <1>2, <2>1, <2>2, GoesTo DEF Spare
  <2> QED
    BY <1>2, <1>3, <1>7, <2>1, <2>2 DEF Saves
<1>8. CASE Replaces(o)
  <2>1. op[o].pc = "replace" /\ op[o].pc \in Starting /\ t \in Pod
    BY <1>0, <1>8 DEF Replaces, Starting
  <2>2. ASSUME NEW p \in Pod, Set(p, "none") \/ UNCHANGED pod, op' = [op EXCEPT ![o].seen[p] = "none"]
        PROVE  Only(o) /\ Spare(o)'
    <3>1. Moves(o, "replace", t, op[o].gpu)
      BY <1>0, <2>1, <2>2, ReplaceMoves
    <3>2. pod'[t].gpu = pod[t].gpu
      BY <1>0, <2>1, <2>2, SetOne
    <3> QED
      BY <1>0, <2>1, <3>1, <3>2 DEF Moves, Spare
  <2> QED
    BY <1>2, <1>3, <1>8, <2>1, <2>2 DEF Replaces, Replaced
<1>9. CASE Stops(o)
  <2>1. t \in Pod /\ Ends(o) /\ (Set(t, Halted(t)) \/ UNCHANGED pod)
    BY <1>0, <1>9 DEF Stops
  <2>2. Gentle
    BY <1>0, <2>1, SetOne DEF Gentle, Halted
  <2> QED
    BY <1>0, <1>3, <2>1, <2>2, GentleSpare DEF Spares, Only
<1>10. CASE Deletes(o)
  BY <1>2, <1>3, <1>10 DEF Deletes
<1> QED
  BY <1>1, <1>4, <1>5, <1>6, <1>7, <1>8, <1>9, <1>10 DEF Step

LEMMA SpareStep ==
    ASSUME Reliable, OneKeeper, Base, Spares, [Next]_vars
    PROVE  Spares'
<1>1. ASSUME UNCHANGED op, Gentle PROVE Spares'
  BY <1>1, GentleSpare DEF Spares
<1>2. UNCHANGED pod => Gentle
  BY DEF Gentle
<1>3. ASSUME NEW o \in Operator, NEW kind \in Kinds, NEW p \in Pod \cup {NoPod}, Asks(o, kind, p) PROVE Spares'
  <2>1. Only(o) /\ op'[o].pc = "list" /\ op'[o].gpu = 0 /\ Gentle
    BY <1>2, <1>3, AsksBase
  <2>2. Spare(o)'
    BY <2>1 DEF Spare
  <2> QED
    BY <2>1, <2>2, GentleSpare DEF Spares, Only
<1>4. ASSUME NEW p \in Pod, Provider(p) PROVE Spares'
  BY <1>1, <1>4, ProviderLowers DEF Base, Gentle
<1>5. CASE (\E p \in Pod : Selects(p)) \/ UpdatesSettings \/ UNCHANGED vars
  BY <1>1, <1>2, <1>5 DEF Selects, UpdatesSettings, Writes, vars
<1> QED
  BY <1>3, <1>4, <1>5, StepSpare DEF Next

LEMMA Deletion ==
    ASSUME Base, Phased, Spares, Next, NEW p \in Pod, pod[p].state # "none", pod'[p].state = "none"
    PROVE  \/ pod[p].state = "stopping" /\ op' = op
           \/ /\ pod[p].state = "EXITED"
              /\ \E o \in Operator :
                   \/ op[o].pc = "delete" /\ op[o].target = p
                   \/ op[o].pc = "replace" /\ pod[op[o].target].gpu = pod[p].gpu
<1>0. TypeOK /\ pod[p].state \in PodStates
  BY DEF Base, TypeOK
<1>1. ASSUME NEW q \in Pod, \/ Set(q, Halted(q)) \/ (\E s \in Woken(q) : Set(q, s)) \/ UNCHANGED pod PROVE FALSE
  BY <1>0, <1>1, SetOne DEF Halted, Woken
<1>2. ASSUME NEW q \in Pod, Provider(q) PROVE pod[p].state = "stopping" /\ op' = op
  BY <1>0, <1>2, SetOne DEF Provider, PodWakes, PodExits, PodVanishes
<1>3. ASSUME NEW o \in Operator, Step(o)
      PROVE  /\ pod[p].state = "EXITED"
             /\ \/ op[o].pc = "delete" /\ op[o].target = p
                \/ op[o].pc = "replace" /\ pod[op[o].target].gpu = pod[p].gpu
  <2>0. op[o].pc \notin {"idle", "list", "create"} => op[o].target \in Pod
    BY DEF Base, Kinded
  <2>1. CASE Deletes(o)
    <3>1. p = op[o].target /\ op[o].pc = "delete"
      BY <1>0, <2>0, <2>1, SetOne DEF Deletes
    <3> QED
      BY <3>1 DEF Spares, Spare
  <2>2. CASE Replaces(o)
    <3>1. op[o].pc = "replace" /\ p \in Replaced(o)
      BY <1>0, <2>2, SetOne DEF Replaces, Replaced
    <3>2. ~Up(p)
      BY <3>1 DEF Replaced, Phased, PhasedAt, Alone
    <3>3. pod[op[o].target].gpu = GPUs[op[o].gpu]
      BY <3>1 DEF Spares, Spare
    <3> QED
      BY <1>0, <3>1, <3>2, <3>3 DEF Replaced, Up, PodStates
  <2>3. CASE Creates(o)
    BY <1>0, <1>1, <2>3 DEF Creates, Fresh, TypeOK
  <2>4. CASE \E q \in Pod : Set(q, Halted(q)) \/ (\E s \in Woken(q) : Set(q, s)) \/ UNCHANGED pod
    BY <1>1, <2>4
  <2> QED
    BY <1>3, <2>0, <2>1, <2>2, <2>3, <2>4
       DEF Step, Lists, Nudges, StopsOthers, Others, Active, Waits, Starts, Rechecks, Switches, Saves, Stops
<1> QED
  BY <1>1, <1>2, <1>3 DEF Next, Asks, Selects, UpdatesSettings, Writes

LEMMA SpareInit == Init => Spares
  BY DEF Init, Idle, Spares, Spare

(* _terminate_replaced_pods and terminate_sandbox_pod delete no pod that   *)
(* runs or wakes, and none but the one asked for or one with the new pod's *)
(* GPU, however long before the list was read that says so.                *)
THEOREM SparesOnly ==
    ASSUME Reliable, OneKeeper
    PROVE  Spec => DeletesOnlySpares
<1>1. Base /\ Spares /\ [Next]_vars => Spares'
  BY SpareStep
<1>2. ASSUME Base, Phased, Spares, [Next]_vars
      PROVE  [\A p \in Pod : pod[p].state # "none" /\ pod'[p].state = "none" =>
                \/ pod[p].state = "stopping" /\ op' = op
                \/ /\ pod[p].state = "EXITED"
                   /\ \E o \in Operator :
                        \/ op[o].pc = "delete" /\ op[o].target = p
                        \/ op[o].pc = "replace" /\ pod[op[o].target].gpu = pod[p].gpu]_vars
  BY <1>2, Deletion
<1>3. Spec => []Phased
  BY KeeperStarts, StartsAlone
<1>4. Spec => []Spares
  BY <1>1, SpareInit, BaseInvariant, PTL DEF Spec
<1> QED
  BY <1>2, <1>3, <1>4, BaseInvariant, PTL DEF Spec, DeletesOnlySpares
=============================================================================
