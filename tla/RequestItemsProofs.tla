-------------------------- MODULE RequestItemsProofs --------------------------
(***************************************************************************)
(* Proofs about RequestItems, for any number of processes, items, batches, *)
(* tasks, crashes and reworks and for every fault: type correctness, the   *)
(* fencing of claims; and, for one process, one task per draft.            *)
(***************************************************************************)
EXTENDS RequestItems, FiniteSetTheorems, WellFoundedInduction, TLAPS

(* Who holds JOB_LOCK, and what there is left to do.                       *)
LocksHeld == \A a \in App :
    /\ lock[a] = "web" <=> web[a].pc # "idle"
    /\ lock[a] = "recovery" <=> recovery[a].pc = "record"
    /\ lock[a] = "sync" <=> sync[a].task # NoTask
WebHasWork      == \A a \in App : web[a].pc \notin {"idle", "answer"} => web[a].todo # {}
RecoveryHasWork == \A a \in App : recovery[a].pc # "idle" => Todo(a) # {}

(* A task was made for an item; whoever records it has seen it, and what   *)
(* is written to an item that is there leaves it there.                    *)
TasksHaveItems == \A t \in Task : Live(t) => task[t].item \in Item
SyncsLive      == \A a \in App : sync[a].task # NoTask => Live(sync[a].task) /\ sync[a].status # "none"
ReworksLive    == \A a \in App : rework[a].task # NoTask => Live(rework[a].task)
ViewsLive      == \A a \in App, i \in Item : view[a].before[i] # view[a].after[i] => view[a].after[i] # "none"

(* The claim of an item is the latest attempt, and that of an item nobody  *)
(* stored is none.                                                         *)
ClaimIsLatest == \A i \in Item :
    /\ item[i].claim \in {0, item[i].attempts}
    /\ item[i].status = "none" => item[i].claim = 0

Base == TypeOK /\ WebHasWork /\ RecoveryHasWork /\ TasksHaveItems /\ SyncsLive /\ ReworksLive /\ ViewsLive /\ ClaimIsLatest

(* In one process: what the look for a task of the draft has found still   *)
(* holds when the task is inserted, since the lock is held all the while.  *)
NoneYet == \A a \in App :
    /\ web[a].pc = "record" => TasksOfDraft(DraftOf[First(web[a].todo)]) = {}
    /\ recovery[a].pc = "record" => TasksOfDraft(DraftOf[Current(a)]) = {}
OwnDrafts == \A s, t \in Task :
    Live(s) /\ Live(t) /\ DraftOf[task[s].item] = DraftOf[task[t].item] => s = t

Single == LocksHeld /\ NoneYet /\ OwnDrafts

-----------------------------------------------------------------------------
(* Items, tasks and batches                                                *)

LEMMA Constants ==
    /\ Item \subseteq Nat /\ 0 \notin Item /\ DraftOf \in [Item -> Draft] /\ BatchOf \in [Item -> Batch]
    /\ Task \subseteq Nat /\ 0 \notin Task /\ Unknown \notin Task
    /\ MaxTask \in Nat /\ MaxClaims \in Nat /\ MaxCrashes \in Nat /\ MaxReworks \in Nat /\ MaxSpent \in Nat
  BY ItemAssumption, BoundsAssumption DEF Task, Unknown

LEMMA FirstIn ==
    ASSUME NEW S \in SUBSET Item, S # {}
    PROVE  First(S) \in S
<1>1. S \subseteq Nat
  BY Constants
<1> DEFINE Less == {p \in Nat \X Nat : p[1] < p[2]}
<1>2. IsWellFoundedOn(Less, Nat)
  <2>1. Less = OpToRel(<, Nat)
    BY DEF OpToRel
  <2> QED
    BY <2>1, NatLessThanWellFounded
<1>3. PICK i \in S : \A j \in S : ~(<<j, i>> \in Less)
  BY <1>1, <1>2, WFMin
<1>4. \A j \in S : i <= j
  <2> TAKE j \in S
  <2>1. <<j, i>> \in Nat \X Nat /\ ~(<<j, i>> \in Less)
    BY <1>1, <1>3
  <2>2. ~(j < i)
    BY <2>1
  <2> QED
    BY <1>1, <2>2
<1> QED
  BY <1>4 DEF First

Summaries == {"DRAFT", "QUEUED", "IN_PROGRESS", "PARTIAL_FAILED"} \cup Ended

LEMMA SummaryType == ASSUME NEW st, NEW b PROVE Summary(st, b) \in Summaries
  BY DEF Summary, Summaries, Ended

LEMMA EmptyTypes ==
    /\ NewItem \in Items /\ IdleWeb \in Web /\ IdleRecovery \in Recovery
    /\ IdleSync \in Sync /\ IdleRework \in Rework /\ IdleView \in View
<1>1. (CHOOSE b \in Batch : TRUE) \in Batch
  BY ItemAssumption
<1>2. Nothing \in Status
  BY DEF Nothing, Status, TaskStatus
<1>3. [i \in Item |-> 0] \in [Item -> 0..MaxClaims] /\ 0 \in 0..MaxClaims
  BY Constants
<1>4. NewItem \in Items
  BY <1>3 DEF NewItem, Items, TaskStatus
<1>5. IdleWeb \in Web
  BY <1>1 DEF IdleWeb, Web
<1>6. IdleRecovery \in Recovery
  BY <1>3 DEF IdleRecovery, Recovery
<1>7. IdleSync \in Sync /\ IdleRework \in Rework /\ IdleView \in View
  BY <1>2 DEF IdleSync, IdleRework, IdleView, Sync, Rework, View, TaskStatus
<1> QED
  BY <1>4, <1>5, <1>6, <1>7

LEMMA PutType ==
    ASSUME item \in [Item -> Items], summary \in [Batch -> Summaries],
           NEW i \in Item, NEW r \in Items, Put(i, r)
    PROVE  item' \in [Item -> Items] /\ summary' \in [Batch -> Summaries]
  BY SummaryType DEF Put

LEMMA ItemTypes ==
    ASSUME item \in [Item -> Items], NEW i \in Item
    PROVE  /\ \A t \in Task : Attached(i, t) \in Items
           /\ Failed(i) \in Items
           /\ \A t \in Task : [item[i] EXCEPT !.task = t, !.status = "PENDING_SUBMIT", !.old = FALSE,
                                              !.expired = FALSE] \in Items
<1>1. item[i] \in Items /\ 0 \in 0..MaxClaims /\ {"PENDING_SUBMIT", "FAILED"} \subseteq TaskStatus
  BY Constants DEF TaskStatus, Ended
<1>2. \A t \in Task : Attached(i, t) \in Items
  BY <1>1 DEF Attached, Items
<1>3. Failed(i) \in Items
  BY <1>1 DEF Failed, Items
<1>4. \A t \in Task : [item[i] EXCEPT !.task = t, !.status = "PENDING_SUBMIT", !.old = FALSE,
                                      !.expired = FALSE] \in Items
  BY <1>1 DEF Items
<1> QED
  BY <1>2, <1>3, <1>4

LEMMA ReleasedType ==
    ASSUME NEW r \in Items
    PROVE  [r EXCEPT !.claim = 0, !.expired = FALSE] \in Items
<1>1. 0 \in 0..MaxClaims
  BY Constants
<1> QED
  BY <1>1 DEF Items

LEMMA RowTypes ==
    ASSUME NEW r \in Items, NEW t \in Task, NEW s \in TaskStatus
    PROVE  /\ [r EXCEPT !.task = t, !.status = s] \in Items
           /\ [r EXCEPT !.task = t, !.status = s, !.claim = 0, !.expired = FALSE] \in Items
<1>1. 0 \in 0..MaxClaims
  BY Constants
<1> QED
  BY <1>1 DEF Items

LEMMA InsertType ==
    ASSUME item \in [Item -> Items], summary \in [Batch -> Summaries], task \in [Task -> Tasks],
           NEW i \in Item, NEW t \in Task, Insert(i, t)
    PROVE  /\ item' \in [Item -> Items] /\ summary' \in [Batch -> Summaries]
           /\ task' \in [Task -> Tasks]
<1>1. item' \in [Item -> Items] /\ summary' \in [Batch -> Summaries]
  BY ItemTypes, PutType DEF Insert
<1>2. [status |-> "PENDING_SUBMIT", item |-> i] \in Tasks
  BY DEF Tasks, TaskStatus
<1> QED
  BY <1>1, <1>2 DEF Insert

LEMMA StatusTypes ==
    ASSUME item \in [Item -> Items], task \in [Task -> Tasks]
    PROVE  Statuses \in Status /\ Reconciled \in Status
<1>1. \A i \in Item : item[i].status \in TaskStatus
  BY DEF Items
<1>2. \A i \in Item : Live(item[i].task) => task[item[i].task].status \in TaskStatus
  BY DEF Live, Tasks
<1> QED
  BY <1>1, <1>2 DEF Statuses, Reconciled, Status

-----------------------------------------------------------------------------
(* Types                                                                   *)

LEMMA TypeParts ==
    TypeOK <=> /\ item \in [Item -> Items] /\ summary \in [Batch -> Summaries]
               /\ task \in [Task -> Tasks]
               /\ lock \in [App -> {"free", "web", "recovery", "sync"}]
               /\ web \in [App -> Web] /\ recovery \in [App -> Recovery]
               /\ sync \in [App -> Sync] /\ rework \in [App -> Rework] /\ view \in [App -> View]
               /\ spent \in [crashes: 0..MaxCrashes, reworks: 0..MaxReworks]
  BY DEF TypeOK, Summaries

LEMMA WebGoesType ==
    ASSUME web \in [App -> Web], NEW a \in App,
           NEW pc \in {"prepare", "record", "attach", "fail", "answer"}, NEW t \in {NoTask, Unknown} \cup Task,
           WebGoes(a, pc, t)
    PROVE  web' \in [App -> Web]
  BY DEF WebGoes, Web

LEMMA WebNextType ==
    ASSUME web \in [App -> Web], NEW a \in App, WebNext(a)
    PROVE  web' \in [App -> Web]
<1> DEFINE rest == web[a].todo \ {First(web[a].todo)}
           pc   == IF rest = {} THEN "answer" ELSE "prepare"
<1>1. rest \in SUBSET Item /\ pc \in {"answer", "prepare"}
  BY DEF Web
<1>2. web' = [web EXCEPT ![a].pc = pc, ![a].todo = rest, ![a].job = NoTask]
  BY DEF WebNext
<1> HIDE DEF rest, pc
<1> QED
  BY <1>1, <1>2 DEF Web

LEMMA RecoveryGoesType ==
    ASSUME recovery \in [App -> Recovery], NEW a \in App,
           NEW pc \in {"look", "recheck", "prepare", "record", "attach", "except"},
           NEW t \in {NoTask, Unknown} \cup Task, RecoveryGoes(a, pc, t)
    PROVE  recovery' \in [App -> Recovery]
  BY DEF RecoveryGoes, Recovery

LEMMA RecoveryNextType ==
    ASSUME recovery \in [App -> Recovery], NEW a \in App, RecoveryNext(a)
    PROVE  recovery' \in [App -> Recovery]
<1> DEFINE claims == [recovery[a].claims EXCEPT ![Current(a)] = 0]
           pc     == IF Todo(a) = {Current(a)} THEN "idle" ELSE "look"
<1>1. pc \in {"idle", "look"}
  OBVIOUS
<1>3. claims \in [Item -> 0..MaxClaims]
  <2>1. recovery[a].claims \in [Item -> 0..MaxClaims] /\ 0 \in 0..MaxClaims
    BY Constants DEF Recovery
  <2> QED
    BY <2>1
<1>2. recovery' = [recovery EXCEPT ![a] = [pc |-> pc, claims |-> claims, job |-> NoTask]]
  BY DEF RecoveryNext
<1> HIDE DEF claims, pc
<1> QED
  BY <1>1, <1>2, <1>3 DEF Recovery

(* The item a handler or a recovery works on.                              *)
LEMMA WebItem ==
    ASSUME web \in [App -> Web], WebHasWork, NEW a \in App, web[a].pc \notin {"idle", "answer"}
    PROVE  First(web[a].todo) \in web[a].todo /\ First(web[a].todo) \in Item
<1>1. web[a].todo \in SUBSET Item /\ web[a].todo # {}
  BY DEF Web, WebHasWork
<1> QED
  BY <1>1, FirstIn

LEMMA RecoveryItem ==
    ASSUME recovery \in [App -> Recovery], RecoveryHasWork, NEW a \in App, recovery[a].pc # "idle"
    PROVE  Current(a) \in Todo(a) /\ Current(a) \in Item
<1>1. Todo(a) \in SUBSET Item /\ Todo(a) # {}
  BY DEF Todo, RecoveryHasWork
<1> QED
  BY <1>1, FirstIn DEF Current

LEMMA AcceptsTypes ==
    ASSUME Base, NEW a \in App, NEW b \in Batch, NEW S \in SUBSET Item, WebAccepts(a, b, S)
    PROVE  TypeOK'
<1> USE TypeParts DEF Base
<1>1. item' \in [Item -> Items]
  BY EmptyTypes DEF WebAccepts
<1>2. summary' \in [Batch -> Summaries]
  BY SummaryType DEF WebAccepts
<1>3. [pc |-> "prepare", batch |-> b, todo |-> S, job |-> NoTask] \in Web
  BY DEF Web
<1>4. lock' \in [App -> {"free", "web", "recovery", "sync"}] /\ web' \in [App -> Web]
  BY <1>3 DEF WebAccepts
<1> QED
  BY <1>1, <1>2, <1>4 DEF WebAccepts, TypeOK, Summaries

LEMMA WebTypes ==
    ASSUME Base, NEW a \in App, WebStep(a)
    PROVE  TypeOK'
<1> DEFINE i == First(web[a].todo)
<1> USE TypeParts DEF Base
<1>1. CASE WebPrepares(a)
  <2>1. web' \in [App -> Web]
    BY <1>1, WebGoesType DEF WebPrepares, TasksOfDraft
  <2> QED
    BY <1>1, <2>1 DEF WebPrepares, TypeOK, Summaries
<1>2. CASE WebRecords(a)
  <2>1. i \in Item
    BY <1>2, WebItem DEF WebRecords
  <2>2. web' \in [App -> Web]
    BY <1>2, WebGoesType DEF WebRecords, FreeTask
  <2>3. /\ item' \in [Item -> Items] /\ summary' \in [Batch -> Summaries]
        /\ task' \in [Task -> Tasks]
    BY <1>2, <2>1, InsertType DEF WebRecords, FreeTask
  <2> QED
    BY <1>2, <2>2, <2>3 DEF WebRecords, TypeOK, Summaries
<1>3. CASE WebAttaches(a)
  <2>1. i \in Item
    BY <1>3, WebItem DEF WebAttaches
  <2>2. web' \in [App -> Web]
    BY <1>3, WebGoesType, WebNextType DEF WebAttaches
  <2>3. item' \in [Item -> Items] /\ summary' \in [Batch -> Summaries]
    BY <1>3, <2>1, ItemTypes, PutType DEF WebAttaches
  <2> QED
    BY <1>3, <2>2, <2>3 DEF WebAttaches, TypeOK, Summaries
<1>4. CASE WebFails(a)
  <2>1. i \in Item
    BY <1>4, WebItem DEF WebFails
  <2>2. web' \in [App -> Web]
    BY <1>4, WebNextType, EmptyTypes DEF WebFails
  <2>3. item' \in [Item -> Items] /\ summary' \in [Batch -> Summaries]
    BY <1>4, <2>1, ItemTypes, PutType DEF WebFails
  <2>4. lock' \in [App -> {"free", "web", "recovery", "sync"}]
    BY <1>4 DEF WebFails
  <2> QED
    BY <1>4, <2>2, <2>3, <2>4 DEF WebFails, TypeOK, Summaries
<1>5. CASE WebAnswers(a)
  <2>1. \A j \in Item : [item[j] EXCEPT !.status = Reconciled[j]] \in Items
    BY StatusTypes DEF Items, Status
  <2>2. item' \in [Item -> Items]
    BY <1>5, <2>1 DEF WebAnswers
  <2>3. summary' \in [Batch -> Summaries]
    BY <1>5, SummaryType DEF WebAnswers
  <2>4. lock' \in [App -> {"free", "web", "recovery", "sync"}] /\ web' \in [App -> Web]
    BY <1>5, EmptyTypes DEF WebAnswers
  <2> QED
    BY <1>5, <2>2, <2>3, <2>4 DEF WebAnswers, TypeOK, Summaries
<1> QED
  BY <1>1, <1>2, <1>3, <1>4, <1>5 DEF WebStep

LEMMA AttachClaimedType ==
    ASSUME Base, NEW a \in App, recovery[a].pc # "idle", NEW t,
           t \in Task \/ ~Owns(a) \/ item[Current(a)].task # NoTask, AttachClaimed(a, t)
    PROVE  item' \in [Item -> Items] /\ summary' \in [Batch -> Summaries]
  BY TypeParts, RecoveryItem, ItemTypes, PutType DEF Base, AttachClaimed

LEMMA RecoveryTypes ==
    ASSUME Base, NEW a \in App, RecoveryStep(a)
    PROVE  TypeOK'
<1> DEFINE i == Current(a)
<1> USE TypeParts DEF Base
<1>1. CASE RecoveryClaims(a)
  <2> DEFINE orphans == {j \in Item : Orphan(j) /\ item[j].attempts < MaxClaims}
             claims  == [j \in Item |-> IF j \in orphans THEN item[j].attempts + 1 ELSE 0]
  <2>1. \A j \in orphans : item[j].attempts + 1 \in 0..MaxClaims
    BY Constants DEF Items
  <2>2. \A j \in orphans : [item[j] EXCEPT !.attempts = @ + 1, !.claim = item[j].attempts + 1,
                                           !.expired = FALSE] \in Items
    BY <2>1 DEF Items
  <2>3. item' \in [Item -> Items]
    <3>1. item' = [j \in Item |-> IF j \in orphans
                     THEN [item[j] EXCEPT !.attempts = @ + 1, !.claim = item[j].attempts + 1, !.expired = FALSE]
                     ELSE item[j]]
      BY <1>1 DEF RecoveryClaims
    <3> QED
      BY <2>2, <3>1
  <2>4. claims \in [Item -> 0..MaxClaims]
    BY <2>1, Constants
  <2>5. recovery' \in [App -> Recovery]
    <3>1. recovery' = [recovery EXCEPT ![a].pc = "look", ![a].claims = claims]
      BY <1>1 DEF RecoveryClaims
    <3> HIDE DEF claims
    <3> QED
      BY <2>4, <3>1 DEF Recovery
  <2> QED
    BY <1>1, <2>3, <2>5 DEF RecoveryClaims, TypeOK, Summaries
<1>2. CASE RecoveryLooks(a)
  <2>1. item' \in [Item -> Items] /\ summary' \in [Batch -> Summaries]
    BY <1>2, AttachClaimedType DEF RecoveryLooks, TasksOfItem
  <2>2. recovery' \in [App -> Recovery]
    BY <1>2, RecoveryNextType, RecoveryGoesType DEF RecoveryLooks
  <2> QED
    BY <1>2, <2>1, <2>2 DEF RecoveryLooks, TypeOK, Summaries
<1>3. CASE RecoveryRechecks(a)
  <2>1. recovery' \in [App -> Recovery]
    BY <1>3, RecoveryNextType, RecoveryGoesType DEF RecoveryRechecks
  <2> QED
    BY <1>3, <2>1 DEF RecoveryRechecks, TypeOK, Summaries
<1>4. CASE RecoveryPrepares(a)
  <2>1. recovery' \in [App -> Recovery]
    BY <1>4, RecoveryGoesType DEF RecoveryPrepares, TasksOfDraft
  <2>2. lock' \in [App -> {"free", "web", "recovery", "sync"}]
    BY <1>4 DEF RecoveryPrepares
  <2> QED
    BY <1>4, <2>1, <2>2 DEF RecoveryPrepares, TypeOK, Summaries
<1>5. CASE RecoveryRecords(a)
  <2>1. i \in Item
    BY <1>5, RecoveryItem DEF RecoveryRecords
  <2>2. recovery' \in [App -> Recovery]
    BY <1>5, RecoveryGoesType DEF RecoveryRecords, FreeTask
  <2>3. /\ item' \in [Item -> Items] /\ summary' \in [Batch -> Summaries]
        /\ task' \in [Task -> Tasks]
    BY <1>5, <2>1, InsertType DEF RecoveryRecords, FreeTask
  <2>4. lock' \in [App -> {"free", "web", "recovery", "sync"}]
    BY <1>5 DEF RecoveryRecords
  <2> QED
    BY <1>5, <2>2, <2>3, <2>4 DEF RecoveryRecords, TypeOK, Summaries
<1>6. CASE RecoveryAttaches(a)
  <2>1. item' \in [Item -> Items] /\ summary' \in [Batch -> Summaries]
    BY <1>6, AttachClaimedType DEF RecoveryAttaches
  <2>2. recovery' \in [App -> Recovery]
    BY <1>6, RecoveryNextType, RecoveryGoesType DEF RecoveryAttaches
  <2> QED
    BY <1>6, <2>1, <2>2 DEF RecoveryAttaches, TypeOK, Summaries
<1>7. CASE RecoveryExcepts(a)
  <2>1. i \in Item
    BY <1>7, RecoveryItem DEF RecoveryExcepts
  <2>2. [item[i] EXCEPT !.claim = 0, !.expired = FALSE] \in Items
    <3>1. item[i] \in Items
      BY <2>1
    <3> QED
      BY <3>1, ReleasedType
  <2>3. item' \in [Item -> Items] /\ summary' \in [Batch -> Summaries]
    <3>1. \/ UNCHANGED <<item, summary>> \/ Put(i, Failed(i))
          \/ item' = [item EXCEPT ![i] = [item[i] EXCEPT !.claim = 0, !.expired = FALSE]] /\ UNCHANGED summary
      BY <1>7, <2>1 DEF RecoveryExcepts
    <3> QED
      BY <2>1, <2>2, <3>1, ItemTypes, PutType
  <2>4. recovery' \in [App -> Recovery]
    BY <1>7, RecoveryNextType, EmptyTypes DEF RecoveryExcepts
  <2> QED
    BY <1>7, <2>3, <2>4 DEF RecoveryExcepts, TypeOK, Summaries
<1> QED
  BY <1>1, <1>2, <1>3, <1>4, <1>5, <1>6, <1>7 DEF RecoveryStep

LEMMA OtherTypes ==
    ASSUME Base,
           \/ \E a \in App : SyncCommits(a) \/ ReworkCommits(a) \/ ViewCommits(a) \/ Crash(a)
           \/ \E a \in App, t \in Task : SyncReads(a, t) \/ ReworkReads(a, t)
           \/ \E a \in App, b \in Batch : ViewReads(a, b)
           \/ \E i \in Item : ItemAges(i) \/ ClaimExpires(i)
    PROVE  TypeOK'
<1> USE TypeParts DEF Base
<1>1. ASSUME NEW a \in App, SyncCommits(a) PROVE TypeOK'
  <2> DEFINE t == sync[a].task
             i == task[t].item
  <2>1. t \in Task /\ i \in Item /\ sync[a].status \in TaskStatus
    BY <1>1 DEF SyncCommits, Sync, SyncsLive, TasksHaveItems
  <2>2. [item[i] EXCEPT !.task = t, !.status = sync[a].status] \in Items
    <3>1. item[i] \in Items
      BY <2>1
    <3> QED
      BY <2>1, <3>1, RowTypes
  <2>3. item' \in [Item -> Items]
    <3>1. item' = [item EXCEPT ![i] = [item[i] EXCEPT !.task = t, !.status = sync[a].status]]
      BY <1>1, <2>1 DEF SyncCommits
    <3> QED
      BY <2>2, <3>1
  <2>4. task' \in [Task -> Tasks]
    BY <1>1, <2>1 DEF SyncCommits, Tasks
  <2>5. summary' \in [Batch -> Summaries]
    BY <1>1, SummaryType DEF SyncCommits
  <2>6. sync' \in [App -> Sync] /\ lock' \in [App -> {"free", "web", "recovery", "sync"}]
    BY <1>1, EmptyTypes DEF SyncCommits
  <2> QED
    BY <1>1, <2>3, <2>4, <2>5, <2>6 DEF SyncCommits, TypeOK, Summaries
<1>2. ASSUME NEW a \in App, ViewCommits(a) PROVE TypeOK'
  <2>1. view[a].after \in Status
    BY DEF View
  <2>2. \A i \in Item : [item[i] EXCEPT !.status = view[a].after[i]] \in Items
    BY <2>1 DEF Items, Status
  <2>3. item' \in [Item -> Items]
    BY <1>2, <2>2 DEF ViewCommits
  <2>4. summary' \in [Batch -> Summaries]
    BY <1>2, SummaryType DEF ViewCommits
  <2>5. view' \in [App -> View]
    BY <1>2, EmptyTypes DEF ViewCommits
  <2> QED
    BY <1>2, <2>3, <2>4, <2>5 DEF ViewCommits, TypeOK, Summaries
<1>3. ASSUME NEW a \in App, Crash(a) PROVE TypeOK'
  <2>1. spent' \in [crashes: 0..MaxCrashes, reworks: 0..MaxReworks]
    BY <1>3, Constants DEF Crash
  <2>2. /\ web' \in [App -> Web] /\ recovery' \in [App -> Recovery] /\ sync' \in [App -> Sync]
        /\ rework' \in [App -> Rework] /\ view' \in [App -> View] /\ lock' \in [App -> {"free", "web", "recovery", "sync"}]
    BY <1>3, EmptyTypes DEF Crash
  <2> QED
    BY <1>3, <2>1, <2>2 DEF Crash, TypeOK, Summaries
<1>4. ASSUME NEW a \in App, NEW t \in Task, SyncReads(a, t) PROVE TypeOK'
  <2>1. PICK s \in Follows[task[t].status] :
            sync' = [sync EXCEPT ![a] = [task |-> t, status |-> s, seen |-> Statuses]]
    BY <1>4 DEF SyncReads
  <2>2. s \in TaskStatus
    BY <2>1 DEF Follows, Tasks, TaskStatus, Ended
  <2>3. [task |-> t, status |-> s, seen |-> Statuses] \in Sync
    BY <2>2, StatusTypes DEF Sync
  <2>4. sync' \in [App -> Sync] /\ lock' \in [App -> {"free", "web", "recovery", "sync"}]
    BY <1>4, <2>1, <2>3 DEF SyncReads
  <2> QED
    BY <1>4, <2>4 DEF SyncReads, TypeOK, Summaries
<1>5. ASSUME NEW a \in App, NEW b \in Batch, ViewReads(a, b) PROVE TypeOK'
  <2>1. OfBatch(b, Statuses) \in Status /\ OfBatch(b, Reconciled) \in Status
    BY StatusTypes DEF OfBatch, Status, TaskStatus
  <2>2. view' \in [App -> View]
    BY <1>5, <2>1 DEF ViewReads, View
  <2> QED
    BY <1>5, <2>2 DEF ViewReads, TypeOK, Summaries
<1>6. ASSUME NEW a \in App, NEW t \in Task, ReworkReads(a, t) PROVE TypeOK'
  <2>1. [task |-> t, seen |-> Statuses] \in Rework
    BY StatusTypes DEF Rework
  <2>2. rework' \in [App -> Rework]
    BY <1>6, <2>1 DEF ReworkReads
  <2>3. spent.reworks + 1 \in 0..MaxReworks
    <3>1. spent.reworks \in 0..MaxReworks /\ spent.reworks < MaxReworks
      BY <1>6 DEF ReworkReads
    <3> QED
      BY <3>1, Constants
  <2>4. spent' \in [crashes: 0..MaxCrashes, reworks: 0..MaxReworks]
    BY <1>6, <2>3 DEF ReworkReads
  <2> QED
    BY <1>6, <2>2, <2>4 DEF ReworkReads, TypeOK, Summaries
<1>8. ASSUME NEW a \in App, ReworkCommits(a) PROVE TypeOK'
  <2> DEFINE t == rework[a].task
             i == task[t].item
             r == [item[i] EXCEPT !.task = t, !.status = "PENDING_SUBMIT", !.claim = 0, !.expired = FALSE]
  <2>1. t \in Task /\ i \in Item /\ "PENDING_SUBMIT" \in TaskStatus
    BY <1>8 DEF ReworkCommits, Reopened, Rework, ReworksLive, TasksHaveItems, TaskStatus
  <2>2. r \in Items
    <3>1. item[i] \in Items
      BY <2>1
    <3> QED
      BY <2>1, <3>1, RowTypes
  <2>3. item' = [item EXCEPT ![i] = r]
    BY <1>8, <2>1 DEF ReworkCommits, Reopened
  <2>4. item' \in [Item -> Items]
    BY <2>2, <2>3
  <2>5. task' \in [Task -> Tasks]
    BY <1>8, <2>1 DEF ReworkCommits, Reopened, Tasks
  <2>6. summary' \in [Batch -> Summaries]
    BY <1>8, SummaryType DEF ReworkCommits
  <2>7. rework' \in [App -> Rework]
    BY <1>8, EmptyTypes DEF ReworkCommits, Reopened
  <2> QED
    BY <1>8, <2>4, <2>5, <2>6, <2>7 DEF ReworkCommits, Reopened, TypeOK, Summaries
<1>7. ASSUME NEW i \in Item, ItemAges(i) \/ ClaimExpires(i) PROVE TypeOK'
  <2>1. [item[i] EXCEPT !.old = TRUE] \in Items /\ [item[i] EXCEPT !.expired = TRUE] \in Items
    BY DEF Items
  <2>2. PICK r \in Items : item' = [item EXCEPT ![i] = r]
    BY <1>7, <2>1 DEF ItemAges, ClaimExpires
  <2>3. item' \in [Item -> Items]
    BY <2>2
  <2> QED
    BY <1>7, <2>3 DEF ItemAges, ClaimExpires, TypeOK, Summaries
<1> QED
  BY <1>1, <1>2, <1>3, <1>4, <1>5, <1>6, <1>7, <1>8

-----------------------------------------------------------------------------
(* What there is to do                                                     *)

LEMMA WebGoesWork ==
    ASSUME web \in [App -> Web], NEW a \in App, WebHasWork, web[a].pc \notin {"idle", "answer"},
           NEW pc, NEW t, WebGoes(a, pc, t)
    PROVE  WebHasWork'
  BY DEF WebGoes, WebHasWork, Web

(* The handler is done with its first item.                                *)
LEMMA NextTodo ==
    ASSUME web \in [App -> Web], NEW a \in App, WebNext(a)
    PROVE  /\ \A c \in App \ {a} : web'[c] = web[c]
           /\ web'[a].todo = web[a].todo \ {First(web[a].todo)}
           /\ web'[a].pc = IF web'[a].todo = {} THEN "answer" ELSE "prepare"
<1> DEFINE rest == web[a].todo \ {First(web[a].todo)}
           pc   == IF rest = {} THEN "answer" ELSE "prepare"
<1>1. web' = [web EXCEPT ![a].pc = pc, ![a].todo = rest, ![a].job = NoTask]
  BY DEF WebNext
<1>2. pc = IF rest = {} THEN "answer" ELSE "prepare"
  OBVIOUS
<1> HIDE DEF rest, pc
<1>3. web'[a].pc = pc /\ web'[a].todo = rest /\ \A c \in App \ {a} : web'[c] = web[c]
  BY <1>1 DEF Web
<1> QED
  BY <1>2, <1>3 DEF rest

LEMMA WebNextWork ==
    ASSUME web \in [App -> Web], NEW a \in App, WebHasWork, WebNext(a)
    PROVE  WebHasWork'
<1>1. \A c \in App \ {a} : web'[c] = web[c]
  BY NextTodo
<1>2. web'[a].pc # "answer" => web'[a].todo # {}
  BY NextTodo
<1> QED
  BY <1>1, <1>2 DEF WebHasWork

LEMMA WebIdleWork ==
    ASSUME web \in [App -> Web], NEW a \in App, WebHasWork, web' = [web EXCEPT ![a] = IdleWeb]
    PROVE  WebHasWork'
  BY DEF IdleWeb, WebHasWork, Web

(* Whose steps change what the handlers and the recoveries do.             *)
LEMMA WebChanges ==
    ASSUME Next
    PROVE  \/ \E a \in App, b \in Batch, S \in SUBSET Item : WebAccepts(a, b, S)
           \/ \E a \in App : WebStep(a) \/ Crash(a)
           \/ UNCHANGED web
  BY DEF Next, RecoveryStep, RecoveryClaims, RecoveryLooks, RecoveryRechecks, RecoveryPrepares,
         RecoveryRecords, RecoveryAttaches, RecoveryExcepts, SyncReads, SyncCommits, ViewReads, ViewCommits,
         ReworkReads, ReworkCommits, Reopened, ItemAges, ClaimExpires

LEMMA RecoveryChanges ==
    ASSUME Next
    PROVE  (\E a \in App : RecoveryStep(a) \/ Crash(a)) \/ UNCHANGED recovery
  BY DEF Next, WebAccepts, WebStep, WebPrepares, WebRecords, WebAttaches, WebFails, WebAnswers,
         SyncReads, SyncCommits, ReworkReads, ReworkCommits, Reopened, ViewReads, ViewCommits, ItemAges, ClaimExpires

LEMMA WebWork ==
    ASSUME Base, Next
    PROVE  WebHasWork'
<1> USE TypeParts DEF Base
<1>1. ASSUME NEW a \in App, NEW b \in Batch, NEW S \in SUBSET Item, WebAccepts(a, b, S) PROVE WebHasWork'
  BY <1>1 DEF WebAccepts, WebHasWork, Web
<1>2. ASSUME NEW a \in App, WebStep(a) PROVE WebHasWork'
  BY <1>2, WebGoesWork, WebNextWork, WebIdleWork
     DEF WebStep, WebPrepares, WebRecords, WebAttaches, WebFails, WebAnswers
<1>3. ASSUME NEW a \in App, Crash(a) PROVE WebHasWork'
  BY <1>3, WebIdleWork DEF Crash
<1>4. CASE UNCHANGED web
  BY <1>4 DEF WebHasWork
<1> QED
  BY <1>1, <1>2, <1>3, <1>4, WebChanges

LEMMA RecoveryGoesWork ==
    ASSUME recovery \in [App -> Recovery], NEW a \in App, RecoveryHasWork, recovery[a].pc # "idle",
           NEW pc, NEW t, RecoveryGoes(a, pc, t)
    PROVE  RecoveryHasWork'
  BY DEF RecoveryGoes, RecoveryHasWork, Todo, Recovery

(* The recovery is done with one claim: that of its first item.            *)
LEMMA NextClaims ==
    ASSUME recovery \in [App -> Recovery], NEW a \in App, RecoveryNext(a)
    PROVE  /\ \A c \in App \ {a} : recovery'[c] = recovery[c]
           /\ recovery'[a].pc = IF Todo(a) = {Current(a)} THEN "idle" ELSE "look"
           /\ \A i \in Item : recovery'[a].claims[i] = IF i = Current(a) THEN 0 ELSE recovery[a].claims[i]
<1> DEFINE claims == [recovery[a].claims EXCEPT ![Current(a)] = 0]
           pc     == IF Todo(a) = {Current(a)} THEN "idle" ELSE "look"
<1>1. recovery' = [recovery EXCEPT ![a] = [pc |-> pc, claims |-> claims, job |-> NoTask]]
  BY DEF RecoveryNext
<1>2. \A i \in Item : claims[i] = IF i = Current(a) THEN 0 ELSE recovery[a].claims[i]
  BY DEF Recovery
<1> HIDE DEF claims, pc
<1>3. recovery'[a].pc = pc /\ recovery'[a].claims = claims /\ \A c \in App \ {a} : recovery'[c] = recovery[c]
  BY <1>1
<1> QED
  BY <1>2, <1>3 DEF pc

LEMMA RecoveryNextWork ==
    ASSUME recovery \in [App -> Recovery], NEW a \in App, RecoveryHasWork, recovery[a].pc # "idle",
           RecoveryNext(a)
    PROVE  RecoveryHasWork'
<1>1. \A c \in App \ {a} : Todo(c)' = Todo(c) /\ recovery'[c].pc = recovery[c].pc
  BY NextClaims DEF Todo
<1>2. Todo(a)' = Todo(a) \ {Current(a)}
  BY NextClaims DEF Todo
<1>3. Todo(a) # {} /\ (recovery'[a].pc # "idle" => Todo(a) # {Current(a)})
  BY NextClaims DEF RecoveryHasWork
<1> QED
  BY <1>1, <1>2, <1>3 DEF RecoveryHasWork

LEMMA RecoveryIdleWork ==
    ASSUME recovery \in [App -> Recovery], NEW a \in App, RecoveryHasWork,
           recovery' = [recovery EXCEPT ![a] = IdleRecovery]
    PROVE  RecoveryHasWork'
  BY DEF IdleRecovery, RecoveryHasWork, Todo, Recovery

LEMMA RecoveryWork ==
    ASSUME Base, Next
    PROVE  RecoveryHasWork'
<1> USE TypeParts DEF Base
<1>1. ASSUME NEW a \in App, RecoveryClaims(a) PROVE RecoveryHasWork'
  <2> DEFINE orphans == {j \in Item : Orphan(j) /\ item[j].attempts < MaxClaims}
             claims  == [j \in Item |-> IF j \in orphans THEN item[j].attempts + 1 ELSE 0]
  <2>3. orphans # {} /\ recovery' = [recovery EXCEPT ![a].pc = "look", ![a].claims = claims]
    BY <1>1 DEF RecoveryClaims
  <2>1. PICK i \in Item : i \in orphans
    BY <2>3
  <2>2. claims[i] # 0
    BY <2>1, Constants DEF Items
  <2> HIDE DEF claims
  <2>4. recovery'[a].claims = claims /\ \A c \in App \ {a} : recovery'[c] = recovery[c]
    BY <2>3 DEF Recovery
  <2> QED
    BY <2>1, <2>2, <2>4 DEF RecoveryHasWork, Todo
<1>2. ASSUME NEW a \in App, RecoveryLooks(a) \/ RecoveryRechecks(a) \/ RecoveryPrepares(a) \/ RecoveryRecords(a)
                            \/ RecoveryAttaches(a) \/ RecoveryExcepts(a)
      PROVE RecoveryHasWork'
  <2>1. recovery[a].pc # "idle"
    BY <1>2 DEF RecoveryLooks, RecoveryRechecks, RecoveryPrepares, RecoveryRecords, RecoveryAttaches, RecoveryExcepts
  <2>2. \/ \E pc, t : RecoveryGoes(a, pc, t)
        \/ RecoveryNext(a)
        \/ recovery' = [recovery EXCEPT ![a] = IdleRecovery]
    BY <1>2 DEF RecoveryLooks, RecoveryRechecks, RecoveryPrepares, RecoveryRecords, RecoveryAttaches, RecoveryExcepts
  <2> QED
    BY <2>1, <2>2, RecoveryGoesWork, RecoveryNextWork, RecoveryIdleWork
<1>3. ASSUME NEW a \in App, Crash(a) PROVE RecoveryHasWork'
  BY <1>3, RecoveryIdleWork DEF Crash
<1>4. CASE UNCHANGED recovery
  BY <1>4 DEF RecoveryHasWork, Todo
<1> QED
  BY <1>1, <1>2, <1>3, <1>4, RecoveryChanges DEF RecoveryStep

-----------------------------------------------------------------------------
(* Tasks: a step inserts one or changes none but the status of live ones.  *)

SameTasks == \A t \in Task : (Live(t)' <=> Live(t)) /\ (Live(t) => task'[t].item = task[t].item)

LEMMA TaskSteps ==
    ASSUME Base, Next
    PROVE  \/ SameTasks
           \/ \E a \in App, t \in FreeTask :
                 \/ WebRecords(a) /\ Insert(First(web[a].todo), t)
                 \/ RecoveryRecords(a) /\ Insert(Current(a), t)
<1> USE TypeParts DEF Base
<1>1. ASSUME NEW a \in App, SyncCommits(a) PROVE SameTasks
  <2>1. sync[a].task \in Task /\ Live(sync[a].task) /\ sync[a].status # "none"
    BY <1>1 DEF SyncCommits, SyncsLive, Sync
  <2>2. task' = [task EXCEPT ![sync[a].task].status = sync[a].status]
    BY <1>1 DEF SyncCommits
  <2> QED
    BY <2>1, <2>2 DEF SameTasks, Live, Tasks
<1>2. ASSUME NEW a \in App, ReworkCommits(a) PROVE SameTasks
  <2>1. rework[a].task \in Task /\ Live(rework[a].task)
    BY <1>2 DEF ReworkCommits, Reopened, ReworksLive, Rework
  <2>2. task' = [task EXCEPT ![rework[a].task].status = "PENDING_SUBMIT"]
    BY <1>2 DEF ReworkCommits, Reopened
  <2> QED
    BY <2>1, <2>2 DEF SameTasks, Live, Tasks
<1>3. CASE UNCHANGED task
  BY <1>3 DEF SameTasks, Live
<1>4. ASSUME NEW a \in App, WebStep(a) \/ RecoveryStep(a)
      PROVE  \/ UNCHANGED task
             \/ \E t \in FreeTask : \/ WebRecords(a) /\ Insert(First(web[a].todo), t)
                                    \/ RecoveryRecords(a) /\ Insert(Current(a), t)
  <2>1. CASE WebRecords(a) \/ RecoveryRecords(a)
    BY <2>1 DEF WebRecords, RecoveryRecords
  <2> QED
    BY <1>4, <2>1
       DEF WebStep, WebPrepares, WebAttaches, WebFails, WebAnswers, RecoveryStep, RecoveryClaims, RecoveryLooks,
           RecoveryRechecks, RecoveryPrepares, RecoveryAttaches, RecoveryExcepts
<1> QED
  <2>1. CASE \E a \in App : WebStep(a) \/ RecoveryStep(a)
    BY <1>3, <1>4, <2>1
  <2>2. CASE \E a \in App : SyncCommits(a) \/ ReworkCommits(a)
    BY <1>1, <1>2, <2>2
  <2>3. \/ \E a \in App : WebStep(a) \/ RecoveryStep(a)
        \/ \E a \in App : SyncCommits(a) \/ ReworkCommits(a)
        \/ UNCHANGED task
    BY DEF Next, WebAccepts, ViewCommits, Crash, SyncReads, ReworkReads, ViewReads, ItemAges, ClaimExpires
  <2> QED
    BY <1>3, <2>1, <2>2, <2>3

LEMMA Inserted ==
    ASSUME task \in [Task -> Tasks], NEW i \in Item, NEW t \in FreeTask, Insert(i, t)
    PROVE  /\ t \in Task /\ Live(t)' /\ task'[t].item = i
           /\ \A u \in Task \ {t} : (Live(u)' <=> Live(u)) /\ task'[u].item = task[u].item
  BY DEF FreeTask, Insert, Live, Tasks

LEMMA RecordedItem ==
    ASSUME Base, NEW a \in App
    PROVE  /\ WebRecords(a) => First(web[a].todo) \in Item
           /\ RecoveryRecords(a) => Current(a) \in Item
  BY TypeParts, WebItem, RecoveryItem DEF Base, WebRecords, RecoveryRecords

LEMMA LiveStays ==
    ASSUME Base, Next
    PROVE  (\A t \in Task : Live(t) => Live(t)') /\ TasksHaveItems'
<1> USE TypeParts DEF Base
<1>1. CASE SameTasks
  BY <1>1 DEF SameTasks, TasksHaveItems
<1>2. CASE \E i \in Item, t \in FreeTask : Insert(i, t)
  <2>1. PICK i \in Item, t \in FreeTask : Insert(i, t)
    BY <1>2
  <2> QED
    BY <2>1, Inserted DEF TasksHaveItems
<1> QED
  BY <1>1, <1>2, TaskSteps, RecordedItem

LEMMA SyncWork ==
    ASSUME Base, Next
    PROVE  SyncsLive'
<1> USE TypeParts DEF Base
<1>1. ASSUME NEW a \in App, NEW t \in Task, SyncReads(a, t) PROVE SyncsLive'
  <2>1. PICK s \in Follows[task[t].status] :
            sync' = [sync EXCEPT ![a] = [task |-> t, status |-> s, seen |-> Statuses]]
    BY <1>1 DEF SyncReads
  <2>2. task[t].status \in TaskStatus
    BY DEF Tasks
  <2>3. task[t].status # "none" /\ s # "none"
    BY <2>1, <2>2 DEF Follows, TaskStatus, Ended
  <2>4. UNCHANGED task
    BY <1>1 DEF SyncReads
  <2> QED
    BY <2>1, <2>3, <2>4 DEF SyncsLive, Live, Sync
<1>2. ASSUME NEW a \in App, sync' = [sync EXCEPT ![a] = IdleSync] PROVE SyncsLive'
  BY <1>2, LiveStays DEF SyncsLive, IdleSync, Sync
<1>3. CASE UNCHANGED sync
  BY <1>3, LiveStays DEF SyncsLive, Sync
<1>4. \/ \E a \in App, t \in Task : SyncReads(a, t)
      \/ \E a \in App : sync' = [sync EXCEPT ![a] = IdleSync]
      \/ UNCHANGED sync
  <2> HIDE DEF Base
  <2> QED
    BY DEF Next, WebAccepts, WebStep, WebPrepares, WebRecords, WebAttaches, WebFails, WebAnswers, RecoveryStep,
         RecoveryClaims, RecoveryLooks, RecoveryRechecks, RecoveryPrepares, RecoveryRecords, RecoveryAttaches,
         RecoveryExcepts, SyncCommits, ReworkReads, ReworkCommits, Reopened, ViewReads, ViewCommits, Crash,
         ItemAges, ClaimExpires
<1> QED
  BY <1>1, <1>2, <1>3, <1>4

LEMMA ReworkWork ==
    ASSUME Base, Next
    PROVE  ReworksLive'
<1> USE TypeParts DEF Base
<1>1. ASSUME NEW a \in App, NEW t \in Task, ReworkReads(a, t) PROVE ReworksLive'
  <2>1. Live(t) /\ UNCHANGED task /\ rework' = [rework EXCEPT ![a] = [task |-> t, seen |-> Statuses]]
    BY <1>1 DEF ReworkReads, Live, Ended
  <2> QED
    BY <2>1 DEF ReworksLive, Live, Rework
<1>2. ASSUME NEW a \in App, rework' = [rework EXCEPT ![a] = IdleRework] PROVE ReworksLive'
  BY <1>2, LiveStays DEF ReworksLive, IdleRework, Rework
<1>3. CASE UNCHANGED rework
  BY <1>3, LiveStays DEF ReworksLive, Rework
<1>4. \/ \E a \in App, t \in Task : ReworkReads(a, t)
      \/ \E a \in App : rework' = [rework EXCEPT ![a] = IdleRework]
      \/ UNCHANGED rework
  <2> HIDE DEF Base
  <2> QED
    BY DEF Next, WebAccepts, WebStep, WebPrepares, WebRecords, WebAttaches, WebFails, WebAnswers, RecoveryStep,
         RecoveryClaims, RecoveryLooks, RecoveryRechecks, RecoveryPrepares, RecoveryRecords, RecoveryAttaches,
         RecoveryExcepts, SyncReads, SyncCommits, ReworkCommits, Reopened, ViewReads, ViewCommits, Crash,
         ItemAges, ClaimExpires
<1> QED
  BY <1>1, <1>2, <1>3, <1>4

LEMMA ViewWork ==
    ASSUME Base, Next
    PROVE  ViewsLive'
<1> USE TypeParts DEF Base
<1>1. ASSUME NEW a \in App, NEW b \in Batch, ViewReads(a, b) PROVE ViewsLive'
  <2>1. view' = [view EXCEPT ![a] = [on |-> TRUE, before |-> OfBatch(b, Statuses),
                                     after |-> OfBatch(b, Reconciled)]]
    BY <1>1 DEF ViewReads
  <2>2. \A i \in Item : OfBatch(b, Statuses)[i] # OfBatch(b, Reconciled)[i] => OfBatch(b, Reconciled)[i] # "none"
    BY DEF OfBatch, Statuses, Reconciled, Live
  <2> HIDE DEF OfBatch, Reconciled, Statuses
  <2> QED
    BY <2>1, <2>2 DEF ViewsLive, View
<1>2. ASSUME NEW a \in App, view' = [view EXCEPT ![a] = IdleView] PROVE ViewsLive'
  BY <1>2 DEF ViewsLive, IdleView, View
<1>3. CASE UNCHANGED view
  BY <1>3 DEF ViewsLive, View
<1>4. \/ \E a \in App, b \in Batch : ViewReads(a, b)
      \/ \E a \in App : view' = [view EXCEPT ![a] = IdleView]
      \/ UNCHANGED view
  BY DEF Next, WebAccepts, WebStep, WebPrepares, WebRecords, WebAttaches, WebFails, WebAnswers, RecoveryStep,
         RecoveryClaims, RecoveryLooks, RecoveryRechecks, RecoveryPrepares, RecoveryRecords, RecoveryAttaches,
         RecoveryExcepts, SyncReads, SyncCommits, ReworkReads, ReworkCommits, Reopened, ViewCommits, Crash,
         ItemAges, ClaimExpires
<1> QED
  BY <1>1, <1>2, <1>3, <1>4

-----------------------------------------------------------------------------
(* Claims: what a step does to the claim of an item                        *)

(* It is left alone,                                                       *)
Kept(i) ==
    /\ item'[i].claim = item[i].claim /\ item'[i].attempts = item[i].attempts
    /\ item'[i].status = "none" => item[i].status = "none"

(* ended by one who may end it,                                            *)
Released(i) ==
    /\ item'[i].claim = 0
    /\ \/ item[i].claim = 0
       \/ \E a \in App : recovery[a].claims[i] = item[i].claim /\ recovery'[a].claims[i] = 0
       \/ \E a \in App : i \in web[a].todo /\ i \notin web'[a].todo
       \/ \E a \in App : rework[a].task # NoTask /\ rework'[a].task = NoTask /\ task[rework[a].task].item = i

(* or begun.                                                               *)
Claimed(i) ==
    /\ item[i].claim = 0 \/ item[i].expired
    /\ item'[i].attempts = item[i].attempts + 1 /\ item'[i].claim = item'[i].attempts
    /\ item'[i].status = "PENDING_SUBMIT"

ClaimStep == \A i \in Item : Kept(i) \/ Released(i) \/ Claimed(i)

LEMMA PutClaims ==
    ASSUME item \in [Item -> Items], NEW i \in Item, NEW r, item' = [item EXCEPT ![i] = r]
    PROVE  item'[i] = r /\ \A j \in Item \ {i} : Kept(j)
  BY DEF Kept

LEMMA AttachedClaim ==
    ASSUME item \in [Item -> Items], NEW i \in Item, NEW t
    PROVE  Attached(i, t).claim = 0 /\ Failed(i).claim = 0
  BY DEF Attached, Failed, Items

LEMMA InsertClaims ==
    ASSUME item \in [Item -> Items], NEW i \in Item, NEW t \in Task, Insert(i, t)
    PROVE  ClaimStep
<1> DEFINE r == [item[i] EXCEPT !.task = t, !.status = "PENDING_SUBMIT", !.old = FALSE, !.expired = FALSE]
<1>1. item' = [item EXCEPT ![i] = r]
  BY DEF Insert, Put
<1>2. r.claim = item[i].claim /\ r.attempts = item[i].attempts /\ r.status # "none"
  BY DEF Items
<1> HIDE DEF r
<1>3. Kept(i)
  BY <1>1, <1>2, PutClaims DEF Kept
<1> QED
  BY <1>1, <1>3, PutClaims DEF ClaimStep

(* The handler gives its item a task or gives it up, and is done with it.  *)
LEMMA WebPutClaims ==
    ASSUME Base, NEW a \in App, web[a].pc \notin {"idle", "answer"}, NEW r, r.claim = 0,
           Put(First(web[a].todo), r), WebNext(a)
    PROVE  ClaimStep
<1> DEFINE i == First(web[a].todo)
<1> USE TypeParts DEF Base
<1>1. i \in web[a].todo /\ i \in Item
  BY WebItem
<1>2. i \notin web'[a].todo
  BY NextTodo
<1>3. item'[i] = r /\ \A j \in Item \ {i} : Kept(j)
  BY <1>1, PutClaims DEF Put
<1> HIDE DEF i
<1>4. Released(i)
  BY <1>1, <1>2, <1>3 DEF Released
<1> QED
  BY <1>3, <1>4 DEF ClaimStep

(* A recovery changes its item only while it owns it, and is done with it. *)
LEMMA OwnerPutClaims ==
    ASSUME Base, NEW a \in App, recovery[a].pc # "idle", Owns(a), NEW r, r.claim = 0,
           item' = [item EXCEPT ![Current(a)] = r], RecoveryNext(a)
    PROVE  ClaimStep
<1> DEFINE i == Current(a)
<1> USE TypeParts DEF Base
<1>1. i \in Item
  BY RecoveryItem
<1>2. recovery'[a].claims[i] = 0 /\ recovery[a].claims[i] = item[i].claim
  BY <1>1, NextClaims DEF Owns
<1>3. item'[i] = r /\ \A j \in Item \ {i} : Kept(j)
  BY <1>1, PutClaims
<1> HIDE DEF i
<1>4. Released(i)
  BY <1>2, <1>3 DEF Released
<1> QED
  BY <1>3, <1>4 DEF ClaimStep

LEMMA SameClaims ==
    ASSUME UNCHANGED item
    PROVE  ClaimStep
  BY DEF ClaimStep, Kept

LEMMA StatusKept ==
    ASSUME NEW i \in Item, item[i] \in Items, NEW s, s = "none" => item[i].status = "none",
           item'[i] = [item[i] EXCEPT !.status = s]
    PROVE  Kept(i)
  BY DEF Kept, Items

LEMMA AttachClaims ==
    ASSUME Base, NEW a \in App, recovery[a].pc # "idle", NEW t, AttachClaimed(a, t), RecoveryNext(a)
    PROVE  ClaimStep
<1>1. CASE UNCHANGED item
  BY <1>1, SameClaims
<1>2. CASE Owns(a) /\ Put(Current(a), Attached(Current(a), t))
  <2>1. Attached(Current(a), t).claim = 0
    BY RecoveryItem, AttachedClaim, TypeParts DEF Base
  <2>2. item' = [item EXCEPT ![Current(a)] = Attached(Current(a), t)]
    BY <1>2 DEF Put
  <2> QED
    BY <1>2, <2>1, <2>2, OwnerPutClaims
<1> QED
  BY <1>1, <1>2 DEF AttachClaimed

LEMMA WebClaims ==
    ASSUME Base, NEW a \in App, WebStep(a)
    PROVE  ClaimStep
<1> USE TypeParts DEF Base
<1>1. CASE WebRecords(a) /\ \E t \in FreeTask : Insert(First(web[a].todo), t)
  BY <1>1, RecordedItem, InsertClaims DEF FreeTask
<1>2. CASE WebAttaches(a) /\ Put(First(web[a].todo), Attached(First(web[a].todo), web[a].job)) /\ WebNext(a)
  BY <1>2, WebItem, AttachedClaim, WebPutClaims DEF WebAttaches
<1>3. CASE WebFails(a) /\ Put(First(web[a].todo), Failed(First(web[a].todo))) /\ WebNext(a)
  BY <1>3, WebItem, AttachedClaim, WebPutClaims DEF WebFails
<1>4. CASE WebAnswers(a)
  <2>1. \A i \in Item : item'[i] = item[i] \/ item'[i] = [item[i] EXCEPT !.status = Reconciled[i]]
    BY <1>4 DEF WebAnswers
  <2>2. \A i \in Item : Reconciled[i] = "none" => item[i].status = "none"
    BY DEF Reconciled, Live
  <2> HIDE DEF Reconciled
  <2>3. \A i \in Item : Kept(i)
    <3> TAKE i \in Item
    <3>1. item[i] \in Items
      OBVIOUS
    <3> QED
      BY <2>1, <2>2, <3>1, StatusKept DEF Kept
  <2> QED
    BY <2>3 DEF ClaimStep
<1>5. CASE UNCHANGED item
  BY <1>5, SameClaims
<1>6. \/ WebRecords(a) /\ \E t \in FreeTask : Insert(First(web[a].todo), t)
      \/ WebAttaches(a) /\ Put(First(web[a].todo), Attached(First(web[a].todo), web[a].job)) /\ WebNext(a)
      \/ WebFails(a) /\ Put(First(web[a].todo), Failed(First(web[a].todo))) /\ WebNext(a)
      \/ WebAnswers(a)
      \/ UNCHANGED item
  BY DEF WebStep, WebPrepares, WebRecords, WebAttaches, WebFails
<1> QED
  BY <1>1, <1>2, <1>3, <1>4, <1>5, <1>6

LEMMA RecoveryStepClaims ==
    ASSUME Base, NEW a \in App, RecoveryStep(a)
    PROVE  ClaimStep
<1> USE TypeParts DEF Base
<1>1. CASE RecoveryClaims(a)
  <2> SUFFICES ASSUME NEW i \in Item PROVE Kept(i) \/ Claimed(i)
    BY DEF ClaimStep
  <2> DEFINE r == [item[i] EXCEPT !.attempts = @ + 1, !.claim = item[i].attempts + 1, !.expired = FALSE]
  <2>1. item'[i] = item[i] \/ (Orphan(i) /\ item'[i] = r)
    BY <1>1 DEF RecoveryClaims
  <2>2. r.attempts = item[i].attempts + 1 /\ r.claim = r.attempts /\ r.status = item[i].status
    BY DEF Items
  <2> HIDE DEF r
  <2> QED
    BY <2>1, <2>2 DEF Kept, Claimed, Orphan
<1>2. CASE RecoveryLooks(a) /\ \E t \in Task : AttachClaimed(a, t) /\ RecoveryNext(a)
  BY <1>2, AttachClaims DEF RecoveryLooks
<1>3. CASE RecoveryRecords(a) /\ \E t \in FreeTask : Insert(Current(a), t)
  BY <1>3, RecordedItem, InsertClaims DEF FreeTask
<1>4. CASE RecoveryAttaches(a) /\ AttachClaimed(a, recovery[a].job) /\ RecoveryNext(a)
  BY <1>4, AttachClaims DEF RecoveryAttaches
<1>5. CASE RecoveryExcepts(a) /\ Owns(a) /\ RecoveryNext(a)
  <2> DEFINE i == Current(a)
             r == [item[i] EXCEPT !.claim = 0, !.expired = FALSE]
  <2>1. i \in Item
    BY <1>5, RecoveryItem DEF RecoveryExcepts
  <2>2. item' = [item EXCEPT ![i] = Failed(i)] \/ item' = [item EXCEPT ![i] = r] \/ UNCHANGED item
    BY <1>5, <2>1 DEF RecoveryExcepts, Put
  <2>3. Failed(i).claim = 0
    BY <2>1, AttachedClaim
  <2>4. r.claim = 0
    BY <2>1 DEF Items
  <2> HIDE DEF r
  <2> QED
    BY <1>5, <2>2, <2>3, <2>4, OwnerPutClaims, SameClaims DEF RecoveryExcepts
<1>6. CASE UNCHANGED item
  BY <1>6, SameClaims
<1>7. \/ RecoveryClaims(a)
      \/ RecoveryLooks(a) /\ \E t \in Task : AttachClaimed(a, t) /\ RecoveryNext(a)
      \/ RecoveryRecords(a) /\ \E t \in FreeTask : Insert(Current(a), t)
      \/ RecoveryAttaches(a) /\ AttachClaimed(a, recovery[a].job) /\ RecoveryNext(a)
      \/ RecoveryExcepts(a) /\ Owns(a) /\ RecoveryNext(a)
      \/ UNCHANGED item
  BY DEF RecoveryStep, RecoveryLooks, RecoveryRechecks, RecoveryPrepares, RecoveryRecords, RecoveryAttaches,
         RecoveryExcepts, TasksOfItem
<1> QED
  BY <1>1, <1>2, <1>3, <1>4, <1>5, <1>6, <1>7

LEMMA ClaimSteps ==
    ASSUME Base, Next
    PROVE  ClaimStep
<1> USE TypeParts DEF Base
<1>1. ASSUME NEW a \in App, NEW b \in Batch, NEW S \in SUBSET Item, WebAccepts(a, b, S) PROVE ClaimStep
  <2>1. \A i \in Item : item'[i] = item[i] \/ (item[i].status = "none" /\ item'[i] = NewItem)
    BY <1>1 DEF WebAccepts, Exists
  <2> QED
    BY <2>1 DEF ClaimStep, Kept, Released, ClaimIsLatest, NewItem
<1>2. ASSUME NEW a \in App, WebStep(a) \/ RecoveryStep(a) PROVE ClaimStep
  BY <1>2, WebClaims, RecoveryStepClaims
<1>3. ASSUME NEW a \in App, SyncCommits(a) PROVE ClaimStep
  <2> DEFINE t == sync[a].task
             i == task[t].item
             r == [item[i] EXCEPT !.task = t, !.status = sync[a].status]
  <2>1. i \in Item /\ sync[a].status # "none"
    BY <1>3 DEF SyncCommits, Sync, SyncsLive, TasksHaveItems
  <2>2. item' = [item EXCEPT ![i] = r]
    BY <1>3, <2>1 DEF SyncCommits
  <2>3. r.claim = item[i].claim /\ r.attempts = item[i].attempts /\ r.status # "none"
    BY <2>1 DEF Items
  <2> HIDE DEF r, i
  <2> QED
    BY <2>1, <2>2, <2>3, PutClaims DEF ClaimStep, Kept
<1>4. ASSUME NEW a \in App, ViewCommits(a) PROVE ClaimStep
  <2>1. \A i \in Item : \/ item'[i] = item[i]
                        \/ view[a].after[i] # "none" /\ item'[i] = [item[i] EXCEPT !.status = view[a].after[i]]
    BY <1>4 DEF ViewCommits, ViewsLive
  <2>2. \A i \in Item : Kept(i)
    <3> TAKE i \in Item
    <3>1. item[i] \in Items
      OBVIOUS
    <3> QED
      BY <2>1, <3>1, StatusKept DEF Kept
  <2> QED
    BY <2>2 DEF ClaimStep
<1>5. ASSUME NEW a \in App, ReworkCommits(a) PROVE ClaimStep
  <2> DEFINE t == rework[a].task
             i == task[t].item
             r == [item[i] EXCEPT !.task = t, !.status = "PENDING_SUBMIT", !.claim = 0, !.expired = FALSE]
  <2>1. t \in Task /\ t # NoTask /\ i \in Item
    BY <1>5 DEF ReworkCommits, Reopened, Rework, ReworksLive, TasksHaveItems
  <2>2. item' = [item EXCEPT ![i] = r]
    BY <1>5, <2>1 DEF ReworkCommits, Reopened
  <2>3. r.claim = 0
    BY <2>1 DEF Items
  <2>4. rework'[a].task = NoTask
    BY <1>5 DEF ReworkCommits, Reopened, IdleRework
  <2> HIDE DEF r
  <2>5. item'[i].claim = 0 /\ \A j \in Item \ {i} : Kept(j)
    BY <2>1, <2>2, <2>3, PutClaims
  <2>6. Released(i)
    BY <2>1, <2>4, <2>5 DEF Released
  <2> HIDE DEF i
  <2> QED
    BY <2>5, <2>6 DEF ClaimStep
<1>6. ASSUME NEW i \in Item, ItemAges(i) \/ ClaimExpires(i) PROVE ClaimStep
  <2>1. \A j \in Item : item'[j] \in {item[j], [item[j] EXCEPT !.old = TRUE], [item[j] EXCEPT !.expired = TRUE]}
    BY <1>6 DEF ItemAges, ClaimExpires
  <2> QED
    BY <2>1 DEF ClaimStep, Kept, Items
<1>7. CASE UNCHANGED item
  BY <1>7, SameClaims
<1> QED
  BY <1>1, <1>2, <1>3, <1>4, <1>5, <1>6, <1>7 DEF Next, SyncReads, ReworkReads, ViewReads, Crash

LEMMA LatestStays ==
    ASSUME Base, ClaimStep
    PROVE  ClaimIsLatest'
<1> SUFFICES ASSUME NEW i \in Item
             PROVE  /\ item'[i].claim \in {0, item'[i].attempts}
                    /\ item'[i].status = "none" => item'[i].claim = 0
  BY DEF ClaimIsLatest
<1> QED
  BY DEF Base, ClaimIsLatest, ClaimStep, Kept, Released, Claimed

LEMMA BaseInit == Init => Base
<1> SUFFICES ASSUME Init PROVE Base
  OBVIOUS
<1>1. TypeOK
  <2>1. [NewItem EXCEPT !.status = "none"] \in Items
    BY EmptyTypes DEF Items, TaskStatus
  <2>2. [status |-> "none", item |-> 0] \in Tasks
    BY DEF Tasks, TaskStatus
  <2>3. [crashes |-> 0, reworks |-> 0] \in [crashes: 0..MaxCrashes, reworks: 0..MaxReworks]
    BY Constants
  <2> QED
    BY <2>1, <2>2, <2>3, EmptyTypes DEF Init, TypeOK
<1>2. WebHasWork /\ RecoveryHasWork
  BY DEF Init, WebHasWork, RecoveryHasWork, IdleWeb, IdleRecovery
<1>3. TasksHaveItems /\ SyncsLive /\ ReworksLive /\ ViewsLive
  BY DEF Init, TasksHaveItems, SyncsLive, ReworksLive, ViewsLive, Live, IdleSync, IdleRework, IdleView
<1>4. ClaimIsLatest
  BY DEF Init, ClaimIsLatest, NewItem
<1> QED
  BY <1>1, <1>2, <1>3, <1>4 DEF Base

LEMMA BaseStep == Base /\ [Next]_vars => Base'
<1> SUFFICES ASSUME Base, [Next]_vars PROVE Base'
  OBVIOUS
<1>1. CASE Next
  <2>1. TypeOK'
    BY <1>1, AcceptsTypes, WebTypes, RecoveryTypes, OtherTypes DEF Next
  <2> QED
    BY <1>1, <2>1, WebWork, RecoveryWork, LiveStays, SyncWork, ReworkWork, ViewWork, ClaimSteps, LatestStays DEF Base
<1>2. CASE UNCHANGED vars
  <2>1. TypeOK'
    BY <1>2 DEF vars, Base, TypeOK
  <2>2. WebHasWork' /\ RecoveryHasWork' /\ TasksHaveItems'
    BY <1>2 DEF vars, Base, WebHasWork, RecoveryHasWork, TasksHaveItems, Todo, Live
  <2>3. SyncsLive' /\ ReworksLive' /\ ViewsLive' /\ ClaimIsLatest'
    BY <1>2 DEF vars, Base, SyncsLive, ReworksLive, ViewsLive, ClaimIsLatest, Live
  <2> QED
    BY <2>1, <2>2, <2>3 DEF Base
<1> QED
  BY <1>1, <1>2

(* What the proofs rest on: in every state of a request's life the rows    *)
(* have their types, who is at work has something to do, tasks have items, *)
(* and the claim of an item is that of its latest attempt.                 *)
THEOREM BaseInvariant == Spec => []Base
  BY BaseInit, BaseStep, PTL DEF Spec

(* TypeOK holds for any number of processes, items and tasks.              *)
THEOREM TypeCorrect == Spec => []TypeOK
<1>1. Base => TypeOK
  BY DEF Base
<1> QED
  BY <1>1, BaseInvariant, PTL

LEMMA FencedStep ==
    ASSUME Base, ClaimStep, NEW i \in Item, item[i].claim \notin {0, item'[i].claim}
    PROVE  \/ item[i].expired /\ item'[i].claim = item[i].claim + 1
           \/ \E a \in App : recovery[a].claims[i] = item[i].claim /\ recovery'[a].claims[i] = 0
           \/ \E a \in App : i \in web[a].todo /\ i \notin web'[a].todo
           \/ \E a \in App : rework[a].task # NoTask /\ rework'[a].task = NoTask /\ task[rework[a].task].item = i
<1>1. item[i].claim = item[i].attempts
  BY DEF Base, ClaimIsLatest
<1> QED
  BY <1>1 DEF ClaimStep, Kept, Released, Claimed

(* A recovery's claim of an orphan, which each of its later writes asks    *)
(* for, ends only by its holder, the item's handler, a rework or its       *)
(* expiry, in any number of processes, however slow they are.              *)
THEOREM ClaimsFenced == Spec => ClaimFenced
<1>1. ASSUME Base, [Next]_vars
      PROVE  [\A i \in Item : item[i].claim \notin {0, item'[i].claim} =>
                \/ item[i].expired /\ item'[i].claim = item[i].claim + 1
                \/ \E a \in App : recovery[a].claims[i] = item[i].claim /\ recovery'[a].claims[i] = 0
                \/ \E a \in App : i \in web[a].todo /\ i \notin web'[a].todo
                \/ \E a \in App : rework[a].task # NoTask /\ rework'[a].task = NoTask /\ task[rework[a].task].item = i]_vars
  BY <1>1, ClaimSteps, FencedStep
<1> QED
  BY <1>1, BaseInvariant, PTL DEF Spec, ClaimFenced

-----------------------------------------------------------------------------
(* One process                                                             *)

OneProcess == \A a, b \in App : a = b

LEMMA LocksInit == Init => LocksHeld
  BY DEF Init, LocksHeld, IdleWeb, IdleRecovery, IdleSync

LEMMA LocksStep ==
    ASSUME Base, LocksHeld, Next
    PROVE  LocksHeld'
<1> USE TypeParts DEF Base
<1>1. ASSUME NEW a \in App, NEW b \in Batch, NEW S \in SUBSET Item, WebAccepts(a, b, S) PROVE LocksHeld'
  BY <1>1 DEF WebAccepts, LocksHeld, LockFree, Web
<1>2. ASSUME NEW a \in App, WebStep(a) PROVE LocksHeld'
  <2>1. ASSUME web[a].pc # "idle", NEW pc, NEW t, pc # "idle", WebGoes(a, pc, t), UNCHANGED <<lock, recovery, sync>>
        PROVE  LocksHeld'
    BY <2>1 DEF WebGoes, LocksHeld, Web
  <2>2. ASSUME web[a].pc # "idle", WebNext(a), UNCHANGED <<lock, recovery, sync>> PROVE LocksHeld'
    BY <2>2, NextTodo DEF LocksHeld
  <2>3. ASSUME web[a].pc # "idle", web' = [web EXCEPT ![a] = IdleWeb], lock' = [lock EXCEPT ![a] = "free"],
               UNCHANGED <<recovery, sync>>
        PROVE  LocksHeld'
    BY <2>3 DEF LocksHeld, IdleWeb, Web
  <2> QED
    BY <1>2, <2>1, <2>2, <2>3 DEF WebStep, WebPrepares, WebRecords, WebAttaches, WebFails, WebAnswers
<1>3. ASSUME NEW a \in App, RecoveryStep(a) PROVE LocksHeld'
  <2>1. ASSUME recovery[a].pc # "record", NEW pc, NEW t, pc # "record", RecoveryGoes(a, pc, t),
               UNCHANGED <<lock, web, sync>>
        PROVE  LocksHeld'
    BY <2>1 DEF RecoveryGoes, LocksHeld, Recovery
  <2>2. ASSUME recovery[a].pc # "record", RecoveryNext(a), UNCHANGED <<lock, web, sync>> PROVE LocksHeld'
    BY <2>2, NextClaims DEF LocksHeld
  <2>3. ASSUME recovery[a].pc # "record", recovery' = [recovery EXCEPT ![a] = IdleRecovery],
               UNCHANGED <<lock, web, sync>>
        PROVE  LocksHeld'
    BY <2>3 DEF LocksHeld, IdleRecovery, Recovery
  <2>4. CASE RecoveryClaims(a)
    <3>1. recovery'[a].pc = "look" /\ \A c \in App \ {a} : recovery'[c] = recovery[c]
      BY <2>4 DEF RecoveryClaims, Recovery
    <3> QED
      BY <2>4, <3>1 DEF RecoveryClaims, LocksHeld
  <2>5. CASE RecoveryPrepares(a)
    <3>1. recovery[a].pc = "prepare" /\ UNCHANGED <<web, sync>>
      BY <2>5 DEF RecoveryPrepares
    <3>2. CASE UNCHANGED lock /\ \E pc \in {"attach", "except"} : \E t : RecoveryGoes(a, pc, t)
      BY <2>1, <3>1, <3>2
    <3>3. CASE LockFree(a) /\ RecoveryGoes(a, "record", NoTask) /\ lock' = [lock EXCEPT ![a] = "recovery"]
      <4>1. recovery'[a].pc = "record" /\ \A c \in App \ {a} : recovery'[c] = recovery[c]
        BY <3>3 DEF RecoveryGoes, Recovery
      <4>2. lock[a] = "free" /\ lock'[a] = "recovery" /\ \A c \in App \ {a} : lock'[c] = lock[c]
        BY <3>3 DEF LockFree
      <4> QED
        BY <3>1, <4>1, <4>2 DEF LocksHeld
    <3>4. \/ UNCHANGED lock /\ \E pc \in {"attach", "except"} : \E t : RecoveryGoes(a, pc, t)
          \/ LockFree(a) /\ RecoveryGoes(a, "record", NoTask) /\ lock' = [lock EXCEPT ![a] = "recovery"]
      BY <2>5 DEF RecoveryPrepares
    <3> QED
      BY <3>2, <3>3, <3>4
  <2>6. CASE RecoveryRecords(a)
    BY <2>6 DEF RecoveryRecords, RecoveryGoes, LocksHeld, Recovery
  <2> QED
    BY <1>3, <2>1, <2>2, <2>3, <2>4, <2>5, <2>6
       DEF RecoveryStep, RecoveryLooks, RecoveryRechecks, RecoveryAttaches, RecoveryExcepts
<1>4. ASSUME NEW a \in App, NEW t \in Task, SyncReads(a, t) PROVE LocksHeld'
  <2>1. t # NoTask
    BY Constants DEF NoTask
  <2> QED
    BY <1>4, <2>1 DEF SyncReads, LocksHeld, LockFree, Sync
<1>5. ASSUME NEW a \in App, SyncCommits(a) PROVE LocksHeld'
  BY <1>5 DEF SyncCommits, LocksHeld, IdleSync, Sync
<1>6. ASSUME NEW a \in App, Crash(a) PROVE LocksHeld'
  BY <1>6 DEF Crash, LocksHeld, IdleWeb, IdleRecovery, IdleSync, Web, Recovery, Sync
<1>7. CASE UNCHANGED <<lock, web, recovery, sync>>
  BY <1>7 DEF LocksHeld
<1> QED
  BY <1>1, <1>2, <1>3, <1>4, <1>5, <1>6, <1>7 DEF Next, ReworkReads, ReworkCommits, Reopened, ViewReads, ViewCommits, ItemAges, ClaimExpires

(* Who is about to insert a task was, or has just found that there is none. *)
LEMMA WebLooked ==
    ASSUME Base, Next, NEW a \in App, web'[a].pc = "record"
    PROVE  /\ web'[a].todo = web[a].todo
           /\ web[a].pc = "record" \/ TasksOfDraft(DraftOf[First(web[a].todo)]) = {}
<1> USE TypeParts DEF Base
<1>1. ASSUME NEW c \in App, NEW b \in Batch, NEW S \in SUBSET Item, WebAccepts(c, b, S) PROVE web'[a] = web[a]
  BY <1>1 DEF WebAccepts, Web
<1>2. ASSUME NEW c \in App, WebStep(c)
      PROVE  /\ web'[a].todo = web[a].todo
             /\ web[a].pc = "record" \/ TasksOfDraft(DraftOf[First(web[a].todo)]) = {}
  <2>1. ASSUME NEW pc, NEW t, WebGoes(c, pc, t)
        PROVE  web'[a].todo = web[a].todo /\ web'[a].pc = IF a = c THEN pc ELSE web[a].pc
    BY <2>1 DEF WebGoes, Web
  <2>2. CASE WebNext(c)
    BY <2>2, NextTodo
  <2>3. CASE web' = [web EXCEPT ![c] = IdleWeb]
    BY <2>3 DEF IdleWeb, Web
  <2>4. CASE WebPrepares(c)
    BY <2>1, <2>4 DEF WebPrepares
  <2>5. \/ WebPrepares(c) \/ WebNext(c) \/ web' = [web EXCEPT ![c] = IdleWeb]
        \/ \E t : WebGoes(c, "attach", t) \/ WebGoes(c, "fail", t)
    BY <1>2 DEF WebStep, WebRecords, WebAttaches, WebFails, WebAnswers
  <2> QED
    BY <2>1, <2>2, <2>3, <2>4, <2>5
<1>3. ASSUME NEW c \in App, Crash(c) PROVE web'[a] = web[a]
  BY <1>3 DEF Crash, IdleWeb, Web
<1> QED
  BY <1>1, <1>2, <1>3, WebChanges

LEMMA RecoveryLooked ==
    ASSUME Base, Next, NEW a \in App, recovery'[a].pc = "record"
    PROVE  /\ recovery'[a].claims = recovery[a].claims
           /\ recovery[a].pc = "record" \/ TasksOfDraft(DraftOf[Current(a)]) = {}
<1> USE TypeParts DEF Base
<1>1. ASSUME NEW c \in App, RecoveryStep(c)
      PROVE  /\ recovery'[a].claims = recovery[a].claims
             /\ recovery[a].pc = "record" \/ TasksOfDraft(DraftOf[Current(a)]) = {}
  <2>1. ASSUME NEW pc, NEW t, RecoveryGoes(c, pc, t)
        PROVE  recovery'[a].claims = recovery[a].claims /\ recovery'[a].pc = IF a = c THEN pc ELSE recovery[a].pc
    BY <2>1 DEF RecoveryGoes, Recovery
  <2>2. CASE RecoveryNext(c)
    BY <2>2, NextClaims
  <2>3. CASE recovery' = [recovery EXCEPT ![c] = IdleRecovery]
    BY <2>3 DEF IdleRecovery, Recovery
  <2>4. CASE RecoveryPrepares(c)
    BY <2>1, <2>4 DEF RecoveryPrepares
  <2>5. CASE RecoveryClaims(c)
    <3>1. recovery'[c].pc = "look" /\ \A d \in App \ {c} : recovery'[d] = recovery[d]
      BY <2>5 DEF RecoveryClaims, Recovery
    <3> QED
      BY <3>1
  <2>6. \/ RecoveryPrepares(c) \/ RecoveryNext(c) \/ RecoveryClaims(c)
        \/ recovery' = [recovery EXCEPT ![c] = IdleRecovery]
        \/ \E t : \/ RecoveryGoes(c, "attach", t) \/ RecoveryGoes(c, "except", t)
                  \/ RecoveryGoes(c, "prepare", t) \/ RecoveryGoes(c, "recheck", t)
    BY <1>1 DEF RecoveryStep, RecoveryLooks, RecoveryRechecks, RecoveryRecords, RecoveryAttaches, RecoveryExcepts
  <2> QED
    BY <2>1, <2>2, <2>3, <2>4, <2>5, <2>6
<1>2. ASSUME NEW c \in App, Crash(c) PROVE recovery'[a] = recovery[a]
  BY <1>2 DEF Crash, IdleRecovery, Recovery
<1> QED
  BY <1>1, <1>2, RecoveryChanges

LEMMA SameTasksOfDraft ==
    ASSUME SameTasks, NEW d
    PROVE  TasksOfDraft(d)' = TasksOfDraft(d)
  BY DEF SameTasks, TasksOfDraft

LEMMA SingleStep ==
    ASSUME OneProcess, Base, Single, Next
    PROVE  Single'
<1> USE TypeParts DEF Base
<1>1. CASE SameTasks
  <2>1. NoneYet'
    <3> SUFFICES ASSUME NEW a \in App
                 PROVE  /\ web'[a].pc = "record" => TasksOfDraft(DraftOf[First(web[a].todo)])' = {}
                        /\ recovery'[a].pc = "record" => TasksOfDraft(DraftOf[Current(a)])' = {}
      BY DEF NoneYet
    <3>1. ASSUME web'[a].pc = "record" PROVE TasksOfDraft(DraftOf[First(web[a].todo)])' = {}
      <4>1. TasksOfDraft(DraftOf[First(web[a].todo)]) = {} /\ web'[a].todo = web[a].todo
        BY <3>1, WebLooked DEF Single, NoneYet
      <4> QED
        BY <1>1, <4>1, SameTasksOfDraft
    <3>2. ASSUME recovery'[a].pc = "record" PROVE TasksOfDraft(DraftOf[Current(a)])' = {}
      <4>1. TasksOfDraft(DraftOf[Current(a)]) = {} /\ recovery'[a].claims = recovery[a].claims
        BY <3>2, RecoveryLooked DEF Single, NoneYet
      <4>2. Current(a)' = Current(a)
        BY <4>1 DEF Current, Todo
      <4> QED
        BY <1>1, <4>1, <4>2, SameTasksOfDraft
    <3> QED
      BY <3>1, <3>2
  <2>2. OwnDrafts'
    BY <1>1 DEF SameTasks, Single, OwnDrafts
  <2> QED
    BY <2>1, <2>2, LocksStep DEF Single
<1>2. ASSUME NEW a \in App, NEW i \in Item, NEW t \in FreeTask, Insert(i, t), TasksOfDraft(DraftOf[i]) = {}
      PROVE  OwnDrafts'
  <2>1. \A u \in Task : Live(u)' /\ DraftOf[task'[u].item] = DraftOf[i] => u = t
    BY <1>2, Inserted DEF TasksOfDraft
  <2> QED
    BY <1>2, <2>1, Inserted DEF Single, OwnDrafts
<1>3. ASSUME NEW a \in App, NEW t \in FreeTask, WebRecords(a), Insert(First(web[a].todo), t)
      PROVE  Single'
  <2>1. web[a].pc = "record" /\ lock[a] = "web"
    BY <1>3 DEF WebRecords, Single, LocksHeld
  <2>2. TasksOfDraft(DraftOf[First(web[a].todo)]) = {}
    BY <2>1 DEF Single, NoneYet
  <2>3. OwnDrafts'
    BY <1>2, <1>3, <2>2, RecordedItem
  <2>4. web'[a].pc = "attach" /\ recovery'[a].pc # "record"
    <3>1. (\E job : WebGoes(a, "attach", job)) /\ UNCHANGED recovery
      BY <1>3 DEF WebRecords
    <3>2. recovery[a].pc # "record"
      BY <2>1 DEF Single, LocksHeld
    <3> QED
      BY <3>1, <3>2 DEF WebGoes, Web
  <2>5. NoneYet'
    BY <2>4 DEF NoneYet, OneProcess
  <2> QED
    BY <2>3, <2>5, LocksStep DEF Single
<1>4. ASSUME NEW a \in App, NEW t \in FreeTask, RecoveryRecords(a), Insert(Current(a), t)
      PROVE  Single'
  <2>1. recovery[a].pc = "record" /\ lock[a] = "recovery"
    BY <1>4 DEF RecoveryRecords, Single, LocksHeld
  <2>2. TasksOfDraft(DraftOf[Current(a)]) = {}
    BY <2>1 DEF Single, NoneYet
  <2>3. OwnDrafts'
    BY <1>2, <1>4, <2>2, RecordedItem
  <2>4. recovery'[a].pc = "attach" /\ web'[a].pc # "record"
    <3>1. (\E job : RecoveryGoes(a, "attach", job)) /\ UNCHANGED web
      BY <1>4 DEF RecoveryRecords
    <3>2. web[a].pc # "record"
      BY <2>1 DEF Single, LocksHeld
    <3> QED
      BY <3>1, <3>2 DEF RecoveryGoes, Recovery
  <2>5. NoneYet'
    BY <2>4 DEF NoneYet, OneProcess
  <2> QED
    BY <2>3, <2>5, LocksStep DEF Single
<1> QED
  BY <1>1, <1>3, <1>4, TaskSteps

LEMMA SingleStutter == Single /\ UNCHANGED vars => Single'
<1> SUFFICES ASSUME Single, UNCHANGED vars PROVE Single'
  OBVIOUS
<1>1. \A d : TasksOfDraft(d)' = TasksOfDraft(d)
  BY DEF vars, TasksOfDraft, Live
<1>2. NoneYet'
  BY <1>1 DEF vars, Single, NoneYet, Current, Todo
<1>3. OwnDrafts' /\ LocksHeld'
  BY DEF vars, Single, OwnDrafts, LocksHeld, Live
<1> QED
  BY <1>2, <1>3 DEF Single

LEMMA SingleInit == Init => Single
<1>1. Init => NoneYet /\ OwnDrafts
  BY DEF Init, NoneYet, OwnDrafts, IdleWeb, IdleRecovery, Live
<1> QED
  BY <1>1, LocksInit DEF Single

(* JOB_LOCK makes one of the look for a task of the draft and its          *)
(* insertion: of handlers and recoveries in one process, one is between    *)
(* the two, and what it has found still holds.                             *)
THEOREM LockHolds ==
    ASSUME OneProcess
    PROVE  Spec => []Single
<1>1. Base /\ Single /\ [Next]_vars => Single'
  BY SingleStep, SingleStutter
<1> QED
  BY <1>1, SingleInit, BaseInvariant, PTL DEF Spec

(* In one process no draft has two tasks, whatever fails, dies or is slow, *)
(* for any number of items, drafts, tasks, crashes and reworks.            *)
THEOREM OneTask ==
    ASSUME OneProcess
    PROVE  Spec => []OneTaskPerDraft
<1>1. ASSUME OwnDrafts, NEW d \in Draft PROVE Cardinality(TasksOfDraft(d)) <= 1
  <2>1. CASE TasksOfDraft(d) = {}
    BY <2>1, FS_EmptySet
  <2>2. CASE TasksOfDraft(d) # {}
    <3>1. PICK t : t \in TasksOfDraft(d)
      BY <2>2
    <3>2. TasksOfDraft(d) = {t}
      BY <1>1, <3>1 DEF OwnDrafts, TasksOfDraft
    <3>3. Cardinality({t}) = 1
      BY FS_Singleton
    <3> QED
      BY <3>2, <3>3
  <2> QED
    BY <2>1, <2>2
<1>2. Single => OneTaskPerDraft
  BY <1>1 DEF Single, OneTaskPerDraft
<1> QED
  BY <1>2, LockHolds, PTL
=============================================================================
