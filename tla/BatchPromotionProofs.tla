------------------------ MODULE BatchPromotionProofs ------------------------
(***************************************************************************)
(* Proofs about BatchPromotion, for any number of batches and drafts: type *)
(* correctness and Promotable, for any number of processes; that one       *)
(* process makes one task for a draft, whatever faults and requests are    *)
(* on; that many make one as long as nobody frees a claim under its        *)
(* holder; and that what they call complete is.                            *)
(***************************************************************************)
EXTENDS BatchPromotion, TLAPS

TaskRows == [1..MaxTasks -> Tasks]

(* TypeOK is not inductive: a monitor that works on a draft must name one. *)
AtDraft == {"generating", "insert", "created", "failed"}

MonOK == /\ mon \in [App -> Monitors]
         /\ \A p \in App : mon[p].pc \in AtDraft => mon[p].draft \in Draft

TypeInv == /\ batch \in [Batch -> {"none", "INCOMPLETE", "COMPLETE", "CANCELLED"}]
           /\ draft \in [Draft -> Drafts]
           /\ task \in [Draft -> TaskRows]
           /\ MonOK
           /\ crashes \in Nat

-----------------------------------------------------------------------------
(* What the operations on rows yield.                                      *)

LEMMA ReleasedType ==
    ASSUME NEW r \in Drafts,
           NEW promo \in {"PENDING", "DISPATCHING", "TASK_CREATED", "FAILED", "CANCELLED"}
    PROVE  Released(r, promo) \in Drafts
  BY NoneAssumption DEF Released, Drafts

LEMMA ClaimedType ==
    ASSUME NEW r \in Drafts, NEW p \in App PROVE Claimed(r, p) \in Drafts
  <1>1. Released(r, "DISPATCHING") \in Drafts
    BY ReleasedType
  <1> QED
    BY <1>1 DEF Claimed, Drafts

LEMMA RowTypes ==
    ASSUME NEW r \in Drafts
    PROVE  /\ ResetPrompt(r) \in Drafts
           /\ Finalized(r) \in Drafts
           /\ CancelledDraft(r) \in Drafts
           /\ \A pc : Marked(r, pc) \in Drafts
           /\ \A ts : InvalidDraft(r, ts) \in Drafts
           /\ \A ts : Reconciled(r, ts) \in Drafts
  <1>1. \A promo \in {"PENDING", "DISPATCHING", "TASK_CREATED", "FAILED", "CANCELLED"} :
           Released(r, promo) \in Drafts
    BY ReleasedType
  <1>2. ResetPrompt(r) \in Drafts
    BY <1>1 DEF ResetPrompt, Drafts
  <1>3. Finalized(r) \in Drafts
    BY DEF Finalized, Drafts, TERMINAL_DRAFT_STATES
  <1>4. CancelledDraft(r) \in Drafts
    BY <1>1 DEF CancelledDraft, Drafts, TERMINAL_DRAFT_STATES
  <1>5. ASSUME NEW pc PROVE Marked(r, pc) \in Drafts
    <2>1. [Released(r, "FAILED") EXCEPT !.deferred = TRUE] \in Drafts
      BY <1>1 DEF Drafts
    <2> QED
      BY <1>1, <2>1 DEF Marked
  <1>6. ASSUME NEW ts PROVE InvalidDraft(r, ts) \in Drafts
    <2>1. [Released(r, "FAILED") EXCEPT !.prompt = FALSE] \in Drafts
      BY <1>1 DEF Drafts
    <2> QED
      BY <2>1 DEF InvalidDraft
  <1>7. ASSUME NEW ts PROVE Reconciled(r, ts) \in Drafts
    BY <1>1 DEF Reconciled
  <1> QED
    BY <1>2, <1>3, <1>4, <1>5, <1>6, <1>7

TaskStatus == {"none", "ACTIVE"} \cup PRE_RUNPOD_SUBMISSION_STATES \cup TERMINAL_TASK_STATES

LEMMA SetStatusType ==
    ASSUME NEW ts \in TaskRows, NEW from, NEW to \in TaskStatus
    PROVE  SetStatus(ts, from, to) \in TaskRows
  <1>1. ASSUME NEW n \in 1..MaxTasks
        PROVE  /\ ts[n] \in Tasks
               /\ [ts[n] EXCEPT !.status = to] \in Tasks
    BY DEF TaskRows, Tasks, TaskStatus
  <1> QED
    BY <1>1 DEF SetStatus, TaskRows

LEMMA TaskTypes ==
    ASSUME NEW ts \in TaskRows
    PROVE  /\ FailPreSubmit(ts) \in TaskRows
           /\ \A r : InvalidTasks(r, ts) \in TaskRows
  <1>1. FailPreSubmit(ts) \in TaskRows
    BY SetStatusType DEF FailPreSubmit, TaskStatus, TERMINAL_TASK_STATES, REWORKABLE_TASK_STATES
  <1> QED
    BY <1>1 DEF InvalidTasks

LEMMA MonTypes ==
    ASSUME NEW m \in Monitors, NEW pc \in MonitorPc, NEW d \in Draft \cup {NoDraft},
           NEW todo \in SUBSET Draft, NEW own \in SUBSET Draft
    PROVE  /\ [m EXCEPT !.pc = pc] \in Monitors
           /\ [m EXCEPT !.pc = pc, !.draft = d] \in Monitors
           /\ [m EXCEPT !.draft = d, !.pc = pc] \in Monitors
           /\ [m EXCEPT !.todo = todo, !.pc = pc] \in Monitors
           /\ [m EXCEPT !.todo = todo, !.own = own, !.pc = pc] \in Monitors
           /\ [m EXCEPT !.pc = pc, !.draft = d, !.own = own] \in Monitors
           /\ \A seen \in SUBSET Batch : [m EXCEPT !.pc = pc, !.seen = seen] \in Monitors
  BY DEF Monitors

LEMMA StartedType == Started \in Monitors /\ Started.pc \notin AtDraft
  BY DEF Started, Monitors, MonitorPc, AtDraft

-----------------------------------------------------------------------------
(* Type correctness.                                                       *)

LEMMA InitType == Init => TypeInv
  <1> SUFFICES ASSUME Init PROVE TypeInv
    OBVIOUS
  <1>1. NoRow \in Drafts
    BY DEF NoRow, Drafts
  <1>2. NoTask \in Tasks
    BY DEF NoTask, Tasks
  <1> QED
    BY <1>1, <1>2, StartedType DEF Init, TypeInv, MonOK, TaskRows

LEMMA GenerateType ==
    ASSUME TypeInv, NEW p \in App,
           \/ \E d \in Draft : GenerateClaims(p, d)
           \/ GenerateNothing(p)
           \/ GenerateEnds(p)
           \/ \E blocking \in BOOLEAN : GenerateFails(p, blocking)
    PROVE  TypeInv'
  <1> USE DEF TypeInv, MonOK
  <1>1. Finalize \in [Draft -> Drafts]
    BY RowTypes DEF Finalize
  <1>m. /\ [mon[p] EXCEPT !.pc = "promote"] \in Monitors
        /\ [mon[p] EXCEPT !.pc = "promote", !.draft = NoDraft] \in Monitors
        /\ \A d \in Draft : [mon[p] EXCEPT !.pc = "generating", !.draft = d] \in Monitors
    BY MonTypes DEF MonitorPc
  <1>2. ASSUME NEW d \in Draft, GenerateClaims(p, d) PROVE TypeInv'
    <2>1. CASE batch[BatchOf[d]] = "CANCELLED"
      <3>1. [Released(Finalize[d], "CANCELLED") EXCEPT !.status = "CANCELLED"] \in Drafts
        <4>1. Released(Finalize[d], "CANCELLED") \in Drafts
          BY <1>1, ReleasedType
        <4> QED
          BY <4>1 DEF Drafts, TERMINAL_DRAFT_STATES
      <3>2. draft' \in [Draft -> Drafts]
        BY <1>1, <1>2, <2>1, <3>1 DEF GenerateClaims
      <3>3. mon' = [mon EXCEPT ![p].pc = "promote"]
        BY <1>2, <2>1 DEF GenerateClaims
      <3>4. MonOK'
        BY <1>m, <3>3 DEF Monitors, AtDraft
      <3> QED
        BY <1>2, <3>2, <3>4 DEF GenerateClaims
    <2>2. CASE batch[BatchOf[d]] # "CANCELLED"
      <3>1. [Finalize[d] EXCEPT !.status = "GENERATING", !.old = FALSE] \in Drafts
        <4>1. Finalize[d] \in Drafts
          BY <1>1
        <4> QED
          BY <4>1 DEF Drafts
      <3>2. draft' \in [Draft -> Drafts]
        BY <1>1, <1>2, <2>2, <3>1 DEF GenerateClaims
      <3>3. mon' = [mon EXCEPT ![p].pc = "generating", ![p].draft = d]
        BY <1>2, <2>2 DEF GenerateClaims
      <3>4. mon' = [mon EXCEPT ![p] = [mon[p] EXCEPT !.pc = "generating", !.draft = d]]
        BY <3>3
      <3>5. /\ [mon[p] EXCEPT !.pc = "generating", !.draft = d] \in Monitors
            /\ [mon[p] EXCEPT !.pc = "generating", !.draft = d].draft = d
        BY <1>m DEF Monitors
      <3>6. MonOK'
        BY <3>4, <3>5
      <3> QED
        BY <1>2, <3>2, <3>6 DEF GenerateClaims
    <2> QED
      BY <2>1, <2>2
  <1>3. ASSUME GenerateNothing(p) PROVE TypeInv'
    <2>1. MonOK'
      BY <1>m, <1>3 DEF GenerateNothing, Monitors, AtDraft
    <2> QED
      BY <1>1, <1>3, <2>1 DEF GenerateNothing
  <1>4. ASSUME GenerateEnds(p) PROVE TypeInv'
    <2> DEFINE d == mon[p].draft
    <2>1. MonOK'
      <3>1. mon' = [mon EXCEPT ![p] = [mon[p] EXCEPT !.pc = "promote", !.draft = NoDraft]]
        BY <1>4 DEF GenerateEnds
      <3>2. [mon[p] EXCEPT !.pc = "promote", !.draft = NoDraft].pc = "promote"
        BY DEF Monitors
      <3> QED
        BY <1>m, <3>1, <3>2 DEF AtDraft
    <2>2. d \in Draft
      BY <1>4 DEF GenerateEnds, AtDraft
    <2>3. /\ [draft[d] EXCEPT !.status = "READY", !.prompt = TRUE, !.old = FALSE] \in Drafts
          /\ [draft[d] EXCEPT !.status = "FAILED", !.old = FALSE] \in Drafts
      <3>1. draft[d] \in Drafts
        BY <2>2
      <3> QED
        BY <3>1 DEF Drafts, TERMINAL_DRAFT_STATES
    <2>4. draft' \in [Draft -> Drafts]
      BY <1>4, <2>2, <2>3 DEF GenerateEnds
    <2> QED
      BY <1>4, <2>1, <2>4 DEF GenerateEnds
  <1>5. ASSUME NEW blocking \in BOOLEAN, GenerateFails(p, blocking) PROVE TypeInv'
    <2> DEFINE d == mon[p].draft
    <2>1. MonOK'
      <3>1. mon' = [mon EXCEPT ![p] = [mon[p] EXCEPT !.pc = "promote", !.draft = NoDraft]]
        BY <1>5 DEF GenerateFails
      <3>2. [mon[p] EXCEPT !.pc = "promote", !.draft = NoDraft].pc = "promote"
        BY DEF Monitors
      <3> QED
        BY <1>m, <3>1, <3>2 DEF AtDraft
    <2>2. ASSUME NEW e \in Draft
          PROVE  /\ draft[e] \in Drafts
                 /\ [draft[e] EXCEPT !.status = "FAILED", !.promo = "FAILED", !.old = FALSE]
                       \in Drafts
                 /\ [Released(draft[e], "FAILED") EXCEPT !.status = "FAILED", !.prompt = FALSE]
                       \in Drafts
      <3>1. Released(draft[e], "FAILED") \in Drafts
        BY ReleasedType
      <3> QED
        BY <3>1 DEF Drafts, TERMINAL_DRAFT_STATES
    <2>3. draft' \in [Draft -> Drafts]
      BY <1>5, <2>2 DEF GenerateFails
    <2>4. task' \in [Draft -> TaskRows]
      BY <1>5, TaskTypes DEF GenerateFails
    <2> QED
      BY <1>5, <2>1, <2>3, <2>4 DEF GenerateFails
  <1> QED
    BY <1>2, <1>3, <1>4, <1>5

LEMMA PromoteType ==
    ASSUME TypeInv, NEW p \in App,
           \/ PromoteLists(p) \/ PromoteClaims(p)
           \/ \E b \in Batch : PromoteRechecks(p, b)
           \/ \E d \in Draft : PromoteReads(p, d)
           \/ PromoteInserts(p)
           \/ PromoteMarks(p)
    PROVE  TypeInv'
  <1> USE DEF TypeInv, MonOK
  <1>m. mon[p] \in Monitors /\ mon[p].todo \in SUBSET Draft /\ mon[p].own \in SUBSET Draft
    BY DEF Monitors
  <1>n. ASSUME NEW todo, NEW own
        PROVE  NextPc(todo, own) \in {"create", "recheck", "refresh"}
    BY DEF NextPc
  <1>0. ASSUME PromoteLists(p) PROVE TypeInv'
    <2> DEFINE listed == { d \in Draft : /\ batch[BatchOf[d]] = "INCOMPLETE"
                                         /\ Unpromoted(draft[d], task[d]) }
               m == [mon[p] EXCEPT !.todo = listed, !.pc = "claim"]
    <2>1. mon' = [mon EXCEPT ![p] = m]
      BY <1>0 DEF PromoteLists
    <2>2. m \in Monitors
      <3>1. listed \in SUBSET Draft /\ "claim" \in MonitorPc
        BY DEF MonitorPc
      <3> HIDE DEF listed
      <3> QED
        BY <1>m, <3>1, MonTypes
    <2>3. m.pc \notin AtDraft
      BY <1>m DEF Monitors, AtDraft
    <2>4. MonOK'
      BY <2>1, <2>2, <2>3
    <2>5. draft' \in [Draft -> Drafts]
      BY <1>0, RowTypes DEF PromoteLists
    <2> QED
      BY <1>0, <2>4, <2>5 DEF PromoteLists
  <1>1. ASSUME PromoteClaims(p) PROVE TypeInv'
    <2> DEFINE claims == { d \in mon[p].todo : Unclaimed(draft[d]) }
               pc == IF claims = {} THEN "refresh" ELSE "recheck"
               m  == [mon[p] EXCEPT !.todo = claims, !.pc = pc]
    <2>1. mon' = [mon EXCEPT ![p] = m]
      BY <1>1 DEF PromoteClaims
    <2>2. m \in Monitors
      <3>1. claims \in SUBSET Draft /\ pc \in MonitorPc
        BY <1>m DEF MonitorPc
      <3> HIDE DEF claims, pc
      <3> QED
        BY <1>m, <3>1, MonTypes
    <2>3. m.pc \notin AtDraft
      BY <1>m DEF Monitors, AtDraft
    <2>4. MonOK'
      BY <2>1, <2>2, <2>3
    <2>5. draft' \in [Draft -> Drafts]
      BY <1>1, RowTypes, ClaimedType DEF PromoteClaims
    <2> QED
      BY <1>1, <2>4, <2>5 DEF PromoteClaims
  <1>2. ASSUME NEW b \in Batch, PromoteRechecks(p, b) PROVE TypeInv'
    <2> DEFINE ds == { d \in mon[p].todo : BatchOf[d] = b }
               owned == { d \in ds : /\ draft[d].by = p /\ draft[d].promo = "DISPATCHING"
                                     /\ Prompted(draft[d]) }
               pc == NextPc(mon[p].todo \ ds, owned)
               m  == [mon[p] EXCEPT !.todo = mon[p].todo \ ds, !.own = owned, !.pc = pc]
    <2>1. mon' = [mon EXCEPT ![p] = m]
      BY <1>2 DEF PromoteRechecks
    <2>2. m \in Monitors
      <3>1. mon[p].todo \ ds \in SUBSET Draft /\ owned \in SUBSET Draft
        BY <1>m
      <3>2. pc \in MonitorPc
        BY <1>n DEF MonitorPc
      <3> HIDE DEF ds, owned, pc
      <3> QED
        BY <1>m, <3>1, <3>2, MonTypes
    <2>3. m.pc \notin AtDraft
      <3> HIDE DEF ds, owned
      <3> QED
        BY <1>m, <1>n DEF Monitors, AtDraft
    <2>4. MonOK'
      BY <2>1, <2>2, <2>3
    <2> QED
      BY <1>2, <2>4 DEF PromoteRechecks
  <1>3. ASSUME NEW d \in Draft, PromoteReads(p, d) PROVE TypeInv'
    <2>1. PICK pc \in {"created", "insert", "failed"} :
            mon' = [mon EXCEPT ![p] = [mon[p] EXCEPT !.pc = pc, !.draft = d,
                                                     !.own = mon[p].own \ {d}]]
      BY <1>3 DEF PromoteReads
    <2> DEFINE m == [mon[p] EXCEPT !.pc = pc, !.draft = d, !.own = mon[p].own \ {d}]
    <2>2. m \in Monitors
      <3>1. mon[p].own \ {d} \in SUBSET Draft /\ pc \in MonitorPc
        BY <1>m DEF MonitorPc
      <3> QED
        BY <1>m, <3>1, MonTypes
    <2>3. m.draft = d
      BY <1>m DEF Monitors
    <2>4. MonOK'
      BY <2>1, <2>2, <2>3
    <2> QED
      BY <1>3, <2>4 DEF PromoteReads
  <1>4. ASSUME PromoteInserts(p) PROVE TypeInv'
    <2> DEFINE d == mon[p].draft
               m == [mon[p] EXCEPT !.pc = "created"]
    <2>1. d \in Draft
      BY <1>4 DEF PromoteInserts, AtDraft
    <2>2. mon' = [mon EXCEPT ![p] = m]
      BY <1>4 DEF PromoteInserts
    <2>3. m \in Monitors
      BY <1>m, MonTypes DEF MonitorPc
    <2>4. m.draft = d
      BY <1>m DEF Monitors
    <2>5. MonOK'
      BY <2>1, <2>2, <2>3, <2>4
    <2>6. ASSUME NEW n \in 1..MaxTasks,
                 task' = [task EXCEPT ![d][n].status = "PENDING_SUBMIT"]
          PROVE  task' \in [Draft -> TaskRows]
      <3>1. task[d] \in TaskRows /\ task[d][n] \in Tasks
        BY <2>1 DEF TaskRows
      <3>2. [task[d][n] EXCEPT !.status = "PENDING_SUBMIT"] \in Tasks
        BY <3>1 DEF Tasks, PRE_RUNPOD_SUBMISSION_STATES
      <3>3. [task[d] EXCEPT ![n] = [task[d][n] EXCEPT !.status = "PENDING_SUBMIT"]] \in TaskRows
        BY <3>1, <3>2 DEF TaskRows
      <3> QED
        BY <2>1, <2>6, <3>3
    <2>7. task' \in [Draft -> TaskRows]
      BY <1>4, <2>6 DEF PromoteInserts
    <2> QED
      BY <1>4, <2>5, <2>7 DEF PromoteInserts
  <1>5. ASSUME PromoteMarks(p) PROVE TypeInv'
    <2> DEFINE d  == mon[p].draft
               pc == NextPc(mon[p].todo, mon[p].own)
               m  == [mon[p] EXCEPT !.draft = NoDraft, !.pc = pc]
    <2>1. mon' = [mon EXCEPT ![p] = m]
      BY <1>5 DEF PromoteMarks
    <2>2. m \in Monitors
      <3>1. pc \in MonitorPc
        BY <1>n DEF MonitorPc
      <3> HIDE DEF pc
      <3> QED
        BY <1>m, <3>1, MonTypes
    <2>3. m.pc \notin AtDraft
      BY <1>m, <1>n DEF Monitors, AtDraft
    <2>4. MonOK'
      BY <2>1, <2>2, <2>3
    <2>5. d \in Draft
      BY <1>5 DEF PromoteMarks, AtDraft
    <2>6. draft' \in [Draft -> Drafts]
      <3>1. Marked(draft[d], mon[p].pc) \in Drafts
        BY <2>5, RowTypes
      <3> QED
        BY <1>5, <2>5, <3>1 DEF PromoteMarks
    <2> QED
      BY <1>5, <2>4, <2>6 DEF PromoteMarks
  <1> QED
    BY <1>0, <1>1, <1>2, <1>3, <1>4, <1>5

LEMMA RefreshType ==
    ASSUME TypeInv, NEW p \in App, RefreshReads(p) \/ RefreshCommits(p) \/ Crash(p)
    PROVE  TypeInv'
  <1> USE DEF TypeInv, MonOK
  <1>m. mon[p] \in Monitors
    OBVIOUS
  <1>1. ASSUME RefreshReads(p) PROVE TypeInv'
    <2> DEFINE seen == { b \in Batch : Open(b) /\ Settled(b, draft', task') }
               m    == [mon[p] EXCEPT !.pc = "settle", !.seen = seen]
    <2>1. mon' = [mon EXCEPT ![p] = m]
      BY <1>1 DEF RefreshReads
    <2>2. m \in Monitors
      <3>1. seen \in SUBSET Batch /\ "settle" \in MonitorPc
        BY DEF MonitorPc
      <3> HIDE DEF seen
      <3> QED
        BY <1>m, <3>1, MonTypes
    <2>3. m.pc \notin AtDraft
      BY <1>m DEF Monitors, AtDraft
    <2>4. MonOK'
      BY <2>1, <2>2, <2>3
    <2>5. draft' \in [Draft -> Drafts]
      BY <1>1, RowTypes DEF RefreshReads
    <2>6. task' \in [Draft -> TaskRows]
      BY <1>1, TaskTypes DEF RefreshReads
    <2> QED
      BY <1>1, <2>4, <2>5, <2>6 DEF RefreshReads
  <1>2. ASSUME RefreshCommits(p) PROVE TypeInv'
    BY <1>2, StartedType DEF RefreshCommits
  <1>3. ASSUME Crash(p) PROVE TypeInv'
    BY <1>3, StartedType DEF Crash
  <1> QED
    BY <1>1, <1>2, <1>3

LEMMA BatchHandlerType ==
    ASSUME TypeInv, NEW b \in Batch,
           \/ CreateBatch(b) \/ CancelBatch(b) \/ ViewBatch(b)
           \/ \E picked \in SUBSET Draft : RetryBatch(b, picked)
    PROVE  TypeInv'
  <1> USE DEF TypeInv, MonOK
  <1>1. ASSUME CreateBatch(b) PROVE TypeInv'
    <2>1. [NoRow EXCEPT !.status = "PENDING"] \in Drafts
      BY DEF NoRow, Drafts
    <2> QED
      BY <1>1, <2>1 DEF CreateBatch, NewDraft
  <1>2. ASSUME CancelBatch(b) PROVE TypeInv'
    <2> DEFINE rows  == [d \in Draft |-> IF BatchOf[d] = b THEN CancelledDraft(draft[d])
                                         ELSE draft[d]]
               tasks == [d \in Draft |->
                            IF BatchOf[d] = b
                            THEN SetStatus(task[d], {"PENDING_SUBMIT"}, "CANCELLED")
                            ELSE task[d]]
    <2>1. rows \in [Draft -> Drafts]
      BY RowTypes
    <2>2. tasks \in [Draft -> TaskRows]
      BY SetStatusType DEF TaskStatus, TERMINAL_TASK_STATES, REWORKABLE_TASK_STATES
    <2>3. draft' = [d \in Draft |-> IF BatchOf[d] = b THEN InvalidDraft(rows[d], tasks[d])
                                    ELSE draft[d]]
      BY <1>2 DEF CancelBatch
    <2>4. task' = [d \in Draft |-> IF BatchOf[d] = b THEN InvalidTasks(rows[d], tasks[d])
                                   ELSE task[d]]
      BY <1>2 DEF CancelBatch
    <2> HIDE DEF rows, tasks
    <2>5. draft' \in [Draft -> Drafts]
      BY <2>1, <2>3, RowTypes
    <2>6. task' \in [Draft -> TaskRows]
      BY <2>2, <2>4, TaskTypes
    <2> QED
      BY <1>2, <2>5, <2>6 DEF CancelBatch
  <1>3. ASSUME ViewBatch(b) PROVE TypeInv'
    <2>1. draft' \in [Draft -> Drafts]
      BY <1>3, RowTypes DEF ViewBatch
    <2>2. task' \in [Draft -> TaskRows]
      BY <1>3, TaskTypes DEF ViewBatch
    <2> QED
      BY <1>3, <2>1, <2>2 DEF ViewBatch
  <1>4. ASSUME NEW picked \in SUBSET Draft, RetryBatch(b, picked) PROVE TypeInv'
    <2>1. ASSUME NEW d \in Draft
          PROVE  /\ draft[d] \in Drafts /\ ResetPrompt(draft[d]) \in Drafts
                 /\ Released(draft[d], "PENDING") \in Drafts
                 /\ InvalidDraft(draft[d], task[d]) \in Drafts
      BY RowTypes, ReleasedType
    <2>2. draft' \in [Draft -> Drafts]
      BY <1>4, <2>1 DEF RetryBatch
    <2>3. ASSUME NEW d \in Draft
          PROVE  /\ task[d] \in TaskRows /\ InvalidTasks(draft[d], task[d]) \in TaskRows
                 /\ SetStatus(task[d], REWORKABLE_TASK_STATES, "PENDING_SUBMIT") \in TaskRows
      BY TaskTypes, SetStatusType DEF TaskStatus, PRE_RUNPOD_SUBMISSION_STATES
    <2>4. task' \in [Draft -> TaskRows]
      BY <1>4, <2>3 DEF RetryBatch
    <2> QED
      BY <1>4, <2>2, <2>4 DEF RetryBatch
  <1> QED
    BY <1>1, <1>2, <1>3, <1>4

LEMMA TaskUpdateType ==
    ASSUME TypeInv, NEW d \in Draft, NEW n \in 1..MaxTasks, NEW v \in Tasks,
           task' = [task EXCEPT ![d][n] = v]
    PROVE  task' \in [Draft -> TaskRows]
  BY DEF TypeInv, TaskRows

LEMMA DraftHandlerType ==
    ASSUME TypeInv, NEW d \in Draft,
           \/ RetryDraft(d) \/ RepairDraft(d)
           \/ \E prompt \in BOOLEAN : EditPrompt(d, prompt)
           \/ \E n \in 1..MaxTasks : ReworkTask(d, n)
    PROVE  TypeInv'
  <1> USE DEF TypeInv, MonOK
  <1>1. ASSUME RetryDraft(d) PROVE TypeInv'
    <2>1. ResetPrompt(draft[d]) \in Drafts
      BY RowTypes
    <2> QED
      BY <1>1, <2>1 DEF RetryDraft
  <1>2. ASSUME RepairDraft(d) PROVE TypeInv'
    <2>1. Released(draft[d], "PENDING") \in Drafts
      BY ReleasedType
    <2>2. [Released(draft[d], "PENDING") EXCEPT !.status = "READY", !.prompt = TRUE] \in Drafts
      BY <2>1 DEF Drafts, TERMINAL_DRAFT_STATES
    <2> QED
      BY <1>2, <2>2 DEF RepairDraft
  <1>3. ASSUME NEW prompt \in BOOLEAN, EditPrompt(d, prompt) PROVE TypeInv'
    <2> DEFINE s == IF prompt /\ draft[d].status \in {"PENDING", "GENERATING", "FAILED"}
                    THEN "READY" ELSE draft[d].status
               r == [draft[d] EXCEPT !.prompt = prompt, !.status = s]
    <2>1. r \in Drafts
      <3>1. draft[d] \in Drafts
        OBVIOUS
      <3>2. s \in {"none", "PENDING", "GENERATING"} \cup TERMINAL_DRAFT_STATES
        BY <3>1 DEF Drafts, TERMINAL_DRAFT_STATES
      <3> QED
        BY <3>1, <3>2 DEF Drafts
    <2>2. draft' = [draft EXCEPT ![d] = r]
      BY <1>3 DEF EditPrompt
    <2> HIDE DEF r
    <2>3. draft' \in [Draft -> Drafts]
      BY <2>1, <2>2
    <2> QED
      BY <1>3, <2>3 DEF EditPrompt
  <1>4. ASSUME NEW n \in 1..MaxTasks, ReworkTask(d, n) PROVE TypeInv'
    <2> DEFINE v == [task[d][n] EXCEPT !.status = "PENDING_SUBMIT"]
    <2>1. v \in Tasks
      <3>1. task[d][n] \in Tasks
        BY DEF TaskRows
      <3> QED
        BY <3>1 DEF Tasks, PRE_RUNPOD_SUBMISSION_STATES
    <2>2. task' = [task EXCEPT ![d][n] = v]
      BY <1>4 DEF ReworkTask
    <2>3. task' \in [Draft -> TaskRows]
      BY <2>1, <2>2, TaskUpdateType
    <2> QED
      BY <1>4, <2>3 DEF ReworkTask
  <1> QED
    BY <1>1, <1>2, <1>3, <1>4

LEMMA ListType == ASSUME TypeInv, ListDrafts PROVE TypeInv'
  BY RowTypes DEF TypeInv, MonOK, ListDrafts, Finalize

LEMMA QueueType == ASSUME TypeInv, Queue PROVE TypeInv'
  <1>1. PICK d \in Draft, n \in 1..MaxTasks :
          TaskClaimed(d, n) \/ TaskAccepted(d, n) \/ TaskReleased(d, n) \/ TaskEnds(d, n)
    BY DEF Queue
  <1>2. task[d][n] \in Tasks
    BY DEF TypeInv, TaskRows
  <1>3. PICK status, posting : /\ TaskSteps(d, n, status, posting)
                               /\ [status |-> status, posting |-> posting] \in Tasks
    <2> USE DEF Tasks, PRE_RUNPOD_SUBMISSION_STATES
    <2>1. CASE TaskClaimed(d, n)
      BY <2>1 DEF TaskClaimed
    <2>2. CASE TaskAccepted(d, n)
      BY <2>2 DEF TaskAccepted
    <2>3. CASE TaskReleased(d, n)
      BY <1>2, <2>3 DEF TaskReleased
    <2>4. CASE TaskEnds(d, n)
      BY <1>2, <2>4 DEF TaskEnds
    <2> QED
      BY <1>1, <2>1, <2>2, <2>3, <2>4
  <1>4. task' \in [Draft -> TaskRows]
    BY <1>3, TaskUpdateType DEF TaskSteps
  <1> QED
    BY <1>3, <1>4 DEF TaskSteps, TypeInv, MonOK

LEMMA TimeType == ASSUME TypeInv, Time PROVE TypeInv'
  <1>1. PICK d \in Draft : ClaimAges(d) \/ GenerationAges(d) \/ DeferralEnds(d)
    BY DEF Time
  <1>2. /\ [draft[d] EXCEPT !.stale = TRUE] \in Drafts
        /\ [draft[d] EXCEPT !.old = TRUE] \in Drafts
        /\ [draft[d] EXCEPT !.deferred = FALSE] \in Drafts
    <2>1. draft[d] \in Drafts
      BY DEF TypeInv
    <2> QED
      BY <2>1 DEF Drafts
  <1>3. PICK r \in Drafts : draft' = [draft EXCEPT ![d] = r]
    BY <1>1, <1>2 DEF ClaimAges, GenerationAges, DeferralEnds
  <1>4. UNCHANGED <<batch, task, mon, crashes>>
    BY <1>1 DEF ClaimAges, GenerationAges, DeferralEnds
  <1>5. draft' \in [Draft -> Drafts]
    BY <1>3 DEF TypeInv
  <1>6. MonOK'
    BY <1>4 DEF TypeInv, MonOK
  <1> QED
    BY <1>4, <1>5, <1>6 DEF TypeInv

LEMMA NextType == TypeInv /\ [Next]_vars => TypeInv'
  <1> SUFFICES ASSUME TypeInv, [Next]_vars PROVE TypeInv'
    OBVIOUS
  <1>1. CASE UNCHANGED vars
    BY <1>1 DEF vars, TypeInv, MonOK
  <1>2. ASSUME NEW p \in App, Monitor(p) PROVE TypeInv'
    BY <1>2, GenerateType, PromoteType, RefreshType DEF Monitor
  <1>3. CASE Handler
    BY <1>3, BatchHandlerType, DraftHandlerType, ListType DEF Handler
  <1> QED
    BY <1>1, <1>2, <1>3, RefreshType, QueueType, TimeType DEF Next

LEMMA TypesInvariant == Spec => []TypeInv
  BY InitType, NextType, PTL DEF Spec

(* No step of a monitor, a handler, a task or time, in any number of       *)
(* processes, leaves the state space, and a monitor that works on a draft  *)
(* always has one.                                                         *)
THEOREM TypeCorrect == Spec => []TypeOK
  <1>1. TypeInv => TypeOK
    BY DEF TypeInv, TypeOK, MonOK, TaskRows
  <1> QED
    BY <1>1, TypesInvariant, PTL

-----------------------------------------------------------------------------
(* One process makes one task for a draft.  Between the look for a task    *)
(* and the insertion of one nobody else may insert: the invariant says so  *)
(* of the process, and only its own monitor inserts.  That no other row    *)
(* comes to be needs that a POST is only ever out for a task that exists.  *)
OneProcess == \A p, q \in App : p = q

Single(ts)  == \A m, n \in 1..MaxTasks : ts[m].status # "none" /\ ts[n].status # "none" => m = n
PostedTask(ts)  == \A n \in 1..MaxTasks : ts[n].posting => ts[n].status # "none"

OneInv == /\ \A d \in Draft : Single(task[d]) /\ PostedTask(task[d])
          /\ \A p \in App : mon[p].pc = "insert" => ~HasTask(task[mon[p].draft])

(* The same tasks exist, whatever their statuses are. *)
Same(ts, us) ==
    /\ \A n \in 1..MaxTasks : us[n].status = "none" <=> ts[n].status = "none"
    /\ PostedTask(ts) => PostedTask(us)

SameTasks == \A d \in Draft : Same(task[d], task'[d])

LEMMA SameKeeps ==
    ASSUME NEW ts, NEW us, Same(ts, us)
    PROVE  /\ HasTask(us) <=> HasTask(ts)
           /\ Single(ts) /\ PostedTask(ts) => Single(us) /\ PostedTask(us)
  BY DEF Same, HasTask, Single

LEMMA SameSelf == ASSUME NEW ts PROVE Same(ts, ts)
  BY DEF Same

LEMMA SetStatusSame ==
    ASSUME NEW ts \in TaskRows, NEW from, NEW to \in TaskStatus,
           "none" \notin from, to # "none"
    PROVE  Same(ts, SetStatus(ts, from, to))
  <1> DEFINE us == SetStatus(ts, from, to)
  <1>1. ASSUME NEW n \in 1..MaxTasks
        PROVE  /\ us[n].status = IF ts[n].status \in from THEN to ELSE ts[n].status
               /\ us[n].posting = ts[n].posting
    <2>1. ts[n] \in Tasks
      BY DEF TaskRows
    <2> QED
      BY <2>1 DEF SetStatus, Tasks
  <1> QED
    BY <1>1 DEF Same, PostedTask

LEMMA InvalidSame ==
    ASSUME NEW ts \in TaskRows
    PROVE  Same(ts, FailPreSubmit(ts)) /\ \A r : Same(ts, InvalidTasks(r, ts))
  <1>1. Same(ts, FailPreSubmit(ts))
    BY SetStatusSame DEF FailPreSubmit, TaskStatus, PRE_RUNPOD_SUBMISSION_STATES,
                         TERMINAL_TASK_STATES, REWORKABLE_TASK_STATES
  <1> QED
    BY <1>1, SameSelf DEF InvalidTasks

LEMMA SameTrans ==
    ASSUME NEW ts, NEW us, NEW vs, Same(ts, us), Same(us, vs) PROVE Same(ts, vs)
  BY DEF Same

LEMMA UnchangedSame == ASSUME UNCHANGED task PROVE SameTasks
  BY SameSelf DEF SameTasks

(* Every step but the insertion leaves the existing tasks the existing     *)
(* ones.                                                                   *)
LEMMA MonitorSame ==
    ASSUME TypeInv, NEW p \in App, Monitor(p) PROVE PromoteInserts(p) \/ SameTasks
  <1> USE DEF TypeInv
  <1>1. ASSUME NEW blocking \in BOOLEAN, GenerateFails(p, blocking) PROVE SameTasks
    <2>1. ASSUME NEW e \in Draft PROVE task'[e] \in {task[e], FailPreSubmit(task[e])}
      BY <1>1 DEF GenerateFails
    <2> QED
      BY <2>1, SameSelf, InvalidSame DEF SameTasks
  <1>2. ASSUME RefreshReads(p) PROVE SameTasks
    <2>1. ASSUME NEW e \in Draft
          PROVE  task'[e] = task[e] \/ task'[e] = InvalidTasks(draft[e], task[e])
      BY <1>2 DEF RefreshReads
    <2> QED
      BY <2>1, SameSelf, InvalidSame DEF SameTasks
  <1>3. \/ UNCHANGED task
        \/ \E blocking \in BOOLEAN : GenerateFails(p, blocking)
        \/ RefreshReads(p) \/ PromoteInserts(p)
    BY DEF Monitor, GenerateClaims, GenerateNothing, GenerateEnds, PromoteLists,
           PromoteClaims, PromoteRechecks, PromoteReads, PromoteMarks, RefreshCommits
  <1> QED
    BY <1>1, <1>2, <1>3, UnchangedSame

LEMMA HandlerSame == ASSUME TypeInv, Handler PROVE SameTasks /\ UNCHANGED mon
  <1> USE DEF TypeInv
  <1>1. ASSUME NEW b \in Batch, CancelBatch(b) PROVE SameTasks
    <2>1. ASSUME NEW d \in Draft PROVE Same(task[d], task'[d])
      <3> DEFINE ts == SetStatus(task[d], {"PENDING_SUBMIT"}, "CANCELLED")
      <3>1. ts \in TaskRows /\ Same(task[d], ts)
        BY SetStatusType, SetStatusSame
           DEF TaskStatus, TERMINAL_TASK_STATES, REWORKABLE_TASK_STATES
      <3>2. task'[d] = task[d] \/ \E r : task'[d] = InvalidTasks(r, ts)
        BY <1>1 DEF CancelBatch
      <3> HIDE DEF ts
      <3>3. \A r : Same(task[d], InvalidTasks(r, ts))
        BY <3>1, InvalidSame, SameTrans
      <3> QED
        BY <3>2, <3>3, SameSelf
    <2> QED
      BY <2>1 DEF SameTasks
  <1>2. ASSUME NEW b \in Batch, ViewBatch(b) PROVE SameTasks
    <2>1. ASSUME NEW e \in Draft
          PROVE  task'[e] = task[e] \/ task'[e] = InvalidTasks(draft[e], task[e])
      BY <1>2 DEF ViewBatch
    <2> QED
      BY <2>1, SameSelf, InvalidSame DEF SameTasks
  <1>3. ASSUME NEW b \in Batch, NEW picked \in SUBSET Draft, RetryBatch(b, picked)
        PROVE  SameTasks
    <2>1. ASSUME NEW d \in Draft PROVE Same(task[d], task'[d])
      <3>1. Same(task[d], SetStatus(task[d], REWORKABLE_TASK_STATES, "PENDING_SUBMIT"))
        BY SetStatusSame DEF TaskStatus, PRE_RUNPOD_SUBMISSION_STATES, REWORKABLE_TASK_STATES
      <3>2. \/ task'[d] = task[d]
            \/ task'[d] = InvalidTasks(draft[d], task[d])
            \/ task'[d] = SetStatus(task[d], REWORKABLE_TASK_STATES, "PENDING_SUBMIT")
        BY <1>3 DEF RetryBatch
      <3> QED
        BY <3>1, <3>2, SameSelf, InvalidSame
    <2> QED
      BY <2>1 DEF SameTasks
  <1>4. ASSUME NEW d \in Draft, NEW n \in 1..MaxTasks, ReworkTask(d, n) PROVE SameTasks
    <2>1. task[d][n] \in Tasks /\ task[d] \in TaskRows
      BY DEF TaskRows
    <2>2. task[d][n].status # "none"
      BY <1>4 DEF ReworkTask, TERMINAL_TASK_STATES, REWORKABLE_TASK_STATES
    <2>3. task' = [task EXCEPT ![d] = [task[d] EXCEPT ![n] =
                       [task[d][n] EXCEPT !.status = "PENDING_SUBMIT"]]]
      BY <1>4 DEF ReworkTask
    <2>4. Same(task[d], [task[d] EXCEPT ![n] = [task[d][n] EXCEPT !.status = "PENDING_SUBMIT"]])
      BY <2>1, <2>2 DEF Same, PostedTask, TaskRows, Tasks
    <2> QED
      BY <2>3, <2>4, SameSelf DEF SameTasks
  <1>5. \/ UNCHANGED task
        \/ \E b \in Batch : \/ CancelBatch(b) \/ ViewBatch(b)
                            \/ \E picked \in SUBSET Draft : RetryBatch(b, picked)
        \/ \E d \in Draft, n \in 1..MaxTasks : ReworkTask(d, n)
    BY DEF Handler, ListDrafts, CreateBatch, NewDraft, RetryDraft, RepairDraft, EditPrompt
  <1>6. UNCHANGED mon
    BY DEF Handler, ListDrafts, CreateBatch, NewDraft, CancelBatch, ViewBatch, RetryBatch, RetryDraft,
           RepairDraft, EditPrompt, ReworkTask
  <1> QED
    BY <1>1, <1>2, <1>3, <1>4, <1>5, <1>6, UnchangedSame

LEMMA QueueSame ==
    ASSUME TypeInv, \A d \in Draft : PostedTask(task[d]), Queue
    PROVE  SameTasks /\ UNCHANGED mon
  <1>1. PICK d \in Draft, n \in 1..MaxTasks :
          TaskClaimed(d, n) \/ TaskAccepted(d, n) \/ TaskReleased(d, n) \/ TaskEnds(d, n)
    BY DEF Queue
  <1>2. task[d] \in TaskRows /\ task[d][n] \in Tasks
    BY DEF TypeInv, TaskRows
  <1>3. task[d][n].status # "none"
    BY <1>1 DEF TaskClaimed, TaskAccepted, TaskReleased, TaskEnds, PostedTask
  <1>4. PICK v : v.status # "none" /\ task' = [task EXCEPT ![d][n] = v]
    <2>1. ASSUME NEW status, NEW posting, TaskSteps(d, n, status, posting), status # "none"
          PROVE  \E v : v.status # "none" /\ task' = [task EXCEPT ![d][n] = v]
      BY <2>1 DEF TaskSteps
    <2>2. CASE TaskClaimed(d, n)
      BY <2>1, <2>2 DEF TaskClaimed
    <2>3. CASE TaskAccepted(d, n)
      BY <2>1, <2>3 DEF TaskAccepted
    <2>4. CASE TaskReleased(d, n)
      BY <1>3, <2>1, <2>4 DEF TaskReleased
    <2>5. CASE TaskEnds(d, n)
      BY <2>1, <2>5 DEF TaskEnds, TERMINAL_TASK_STATES, REWORKABLE_TASK_STATES
    <2> QED
      BY <1>1, <2>2, <2>3, <2>4, <2>5
  <1>5. task' = [task EXCEPT ![d] = [task[d] EXCEPT ![n] = v]]
    BY <1>4
  <1>6. Same(task[d], [task[d] EXCEPT ![n] = v])
    BY <1>2, <1>3, <1>4 DEF Same, PostedTask, TaskRows
  <1>7. UNCHANGED mon
    BY <1>1 DEF TaskClaimed, TaskAccepted, TaskReleased, TaskEnds, TaskSteps
  <1> QED
    BY <1>5, <1>6, <1>7, SameSelf DEF SameTasks, TypeInv

(* A monitor that comes to insert has just seen that there is no task.     *)
LEMMA ReadsFirst ==
    ASSUME TypeInv, NEW p \in App, Monitor(p), mon'[p].pc = "insert"
    PROVE  UNCHANGED task /\ mon'[p].draft \in Draft /\ ~HasTask(task[mon'[p].draft])
  <1> USE DEF TypeInv, MonOK
  <1>1. mon[p] \in Monitors
    OBVIOUS
  <1>2. ASSUME NEW d \in Draft, PromoteReads(p, d)
        PROVE  UNCHANGED task /\ mon'[p].draft \in Draft /\ ~HasTask(task[mon'[p].draft])
    BY <1>1, <1>2 DEF PromoteReads, Monitors
  <1>3. ASSUME NEW d \in Draft, GenerateClaims(p, d) PROVE FALSE
    <2>1. \/ mon'[p] = [mon[p] EXCEPT !.pc = "promote"]
          \/ mon'[p] = [mon[p] EXCEPT !.pc = "generating", !.draft = d]
      BY <1>3 DEF GenerateClaims
    <2> QED
      BY <1>1, <2>1 DEF Monitors
  <1>4. \A k : ~GenerateNothing(p) /\ ~GenerateEnds(p) /\ ~GenerateFails(p, k)
    <2>1. ASSUME NEW k, GenerateNothing(p) \/ GenerateEnds(p) \/ GenerateFails(p, k)
          PROVE  \/ mon'[p] = [mon[p] EXCEPT !.pc = "promote"]
                 \/ mon'[p] = [mon[p] EXCEPT !.pc = "promote", !.draft = NoDraft]
      BY <2>1 DEF GenerateNothing, GenerateEnds, GenerateFails
    <2> QED
      BY <1>1, <2>1 DEF Monitors
  <1>5. \A todo, own : NextPc(todo, own) # "insert"
    BY DEF NextPc
  <1>6. ~PromoteLists(p) /\ ~PromoteClaims(p)
    BY <1>1 DEF PromoteLists, PromoteClaims, Monitors
  <1>7. ASSUME NEW b \in Batch, PromoteRechecks(p, b) PROVE FALSE
    <2> DEFINE ds == { d \in mon[p].todo : BatchOf[d] = b }
               owned == { d \in ds : /\ draft[d].by = p /\ draft[d].promo = "DISPATCHING"
                                     /\ Prompted(draft[d]) }
               todo == mon[p].todo \ ds
               pc == NextPc(todo, owned)
    <2>1. mon'[p] = [mon[p] EXCEPT !.todo = todo, !.own = owned, !.pc = pc]
      BY <1>7 DEF PromoteRechecks
    <2>2. pc # "insert"
      BY <1>5
    <2> HIDE DEF ds, owned, todo, pc
    <2> QED
      BY <1>1, <2>1, <2>2 DEF Monitors
  <1>8. ~PromoteInserts(p) /\ ~RefreshReads(p)
    BY <1>1 DEF PromoteInserts, RefreshReads, Monitors
  <1>9. ~PromoteMarks(p)
    BY <1>1, <1>5 DEF PromoteMarks, Monitors
  <1>10. ~RefreshCommits(p)
    BY DEF RefreshCommits, Started
  <1> QED
    BY <1>2, <1>3, <1>4, <1>6, <1>7, <1>8, <1>9, <1>10 DEF Monitor

LEMMA InsertOne ==
    ASSUME TypeInv, OneInv, NEW p \in App, PromoteInserts(p)
    PROVE  /\ \A d \in Draft : Single(task'[d]) /\ PostedTask(task'[d])
           /\ mon'[p].pc = "created"
  <1> DEFINE d == mon[p].draft
  <1> USE DEF TypeInv
  <1>1. d \in Draft /\ ~HasTask(task[d])
    BY DEF PromoteInserts, MonOK, AtDraft, OneInv
  <1>2. mon'[p].pc = "created"
    BY DEF PromoteInserts, MonOK, Monitors
  <1>3. CASE UNCHANGED task
    BY <1>2, <1>3 DEF OneInv
  <1>4. ASSUME NEW n \in 1..MaxTasks,
               task' = [task EXCEPT ![d][n].status = "PENDING_SUBMIT"]
        PROVE  \A e \in Draft : Single(task'[e]) /\ PostedTask(task'[e])
    <2>1. task[d] \in TaskRows /\ task[d][n] \in Tasks
      BY <1>1 DEF TaskRows
    <2>2. task' = [task EXCEPT ![d] = [task[d] EXCEPT ![n] =
                       [task[d][n] EXCEPT !.status = "PENDING_SUBMIT"]]]
      BY <1>4
    <2>3. ASSUME NEW m \in 1..MaxTasks, m # n
          PROVE  task'[d][m] = task[d][m] /\ task[d][m].status = "none"
      BY <1>1, <2>1, <2>2, <2>3 DEF HasTask, TaskRows
    <2>4. task'[d][n].status = "PENDING_SUBMIT"
      BY <1>1, <2>1, <2>2 DEF TaskRows, Tasks
    <2>5. Single(task'[d])
      BY <2>3, <2>4 DEF Single
    <2>6. PostedTask(task'[d])
      BY <1>1, <2>3, <2>4 DEF PostedTask, OneInv
    <2>7. ASSUME NEW e \in Draft, e # d PROVE task'[e] = task[e]
      BY <2>2, <2>7
    <2> QED
      BY <2>5, <2>6, <2>7 DEF OneInv
  <1> QED
    BY <1>2, <1>3, <1>4 DEF PromoteInserts

LEMMA NextOne ==
    ASSUME OneProcess PROVE TypeInv /\ OneInv /\ [Next]_vars => OneInv'
  <1> SUFFICES ASSUME TypeInv, OneInv, [Next]_vars PROVE OneInv'
    OBVIOUS
  <1>1. ASSUME SameTasks, UNCHANGED mon PROVE OneInv'
    <2>1. \A p \in App : mon[p].pc = "insert" => mon[p].draft \in Draft
      BY DEF TypeInv, MonOK, AtDraft
    <2> QED
      BY <1>1, <2>1, SameKeeps DEF SameTasks, OneInv
  <1>2. ASSUME NEW p \in App, Monitor(p) PROVE OneInv'
    <2>1. \A d \in Draft : Single(task'[d]) /\ PostedTask(task'[d])
      BY <1>2, MonitorSame, InsertOne, SameKeeps DEF SameTasks, OneInv
    <2>2. mon'[p].pc = "insert" => ~HasTask(task'[mon'[p].draft])
      BY <1>2, ReadsFirst
    <2> QED
      BY <2>1, <2>2 DEF OneInv, OneProcess
  <1>3. ASSUME NEW p \in App, Crash(p) PROVE OneInv'
    <2>1. mon'[p].pc # "insert" /\ UNCHANGED task
      BY <1>3 DEF Crash, Started, TypeInv, MonOK
    <2> QED
      BY <2>1 DEF OneInv, OneProcess
  <1>4. CASE Queue
    BY <1>1, <1>4, QueueSame DEF OneInv
  <1>5. CASE Time
    BY <1>1, <1>5, UnchangedSame DEF Time, ClaimAges, GenerationAges, DeferralEnds
  <1>6. CASE UNCHANGED vars
    BY <1>1, <1>6, UnchangedSame DEF vars
  <1> QED
    BY <1>1, <1>2, <1>3, <1>4, <1>5, <1>6, HandlerSame DEF Next

LEMMA InitOne == Init => OneInv
  BY DEF Init, OneInv, Single, PostedTask, NoTask, Started

(* Where one process runs the monitor loop, a draft gets one task whatever *)
(* that process or the users do: crashes between the claim, the task and   *)
(* the mark, late answers, edits, retries, repairs and cancellations.      *)
THEOREM OneTaskInvariant ==
    ASSUME OneProcess PROVE Spec => []OneTaskPerDraft
  <1>1. OneInv => OneTaskPerDraft
    BY DEF OneInv, Single, OneTask, OneTaskPerDraft
  <1>2. TypeInv /\ OneInv /\ [Next]_vars => OneInv'
    BY NextOne
  <1> QED
    BY <1>1, <1>2, InitOne, TypesInvariant, PTL DEF Spec

-----------------------------------------------------------------------------
(* Without cancellations no ready draft falls out of promotion: every      *)
(* claim has an owner, whose stamp will age.                               *)
Held(r) == r.promo # "CANCELLED" /\ (r.promo = "DISPATCHING" => r.by # NoApp)

HeldInv == /\ \A b \in Batch : batch[b] # "CANCELLED"
           /\ \A d \in Draft : Held(draft[d])

LEMMA ReleasedHeld ==
    ASSUME NEW r \in Drafts, NEW promo \in {"PENDING", "TASK_CREATED", "FAILED"}
    PROVE  /\ Held(Released(r, promo))
           /\ \A s, k, f : /\ Held([Released(r, promo) EXCEPT !.status = s])
                           /\ Held([Released(r, promo) EXCEPT !.prompt = k])
                           /\ Held([Released(r, promo) EXCEPT !.deferred = f])
                           /\ Held([Released(r, promo) EXCEPT !.status = s, !.prompt = k])
  BY DEF Released, Held, Drafts

LEMMA RowsHeld ==
    ASSUME NEW r \in Drafts, Held(r)
    PROVE  /\ Held(ResetPrompt(r)) /\ Held(Finalized(r))
           /\ \A pc : Held(Marked(r, pc))
           /\ \A ts : Held(InvalidDraft(r, ts)) /\ Held(Reconciled(r, ts))
           /\ \A p \in App : Held(Claimed(r, p))
           /\ \A s, k, o : /\ Held([r EXCEPT !.status = s, !.prompt = k, !.old = o])
                           /\ Held([r EXCEPT !.status = s, !.old = o])
                           /\ Held([r EXCEPT !.prompt = k, !.status = s])
                           /\ Held([r EXCEPT !.status = s, !.promo = "FAILED", !.old = o])
                           /\ Held([r EXCEPT !.old = o])
                           /\ Held([r EXCEPT !.stale = o])
                           /\ Held([r EXCEPT !.deferred = o])
  <1>1. Held(ResetPrompt(r))
    BY ReleasedHeld DEF ResetPrompt
  <1>2. Held(Finalized(r))
    BY DEF Finalized, Held, Drafts
  <1>3. ASSUME NEW pc PROVE Held(Marked(r, pc))
    BY ReleasedHeld DEF Marked
  <1>4. ASSUME NEW ts PROVE Held(InvalidDraft(r, ts)) /\ Held(Reconciled(r, ts))
    BY ReleasedHeld DEF InvalidDraft, Reconciled
  <1>5. ASSUME NEW p \in App PROVE Held(Claimed(r, p))
    BY NoneAssumption DEF Claimed, Released, Held, Drafts
  <1>6. \A s, k, o : /\ Held([r EXCEPT !.status = s, !.prompt = k, !.old = o])
                     /\ Held([r EXCEPT !.status = s, !.old = o])
                     /\ Held([r EXCEPT !.prompt = k, !.status = s])
                     /\ Held([r EXCEPT !.status = s, !.promo = "FAILED", !.old = o])
                     /\ Held([r EXCEPT !.old = o])
                     /\ Held([r EXCEPT !.stale = o])
                     /\ Held([r EXCEPT !.deferred = o])
    BY DEF Held, Drafts
  <1> QED
    BY <1>1, <1>2, <1>3, <1>4, <1>5, <1>6

LEMMA MonitorHeld ==
    ASSUME TypeInv, HeldInv, NEW p \in App, Monitor(p)
    PROVE  \A d \in Draft : Held(draft'[d])
  <1> USE DEF TypeInv, HeldInv
  <1>f. /\ Finalize \in [Draft -> Drafts]
        /\ \A d \in Draft : Held(Finalize[d])
    BY RowTypes, RowsHeld DEF Finalize
  <1>1. ASSUME NEW d \in Draft, GenerateClaims(p, d) PROVE \A e \in Draft : Held(draft'[e])
    <2>1. batch[BatchOf[d]] # "CANCELLED"
      BY BatchOfAssumption
    <2>2. draft' = [Finalize EXCEPT ![d] = [Finalize[d] EXCEPT !.status = "GENERATING",
                                                               !.old = FALSE]]
      BY <1>1, <2>1 DEF GenerateClaims
    <2>3. Held([Finalize[d] EXCEPT !.status = "GENERATING", !.old = FALSE])
      BY <1>f, RowsHeld
    <2> QED
      BY <1>f, <2>2, <2>3
  <1>2. ASSUME GenerateNothing(p) PROVE \A e \in Draft : Held(draft'[e])
    BY <1>f, <1>2 DEF GenerateNothing
  <1>3. ASSUME GenerateEnds(p) PROVE \A e \in Draft : Held(draft'[e])
    <2> DEFINE d == mon[p].draft
    <2>1. \/ draft' = [draft EXCEPT ![d] = [draft[d] EXCEPT !.status = "READY",
                                            !.prompt = TRUE, !.old = FALSE]]
          \/ draft' = [draft EXCEPT ![d] = [draft[d] EXCEPT !.status = "FAILED", !.old = FALSE]]
      BY <1>3 DEF GenerateEnds
    <2>2. d \in Draft
      BY <1>3 DEF GenerateEnds, MonOK, AtDraft
    <2>3. /\ draft[d] \in Drafts /\ Held(draft[d])
      BY <2>2
    <2>4. /\ Held([draft[d] EXCEPT !.status = "READY", !.prompt = TRUE, !.old = FALSE])
          /\ Held([draft[d] EXCEPT !.status = "FAILED", !.old = FALSE])
      BY <2>3, RowsHeld
    <2> HIDE DEF d
    <2> QED
      BY <2>1, <2>2, <2>4
  <1>4. ASSUME NEW k, GenerateFails(p, k) PROVE \A e \in Draft : Held(draft'[e])
    <2>1. ASSUME NEW e \in Draft
          PROVE  draft'[e] \in { draft[e],
                     [draft[e] EXCEPT !.status = "FAILED", !.promo = "FAILED", !.old = FALSE],
                     [Released(draft[e], "FAILED") EXCEPT !.status = "FAILED",
                                                          !.prompt = FALSE] }
      BY <1>4 DEF GenerateFails
    <2>2. ASSUME NEW e \in Draft
          PROVE  /\ Held([draft[e] EXCEPT !.status = "FAILED", !.promo = "FAILED", !.old = FALSE])
                 /\ Held([Released(draft[e], "FAILED") EXCEPT !.status = "FAILED",
                                                              !.prompt = FALSE])
      BY RowsHeld, ReleasedHeld
    <2> QED
      BY <2>1, <2>2
  <1>5. ASSUME PromoteLists(p) \/ PromoteClaims(p) PROVE \A e \in Draft : Held(draft'[e])
    <2>1. ASSUME NEW e \in Draft
          PROVE  draft'[e] \in {draft[e], Claimed(draft[e], p), Reconciled(draft[e], task[e])}
      BY <1>5 DEF PromoteLists, PromoteClaims
    <2>2. ASSUME NEW e \in Draft
          PROVE  Held(Claimed(draft[e], p)) /\ Held(Reconciled(draft[e], task[e]))
      BY RowsHeld
    <2> QED
      BY <2>1, <2>2
  <1>6. ASSUME PromoteMarks(p) PROVE \A e \in Draft : Held(draft'[e])
    <2>1. ASSUME NEW e \in Draft
          PROVE  draft'[e] = draft[e] \/ draft'[e] = Marked(draft[e], mon[p].pc)
      BY <1>6 DEF PromoteMarks
    <2>2. ASSUME NEW e \in Draft
          PROVE  Held(Marked(draft[e], mon[p].pc))
      BY RowsHeld
    <2> QED
      BY <2>1, <2>2
  <1>7. ASSUME RefreshReads(p) PROVE \A e \in Draft : Held(draft'[e])
    <2>1. ASSUME NEW e \in Draft
          PROVE  draft'[e] = draft[e] \/ draft'[e] = InvalidDraft(draft[e], task[e])
      BY <1>7 DEF RefreshReads
    <2>2. ASSUME NEW e \in Draft
          PROVE  Held(InvalidDraft(draft[e], task[e]))
      BY RowsHeld
    <2> QED
      BY <2>1, <2>2
  <1>8. ASSUME UNCHANGED draft PROVE \A e \in Draft : Held(draft'[e])
    BY <1>8
  <1> QED
    BY <1>1, <1>2, <1>3, <1>4, <1>5, <1>6, <1>7, <1>8
       DEF Monitor, PromoteRechecks, PromoteReads, PromoteInserts, RefreshCommits

LEMMA HandlerHeld ==
    ASSUME TypeInv, HeldInv, "cancel" \notin Requests, Handler
    PROVE  \A d \in Draft : Held(draft'[d])
  <1> USE DEF TypeInv, HeldInv
  <1>1. ASSUME ListDrafts PROVE \A e \in Draft : Held(draft'[e])
    BY <1>1, RowsHeld DEF ListDrafts, Finalize
  <1>2. ASSUME NEW b \in Batch, CreateBatch(b) PROVE \A e \in Draft : Held(draft'[e])
    <2>1. Held([NoRow EXCEPT !.status = "PENDING"])
      BY DEF NoRow, Held
    <2> QED
      BY <1>2, <2>1 DEF CreateBatch, NewDraft
  <1>3. ASSUME NEW b \in Batch, ViewBatch(b) PROVE \A e \in Draft : Held(draft'[e])
    <2>1. ASSUME NEW e \in Draft
          PROVE  draft'[e] = draft[e] \/ draft'[e] = InvalidDraft(draft[e], task[e])
      BY <1>3 DEF ViewBatch
    <2>2. ASSUME NEW e \in Draft
          PROVE  Held(InvalidDraft(draft[e], task[e]))
      BY RowsHeld
    <2> QED
      BY <2>1, <2>2
  <1>4. ASSUME NEW b \in Batch, NEW picked \in SUBSET Draft, RetryBatch(b, picked)
        PROVE  \A e \in Draft : Held(draft'[e])
    <2>1. ASSUME NEW e \in Draft
          PROVE  \/ draft'[e] = draft[e] \/ draft'[e] = InvalidDraft(draft[e], task[e])
                 \/ draft'[e] = ResetPrompt(draft[e])
                 \/ draft'[e] = Released(draft[e], "PENDING")
      BY <1>4 DEF RetryBatch
    <2>2. ASSUME NEW e \in Draft
          PROVE  /\ Held(InvalidDraft(draft[e], task[e])) /\ Held(ResetPrompt(draft[e]))
                 /\ Held(Released(draft[e], "PENDING"))
      BY RowsHeld, ReleasedHeld
    <2> QED
      BY <2>1, <2>2
  <1>5. ASSUME NEW d \in Draft, RetryDraft(d) PROVE \A e \in Draft : Held(draft'[e])
    BY <1>5, RowsHeld DEF RetryDraft
  <1>6. ASSUME NEW d \in Draft, RepairDraft(d) PROVE \A e \in Draft : Held(draft'[e])
    BY <1>6, ReleasedHeld DEF RepairDraft
  <1>7. ASSUME NEW d \in Draft, NEW prompt \in BOOLEAN, EditPrompt(d, prompt)
        PROVE  \A e \in Draft : Held(draft'[e])
    <2>1. PICK s : draft' = [draft EXCEPT ![d] = [draft[d] EXCEPT !.prompt = prompt,
                                                                 !.status = s]]
      BY <1>7 DEF EditPrompt
    <2>2. ASSUME NEW e \in Draft
          PROVE  \A k : Held([draft[e] EXCEPT !.prompt = prompt, !.status = k])
      BY RowsHeld
    <2> QED
      BY <2>1, <2>2
  <1>8. ASSUME UNCHANGED draft PROVE \A e \in Draft : Held(draft'[e])
    BY <1>8
  <1> QED
    BY <1>1, <1>2, <1>3, <1>4, <1>5, <1>6, <1>7, <1>8 DEF Handler, CancelBatch, ReworkTask

LEMMA NextHeld ==
    ASSUME "cancel" \notin Requests
    PROVE  TypeInv /\ HeldInv /\ [Next]_vars => HeldInv'
  <1> SUFFICES ASSUME TypeInv, HeldInv, [Next]_vars PROVE HeldInv'
    OBVIOUS
  <1>1. \A b \in Batch : batch'[b] # "CANCELLED"
    <2>1. ASSUME NEW p \in App, Monitor(p)
          PROVE  UNCHANGED batch \/ RefreshCommits(p)
      BY <2>1 DEF Monitor, GenerateClaims, GenerateNothing, GenerateEnds, GenerateFails,
                  PromoteLists, PromoteClaims, PromoteRechecks, PromoteReads, PromoteInserts,
                  PromoteMarks, RefreshReads
    <2>2. ASSUME NEW p \in App, RefreshCommits(p), NEW b \in Batch
          PROVE  batch'[b] \in {batch[b], "COMPLETE"}
      BY <2>2 DEF RefreshCommits
    <2>3. ASSUME Handler, NEW c \in Batch PROVE batch'[c] \in {batch[c], "INCOMPLETE", "COMPLETE"}
      <3>1. ASSUME NEW b \in Batch,
                   \/ CreateBatch(b) \/ ViewBatch(b)
                   \/ \E picked \in SUBSET Draft : RetryBatch(b, picked)
            PROVE  batch'[c] \in {batch[c], "INCOMPLETE", "COMPLETE"}
        BY <3>1 DEF CreateBatch, NewDraft, ViewBatch, RetryBatch, TypeInv
      <3>2. \/ UNCHANGED batch
            \/ \E b \in Batch : \/ CreateBatch(b) \/ ViewBatch(b)
                                \/ \E picked \in SUBSET Draft : RetryBatch(b, picked)
        BY <2>3 DEF Handler, CancelBatch, RetryDraft, RepairDraft, EditPrompt, ReworkTask,
                    ListDrafts
      <3> QED
        BY <3>1, <3>2
    <2>4. UNCHANGED batch \/ Handler \/ \E p \in App : RefreshCommits(p)
      BY <2>1 DEF Next, vars, Crash, Queue, TaskClaimed, TaskAccepted, TaskReleased, TaskEnds,
                  TaskSteps, Time, ClaimAges, GenerationAges, DeferralEnds
    <2> QED
      BY <2>2, <2>3, <2>4 DEF HeldInv
  <1>2. \A d \in Draft : Held(draft'[d])
    <2>1. ASSUME Time PROVE \A d \in Draft : Held(draft'[d])
      <3>1. PICK d \in Draft : ClaimAges(d) \/ GenerationAges(d) \/ DeferralEnds(d)
        BY <2>1 DEF Time
      <3>2. draft' \in { [draft EXCEPT ![d] = [draft[d] EXCEPT !.stale = TRUE]],
                         [draft EXCEPT ![d] = [draft[d] EXCEPT !.old = TRUE]],
                         [draft EXCEPT ![d] = [draft[d] EXCEPT !.deferred = FALSE]] }
        BY <3>1 DEF ClaimAges, GenerationAges, DeferralEnds
      <3>3. draft[d] \in Drafts /\ Held(draft[d])
        BY DEF TypeInv, HeldInv
      <3>4. /\ Held([draft[d] EXCEPT !.stale = TRUE])
            /\ Held([draft[d] EXCEPT !.old = TRUE])
            /\ Held([draft[d] EXCEPT !.deferred = FALSE])
        BY <3>3, RowsHeld
      <3> QED
        BY <3>2, <3>4 DEF TypeInv, HeldInv
    <2>2. ASSUME UNCHANGED draft PROVE \A d \in Draft : Held(draft'[d])
      BY <2>2 DEF HeldInv
    <2>3. Queue => UNCHANGED draft
      BY DEF Queue, TaskClaimed, TaskAccepted, TaskReleased, TaskEnds, TaskSteps
    <2> QED
      BY <2>1, <2>2, <2>3, MonitorHeld, HandlerHeld DEF Next, Crash, vars
  <1> QED
    BY <1>1, <1>2 DEF HeldInv

(* As long as nobody cancels a batch, every ready draft of an open batch   *)
(* that has no task can be promoted, now or when a claim or a deferral has *)
(* run out: no crash, lost claim, edit, retry or repair takes it out of    *)
(* the promotion's reach.                                                  *)
THEOREM PromotableInvariant ==
    ASSUME "cancel" \notin Requests PROVE Spec => []Promotable
  <1>1. Init => HeldInv
    BY DEF Init, HeldInv, Held, NoRow
  <1>2. TypeInv /\ HeldInv /\ [Next]_vars => HeldInv'
    BY NextHeld
  <1>3. TypeInv /\ HeldInv => Promotable
    BY DEF TypeInv, HeldInv, Held, Promotable, Drafts
  <1> QED
    BY <1>1, <1>2, <1>3, TypesInvariant, PTL DEF Spec

-----------------------------------------------------------------------------
(* Many processes.  What keeps them from promoting one draft twice is the  *)
(* claim: as long as nobody frees a claim under its holder, the holder is  *)
(* alone between its look for a task and the insertion of one.  Users may  *)
(* edit prompts, or cancel batches, or retry and repair what failed.       *)
Steady == Requests \subseteq {"cancel", "rework", "view"}

Careful == /\ "slow" \notin Faults
           /\ \/ Steady
              \/ Requests \subseteq {"edit", "rework", "view"}
              \/ Requests \subseteq {"retry", "repair", "rework", "view"}

(* A claim that stands: nobody else may take the draft. *)
HeldBy(r, p) == /\ r.by = p /\ ~r.stale
                /\ r.status \notin {"none", "PENDING"}
                /\ "edit" \notin Requests => r.promo = "DISPATCHING" /\ Prompted(r)

Inserts(p, d) == mon[p].pc = "insert" /\ mon[p].draft = d
Works(p, d)   == d \in mon[p].own \/ Inserts(p, d)

Proper(d) ==
    /\ Single(task[d])
    /\ \A p \in App : /\ Works(p, d) => HasTask(task[d]) \/ HeldBy(draft[d], p)
                      /\ Inserts(p, d) => ~HasTask(task[d])

(* A cancelled batch that no process is about to call complete. *)
Loose(d) == /\ batch[BatchOf[d]] = "CANCELLED"
            /\ \A p \in App : BatchOf[d] \notin mon[p].seen

(* A draft is created once; a claim on a draft a monitor has yet to do is *)
(* fresh, if the monitor still has it.                                     *)
Creating == {"insert", "created", "failed"}
Shape(m) == /\ m.own # {} => m.pc \in Creating \cup {"create"}
            /\ m.pc \in Creating => m.draft \notin m.own
MonShape ==
    \A p \in App :
        /\ Shape(mon[p])
        /\ mon[p].pc # "claim" =>
              \A d \in mon[p].todo : draft[d].by = p => ~draft[d].stale

FreshBatches == \A d \in Draft : batch[BatchOf[d]] = "none" => draft[d].status = "none"

(* A draft whose prompt is being written, by one process if nobody edits.  *)
Generates(p, d) == mon[p].pc = "generating" /\ mon[p].draft = d
Written(r) == /\ r.status \notin {"none", "PENDING"}
              /\ "edit" \notin Requests => r.status = "GENERATING" /\ ~r.old
GenerateRows ==
    \A p \in App, d \in Draft : Generates(p, d) =>
        /\ Written(draft[d])
        /\ "edit" \notin Requests => \A q \in App : Generates(q, d) => q = p

(* What a process found settled has no draft left to promote. *)
Handled(r, ts) == r.status \in TERMINAL_DRAFT_STATES /\ (Prompted(r) => HasTask(ts))
SeenHandled ==
    Steady => \A p \in App, d \in Draft : BatchOf[d] \in mon[p].seen => Handled(draft[d], task[d])

ClaimInv == /\ \A d \in Draft : PostedTask(task[d]) /\ (Loose(d) \/ Proper(d))
            /\ MonShape /\ FreshBatches /\ GenerateRows /\ SeenHandled

-----------------------------------------------------------------------------
(* What happens to the row of a draft.  A tame change takes no claim from  *)
(* its holder before there is a task, leaves a prompt in writing, does not *)
(* make a claim older, and keeps a row handled.                            *)
Tame(r, s, ts) ==
    /\ \A q \in App : HeldBy(r, q) => HasTask(ts) \/ HeldBy(s, q)
    /\ Written(r) => Written(s)
    /\ s.stale => r.stale /\ s.by = r.by
    /\ Steady /\ Handled(r, ts) => Handled(s, ts)
    /\ r.status = "none" => s.status = "none"

(* The same of one draft in one step, but only for the processes that work *)
(* on it.                                                                  *)
RowHeld(d) ==
    \A q \in App : Works(q, d) /\ HeldBy(draft[d], q) => HasTask(task[d]) \/ HeldBy(draft'[d], q)
RowRest(d) ==
    /\ \A q \in App : Generates(q, d)' /\ Written(draft[d]) => Written(draft'[d])
    /\ draft'[d].stale => \/ draft[d].stale /\ draft'[d].by = draft[d].by
                          \/ ~WorksOn(draft'[d].by, d)
    /\ Steady /\ Handled(draft[d], task[d]) => Handled(draft'[d], task[d])
    /\ draft[d].status = "none" => \/ draft'[d].status = "none"
                                   \/ batch'[BatchOf[d]] # "none"

LEMMA TameRow ==
    ASSUME NEW d \in Draft, Tame(draft[d], draft'[d], task[d])
    PROVE  RowHeld(d) /\ RowRest(d)
  BY DEF Tame, RowHeld, RowRest

LEMMA TameSelf == ASSUME NEW r, NEW ts PROVE Tame(r, r, ts)
  BY DEF Tame

LEMMA TameReleased ==
    ASSUME NEW r \in Drafts, NEW ts, NEW promo, HasTask(ts), r.status \in {"READY", "FAILED"}
    PROVE  /\ Tame(r, Released(r, promo), ts)
           /\ r.status = "FAILED" => Tame(r, [Released(r, promo) EXCEPT !.prompt = FALSE], ts)
  BY DEF Tame, Released, Drafts, Written, Handled, Prompted, TERMINAL_DRAFT_STATES

LEMMA TameOps ==
    ASSUME NEW r \in Drafts, NEW ts
    PROVE  /\ Tame(r, Finalized(r), ts)
           /\ Tame(r, InvalidDraft(r, ts), ts)
           /\ Tame(r, Reconciled(r, ts), ts)
  <1>1. Tame(r, Finalized(r), ts)
    BY DEF Tame, Finalized, Drafts, Written, HeldBy, Handled, Prompted, TERMINAL_DRAFT_STATES
  <1>2. Tame(r, InvalidDraft(r, ts), ts)
    <2>1. CASE Invalid(r, ts)
      <3>1. r.status = "FAILED" /\ HasTask(ts)
        BY <2>1 DEF Invalid, HasTask, PRE_RUNPOD_SUBMISSION_STATES
      <3> QED
        BY <2>1, <3>1, TameReleased DEF InvalidDraft
    <2>2. CASE ~Invalid(r, ts)
      BY <2>2, TameSelf DEF InvalidDraft
    <2> QED
      BY <2>1, <2>2
  <1>3. Tame(r, Reconciled(r, ts), ts)
    <2>1. CASE Prompted(r) /\ r.promo # "TASK_CREATED" /\ HasTask(ts)
      BY <2>1, TameReleased DEF Reconciled, Prompted
    <2>2. CASE ~(Prompted(r) /\ r.promo # "TASK_CREATED" /\ HasTask(ts))
      BY <2>2, TameSelf DEF Reconciled
    <2> QED
      BY <2>1, <2>2
  <1> QED
    BY <1>1, <1>2, <1>3

(* A row that waits for its prompt is nobody's.                            *)
LEMMA TamePending ==
    ASSUME NEW r, NEW s, NEW ts, r.status = "PENDING", ~s.stale
    PROVE  Tame(r, s, ts)
  BY DEF Tame, HeldBy, Written, Handled, TERMINAL_DRAFT_STATES

(* So is a failed one, for those who retry and repair.                     *)
LEMMA TameFailed ==
    ASSUME NEW r \in Drafts, NEW s, NEW ts, "edit" \notin Requests, ~Steady, ~s.stale,
           r.status = "FAILED" \/ (r.status = "READY" /\ r.promo = "FAILED")
    PROVE  Tame(r, s, ts)
  BY DEF Tame, HeldBy, Written, Prompted, Drafts

LEMMA TameEdit ==
    ASSUME NEW r \in Drafts, NEW ts, NEW k, "edit" \in Requests,
           NEW s \in {"READY", r.status}, r.status # "none"
    PROVE  Tame(r, [r EXCEPT !.prompt = k, !.status = s], ts)
  BY DEF Tame, HeldBy, Written, Drafts, Steady

LEMMA TameDeferral == ASSUME NEW r \in Drafts, NEW ts, NEW k
                      PROVE Tame(r, [r EXCEPT !.deferred = k], ts)
  BY DEF Tame, HeldBy, Written, Drafts, Handled, Prompted

-----------------------------------------------------------------------------
(* What happens to the monitors.  A step that takes up no draft leaves the *)
(* invariant to the rows.                                                  *)
Narrow(m, n)     == /\ n.own \subseteq m.own
                    /\ n.pc = "insert" => m.pc = "insert" /\ n.draft = m.draft
Listed(m, n)     == \/ n.pc = "claim" \/ n.todo = {}
                    \/ m.pc # "claim" /\ n.todo \subseteq m.todo
GenNarrow(m, n)  == n.pc = "generating" => m.pc = "generating" /\ n.draft = m.draft
SeenNarrow(m, n) == n.seen \subseteq m.seen

Narrows     == \A q \in App : Narrow(mon[q], mon'[q])
Shapes      == \A q \in App : Shape(mon'[q]) /\ Listed(mon[q], mon'[q])
GenNarrows  == \A q \in App : GenNarrow(mon[q], mon'[q])
SeenNarrows == \A q \in App : SeenNarrow(mon[q], mon'[q])

LEMMA ProperKept ==
    ASSUME NEW d \in Draft, Proper(d), PostedTask(task[d]), Same(task[d], task'[d]),
           RowHeld(d), Narrows
    PROVE  Proper(d)'
  <1>1. Single(task'[d]) /\ (HasTask(task'[d]) <=> HasTask(task[d]))
    BY SameKeeps DEF Proper
  <1>2. ASSUME NEW q \in App
        PROVE  /\ Works(q, d)' => Works(q, d)
               /\ Inserts(q, d)' => Inserts(q, d)
    BY DEF Narrows, Narrow, Works, Inserts
  <1> QED
    BY <1>1, <1>2 DEF Proper, RowHeld

LEMMA LooseKept ==
    ASSUME NEW d \in Draft, Loose(d), batch'[BatchOf[d]] = "CANCELLED", SeenNarrows
    PROVE  Loose(d)'
  BY DEF Loose, SeenNarrows, SeenNarrow

LEMMA ShapeKept ==
    ASSUME MonShape, \A d \in Draft : RowRest(d), Shapes, mon \in [App -> Monitors]
    PROVE  MonShape'
  <1> SUFFICES ASSUME NEW q \in App, mon'[q].pc # "claim", NEW d \in mon'[q].todo,
                      draft'[d].by = q, draft'[d].stale
               PROVE  FALSE
    BY DEF MonShape, Shapes
  <1>1. mon[q].pc # "claim" /\ d \in mon[q].todo
    BY DEF Shapes, Listed
  <1>2. d \in Draft
    BY <1>1 DEF Monitors
  <1>3. WorksOn(q, d)
    BY <1>1 DEF WorksOn
  <1>4. draft[d].stale /\ draft[d].by = q
    BY <1>2, <1>3 DEF RowRest
  <1> QED
    BY <1>1, <1>4 DEF MonShape

LEMMA GenerateKept ==
    ASSUME GenerateRows, \A d \in Draft : RowRest(d), GenNarrows
    PROVE  GenerateRows'
  <1>1. ASSUME NEW q \in App, NEW d \in Draft
        PROVE  Generates(q, d)' => Generates(q, d)
    BY DEF GenNarrows, GenNarrow, Generates
  <1>2. ASSUME NEW q \in App, NEW d \in Draft, Generates(q, d)'
        PROVE  Written(draft'[d])
    BY <1>1, <1>2 DEF GenerateRows, RowRest
  <1> QED
    BY <1>1, <1>2 DEF GenerateRows

LEMMA SeenKept ==
    ASSUME SeenHandled, \A d \in Draft : RowRest(d), SameTasks, SeenNarrows
    PROVE  SeenHandled'
  <1>1. ASSUME Steady, NEW q \in App, NEW d \in Draft, BatchOf[d] \in mon'[q].seen
        PROVE  Handled(draft'[d], task'[d])
    <2>1. Handled(draft[d], task[d])
      BY <1>1 DEF SeenHandled, SeenNarrows, SeenNarrow
    <2>2. HasTask(task'[d]) <=> HasTask(task[d])
      BY SameKeeps DEF SameTasks
    <2>3. Handled(draft'[d], task[d])
      BY <1>1, <2>1 DEF RowRest
    <2> QED
      BY <2>2, <2>3 DEF Handled
  <1> QED
    BY <1>1 DEF SeenHandled

LEMMA FreshKept ==
    ASSUME FreshBatches, \A d \in Draft : RowRest(d),
           \A b \in Batch : batch'[b] = "none" => batch[b] = "none"
    PROVE  FreshBatches'
  BY BatchOfAssumption DEF FreshBatches, RowRest

(* A cancelled batch stays cancelled, or is called complete by a process   *)
(* that has seen it settled.                                               *)
BatchStep == \A b \in Batch :
    /\ batch'[b] = "none" => batch[b] = "none"
    /\ batch[b] = "CANCELLED" =>
          batch'[b] = "CANCELLED" \/ \E p \in App : b \in mon[p].seen
    /\ batch'[b] = "CANCELLED" => batch[b] = "CANCELLED"

LEMMA LooseOrProper ==
    ASSUME ClaimInv, SameTasks, NEW d \in Draft, RowHeld(d), Narrows, SeenNarrows,
           BatchStep
    PROVE  PostedTask(task'[d]) /\ (Loose(d)' \/ Proper(d)')
  <1>1. PostedTask(task'[d])
    BY SameKeeps DEF ClaimInv, SameTasks, Same
  <1>2. CASE Loose(d)
    BY <1>1, <1>2, LooseKept, BatchOfAssumption DEF BatchStep, Loose
  <1>3. CASE Proper(d)
    BY <1>1, <1>3, ProperKept DEF ClaimInv, SameTasks
  <1> QED
    BY <1>1, <1>2, <1>3 DEF ClaimInv

LEMMA CalmStep ==
    ASSUME TypeInv, ClaimInv, SameTasks, BatchStep, \A d \in Draft : RowHeld(d) /\ RowRest(d),
           Narrows, Shapes, GenNarrows, SeenNarrows
    PROVE  ClaimInv'
  <1>1. \A d \in Draft : PostedTask(task'[d]) /\ (Loose(d)' \/ Proper(d)')
    BY LooseOrProper
  <1>2. MonShape' /\ GenerateRows' /\ SeenHandled' /\ FreshBatches'
    BY ShapeKept, GenerateKept, SeenKept, FreshKept DEF ClaimInv, BatchStep, TypeInv, MonOK
  <1> QED
    BY <1>1, <1>2 DEF ClaimInv

LEMMA NarrowSelf == ASSUME NEW m
                    PROVE Narrow(m, m) /\ Listed(m, m) /\ GenNarrow(m, m) /\ SeenNarrow(m, m)
  BY DEF Narrow, Listed, GenNarrow, SeenNarrow

LEMMA Moves ==
    ASSUME TypeInv, MonShape, NEW p \in App, NEW m, mon' = [mon EXCEPT ![p] = m]
    PROVE  /\ mon'[p] = m
           /\ Narrow(mon[p], m) => Narrows
           /\ Shape(m) /\ Listed(mon[p], m) => Shapes
           /\ GenNarrow(mon[p], m) => GenNarrows
           /\ SeenNarrow(mon[p], m) => SeenNarrows
  <1>1. mon'[p] = m /\ \A q \in App : q # p => mon'[q] = mon[q]
    BY DEF TypeInv, MonOK
  <1> QED
    BY <1>1, NarrowSelf DEF Narrows, Shapes, GenNarrows, SeenNarrows, MonShape

LEMMA NoMoves ==
    ASSUME MonShape, UNCHANGED mon PROVE Narrows /\ Shapes /\ GenNarrows /\ SeenNarrows
  BY NarrowSelf DEF Narrows, Shapes, GenNarrows, SeenNarrows, MonShape

LEMMA SameBatches == ASSUME UNCHANGED batch PROVE BatchStep
  BY DEF BatchStep

LEMMA RestartMoves ==
    ASSUME TypeInv, MonShape, NEW p \in App, mon' = [mon EXCEPT ![p] = Started]
    PROVE  Narrows /\ Shapes /\ GenNarrows /\ SeenNarrows
  <1>1. /\ Narrow(mon[p], Started) /\ GenNarrow(mon[p], Started)
        /\ SeenNarrow(mon[p], Started) /\ Shape(Started) /\ Listed(mon[p], Started)
    BY DEF Started, Narrow, GenNarrow, SeenNarrow, Shape, Listed, Creating
  <1> QED
    BY <1>1, Moves

-----------------------------------------------------------------------------
(* The prompts.                                                            *)
LEMMA FinalizeTame ==
    ASSUME TypeInv, NEW d \in Draft PROVE Tame(draft[d], Finalize[d], task[d])
  BY TameOps DEF TypeInv, Finalize

(* A monitor that writes or has written a prompt has no drafts to create.  *)
LEMMA ToPromote ==
    ASSUME TypeInv, MonShape, NEW p \in App, mon[p].pc \in {"generate", "generating"}, NEW d,
           mon' = [mon EXCEPT ![p] = [mon[p] EXCEPT !.pc = "promote", !.draft = d]]
    PROVE  Narrows /\ Shapes /\ GenNarrows /\ SeenNarrows
  <1> DEFINE m == [mon[p] EXCEPT !.pc = "promote", !.draft = d]
  <1>1. mon[p] \in Monitors
    BY DEF TypeInv, MonOK
  <1>2. m.pc = "promote" /\ m.todo = mon[p].todo /\ m.own = mon[p].own /\ m.seen = mon[p].seen
    BY <1>1 DEF Monitors
  <1>3. mon[p].own = {}
    BY DEF MonShape, Shape, Creating
  <1> HIDE DEF m
  <1>4. /\ Narrow(mon[p], m) /\ Shape(m) /\ Listed(mon[p], m)
        /\ GenNarrow(mon[p], m) /\ SeenNarrow(mon[p], m)
    BY <1>2, <1>3 DEF Narrow, Shape, Listed, GenNarrow, SeenNarrow, Creating
  <1>5. mon' = [mon EXCEPT ![p] = m]
    BY DEF m
  <1> QED
    BY <1>4, <1>5, Moves

LEMMA GenerateNothingKeeps ==
    ASSUME TypeInv, ClaimInv, NEW p \in App, GenerateNothing(p) PROVE ClaimInv'
  <1>1. \A d \in Draft : RowHeld(d) /\ RowRest(d)
    BY FinalizeTame, TameRow DEF GenerateNothing
  <1>2. mon' = [mon EXCEPT ![p] = [mon[p] EXCEPT !.pc = "promote", !.draft = mon[p].draft]]
    <2>1. mon[p] \in Monitors
      BY DEF TypeInv, MonOK
    <2>2. mon' = [mon EXCEPT ![p] = [mon[p] EXCEPT !.pc = "promote"]]
      BY DEF GenerateNothing
    <2> QED
      <3>1. [mon[p] EXCEPT !.pc = "promote"]
               = [mon[p] EXCEPT !.pc = "promote", !.draft = mon[p].draft]
        BY <2>1 DEF Monitors
      <3> QED
        BY <2>2, <3>1
  <1>3. Narrows /\ Shapes /\ GenNarrows /\ SeenNarrows
    BY <1>2, ToPromote DEF GenerateNothing, ClaimInv
  <1> QED
    BY <1>1, <1>3, CalmStep, SameBatches, UnchangedSame DEF GenerateNothing

LEMMA GenerateClaimsKeeps ==
    ASSUME TypeInv, ClaimInv, NEW p \in App, NEW d \in Draft, GenerateClaims(p, d)
    PROVE  ClaimInv'
  <1>1. Finalize \in [Draft -> Drafts] /\ draft[d] \in Drafts /\ mon[p] \in Monitors
    BY RowTypes DEF Finalize, TypeInv, MonOK
  <1>2. draft[d].status = "PENDING" /\ Finalize[d] = draft[d]
    BY <1>1 DEF GenerateClaims, Finalize, Finalized, Drafts
  <1>3. CASE batch[BatchOf[d]] = "CANCELLED"
    <2> DEFINE s == [Released(draft[d], "CANCELLED") EXCEPT !.status = "CANCELLED"]
    <2>1. draft' = [Finalize EXCEPT ![d] = s]
      BY <1>2, <1>3 DEF GenerateClaims
    <2>2. Tame(draft[d], s, task[d])
      <3>1. ~s.stale
        BY <1>1 DEF Released, Drafts
      <3> QED
        BY <1>2, <3>1, TamePending
    <2> HIDE DEF s
    <2>3. \A e \in Draft : RowHeld(e) /\ RowRest(e)
      BY <1>1, <2>1, <2>2, FinalizeTame, TameRow
    <2>4. mon' = [mon EXCEPT ![p] = [mon[p] EXCEPT !.pc = "promote", !.draft = mon[p].draft]]
      <3>1. mon' = [mon EXCEPT ![p] = [mon[p] EXCEPT !.pc = "promote"]]
        BY <1>3 DEF GenerateClaims
      <3>2. [mon[p] EXCEPT !.pc = "promote"]
               = [mon[p] EXCEPT !.pc = "promote", !.draft = mon[p].draft]
        BY <1>1 DEF Monitors
      <3> QED
        BY <3>1, <3>2
    <2>5. Narrows /\ Shapes /\ GenNarrows /\ SeenNarrows
      BY <2>4, ToPromote DEF GenerateClaims, ClaimInv
    <2> QED
      BY <2>3, <2>5, CalmStep, SameBatches, UnchangedSame DEF GenerateClaims
  <1>4. CASE batch[BatchOf[d]] # "CANCELLED"
    <2> DEFINE s == [draft[d] EXCEPT !.status = "GENERATING", !.old = FALSE]
               m == [mon[p] EXCEPT !.pc = "generating", !.draft = d]
    <2>1. draft' = [Finalize EXCEPT ![d] = s] /\ mon' = [mon EXCEPT ![p] = m]
      <3>1. draft' = [Finalize EXCEPT ![d] = [Finalize[d] EXCEPT !.status = "GENERATING",
                                                                !.old = FALSE]]
        BY <1>4 DEF GenerateClaims
      <3>2. mon' = [mon EXCEPT ![p] = m]
        BY <1>4 DEF GenerateClaims
      <3> QED
        BY <1>2, <3>1, <3>2
    <2>2. /\ s.status = "GENERATING" /\ ~s.old /\ s.by = draft[d].by /\ s.stale = draft[d].stale
      BY <1>1 DEF Drafts
    <2>3. m.pc = "generating" /\ m.draft = d /\ m.todo = mon[p].todo /\ m.own = mon[p].own
          /\ m.seen = mon[p].seen
      BY <1>1 DEF Monitors
    <2> HIDE DEF s, m
    <2>4. RowHeld(d) /\ RowRest(d)
      BY <1>1, <1>2, <2>1, <2>2 DEF RowHeld, RowRest, HeldBy, Written, Handled, Prompted,
                                    TERMINAL_DRAFT_STATES
    <2>5. \A e \in Draft : RowHeld(e) /\ RowRest(e)
      BY <1>1, <2>1, <2>4, FinalizeTame, TameRow
    <2>6. mon[p].own = {} /\ mon[p].pc = "generate"
      BY DEF GenerateClaims, ClaimInv, MonShape, Shape, Creating
    <2>7. Narrows /\ Shapes /\ SeenNarrows
      <3>1. /\ Narrow(mon[p], m) /\ Shape(m) /\ Listed(mon[p], m) /\ SeenNarrow(mon[p], m)
        BY <2>3, <2>6 DEF Narrow, Shape, Listed, SeenNarrow, Creating
      <3> QED
        BY <2>1, <3>1, Moves DEF ClaimInv
    <2>8. \A e \in Draft : PostedTask(task'[e]) /\ (Loose(e)' \/ Proper(e)')
      BY <2>5, <2>7, LooseOrProper, SameBatches, UnchangedSame DEF GenerateClaims
    <2>9. MonShape' /\ SeenHandled' /\ FreshBatches'
      BY <2>5, <2>7, ShapeKept, SeenKept, FreshKept, UnchangedSame
         DEF GenerateClaims, ClaimInv, TypeInv, MonOK
    <2>10. GenerateRows'
      <3>1. ASSUME NEW q \in App, Generates(q, d) PROVE FALSE
        BY <1>2, <3>1 DEF ClaimInv, GenerateRows, Written
      <3>2. ASSUME NEW q \in App, NEW e \in Draft, Generates(q, e)'
            PROVE  (q = p /\ e = d) \/ (Generates(q, e) /\ e # d /\ q # p)
        <4>1. CASE q = p
          BY <2>1, <2>3, <3>2, <4>1, Moves DEF Generates, ClaimInv
        <4>2. CASE q # p
          BY <2>1, <3>1, <3>2, <4>2 DEF Generates, TypeInv, MonOK
        <4> QED
          BY <4>1, <4>2
      <3>3. Written(draft'[d])
        BY <1>1, <2>1, <2>2 DEF Written
      <3>4. ASSUME NEW q \in App, NEW e \in Draft, Generates(q, e)', e # d
            PROVE  Written(draft'[e])
        BY <2>5, <3>2, <3>4 DEF ClaimInv, GenerateRows, RowRest
      <3> QED
        BY <3>2, <3>3, <3>4 DEF ClaimInv, GenerateRows
    <2> QED
      BY <2>8, <2>9, <2>10 DEF ClaimInv
  <1> QED
    BY <1>3, <1>4

LEMMA GenerateEndsKeeps ==
    ASSUME TypeInv, ClaimInv, NEW p \in App,
           GenerateEnds(p) \/ \E blocking \in BOOLEAN : GenerateFails(p, blocking)
    PROVE  ClaimInv'
  <1>1. PICK d \in Draft :
        /\ d = mon[p].draft /\ Generates(p, d) /\ mon[p].pc = "generating" /\ mon[p] \in Monitors
        /\ \A e \in Draft : draft[e] \in Drafts
    BY DEF GenerateEnds, GenerateFails, Generates, TypeInv, MonOK, AtDraft
  <1>2. Written(draft[d])
    BY <1>1 DEF ClaimInv, GenerateRows
  <1>3. mon' = [mon EXCEPT ![p] = [mon[p] EXCEPT !.pc = "promote", !.draft = NoDraft]]
    BY DEF GenerateEnds, GenerateFails
  <1>4. Narrows /\ Shapes /\ GenNarrows /\ SeenNarrows
    BY <1>1, <1>3, ToPromote DEF ClaimInv
  <1>5. draft'[d].status \in {"READY", "FAILED"} /\ draft'[d].by = draft[d].by
        /\ draft'[d].stale = draft[d].stale
    <2>1. CASE GenerateEnds(p)
      <3>1. PICK k \in {draft[d].prompt, TRUE}, s \in {"READY", "FAILED"} :
              draft' = [draft EXCEPT ![d] = [draft[d] EXCEPT !.status = s, !.prompt = k,
                                                             !.old = FALSE]]
        <4>1. \/ draft' = [draft EXCEPT ![d] = [draft[d] EXCEPT !.status = "READY",
                                                !.prompt = TRUE, !.old = FALSE]]
              \/ draft' = [draft EXCEPT ![d] = [draft[d] EXCEPT !.status = "FAILED",
                                                !.old = FALSE]]
          BY <1>1, <2>1 DEF GenerateEnds
        <4>2. [draft[d] EXCEPT !.status = "FAILED", !.old = FALSE]
                 = [draft[d] EXCEPT !.status = "FAILED", !.prompt = draft[d].prompt,
                                    !.old = FALSE]
          BY <1>1 DEF Drafts
        <4> QED
          BY <4>1, <4>2
      <3> QED
        BY <1>1, <3>1 DEF TypeInv, Drafts
    <2>2. ASSUME NEW k \in BOOLEAN, GenerateFails(p, k)
          PROVE  draft'[d] = [draft[d] EXCEPT !.status = "FAILED", !.promo = "FAILED",
                                              !.old = FALSE]
      BY <1>1, <2>2 DEF GenerateFails
    <2> QED
      BY <1>1, <2>1, <2>2 DEF Drafts
  <1>6. RowHeld(d) /\ RowRest(d)
    <2>1. \A q \in App : ~Generates(q, d)' \/ "edit" \in Requests
      <3>1. ASSUME NEW q \in App, Generates(q, d)', "edit" \notin Requests PROVE FALSE
        <4>1. Generates(q, d)
          BY <1>4, <3>1 DEF GenNarrows, GenNarrow, Generates
        <4>2. q = p
          BY <1>1, <3>1, <4>1 DEF ClaimInv, GenerateRows
        <4>3. mon'[p].pc = "promote"
          <5>1. mon'[p] = [mon[p] EXCEPT !.pc = "promote", !.draft = NoDraft]
            BY <1>3 DEF TypeInv, MonOK
          <5> QED
            BY <1>1, <5>1 DEF Monitors
        <4> QED
          BY <3>1, <4>2, <4>3 DEF Generates
      <3> QED
        BY <3>1
    <2>2. "edit" \notin Requests => draft[d].status = "GENERATING"
      BY <1>2 DEF Written
    <2>3. draft[d].status \notin {"none", "PENDING"}
      BY <1>2 DEF Written
    <2>4. Steady => "edit" \notin Requests
      BY DEF Steady
    <2> QED
      BY <1>5, <2>1, <2>2, <2>3, <2>4
         DEF RowHeld, RowRest, HeldBy, Written, Handled, Prompted, TERMINAL_DRAFT_STATES
  <1>7. ASSUME NEW e \in Draft, e # d PROVE Tame(draft[e], draft'[e], task[e])
    <2>1. \/ draft'[e] = draft[e]
          \/ /\ draft[e].status = "PENDING"
             /\ draft'[e] = [Released(draft[e], "FAILED") EXCEPT !.status = "FAILED",
                                                                 !.prompt = FALSE]
      BY <1>1, <1>7 DEF GenerateEnds, GenerateFails, TypeInv
    <2>2. ~[Released(draft[e], "FAILED") EXCEPT !.status = "FAILED", !.prompt = FALSE].stale
      BY <1>1 DEF Released, Drafts
    <2> QED
      BY <2>1, <2>2, TameSelf, TamePending
  <1>8. \A e \in Draft : RowHeld(e) /\ RowRest(e)
    BY <1>6, <1>7, TameRow
  <1>9. SameTasks
    BY MonitorSame DEF Monitor, PromoteInserts, GenerateEnds, GenerateFails
  <1>10. UNCHANGED batch
    BY DEF GenerateEnds, GenerateFails
  <1> QED
    BY <1>4, <1>8, <1>9, <1>10, CalmStep, SameBatches

-----------------------------------------------------------------------------
(* The promotion.                                                          *)
LEMMA PromoteListsKeeps ==
    ASSUME TypeInv, ClaimInv, NEW p \in App, PromoteLists(p) PROVE ClaimInv'
  <1>1. mon[p] \in Monitors /\ mon[p].own = {}
    BY DEF PromoteLists, TypeInv, MonOK, ClaimInv, MonShape, Shape, Creating
  <1>2. PICK todo : mon' = [mon EXCEPT ![p] = [mon[p] EXCEPT !.pc = "claim", !.todo = todo]]
    BY DEF PromoteLists
  <1> DEFINE m == [mon[p] EXCEPT !.pc = "claim", !.todo = todo]
  <1>3. m.pc = "claim" /\ m.own = {} /\ m.seen = mon[p].seen
    BY <1>1 DEF Monitors
  <1>4. mon' = [mon EXCEPT ![p] = m]
    BY <1>2
  <1> HIDE DEF m
  <1>5. /\ Narrow(mon[p], m) /\ Shape(m) /\ Listed(mon[p], m)
        /\ GenNarrow(mon[p], m) /\ SeenNarrow(mon[p], m)
    BY <1>3 DEF Narrow, Shape, Listed, GenNarrow, SeenNarrow, Creating
  <1>6. Narrows /\ Shapes /\ GenNarrows /\ SeenNarrows
    BY <1>4, <1>5, Moves DEF ClaimInv
  <1>7. \A d \in Draft : RowHeld(d) /\ RowRest(d)
    BY TameOps, TameRow DEF PromoteLists, TypeInv
  <1> QED
    BY <1>6, <1>7, CalmStep, SameBatches, UnchangedSame DEF PromoteLists

LEMMA PromoteClaimsKeeps ==
    ASSUME TypeInv, ClaimInv, NEW p \in App, PromoteClaims(p) PROVE ClaimInv'
  <1>1. mon[p] \in Monitors /\ mon[p].own = {} /\ mon[p].pc = "claim"
    BY DEF PromoteClaims, TypeInv, MonOK, ClaimInv, MonShape, Shape, Creating
  <1> DEFINE claims == { d \in mon[p].todo : Unclaimed(draft[d]) }
             pc == IF claims = {} THEN "refresh" ELSE "recheck"
             m  == [mon[p] EXCEPT !.todo = claims, !.pc = pc]
  <1>2. mon' = [mon EXCEPT ![p] = m]
    BY DEF PromoteClaims
  <1>3. \A d \in claims : d \in Draft /\ Unclaimed(draft[d]) /\ draft'[d] = Claimed(draft[d], p)
    BY <1>1 DEF PromoteClaims, Monitors
  <1>4. \A d \in Draft : d \notin claims => draft'[d] = draft[d]
    BY DEF PromoteClaims
  <1>5. m.pc \in {"refresh", "recheck"} /\ m.own = {} /\ m.seen = mon[p].seen /\ m.todo = claims
    BY <1>1 DEF Monitors
  <1> HIDE DEF claims, m
  <1>6. \A d \in claims : Tame(draft[d], draft'[d], task[d]) /\ ~draft'[d].stale
    <2> SUFFICES ASSUME NEW d \in claims
                 PROVE  Tame(draft[d], draft'[d], task[d]) /\ ~draft'[d].stale
      OBVIOUS
    <2>1. draft[d] \in Drafts
      BY <1>3 DEF TypeInv
    <2>2. /\ draft'[d].status = draft[d].status /\ draft'[d].prompt = draft[d].prompt
          /\ ~draft'[d].stale
      BY <1>3, <2>1 DEF Claimed, Released, Drafts
    <2>3. \A q \in App : ~HeldBy(draft[d], q)
      BY <1>3, <2>1, NoneAssumption DEF Unclaimed, HeldBy
    <2>4. draft[d].status = "READY"
      BY <1>3 DEF Unclaimed, Prompted
    <2> QED
      BY <2>2, <2>3, <2>4 DEF Tame, Written, Handled, Prompted
  <1>7. \A d \in Draft : RowHeld(d) /\ RowRest(d)
    BY <1>4, <1>6, TameSelf, TameRow
  <1>8. /\ Narrow(mon[p], m) /\ Shape(m) /\ GenNarrow(mon[p], m) /\ SeenNarrow(mon[p], m)
    BY <1>5 DEF Narrow, Shape, GenNarrow, SeenNarrow, Creating
  <1>9. Narrows /\ GenNarrows /\ SeenNarrows /\ mon'[p] = m
    BY <1>2, <1>8, Moves DEF ClaimInv
  <1>10. MonShape'
    <2>1. ASSUME NEW q \in App, q # p PROVE mon'[q] = mon[q]
      BY <1>2, <2>1 DEF TypeInv, MonOK
    <2>2. \A q \in App : Shape(mon'[q])
      BY <1>8, <1>9, <2>1 DEF ClaimInv, MonShape
    <2>3. ASSUME NEW q \in App, q # p, mon'[q].pc # "claim", NEW d \in mon'[q].todo,
                 draft'[d].by = q, draft'[d].stale
          PROVE  FALSE
      <3>1. d \in Draft /\ WorksOn(q, d) /\ mon[q].pc # "claim" /\ d \in mon[q].todo
        BY <2>1, <2>3 DEF TypeInv, MonOK, Monitors, WorksOn
      <3>2. draft[d].stale /\ draft[d].by = q
        BY <1>7, <2>3, <3>1 DEF RowRest
      <3> QED
        BY <3>1, <3>2 DEF ClaimInv, MonShape
    <2> QED
      BY <1>5, <1>6, <1>9, <2>2, <2>3 DEF MonShape
  <1>11. UNCHANGED <<batch, task>>
    BY DEF PromoteClaims
  <1>12. \A d \in Draft : PostedTask(task'[d]) /\ (Loose(d)' \/ Proper(d)')
    BY <1>7, <1>9, <1>11, LooseOrProper, SameBatches, UnchangedSame
  <1>13. GenerateRows' /\ SeenHandled' /\ FreshBatches'
    BY <1>7, <1>9, <1>11, GenerateKept, SeenKept, FreshKept, UnchangedSame DEF ClaimInv
  <1> QED
    BY <1>10, <1>12, <1>13 DEF ClaimInv

LEMMA PromoteRechecksKeeps ==
    ASSUME TypeInv, ClaimInv, NEW p \in App, NEW b \in Batch, PromoteRechecks(p, b)
    PROVE  ClaimInv'
  <1>1. mon[p] \in Monitors /\ mon[p].own = {} /\ mon[p].pc = "recheck"
    BY DEF PromoteRechecks, TypeInv, MonOK, ClaimInv, MonShape, Shape, Creating
  <1> DEFINE ds == { d \in mon[p].todo : BatchOf[d] = b }
             owned == { d \in ds : /\ draft[d].by = p /\ draft[d].promo = "DISPATCHING"
                                   /\ Prompted(draft[d]) }
             pc == NextPc(mon[p].todo \ ds, owned)
             m  == [mon[p] EXCEPT !.todo = mon[p].todo \ ds, !.own = owned, !.pc = pc]
  <1>2. mon' = [mon EXCEPT ![p] = m]
    BY DEF PromoteRechecks
  <1>3. /\ m.pc \in {"create", "recheck", "refresh"} /\ (owned # {} => m.pc = "create")
        /\ m.own = owned /\ m.seen = mon[p].seen /\ m.todo \subseteq mon[p].todo
    BY <1>1 DEF Monitors, NextPc
  <1>4. \A d \in owned : HeldBy(draft[d], p)
    <2>1. ASSUME NEW d \in owned
          PROVE  /\ draft[d].by = p /\ draft[d].promo = "DISPATCHING" /\ Prompted(draft[d])
                 /\ d \in mon[p].todo
      OBVIOUS
    <2>2. ASSUME NEW d \in owned PROVE ~draft[d].stale
      BY <1>1, <2>1 DEF ClaimInv, MonShape
    <2> QED
      BY <2>1, <2>2 DEF HeldBy, Prompted
  <1> HIDE DEF owned, m
  <1>5. Shape(m) /\ Listed(mon[p], m) /\ GenNarrow(mon[p], m) /\ SeenNarrow(mon[p], m)
    BY <1>1, <1>3 DEF Shape, Listed, GenNarrow, SeenNarrow, Creating
  <1>6. mon'[p] = m /\ Shapes /\ GenNarrows /\ SeenNarrows
    BY <1>2, <1>5, Moves DEF ClaimInv
  <1>7. UNCHANGED <<batch, draft, task>>
    BY DEF PromoteRechecks
  <1>8. \A d \in Draft : RowHeld(d) /\ RowRest(d)
    BY <1>7, TameSelf, TameRow
  <1>9. ASSUME NEW d \in Draft PROVE Loose(d)' \/ Proper(d)'
    <2>1. CASE Loose(d)
      BY <1>6, <1>7, <2>1, LooseKept DEF Loose
    <2>2. CASE Proper(d)
      <3>1. ASSUME NEW q \in App, Works(q, d)'
            PROVE  Works(q, d) \/ HeldBy(draft[d], q)
        <4>1. CASE q = p
          BY <1>3, <1>4, <1>6, <3>1, <4>1 DEF Works, Inserts
        <4>2. CASE q # p
          BY <1>2, <3>1, <4>2 DEF TypeInv, MonOK, Works, Inserts
        <4> QED
          BY <4>1, <4>2
      <3>2. ASSUME NEW q \in App, Inserts(q, d)'
            PROVE  Inserts(q, d)
        <4>1. CASE q = p
          BY <1>3, <1>6, <3>2, <4>1 DEF Inserts
        <4>2. CASE q # p
          BY <1>2, <3>2, <4>2 DEF TypeInv, MonOK, Inserts
        <4> QED
          BY <4>1, <4>2
      <3> QED
        BY <1>7, <2>2, <3>1, <3>2 DEF Proper
    <2> QED
      BY <2>1, <2>2 DEF ClaimInv
  <1>10. MonShape' /\ GenerateRows' /\ SeenHandled' /\ FreshBatches'
    BY <1>6, <1>7, <1>8, ShapeKept, GenerateKept, SeenKept, FreshKept, UnchangedSame
       DEF ClaimInv, TypeInv, MonOK
  <1> QED
    BY <1>7, <1>9, <1>10 DEF ClaimInv

LEMMA PromoteReadsKeeps ==
    ASSUME TypeInv, ClaimInv, NEW p \in App, NEW d \in Draft, PromoteReads(p, d)
    PROVE  ClaimInv'
  <1>1. mon[p] \in Monitors /\ mon[p].pc = "create" /\ d \in mon[p].own
    BY DEF PromoteReads, TypeInv, MonOK
  <1>2. PICK pc \in Creating :
          /\ pc = "insert" => ~HasTask(task[d])
          /\ mon' = [mon EXCEPT ![p] = [mon[p] EXCEPT !.pc = pc, !.draft = d,
                                                      !.own = mon[p].own \ {d}]]
    BY DEF PromoteReads, Creating
  <1> DEFINE m == [mon[p] EXCEPT !.pc = pc, !.draft = d, !.own = mon[p].own \ {d}]
  <1>3. /\ m.pc = pc /\ m.draft = d /\ m.own = mon[p].own \ {d} /\ m.seen = mon[p].seen
        /\ m.todo = mon[p].todo
    BY <1>1 DEF Monitors
  <1>4. mon' = [mon EXCEPT ![p] = m]
    BY <1>2
  <1> HIDE DEF m
  <1>5. Shape(m) /\ Listed(mon[p], m) /\ GenNarrow(mon[p], m) /\ SeenNarrow(mon[p], m)
    BY <1>1, <1>3 DEF Shape, Listed, GenNarrow, SeenNarrow, Creating
  <1>6. mon'[p] = m /\ Shapes /\ GenNarrows /\ SeenNarrows
    BY <1>4, <1>5, Moves DEF ClaimInv
  <1>7. UNCHANGED <<batch, draft, task>>
    BY DEF PromoteReads
  <1>8. \A e \in Draft : RowHeld(e) /\ RowRest(e)
    BY <1>7, TameSelf, TameRow
  <1>9. ASSUME NEW e \in Draft PROVE Loose(e)' \/ Proper(e)'
    <2>1. CASE Loose(e)
      BY <1>6, <1>7, <2>1, LooseKept DEF Loose
    <2>2. CASE Proper(e)
      <3>1. ASSUME NEW q \in App
            PROVE  /\ Works(q, e)' => Works(q, e)
                   /\ Inserts(q, e)' => Inserts(q, e) \/ ~HasTask(task[e])
        <4>1. CASE q = p
          BY <1>1, <1>2, <1>3, <1>6, <4>1 DEF Works, Inserts
        <4>2. CASE q # p
          BY <1>4, <4>2 DEF TypeInv, MonOK, Works, Inserts
        <4> QED
          BY <4>1, <4>2
      <3> QED
        BY <1>7, <2>2, <3>1 DEF Proper
    <2> QED
      BY <2>1, <2>2 DEF ClaimInv
  <1>10. MonShape' /\ GenerateRows' /\ SeenHandled' /\ FreshBatches'
    BY <1>6, <1>7, <1>8, ShapeKept, GenerateKept, SeenKept, FreshKept, UnchangedSame
       DEF ClaimInv, TypeInv, MonOK
  <1> QED
    BY <1>7, <1>9, <1>10 DEF ClaimInv

(* One more task.                                                          *)
LEMMA InsertTask ==
    ASSUME TypeInv, NEW d \in Draft, PostedTask(task[d]), NEW n \in 1..MaxTasks,
           task' = [task EXCEPT ![d][n].status = "PENDING_SUBMIT"]
    PROVE  /\ PostedTask(task'[d]) /\ HasTask(task'[d])
           /\ ~HasTask(task[d]) => Single(task'[d])
           /\ \A e \in Draft : e # d => task'[e] = task[e]
           /\ \A m \in 1..MaxTasks : m # n => task'[d][m] = task[d][m]
           /\ task'[d][n] = [task[d][n] EXCEPT !.status = "PENDING_SUBMIT"]
  <1>1. task[d] \in TaskRows /\ task[d][n] \in Tasks
    BY DEF TypeInv, TaskRows
  <1>2. task' = [task EXCEPT ![d] = [task[d] EXCEPT ![n] =
                     [task[d][n] EXCEPT !.status = "PENDING_SUBMIT"]]]
    OBVIOUS
  <1>3. \A m \in 1..MaxTasks : m # n => task'[d][m] = task[d][m]
    BY <1>1, <1>2 DEF TaskRows, TypeInv
  <1>4. task'[d][n] = [task[d][n] EXCEPT !.status = "PENDING_SUBMIT"]
    BY <1>1, <1>2 DEF TaskRows, TypeInv
  <1>5. task'[d][n].status = "PENDING_SUBMIT" /\ task'[d][n].posting = task[d][n].posting
    BY <1>1, <1>4 DEF Tasks
  <1>6. \A e \in Draft : e # d => task'[e] = task[e]
    BY <1>2 DEF TypeInv
  <1>7. PostedTask(task'[d]) /\ HasTask(task'[d])
    BY <1>3, <1>5 DEF PostedTask, HasTask
  <1>8. ~HasTask(task[d]) => Single(task'[d])
    BY <1>3 DEF Single, HasTask
  <1> QED
    BY <1>3, <1>4, <1>6, <1>7, <1>8

LEMMA PromoteInsertsKeeps ==
    ASSUME TypeInv, ClaimInv, NEW p \in App, PromoteInserts(p) PROVE ClaimInv'
  <1>1. PICK d \in Draft : d = mon[p].draft /\ Inserts(p, d) /\ d \notin mon[p].own
    BY DEF PromoteInserts, TypeInv, MonOK, AtDraft, Inserts, ClaimInv, MonShape, Shape, Creating
  <1>2. mon[p] \in Monitors /\ mon[p].pc = "insert"
    BY DEF PromoteInserts, TypeInv, MonOK
  <1> DEFINE m == [mon[p] EXCEPT !.pc = "created"]
  <1>3. /\ m.pc = "created" /\ m.draft = d /\ m.own = mon[p].own /\ m.seen = mon[p].seen
        /\ m.todo = mon[p].todo
    BY <1>1, <1>2 DEF Monitors
  <1>4. mon' = [mon EXCEPT ![p] = m]
    BY DEF PromoteInserts
  <1> HIDE DEF m
  <1>5. /\ Narrow(mon[p], m) /\ Shape(m) /\ Listed(mon[p], m)
        /\ GenNarrow(mon[p], m) /\ SeenNarrow(mon[p], m)
    BY <1>1, <1>2, <1>3 DEF Narrow, Shape, Listed, GenNarrow, SeenNarrow, Creating
  <1>6. mon'[p] = m /\ Narrows /\ Shapes /\ GenNarrows /\ SeenNarrows
    BY <1>4, <1>5, Moves DEF ClaimInv
  <1>7. UNCHANGED <<batch, draft>>
    BY DEF PromoteInserts
  <1>8. \A e \in Draft : RowHeld(e) /\ RowRest(e)
    BY <1>7, TameSelf, TameRow
  <1>9. CASE SameTasks
    BY <1>6, <1>7, <1>8, <1>9, CalmStep, SameBatches
  <1>10. ASSUME NEW n \in 1..MaxTasks, task[d][n].status = "none",
                \A k \in 1..MaxTasks : k < n => task[d][k].status # "none",
                task' = [task EXCEPT ![d][n].status = "PENDING_SUBMIT"]
         PROVE  ClaimInv'
    <2>2. \A e \in Draft : e # d => task'[e] = task[e]
      BY <1>10, InsertTask DEF ClaimInv
    <2>3. PostedTask(task'[d]) /\ HasTask(task'[d])
      BY <1>10, InsertTask DEF ClaimInv
    <2>4. Loose(d)' \/ Proper(d)'
      <3>1. CASE Loose(d)
        BY <1>6, <1>7, <3>1, LooseKept DEF Loose
      <3>2. CASE Proper(d)
        <4>1. ~HasTask(task[d])
          BY <1>1, <3>2 DEF Proper
        <4>2. Single(task'[d])
          BY <1>10, <4>1, InsertTask DEF ClaimInv
        <4>3. ASSUME NEW q \in App, Inserts(q, d)' PROVE FALSE
          <5>1. Inserts(q, d) /\ q # p
            BY <1>3, <1>4, <1>6, <4>3 DEF Inserts, TypeInv, MonOK
          <5>2. HeldBy(draft[d], q) /\ HeldBy(draft[d], p)
            BY <1>1, <3>2, <4>1, <5>1 DEF Proper, Works
          <5> QED
            BY <5>1, <5>2 DEF HeldBy
        <4> QED
          BY <2>3, <4>2, <4>3 DEF Proper
      <3> QED
        BY <3>1, <3>2 DEF ClaimInv
    <2>5. ASSUME NEW e \in Draft, e # d PROVE PostedTask(task'[e]) /\ (Loose(e)' \/ Proper(e)')
      <3>1. task'[e] = task[e] /\ Same(task[e], task'[e])
        BY <2>2, <2>5, SameSelf
      <3>2. CASE Loose(e)
        BY <1>6, <1>7, <3>1, <3>2, LooseKept DEF Loose, ClaimInv
      <3>3. CASE Proper(e)
        BY <1>6, <1>8, <3>1, <3>3, ProperKept DEF ClaimInv
      <3> QED
        BY <3>2, <3>3 DEF ClaimInv
    <2>6. MonShape' /\ GenerateRows' /\ FreshBatches'
      BY <1>6, <1>7, <1>8, ShapeKept, GenerateKept, FreshKept DEF ClaimInv, TypeInv, MonOK
    <2>7. SeenHandled'
      <3>1. ASSUME Steady, NEW q \in App, NEW e \in Draft, BatchOf[e] \in mon'[q].seen
            PROVE  Handled(draft'[e], task'[e])
        <4>1. Handled(draft[e], task[e])
          BY <1>6, <3>1 DEF ClaimInv, SeenHandled, SeenNarrows, SeenNarrow
        <4> QED
          BY <1>7, <2>2, <2>3, <4>1 DEF Handled
      <3> QED
        BY <3>1 DEF SeenHandled
    <2> QED
      BY <2>3, <2>4, <2>5, <2>6, <2>7 DEF ClaimInv
  <1> QED
    BY <1>1, <1>9, <1>10, UnchangedSame DEF PromoteInserts

LEMMA PromoteMarksKeeps ==
    ASSUME TypeInv, ClaimInv, NEW p \in App, PromoteMarks(p) PROVE ClaimInv'
  <1>1. PICK d \in Draft : d = mon[p].draft /\ d \notin mon[p].own
    BY DEF PromoteMarks, TypeInv, MonOK, AtDraft, ClaimInv, MonShape, Shape, Creating
  <1>2. mon[p] \in Monitors /\ mon[p].pc \in {"created", "failed"}
    BY DEF PromoteMarks, TypeInv, MonOK
  <1> DEFINE pc == NextPc(mon[p].todo, mon[p].own)
             m == [mon[p] EXCEPT !.draft = NoDraft, !.pc = pc]
  <1>3. /\ m.pc \in {"create", "recheck", "refresh"} /\ (m.own # {} => m.pc = "create")
        /\ m.own = mon[p].own /\ m.seen = mon[p].seen /\ m.todo = mon[p].todo
    BY <1>2 DEF Monitors, NextPc
  <1>4. mon' = [mon EXCEPT ![p] = m]
    BY DEF PromoteMarks
  <1> HIDE DEF m
  <1>5. /\ Narrow(mon[p], m) /\ Shape(m) /\ Listed(mon[p], m)
        /\ GenNarrow(mon[p], m) /\ SeenNarrow(mon[p], m)
    BY <1>2, <1>3 DEF Narrow, Shape, Listed, GenNarrow, SeenNarrow, Creating
  <1>6. Narrows /\ Shapes /\ GenNarrows /\ SeenNarrows
    BY <1>4, <1>5, Moves DEF ClaimInv
  <1>7. \A e \in Draft : e # d => draft'[e] = draft[e]
    BY <1>1 DEF PromoteMarks, TypeInv
  <1>8. \/ draft'[d] = draft[d]
        \/ draft[d].by = p /\ draft'[d] = Marked(draft[d], mon[p].pc)
    BY <1>1 DEF PromoteMarks, TypeInv
  <1>9. RowHeld(d) /\ RowRest(d)
    <2>1. CASE draft'[d] = draft[d]
      BY <2>1, TameSelf, TameRow
    <2>2. CASE draft[d].by = p /\ draft'[d] = Marked(draft[d], mon[p].pc)
      <3>1. RowHeld(d)
        <4>1. ASSUME NEW q \in App, Works(q, d), HeldBy(draft[d], q) PROVE FALSE
          BY <1>1, <1>2, <2>2, <4>1 DEF HeldBy, Works, Inserts
        <4> QED
          BY <4>1 DEF RowHeld
      <3>2. /\ draft'[d].status = draft[d].status /\ draft'[d].prompt = draft[d].prompt
            /\ draft'[d].old = draft[d].old /\ ~draft'[d].stale
        BY <2>2 DEF Marked, Released, TypeInv, Drafts
      <3>3. RowRest(d)
        BY <3>2 DEF RowRest, Written, Handled, Prompted
      <3> QED
        BY <3>1, <3>3
    <2> QED
      BY <1>8, <2>1, <2>2
  <1>10. \A e \in Draft : RowHeld(e) /\ RowRest(e)
    BY <1>7, <1>9, TameSelf, TameRow
  <1> QED
    BY <1>6, <1>10, CalmStep, SameBatches, UnchangedSame DEF PromoteMarks

-----------------------------------------------------------------------------
(* The refresh.                                                            *)
LEMMA RefreshReadsKeeps ==
    ASSUME TypeInv, ClaimInv, NEW p \in App, RefreshReads(p) PROVE ClaimInv'
  <1> DEFINE seen == { b \in Batch : Open(b) /\ Settled(b, draft', task') }
             m == [mon[p] EXCEPT !.pc = "settle", !.seen = seen]
  <1>1. mon[p] \in Monitors /\ mon[p].own = {} /\ mon[p].pc = "refresh"
    BY DEF RefreshReads, TypeInv, MonOK, ClaimInv, MonShape, Shape, Creating
  <1>2. mon' = [mon EXCEPT ![p] = m]
    BY DEF RefreshReads
  <1>3. m.pc = "settle" /\ m.own = {} /\ m.todo = mon[p].todo /\ m.seen = seen
    BY <1>1 DEF Monitors
  <1>4. \A b \in seen : b \in Batch /\ batch[b] = "INCOMPLETE" /\ Settled(b, draft', task')
    BY DEF Open
  <1> HIDE DEF seen, m
  <1>5. Narrow(mon[p], m) /\ Shape(m) /\ Listed(mon[p], m) /\ GenNarrow(mon[p], m)
    BY <1>1, <1>3 DEF Narrow, Shape, Listed, GenNarrow, Creating
  <1>6. Narrows /\ Shapes /\ GenNarrows /\ mon'[p] = m
    BY <1>2, <1>5, Moves DEF ClaimInv
  <1>7. \A q \in App : q # p => mon'[q] = mon[q]
    BY <1>2 DEF TypeInv, MonOK
  <1>8. SameTasks /\ UNCHANGED batch
    <2>1. ~PromoteInserts(p)
      BY <1>1 DEF PromoteInserts
    <2> QED
      BY <2>1, MonitorSame DEF Monitor, RefreshReads
  <1>9. \A d \in Draft : RowHeld(d) /\ RowRest(d)
    <2>1. ASSUME NEW d \in Draft
          PROVE  draft'[d] \in {draft[d], InvalidDraft(draft[d], task[d])}
      BY DEF RefreshReads
    <2> QED
      BY <2>1, TameSelf, TameOps, TameRow DEF TypeInv
  <1>10. ASSUME NEW d \in Draft PROVE PostedTask(task'[d]) /\ (Loose(d)' \/ Proper(d)')
    <2>1. PostedTask(task'[d])
      BY <1>8, SameKeeps DEF ClaimInv, SameTasks, Same
    <2>2. CASE Loose(d)
      <3>1. BatchOf[d] \notin seen
        BY <1>4, <2>2 DEF Loose
      <3> QED
        BY <1>3, <1>6, <1>7, <1>8, <2>1, <2>2, <3>1 DEF Loose
    <2>3. CASE Proper(d)
      BY <1>6, <1>8, <1>9, <2>1, <2>3, ProperKept DEF ClaimInv, SameTasks
    <2> QED
      BY <2>2, <2>3 DEF ClaimInv
  <1>11. SeenHandled'
    <2>1. ASSUME Steady, NEW q \in App, NEW d \in Draft, BatchOf[d] \in mon'[q].seen
          PROVE  Handled(draft'[d], task'[d])
      <3>1. CASE q = p
        BY <1>3, <1>4, <1>6, <2>1, <3>1 DEF Settled, Handled
      <3>2. CASE q # p
        <4>1. Handled(draft[d], task[d])
          BY <1>7, <2>1, <3>2 DEF ClaimInv, SeenHandled
        <4>2. HasTask(task'[d]) <=> HasTask(task[d])
          BY <1>8, SameKeeps DEF SameTasks
        <4> QED
          BY <1>9, <2>1, <4>1, <4>2 DEF RowRest, Handled
      <3> QED
        BY <3>1, <3>2
    <2> QED
      BY <2>1 DEF SeenHandled
  <1>12. MonShape' /\ GenerateRows' /\ FreshBatches'
    BY <1>6, <1>8, <1>9, ShapeKept, GenerateKept, FreshKept DEF ClaimInv, TypeInv, MonOK
  <1> QED
    BY <1>10, <1>11, <1>12 DEF ClaimInv

LEMMA RestartKeeps ==
    ASSUME TypeInv, ClaimInv, NEW p \in App, RefreshCommits(p) \/ Crash(p) PROVE ClaimInv'
  <1>1. mon' = [mon EXCEPT ![p] = Started] /\ UNCHANGED <<draft, task>>
    BY DEF RefreshCommits, Crash
  <1>2. Narrows /\ Shapes /\ GenNarrows /\ SeenNarrows
    BY <1>1, RestartMoves DEF ClaimInv
  <1>3. BatchStep
    <2>1. ASSUME NEW b \in Batch
          PROVE  batch'[b] = batch[b] \/ (batch'[b] = "COMPLETE" /\ b \in mon[p].seen)
      BY DEF RefreshCommits, Crash
    <2> QED
      BY <2>1 DEF BatchStep
  <1>4. \A d \in Draft : RowHeld(d) /\ RowRest(d)
    BY <1>1, TameSelf, TameRow
  <1> QED
    BY <1>1, <1>2, <1>3, <1>4, CalmStep, UnchangedSame

LEMMA MonitorKeeps ==
    ASSUME TypeInv, ClaimInv, NEW p \in App, Monitor(p) PROVE ClaimInv'
  BY GenerateClaimsKeeps, GenerateNothingKeeps, GenerateEndsKeeps, PromoteListsKeeps,
     PromoteClaimsKeeps, PromoteRechecksKeeps, PromoteReadsKeeps, PromoteInsertsKeeps,
     PromoteMarksKeeps, RefreshReadsKeeps, RestartKeeps DEF Monitor

-----------------------------------------------------------------------------
(* The handlers, the tasks and time.                                       *)
LEMMA CarefulModes ==
    ASSUME Careful
    PROVE  /\ "edit" \in Requests => Requests \cap {"cancel", "retry", "repair"} = {}
           /\ Requests \cap {"retry", "repair"} # {} => "edit" \notin Requests /\ ~Steady
           /\ "cancel" \in Requests => Steady /\ "edit" \notin Requests
           /\ "draftRetry" \notin Requests /\ "slow" \notin Faults
  BY DEF Careful, Steady

LEMMA StillStep ==
    ASSUME TypeInv, ClaimInv, SameTasks, BatchStep, UNCHANGED mon,
           \A d \in Draft : RowHeld(d) /\ RowRest(d)
    PROVE  ClaimInv'
  BY NoMoves, CalmStep DEF ClaimInv

LEMMA DraftHandlerKeeps ==
    ASSUME TypeInv, ClaimInv, Careful, Handler,
           \/ ListDrafts
           \/ \E d \in Draft : \/ RetryDraft(d) \/ RepairDraft(d)
                               \/ \E prompt \in BOOLEAN : EditPrompt(d, prompt)
                               \/ \E n \in 1..MaxTasks : ReworkTask(d, n)
    PROVE  ClaimInv'
  <1>1. SameTasks /\ UNCHANGED mon /\ BatchStep
    BY HandlerSame, SameBatches
       DEF ListDrafts, RetryDraft, RepairDraft, EditPrompt, ReworkTask
  <1>2. \A d \in Draft : draft[d] \in Drafts
    BY DEF TypeInv
  <1>3. CASE ListDrafts
    <2>1. \A d \in Draft : Tame(draft[d], draft'[d], task[d])
      BY <1>3, FinalizeTame DEF ListDrafts
    <2> QED
      BY <1>1, <2>1, TameRow, StillStep
  <1>4. ASSUME NEW d \in Draft, RetryDraft(d) PROVE FALSE
    BY <1>4, CarefulModes DEF RetryDraft
  <1>5. ASSUME NEW d \in Draft, RepairDraft(d) PROVE ClaimInv'
    <2> DEFINE s == [Released(draft[d], "PENDING") EXCEPT !.status = "READY", !.prompt = TRUE]
    <2>1. draft' = [draft EXCEPT ![d] = s] /\ draft[d].status = "FAILED"
      BY <1>5 DEF RepairDraft
    <2>2. ~s.stale
      BY <1>2 DEF Released, Drafts
    <2> HIDE DEF s
    <2>3. "edit" \notin Requests /\ ~Steady
      BY <1>5, CarefulModes DEF RepairDraft
    <2>4. Tame(draft[d], s, task[d])
      BY <1>2, <2>1, <2>2, <2>3, TameFailed
    <2>5. \A e \in Draft : RowHeld(e) /\ RowRest(e)
      BY <2>1, <2>4, TameSelf, TameRow DEF TypeInv
    <2> QED
      BY <1>1, <2>5, StillStep
  <1>6. ASSUME NEW d \in Draft, NEW k \in BOOLEAN, EditPrompt(d, k) PROVE ClaimInv'
    <2>1. PICK s \in {"READY", draft[d].status} :
            draft' = [draft EXCEPT ![d] = [draft[d] EXCEPT !.prompt = k, !.status = s]]
      BY <1>6 DEF EditPrompt
    <2>2. Tame(draft[d], [draft[d] EXCEPT !.prompt = k, !.status = s], task[d])
      BY <1>2, <1>6, TameEdit DEF EditPrompt
    <2>3. \A e \in Draft : RowHeld(e) /\ RowRest(e)
      BY <2>1, <2>2, TameSelf, TameRow DEF TypeInv
    <2> QED
      BY <1>1, <2>3, StillStep
  <1>7. ASSUME NEW d \in Draft, NEW n \in 1..MaxTasks, ReworkTask(d, n) PROVE ClaimInv'
    <2>1. \A e \in Draft : RowHeld(e) /\ RowRest(e)
      BY <1>7, TameSelf, TameRow DEF ReworkTask
    <2> QED
      BY <1>1, <2>1, StillStep
  <1> QED
    BY <1>3, <1>4, <1>5, <1>6, <1>7

LEMMA BatchHandlerKeeps ==
    ASSUME TypeInv, ClaimInv, Careful, Handler, NEW b \in Batch,
           CreateBatch(b) \/ ViewBatch(b) \/ \E picked \in SUBSET Draft : RetryBatch(b, picked)
    PROVE  ClaimInv'
  <1>1. SameTasks /\ UNCHANGED mon
    BY HandlerSame
  <1>2. \A d \in Draft : draft[d] \in Drafts
    BY DEF TypeInv
  <1>3. BatchStep
    <2>1. CASE CreateBatch(b)
      BY <2>1 DEF CreateBatch, BatchStep, TypeInv
    <2>2. CASE ViewBatch(b)
      BY <2>2 DEF ViewBatch, BatchStep, TypeInv
    <2>3. ASSUME NEW picked, RetryBatch(b, picked) PROVE BatchStep
      BY <2>3 DEF RetryBatch, BatchStep, TypeInv
    <2> QED
      BY <2>1, <2>2, <2>3
  <1>4. ASSUME CreateBatch(b), NEW d \in Draft PROVE RowHeld(d) /\ RowRest(d)
    <2>1. CASE BatchOf[d] = b
      <3>1. draft[d].status = "none" /\ draft'[d] = NewDraft /\ batch'[b] = "INCOMPLETE"
        BY <1>4, <2>1 DEF CreateBatch, ClaimInv, FreshBatches, TypeInv
      <3>2. ~NewDraft.stale
        BY DEF NewDraft, NoRow
      <3> QED
        BY <2>1, <3>1, <3>2 DEF RowHeld, RowRest, HeldBy, Written, Handled, TERMINAL_DRAFT_STATES
    <2>2. CASE BatchOf[d] # b
      BY <1>4, <2>2, TameSelf, TameRow DEF CreateBatch
    <2> QED
      BY <2>1, <2>2
  <1>5. ASSUME ViewBatch(b), NEW d \in Draft PROVE RowHeld(d) /\ RowRest(d)
    <2>1. draft'[d] \in {draft[d], InvalidDraft(draft[d], task[d])}
      BY <1>5 DEF ViewBatch
    <2> QED
      BY <1>2, <2>1, TameSelf, TameOps, TameRow
  <1>6. ASSUME NEW picked, RetryBatch(b, picked), NEW d \in Draft
        PROVE  RowHeld(d) /\ RowRest(d)
    <2>1. \/ draft'[d] \in {draft[d], InvalidDraft(draft[d], task[d])}
          \/ /\ draft[d].status = "FAILED" \/ (draft[d].status = "READY"
                                               /\ draft[d].promo = "FAILED")
             /\ draft'[d] \in {ResetPrompt(draft[d]), Released(draft[d], "PENDING")}
      BY <1>6 DEF RetryBatch
    <2>2. ~ResetPrompt(draft[d]).stale /\ ~Released(draft[d], "PENDING").stale
      BY <1>2 DEF ResetPrompt, Released, Drafts
    <2>3. "edit" \notin Requests /\ ~Steady
      BY <1>6, CarefulModes DEF RetryBatch
    <2>4. Tame(draft[d], draft'[d], task[d])
      BY <1>2, <2>1, <2>2, <2>3, TameSelf, TameOps, TameFailed
    <2> QED
      BY <2>4, TameRow
  <1> QED
    BY <1>1, <1>3, <1>4, <1>5, <1>6, StillStep

(* A cancellation frees its drafts.  Where a process has seen the batch    *)
(* settled, every draft in hand has its task.                              *)
LEMMA CancelKeeps ==
    ASSUME TypeInv, ClaimInv, Careful, Handler, NEW b \in Batch, CancelBatch(b) PROVE ClaimInv'
  <1>1. SameTasks /\ UNCHANGED mon
    BY HandlerSame
  <1>2. Steady /\ "edit" \notin Requests
    BY CarefulModes DEF CancelBatch
  <1>3. /\ batch[b] = "INCOMPLETE" /\ batch'[b] = "CANCELLED"
        /\ \A c \in Batch : c # b => batch'[c] = batch[c]
    BY DEF CancelBatch, TypeInv
  <1>4. ASSUME NEW d \in Draft, BatchOf[d] # b
        PROVE  draft'[d] = draft[d]
    BY <1>4 DEF CancelBatch
  <1>5. ASSUME NEW d \in Draft, BatchOf[d] = b
        PROVE  \E ts : \/ draft'[d] = InvalidDraft(CancelledDraft(draft[d]), ts)
    BY <1>5 DEF CancelBatch
  <1>6. ASSUME NEW d \in Draft, BatchOf[d] = b PROVE RowRest(d)
    <2> DEFINE r == draft[d]
               s == CancelledDraft(draft[d])
    <2>1. r \in Drafts /\ s \in Drafts
      BY RowTypes DEF TypeInv
    <2>2. /\ s.stale => r.stale /\ s.by = r.by
          /\ s.prompt = r.prompt
          /\ s.status = IF r.status = "PENDING" THEN "CANCELLED" ELSE r.status
          /\ s.old = r.old
      BY <2>1 DEF CancelledDraft, Released, Drafts
    <2> HIDE DEF s
    <2>3. PICK ts : draft'[d] = InvalidDraft(s, ts)
      BY <1>5, <1>6 DEF s
    <2>4. /\ draft'[d].stale => s.stale /\ draft'[d].by = s.by
          /\ draft'[d].status = s.status /\ draft'[d].old = s.old
          /\ s.status # "FAILED" => draft'[d].prompt = s.prompt
      BY <2>1, <2>3 DEF InvalidDraft, Invalid, Released, Drafts
    <2> QED
      BY <1>2, <1>3, <1>6, <2>1, <2>2, <2>4
         DEF RowRest, Written, Handled, Prompted, TERMINAL_DRAFT_STATES, Drafts
  <1>7. \A d \in Draft : RowRest(d)
    BY <1>4, <1>6, TameSelf, TameRow
  <1>8. Narrows /\ Shapes /\ GenNarrows /\ SeenNarrows
    BY <1>1, NoMoves DEF ClaimInv
  <1>9. MonShape' /\ GenerateRows' /\ SeenHandled' /\ FreshBatches'
    BY <1>1, <1>3, <1>7, <1>8, ShapeKept, GenerateKept, SeenKept, FreshKept
       DEF ClaimInv, TypeInv, MonOK
  <1>10. ASSUME NEW d \in Draft PROVE PostedTask(task'[d]) /\ (Loose(d)' \/ Proper(d)')
    <2>1. PostedTask(task'[d]) /\ (HasTask(task'[d]) <=> HasTask(task[d]))
      BY <1>1, SameKeeps DEF ClaimInv, SameTasks, Same
    <2>2. CASE BatchOf[d] # b
      <3>1. RowHeld(d)
        BY <1>4, <2>2, TameSelf, TameRow
      <3>2. CASE Loose(d)
        BY <1>3, <1>8, <2>1, <2>2, <3>2, LooseKept, BatchOfAssumption DEF Loose
      <3>3. CASE Proper(d)
        BY <1>1, <1>8, <2>1, <3>1, <3>3, ProperKept DEF ClaimInv, SameTasks
      <3> QED
        BY <3>2, <3>3 DEF ClaimInv
    <2>3. CASE BatchOf[d] = b
      <3>1. Proper(d)
        BY <1>3, <2>3 DEF ClaimInv, Loose
      <3>2. ASSUME NEW p \in App, b \in mon[p].seen PROVE Proper(d)'
        <4>1. Prompted(draft[d]) => HasTask(task[d])
          BY <1>2, <2>3, <3>2 DEF ClaimInv, SeenHandled, Handled
        <4>2. \A q \in App : Works(q, d) => HasTask(task[d])
          BY <1>2, <3>1, <4>1 DEF Proper, HeldBy
        <4>3. \A q \in App : ~Inserts(q, d)
          BY <3>1, <4>2 DEF Proper, Works
        <4>4. Single(task'[d])
          BY <1>1, <3>1, SameKeeps DEF SameTasks, Proper, ClaimInv
        <4>5. \A q \in App : (Works(q, d)' <=> Works(q, d)) /\ (Inserts(q, d)' <=> Inserts(q, d))
          BY <1>1 DEF Works, Inserts
        <4> QED
          BY <2>1, <4>2, <4>3, <4>4, <4>5 DEF Proper
      <3>3. CASE \A p \in App : b \notin mon[p].seen
        BY <1>1, <1>3, <2>1, <2>3, <3>3 DEF Loose
      <3> QED
        BY <2>1, <3>2, <3>3
    <2> QED
      BY <2>2, <2>3
  <1> QED
    BY <1>9, <1>10 DEF ClaimInv

LEMMA QueueKeeps == ASSUME TypeInv, ClaimInv, Queue PROVE ClaimInv'
  <1>1. SameTasks /\ UNCHANGED mon
    BY QueueSame DEF ClaimInv
  <1>2. UNCHANGED <<batch, draft>>
    BY DEF Queue, TaskClaimed, TaskAccepted, TaskReleased, TaskEnds, TaskSteps
  <1> QED
    BY <1>1, <1>2, TameSelf, TameRow, StillStep, SameBatches

LEMMA TimeKeeps == ASSUME TypeInv, ClaimInv, Careful, Time PROVE ClaimInv'
  <1>1. PICK d \in Draft : ClaimAges(d) \/ GenerationAges(d) \/ DeferralEnds(d)
    BY DEF Time
  <1>2. UNCHANGED <<batch, task, mon>> /\ "slow" \notin Faults /\ draft[d] \in Drafts
    BY <1>1, CarefulModes DEF ClaimAges, GenerationAges, DeferralEnds, TypeInv
  <1>3. RowHeld(d) /\ RowRest(d) /\ \A e \in Draft : e # d => draft'[e] = draft[e]
    <2>1. CASE ClaimAges(d)
      <3>1. draft' = [draft EXCEPT ![d] = [draft[d] EXCEPT !.stale = TRUE]]
        BY <2>1 DEF ClaimAges
      <3>2. ~WorksOn(draft[d].by, d)
        BY <1>2, <2>1 DEF ClaimAges
      <3>3. \A q \in App : Works(q, d) => WorksOn(q, d)
        BY DEF Works, WorksOn, Inserts
      <3>4. draft'[d] = [draft[d] EXCEPT !.stale = TRUE]
        BY <3>1 DEF TypeInv
      <3>5. draft'[d].by = draft[d].by /\ draft'[d].status = draft[d].status
            /\ draft'[d].old = draft[d].old /\ draft'[d].prompt = draft[d].prompt
        BY <1>2, <3>4 DEF Drafts
      <3>6. RowHeld(d)
        BY <3>2, <3>3 DEF RowHeld, HeldBy
      <3>7. RowRest(d)
        BY <3>2, <3>5 DEF RowRest, Written, Handled, Prompted
      <3> QED
        BY <3>1, <3>6, <3>7 DEF TypeInv
    <2>2. CASE GenerationAges(d)
      <3>1. draft' = [draft EXCEPT ![d] = [draft[d] EXCEPT !.old = TRUE]]
        BY <2>2 DEF GenerationAges
      <3>2. \A q \in App : ~Generates(q, d)'
        BY <1>2, <2>2 DEF GenerationAges, Generates
      <3>3. draft'[d] = [draft[d] EXCEPT !.old = TRUE]
        BY <3>1 DEF TypeInv
      <3>4. draft'[d].by = draft[d].by /\ draft'[d].status = draft[d].status
            /\ draft'[d].stale = draft[d].stale /\ draft'[d].prompt = draft[d].prompt
            /\ draft'[d].promo = draft[d].promo
        BY <1>2, <3>3 DEF Drafts
      <3>5. RowHeld(d)
        BY <3>4 DEF RowHeld, HeldBy, Prompted
      <3>6. RowRest(d)
        BY <3>2, <3>4 DEF RowRest, Handled, Prompted
      <3> QED
        BY <3>1, <3>5, <3>6 DEF TypeInv
    <2>3. CASE DeferralEnds(d)
      BY <1>2, <2>3, TameDeferral, TameRow DEF DeferralEnds, TypeInv
    <2> QED
      BY <1>1, <2>1, <2>2, <2>3
  <1> QED
    BY <1>2, <1>3, TameSelf, TameRow, StillStep, SameBatches, UnchangedSame

LEMMA NextClaim == ASSUME Careful PROVE TypeInv /\ ClaimInv /\ [Next]_vars => ClaimInv'
  <1> SUFFICES ASSUME TypeInv, ClaimInv, [Next]_vars PROVE ClaimInv'
    OBVIOUS
  <1>1. CASE UNCHANGED vars
    BY <1>1, TameSelf, TameRow, StillStep, SameBatches, UnchangedSame DEF vars
  <1>2. CASE Handler
    BY <1>2, DraftHandlerKeeps, BatchHandlerKeeps, CancelKeeps DEF Handler
  <1> QED
    BY <1>1, <1>2, MonitorKeeps, RestartKeeps, QueueKeeps, TimeKeeps DEF Next

LEMMA InitClaim == Init => ClaimInv
  <1> SUFFICES ASSUME Init PROVE ClaimInv
    OBVIOUS
  <1>1. \A d \in Draft : PostedTask(task[d]) /\ Single(task[d])
    BY DEF Init, PostedTask, Single, NoTask
  <1>2. \A p \in App : mon[p] = Started
    BY DEF Init
  <1>3. \A p \in App, d \in Draft : ~Works(p, d) /\ ~Inserts(p, d) /\ ~Generates(p, d)
    BY <1>2 DEF Works, Inserts, Generates, Started
  <1>4. MonShape /\ SeenHandled
    BY <1>2 DEF MonShape, Shape, SeenHandled, Started, Creating
  <1>5. FreshBatches
    BY DEF Init, FreshBatches, NoRow
  <1> QED
    BY <1>1, <1>3, <1>4, <1>5 DEF ClaimInv, Proper, GenerateRows

LEMMA ClaimInvariant == ASSUME Careful PROVE Spec => []ClaimInv
  <1>1. TypeInv /\ ClaimInv /\ [Next]_vars => ClaimInv'
    BY NextClaim
  <1> QED
    BY <1>1, InitClaim, TypesInvariant, PTL DEF Spec

(* Any number of processes make one task for a draft, whatever dies on the *)
(* way: the claim, which nobody but its holder frees before it is 300 s    *)
(* old, keeps all others out from the look for a task to its insertion.    *)
THEOREM OneTaskManyProcesses == ASSUME Careful PROVE Spec => []OneTaskUnlessCancelled
  <1>1. ClaimInv => OneTaskUnlessCancelled
    BY DEF ClaimInv, Loose, Proper, Single, OneTask, OneTaskUnlessCancelled
  <1> QED
    BY <1>1, ClaimInvariant, PTL

-----------------------------------------------------------------------------
(* A batch is called complete when its work is done.  What a process has   *)
(* seen settled stays settled until it says so, unless a user asks for     *)
(* more: nobody else promotes its drafts, and its tasks are at rest.       *)
Quiet == "slow" \notin Faults /\ Requests \subseteq {"cancel", "view"}

Dispatched(ts) == \A n \in 1..MaxTasks : ts[n].posting <=> ts[n].status = "DISPATCHING"
AtRest(ts)     == \A n \in 1..MaxTasks : ts[n].status \in {"none"} \cup TERMINAL_TASK_STATES

RestInv == /\ \A d \in Draft : /\ Dispatched(task[d])
                               /\ HasTask(task[d]) => Prompted(draft[d])
           /\ \A p \in App, d \in Draft :
                 /\ Works(p, d) => Prompted(draft[d])
                 /\ BatchOf[d] \in mon[p].seen => AtRest(task[d])

LEMMA QuietCareful == Quiet => Careful /\ Steady /\ "edit" \notin Requests
  BY DEF Quiet, Careful, Steady

LEMMA PromptedOps ==
    ASSUME NEW r \in Drafts, Prompted(r)
    PROVE  /\ \A promo : Prompted(Released(r, promo))
           /\ Prompted(Finalized(r))
           /\ Prompted(CancelledDraft(r))
           /\ \A p \in App : Prompted(Claimed(r, p))
           /\ \A pc : Prompted(Marked(r, pc))
           /\ \A ts : Prompted(InvalidDraft(r, ts)) /\ Prompted(Reconciled(r, ts))
           /\ Prompted([r EXCEPT !.stale = TRUE]) /\ Prompted([r EXCEPT !.deferred = FALSE])
           /\ Prompted([r EXCEPT !.old = TRUE])
  <1>1. r.status = "READY" /\ r.prompt
    BY DEF Prompted
  <1>2. \A promo : Released(r, promo).status = "READY" /\ Released(r, promo).prompt
                   /\ DOMAIN Released(r, promo) = DOMAIN r
    BY <1>1 DEF Released, Drafts
  <1>3. \A promo : Prompted(Released(r, promo))
    BY <1>2 DEF Prompted
  <1>4. \A p \in App : Prompted(Claimed(r, p))
    BY <1>2 DEF Claimed, Prompted
  <1>5. \A pc : Prompted(Marked(r, pc))
    BY <1>2 DEF Marked, Prompted
  <1>6. Prompted(Finalized(r)) /\ Prompted(CancelledDraft(r))
    BY <1>1, <1>3 DEF Finalized, CancelledDraft, Prompted
  <1>7. \A ts : Prompted(InvalidDraft(r, ts)) /\ Prompted(Reconciled(r, ts))
    BY <1>1, <1>3 DEF InvalidDraft, Invalid, Reconciled, Prompted
  <1>8. /\ Prompted([r EXCEPT !.stale = TRUE]) /\ Prompted([r EXCEPT !.deferred = FALSE])
        /\ Prompted([r EXCEPT !.old = TRUE])
    BY <1>1 DEF Prompted, Drafts
  <1> QED
    BY <1>3, <1>4, <1>5, <1>6, <1>7, <1>8

(* A ready prompt stays one.                                               *)
LEMMA PromptStays ==
    ASSUME Quiet, TypeInv, ClaimInv, [Next]_vars, NEW d \in Draft, Prompted(draft[d])
    PROVE  Prompted(draft'[d])
  <1>1. draft[d] \in Drafts /\ draft[d].status = "READY" /\ draft[d].prompt
    BY DEF TypeInv, Prompted
  <1>f. Prompted(Finalize[d]) /\ Finalize[d] = draft[d]
    BY <1>1, PromptedOps DEF Finalize, Finalized
  <1>2. ASSUME NEW p \in App, Monitor(p) PROVE Prompted(draft'[d])
    <2>1. ASSUME NEW e \in Draft, GenerateClaims(p, e) PROVE Prompted(draft'[d])
      <3>1. d # e
        BY <1>1, <1>f, <2>1 DEF GenerateClaims
      <3>2. draft'[d] = Finalize[d]
        BY <2>1, <3>1 DEF GenerateClaims, Finalize
      <3> QED
        BY <1>f, <3>2
    <2>2. CASE GenerateNothing(p)
      BY <1>f, <2>2 DEF GenerateNothing
    <2>3. ASSUME GenerateEnds(p) \/ \E k \in BOOLEAN : GenerateFails(p, k)
          PROVE  draft'[d] = draft[d]
      <3>1. PICK e \in Draft : e = mon[p].draft /\ Generates(p, e)
        BY <2>3 DEF GenerateEnds, GenerateFails, Generates, TypeInv, MonOK, AtDraft
      <3>2. d # e
        BY <1>1, <3>1, QuietCareful DEF ClaimInv, GenerateRows, Written
      <3> QED
        BY <1>1, <2>3, <3>1, <3>2 DEF GenerateEnds, GenerateFails, TypeInv
    <2>4. CASE PromoteLists(p) \/ PromoteClaims(p)
      <3>1. draft'[d] \in {draft[d], Claimed(draft[d], p), Reconciled(draft[d], task[d])}
        BY <2>4 DEF PromoteLists, PromoteClaims
      <3> QED
        BY <1>1, <3>1, PromptedOps
    <2>5. CASE PromoteMarks(p)
      <3>1. draft'[d] \in {draft[d], Marked(draft[d], mon[p].pc)}
        BY <2>5 DEF PromoteMarks, TypeInv
      <3> QED
        BY <1>1, <3>1, PromptedOps
    <2>6. CASE RefreshReads(p)
      <3>1. draft'[d] \in {draft[d], InvalidDraft(draft[d], task[d])}
        BY <2>6 DEF RefreshReads
      <3> QED
        BY <1>1, <3>1, PromptedOps
    <2>7. CASE UNCHANGED draft
      BY <2>7
    <2> QED
      BY <1>2, <2>1, <2>2, <2>3, <2>4, <2>5, <2>6, <2>7
         DEF Monitor, PromoteRechecks, PromoteReads, PromoteInserts, RefreshCommits
  <1>3. CASE Handler
    <2>1. CASE ListDrafts
      BY <1>f, <2>1 DEF ListDrafts
    <2>2. ASSUME NEW b \in Batch, CreateBatch(b) PROVE Prompted(draft'[d])
      <3>1. BatchOf[d] # b
        BY <1>1, <2>2 DEF CreateBatch, ClaimInv, FreshBatches
      <3> QED
        BY <2>2, <3>1 DEF CreateBatch
    <2>3. ASSUME NEW b \in Batch, CancelBatch(b) PROVE Prompted(draft'[d])
      <3>1. \/ draft'[d] = draft[d]
            \/ \E ts : draft'[d] = InvalidDraft(CancelledDraft(draft[d]), ts)
        BY <2>3 DEF CancelBatch
      <3>2. CancelledDraft(draft[d]) \in Drafts /\ Prompted(CancelledDraft(draft[d]))
        BY <1>1, PromptedOps, RowTypes
      <3> QED
        BY <3>1, <3>2, PromptedOps
    <2>4. ASSUME NEW b \in Batch, ViewBatch(b) PROVE Prompted(draft'[d])
      <3>1. draft'[d] \in {draft[d], InvalidDraft(draft[d], task[d])}
        BY <2>4 DEF ViewBatch
      <3> QED
        BY <1>1, <3>1, PromptedOps
    <2> QED
      BY <1>3, <2>1, <2>2, <2>3, <2>4
         DEF Handler, Quiet, RetryBatch, RetryDraft, RepairDraft, EditPrompt, ReworkTask
  <1>4. CASE Time
    <2>1. PICK e \in Draft : ClaimAges(e) \/ GenerationAges(e) \/ DeferralEnds(e)
      BY <1>4 DEF Time
    <2>2. draft'[d] \in {draft[d], [draft[d] EXCEPT !.stale = TRUE],
                         [draft[d] EXCEPT !.old = TRUE], [draft[d] EXCEPT !.deferred = FALSE]}
      BY <2>1 DEF ClaimAges, GenerationAges, DeferralEnds, TypeInv
    <2> QED
      BY <1>1, <2>2, PromptedOps
  <1>5. CASE UNCHANGED draft
    BY <1>5
  <1>6. Queue => UNCHANGED draft
    BY DEF Queue, TaskClaimed, TaskAccepted, TaskReleased, TaskEnds, TaskSteps
  <1> QED
    BY <1>2, <1>3, <1>4, <1>5, <1>6 DEF Next, Crash, vars

(* A step of a process moves its monitor only.                             *)
LEMMA OneMoves ==
    ASSUME NEW p, Monitor(p) \/ Crash(p)
    PROVE  \E m : mon' = [mon EXCEPT ![p] = m]
  <1>1. CASE \E d \in Draft : GenerateClaims(p, d)
    BY <1>1 DEF GenerateClaims
  <1>2. CASE GenerateNothing(p) \/ GenerateEnds(p)
    BY <1>2 DEF GenerateNothing, GenerateEnds
  <1>3. CASE \E blocking \in BOOLEAN : GenerateFails(p, blocking)
    BY <1>3 DEF GenerateFails
  <1>4. CASE PromoteLists(p)
    BY <1>4 DEF PromoteLists
  <1>5. CASE PromoteClaims(p)
    BY <1>5 DEF PromoteClaims
  <1>6. CASE \E b \in Batch : PromoteRechecks(p, b)
    BY <1>6 DEF PromoteRechecks
  <1>7. CASE \E d \in Draft : PromoteReads(p, d)
    BY <1>7 DEF PromoteReads
  <1>8. CASE PromoteInserts(p) \/ PromoteMarks(p)
    BY <1>8 DEF PromoteInserts, PromoteMarks
  <1>9. CASE RefreshReads(p)
    BY <1>9 DEF RefreshReads
  <1>10. CASE RefreshCommits(p) \/ Crash(p)
    BY <1>10 DEF RefreshCommits, Crash
  <1> QED
    BY <1>1, <1>2, <1>3, <1>4, <1>5, <1>6, <1>7, <1>8, <1>9, <1>10 DEF Monitor

(* Who takes up a draft has just found it ready.                           *)
LEMMA WorksReady ==
    ASSUME TypeInv, ClaimInv, [Next]_vars, NEW q \in App, NEW d \in Draft, Works(q, d)'
    PROVE  Works(q, d) \/ Prompted(draft[d])
  <1>1. ASSUME UNCHANGED mon PROVE Works(q, d)
    BY <1>1 DEF Works, Inserts
  <1>2. ASSUME NEW p \in App, Monitor(p) \/ Crash(p), q # p PROVE Works(q, d)
    <2>1. PICK m : mon' = [mon EXCEPT ![p] = m]
      BY <1>2, OneMoves
    <2> QED
      BY <1>2, <2>1 DEF Works, Inserts, TypeInv, MonOK
  <1>3. ASSUME Monitor(q) \/ Crash(q) PROVE Works(q, d) \/ Prompted(draft[d])
    <2> USE DEF TypeInv, MonOK
    <2>0. mon[q] \in Monitors
      OBVIOUS
    <2>1. ASSUME NEW e, GenerateClaims(q, e) PROVE d \in mon[q].own
      <3>1. mon'[q] \in {[mon[q] EXCEPT !.pc = "promote"],
                         [mon[q] EXCEPT !.pc = "generating", !.draft = e]}
        BY <2>1 DEF GenerateClaims
      <3> QED
        BY <2>0, <3>1 DEF Works, Inserts, Monitors
    <2>2. ASSUME NEW k, GenerateNothing(q) \/ GenerateEnds(q) \/ GenerateFails(q, k)
          PROVE  d \in mon[q].own
      <3>1. mon'[q] \in {[mon[q] EXCEPT !.pc = "promote"],
                         [mon[q] EXCEPT !.pc = "promote", !.draft = NoDraft]}
        BY <2>2 DEF GenerateNothing, GenerateEnds, GenerateFails
      <3> QED
        BY <2>0, <3>1 DEF Works, Inserts, Monitors
    <2>3. ASSUME PromoteLists(q) \/ PromoteClaims(q) PROVE d \in mon[q].own
      <3>1. /\ mon'[q].own = mon[q].own
            /\ mon'[q].pc \in {"claim", "refresh", "recheck"}
        BY <2>0, <2>3 DEF PromoteLists, PromoteClaims, Monitors
      <3> QED
        BY <3>1 DEF Works, Inserts
    <2>4. ASSUME NEW b, PromoteRechecks(q, b) PROVE Prompted(draft[d])
      <3> DEFINE ds == { e \in mon[q].todo : BatchOf[e] = b }
                 owned == { e \in ds : /\ draft[e].by = q /\ draft[e].promo = "DISPATCHING"
                                       /\ Prompted(draft[e]) }
                 pc == NextPc(mon[q].todo \ ds, owned)
                 m == [mon[q] EXCEPT !.todo = mon[q].todo \ ds, !.own = owned, !.pc = pc]
      <3>1. mon'[q] = m
        BY <2>4 DEF PromoteRechecks
      <3>3. m.own = owned /\ m.pc # "insert"
        BY <2>0 DEF Monitors, NextPc
      <3>2. d \in owned
        <4> HIDE DEF owned, m
        <4> QED
          BY <3>1, <3>3 DEF Works, Inserts
      <3> QED
        BY <3>2
    <2>5. ASSUME NEW e \in Draft, PromoteReads(q, e) PROVE Works(q, d)
      <3>1. PICK pc : mon'[q] = [mon[q] EXCEPT !.pc = pc, !.draft = e, !.own = mon[q].own \ {e}]
        BY <2>5 DEF PromoteReads
      <3>2. mon'[q].draft = e /\ mon'[q].own = mon[q].own \ {e} /\ e \in mon[q].own
        BY <2>0, <2>5, <3>1 DEF Monitors, PromoteReads
      <3> QED
        BY <3>2 DEF Works, Inserts
    <2>6. ASSUME PromoteInserts(q) \/ PromoteMarks(q) \/ RefreshReads(q) PROVE d \in mon[q].own
      <3>1. PICK pc \in {"created", "create", "recheck", "refresh", "settle"} : \E seen :
              mon'[q] \in {[mon[q] EXCEPT !.pc = pc], [mon[q] EXCEPT !.draft = NoDraft, !.pc = pc],
                           [mon[q] EXCEPT !.pc = pc, !.seen = seen]}
        BY <2>6 DEF PromoteInserts, PromoteMarks, RefreshReads, NextPc
      <3> QED
        BY <2>0, <3>1 DEF Works, Inserts, Monitors
    <2>7. ASSUME RefreshCommits(q) \/ Crash(q) PROVE FALSE
      BY <2>7 DEF RefreshCommits, Crash, Works, Inserts, Started
    <2> QED
      BY <1>3, <2>1, <2>2, <2>3, <2>4, <2>5, <2>6, <2>7 DEF Monitor, Works
  <1>4. \/ UNCHANGED mon \/ \E p \in App : Monitor(p) \/ Crash(p)
    BY HandlerSame DEF Next, vars, Queue, TaskClaimed, TaskAccepted, TaskReleased, TaskEnds,
           TaskSteps, Time, ClaimAges, GenerationAges, DeferralEnds
  <1> QED
    BY <1>1, <1>2, <1>3, <1>4

(* The tasks of a draft in a step: the same rows, dispatched while a POST  *)
(* is out, and at rest if they were.                                       *)
TasksKept(ts, us) == Dispatched(us) /\ (AtRest(ts) => AtRest(us))

LEMMA SetStatusKept ==
    ASSUME NEW ts \in TaskRows, Dispatched(ts)
    PROVE  TasksKept(ts, SetStatus(ts, {"PENDING_SUBMIT"}, "CANCELLED"))
  <1> DEFINE us == SetStatus(ts, {"PENDING_SUBMIT"}, "CANCELLED")
  <1>1. ASSUME NEW n \in 1..MaxTasks
        PROVE  /\ us[n].status = IF ts[n].status = "PENDING_SUBMIT" THEN "CANCELLED"
                                 ELSE ts[n].status
               /\ us[n].posting = ts[n].posting
    <2>1. ts[n] \in Tasks
      BY DEF TaskRows
    <2> QED
      BY <2>1 DEF SetStatus, Tasks
  <1> HIDE DEF us
  <1>2. Dispatched(us)
    BY <1>1 DEF Dispatched
  <1>3. AtRest(ts) => AtRest(us)
    BY <1>1 DEF AtRest, TERMINAL_TASK_STATES, REWORKABLE_TASK_STATES
  <1> QED
    BY <1>2, <1>3 DEF TasksKept, us

LEMMA UnpromptedEmpty ==
    ASSUME NEW ts \in TaskRows, ~HasTask(ts)
    PROVE  FailPreSubmit(ts) = ts /\ \A r : ~Invalid(r, ts)
  <1>1. \A n \in 1..MaxTasks : ts[n].status = "none"
    BY DEF HasTask
  <1>2. FailPreSubmit(ts) = [n \in 1..MaxTasks |-> ts[n]]
    BY <1>1 DEF FailPreSubmit, SetStatus, PRE_RUNPOD_SUBMISSION_STATES
  <1> QED
    BY <1>1, <1>2 DEF TaskRows, Invalid, PRE_RUNPOD_SUBMISSION_STATES

(* No row of a failed draft has tasks to fail.                             *)
LEMMA NoneInvalid ==
    ASSUME TypeInv, RestInv, NEW d \in Draft, ~Prompted(draft[d])
    PROVE  FailPreSubmit(task[d]) = task[d] /\ \A r : InvalidTasks(r, task[d]) = task[d]
  BY UnpromptedEmpty DEF TypeInv, RestInv, InvalidTasks

LEMMA QueueKept ==
    ASSUME TypeInv, RestInv, Queue, NEW e \in Draft PROVE TasksKept(task[e], task'[e])
  <1>1. PICK d \in Draft, n \in 1..MaxTasks :
          TaskClaimed(d, n) \/ TaskAccepted(d, n) \/ TaskReleased(d, n) \/ TaskEnds(d, n)
    BY DEF Queue
  <1>2. task[d] \in TaskRows /\ task[d][n] \in Tasks /\ Dispatched(task[d])
    BY DEF TypeInv, TaskRows, RestInv
  <1>3. PICK status, posting :
          /\ TaskSteps(d, n, status, posting)
          /\ posting <=> status = "DISPATCHING"
    <2>1. CASE TaskClaimed(d, n)
      BY <2>1 DEF TaskClaimed
    <2>2. CASE TaskAccepted(d, n)
      BY <2>2 DEF TaskAccepted
    <2>3. CASE TaskReleased(d, n)
      BY <1>2, <2>3 DEF TaskReleased, Dispatched
    <2>4. CASE TaskEnds(d, n)
      BY <1>2, <2>4 DEF TaskEnds, Dispatched, TERMINAL_TASK_STATES, REWORKABLE_TASK_STATES
    <2> QED
      BY <1>1, <2>1, <2>2, <2>3, <2>4
  <1>4. ~AtRest(task[d])
    BY <1>1, <1>2 DEF AtRest, Dispatched, TaskClaimed, TaskAccepted, TaskReleased, TaskEnds,
                      TERMINAL_TASK_STATES, REWORKABLE_TASK_STATES
  <1> DEFINE v == [status |-> status, posting |-> posting]
  <1>5. task' = [task EXCEPT ![d] = [task[d] EXCEPT ![n] = v]]
    BY <1>3 DEF TaskSteps
  <1>6. v.status = status /\ v.posting = posting
    OBVIOUS
  <1> HIDE DEF v
  <1>7. task'[d] = [task[d] EXCEPT ![n] = v] /\ (e # d => task'[e] = task[e])
    BY <1>5 DEF TypeInv
  <1>8. Dispatched(task'[d])
    BY <1>2, <1>3, <1>6, <1>7 DEF Dispatched, TaskRows
  <1> QED
    BY <1>4, <1>7, <1>8 DEF TasksKept, RestInv

LEMMA StepKept ==
    ASSUME Quiet, TypeInv, ClaimInv, RestInv, [Next]_vars, NEW d \in Draft
    PROVE  \/ TasksKept(task[d], task'[d])
           \/ /\ \E p \in App : Inserts(p, d)
              /\ Dispatched(task'[d])
  <1>0. ASSUME task'[d] = task[d] PROVE TasksKept(task[d], task'[d])
    BY <1>0 DEF TasksKept, RestInv
  <1>1. ASSUME NEW p \in App, Monitor(p)
        PROVE  \/ task'[d] = task[d]
               \/ /\ Inserts(p, d)
                  /\ Dispatched(task'[d])
    <2>1. ASSUME NEW k, GenerateFails(p, k) PROVE task'[d] = task[d]
      <3>1. \/ task'[d] = task[d]
            \/ /\ task'[d] = FailPreSubmit(task[d])
               /\ Generates(p, d) \/ draft[d].status = "PENDING"
        BY <2>1 DEF GenerateFails, Generates
      <3>2. Generates(p, d) => draft[d].status = "GENERATING"
        BY QuietCareful DEF ClaimInv, GenerateRows, Written
      <3> QED
        BY <3>1, <3>2, NoneInvalid DEF Prompted
    <2>2. ASSUME RefreshReads(p) PROVE task'[d] = task[d]
      <3>1. task'[d] \in {task[d], InvalidTasks(draft[d], task[d])}
        BY <2>2 DEF RefreshReads
      <3>2. Prompted(draft[d]) => InvalidTasks(draft[d], task[d]) = task[d]
        BY DEF Prompted, InvalidTasks, Invalid
      <3> QED
        BY <3>1, <3>2, NoneInvalid
    <2>3. ASSUME PromoteInserts(p), task'[d] # task[d]
          PROVE  Inserts(p, d) /\ Dispatched(task'[d])
      <3>1. PICK e \in Draft : e = mon[p].draft /\ Inserts(p, e)
        BY <2>3 DEF PromoteInserts, TypeInv, MonOK, AtDraft, Inserts
      <3>2. PICK n \in 1..MaxTasks : /\ task[e][n].status = "none"
                                     /\ task' = [task EXCEPT ![e][n].status = "PENDING_SUBMIT"]
        BY <2>3, <3>1 DEF PromoteInserts
      <3>3. /\ d = e
            /\ \A m \in 1..MaxTasks : m # n => task'[d][m] = task[d][m]
            /\ task'[d][n] = [task[d][n] EXCEPT !.status = "PENDING_SUBMIT"]
        BY <2>3, <3>2, InsertTask DEF ClaimInv
      <3>4. task[d][n] \in Tasks
        BY DEF TypeInv, TaskRows
      <3>5. task'[d][n].status = "PENDING_SUBMIT" /\ task'[d][n].posting = task[d][n].posting
        BY <3>3, <3>4 DEF Tasks
      <3>6. Dispatched(task'[d])
        BY <3>2, <3>3, <3>5 DEF RestInv, Dispatched
      <3> QED
        BY <3>1, <3>3, <3>6
    <2> QED
      BY <1>1, <2>1, <2>2, <2>3
         DEF Monitor, GenerateClaims, GenerateNothing, GenerateEnds, PromoteLists,
             PromoteClaims, PromoteRechecks, PromoteReads, PromoteMarks, RefreshCommits
  <1>2. ASSUME NEW b \in Batch, CancelBatch(b) PROVE TasksKept(task[d], task'[d])
    <2> DEFINE ts == SetStatus(task[d], {"PENDING_SUBMIT"}, "CANCELLED")
               s == CancelledDraft(draft[d])
    <2>1. /\ task[d] \in TaskRows /\ TasksKept(task[d], ts) /\ ts \in TaskRows
          /\ Same(task[d], ts)
      BY SetStatusKept, SetStatusType, SetStatusSame
         DEF RestInv, TypeInv, TaskStatus, TERMINAL_TASK_STATES, REWORKABLE_TASK_STATES
    <2>2. task'[d] \in {task[d], InvalidTasks(s, ts)}
      BY <1>2 DEF CancelBatch
    <2>3. ~Invalid(s, ts)
      <3>1. CASE Prompted(draft[d])
        <4>1. Prompted(s)
          BY <3>1, PromptedOps DEF TypeInv
        <4> QED
          BY <4>1 DEF Invalid, Prompted
      <3>2. CASE ~Prompted(draft[d])
        <4>1. ~HasTask(ts)
          BY <2>1, <3>2, SameKeeps DEF RestInv
        <4> QED
          BY <2>1, <4>1, UnpromptedEmpty
      <3> QED
        BY <3>1, <3>2
    <2> HIDE DEF ts, s
    <2> QED
      BY <1>0, <2>1, <2>2, <2>3 DEF InvalidTasks
  <1>3. ASSUME NEW b \in Batch, ViewBatch(b) PROVE task'[d] = task[d]
    <2>1. task'[d] \in {task[d], InvalidTasks(draft[d], task[d])}
      BY <1>3 DEF ViewBatch
    <2>2. Prompted(draft[d]) => InvalidTasks(draft[d], task[d]) = task[d]
      BY DEF Prompted, InvalidTasks, Invalid
    <2> QED
      BY <2>1, <2>2, NoneInvalid
  <1>4. CASE Handler
    <2>1. \/ task'[d] = task[d]
          \/ \E b \in Batch : CancelBatch(b) \/ ViewBatch(b)
      BY <1>4 DEF Handler, Quiet, ListDrafts, CreateBatch, RetryBatch, RetryDraft, RepairDraft,
                  EditPrompt, ReworkTask
    <2> QED
      BY <1>0, <1>2, <1>3, <2>1
  <1>5. CASE Queue
    BY <1>5, QueueKept
  <1>6. ASSUME UNCHANGED task PROVE TasksKept(task[d], task'[d])
    BY <1>0, <1>6
  <1> QED
    BY <1>0, <1>1, <1>4, <1>5, <1>6
       DEF Next, Crash, vars, Time, ClaimAges, GenerationAges, DeferralEnds

(* What a process comes to have seen is settled.                           *)
LEMMA SeenSettled ==
    ASSUME TypeInv, [Next]_vars, NEW q \in App, NEW b \in mon'[q].seen
    PROVE  b \in mon[q].seen \/ Settled(b, draft', task')
  <1>1. CASE mon'[q] = mon[q]
    BY <1>1
  <1>2. ASSUME NEW p \in App, Monitor(p) \/ Crash(p), q # p PROVE mon'[q] = mon[q]
    <2>1. PICK m : mon' = [mon EXCEPT ![p] = m]
      BY <1>2, OneMoves
    <2> QED
      BY <1>2, <2>1 DEF TypeInv, MonOK
  <1>3. ASSUME Monitor(q) \/ Crash(q)
        PROVE  b \in mon[q].seen \/ Settled(b, draft', task')
    <2> USE DEF TypeInv, MonOK
    <2>0. mon[q] \in Monitors
      OBVIOUS
    <2>1. CASE RefreshReads(q)
      <3> DEFINE seen == { c \in Batch : Open(c) /\ Settled(c, draft', task') }
                 m == [mon[q] EXCEPT !.pc = "settle", !.seen = seen]
      <3>1. mon'[q] = m
        BY <2>1 DEF RefreshReads
      <3>2. m.seen = seen
        BY <2>0 DEF Monitors
      <3>3. b \in seen
        <4> HIDE DEF m, seen
        <4> QED
          BY <3>1, <3>2
      <3> QED
        BY <3>3
    <2>2. CASE RefreshCommits(q) \/ Crash(q)
      BY <2>2 DEF RefreshCommits, Crash, Started
    <2>3. ASSUME Monitor(q), ~RefreshReads(q), ~RefreshCommits(q)
          PROVE  mon'[q].seen = mon[q].seen
      <3>1. ASSUME NEW e, GenerateClaims(q, e) PROVE mon'[q].seen = mon[q].seen
        <4>1. mon'[q] \in {[mon[q] EXCEPT !.pc = "promote"],
                           [mon[q] EXCEPT !.pc = "generating", !.draft = e]}
          BY <3>1 DEF GenerateClaims
        <4> QED
          BY <2>0, <4>1 DEF Monitors
      <3>2. ASSUME NEW k, GenerateNothing(q) \/ GenerateEnds(q) \/ GenerateFails(q, k)
            PROVE  mon'[q].seen = mon[q].seen
        <4>1. mon'[q] \in {[mon[q] EXCEPT !.pc = "promote"],
                           [mon[q] EXCEPT !.pc = "promote", !.draft = NoDraft]}
          BY <3>2 DEF GenerateNothing, GenerateEnds, GenerateFails
        <4> QED
          BY <2>0, <4>1 DEF Monitors
      <3>3. PromoteLists(q) => mon'[q].seen = mon[q].seen
        BY <2>0 DEF PromoteLists, Monitors
      <3>4. PromoteClaims(q) => mon'[q].seen = mon[q].seen
        BY <2>0 DEF PromoteClaims, Monitors
      <3>5. ASSUME NEW c, PromoteRechecks(q, c) PROVE mon'[q].seen = mon[q].seen
        <4>1. PICK todo, own, pc :
                mon' = [mon EXCEPT ![q] = [mon[q] EXCEPT !.todo = todo, !.own = own, !.pc = pc]]
          BY <3>5 DEF PromoteRechecks
        <4> DEFINE m == [mon[q] EXCEPT !.todo = todo, !.own = own, !.pc = pc]
        <4>2. m.seen = mon[q].seen
          BY <2>0 DEF Monitors
        <4>3. mon'[q] = m
          BY <4>1
        <4> QED
          BY <4>2, <4>3
      <3>6. \A e : PromoteReads(q, e) => mon'[q].seen = mon[q].seen
        BY <2>0 DEF PromoteReads, Monitors
      <3>7. PromoteInserts(q) => mon'[q].seen = mon[q].seen
        BY <2>0 DEF PromoteInserts, Monitors
      <3>8. PromoteMarks(q) => mon'[q].seen = mon[q].seen
        BY <2>0 DEF PromoteMarks, Monitors
      <3> QED
        BY <2>3, <3>1, <3>2, <3>3, <3>4, <3>5, <3>6, <3>7, <3>8 DEF Monitor
    <2> QED
      BY <1>3, <2>1, <2>2, <2>3
  <1>4. \/ UNCHANGED mon \/ \E p \in App : Monitor(p) \/ Crash(p)
    BY HandlerSame DEF Next, vars, Queue, TaskClaimed, TaskAccepted, TaskReleased, TaskEnds,
           TaskSteps, Time, ClaimAges, GenerationAges, DeferralEnds
  <1> QED
    BY <1>1, <1>2, <1>3, <1>4

LEMMA NextRest ==
    ASSUME Quiet PROVE TypeInv /\ ClaimInv /\ RestInv /\ [Next]_vars => RestInv'
  <1> SUFFICES ASSUME TypeInv, ClaimInv, RestInv, [Next]_vars PROVE RestInv'
    OBVIOUS
  <1>1. ASSUME NEW p \in App, NEW d \in Draft, Works(p, d)' PROVE Prompted(draft'[d])
    BY <1>1, WorksReady, PromptStays DEF RestInv
  <1>2. ASSUME NEW d \in Draft PROVE Dispatched(task'[d])
    BY StepKept DEF TasksKept
  <1>3. ASSUME NEW d \in Draft, HasTask(task'[d]) PROVE Prompted(draft'[d])
    <2>1. CASE HasTask(task[d])
      BY <2>1, PromptStays DEF RestInv
    <2>2. CASE ~HasTask(task[d])
      <3>1. ASSUME SameTasks PROVE FALSE
        BY <1>3, <2>2, <3>1, SameKeeps DEF SameTasks
      <3>2. PICK p \in App : PromoteInserts(p)
        BY <3>1, MonitorSame, HandlerSame, QueueSame, UnchangedSame
           DEF Next, Crash, Time, ClaimAges, GenerationAges, DeferralEnds, vars, ClaimInv
      <3>3. PICK e \in Draft : e = mon[p].draft /\ Inserts(p, e)
        BY <3>2 DEF PromoteInserts, TypeInv, MonOK, AtDraft, Inserts
      <3>4. e = d
        <4>1. \/ UNCHANGED task
              \/ \E n \in 1..MaxTasks : task' = [task EXCEPT ![e][n].status = "PENDING_SUBMIT"]
          BY <3>2, <3>3 DEF PromoteInserts
        <4>2. e # d => task'[d] = task[d]
          BY <4>1 DEF TypeInv
        <4> QED
          BY <1>3, <2>2, <4>2
      <3>5. Prompted(draft[d])
        BY <3>3, <3>4 DEF RestInv, Works
      <3> QED
        BY <3>5, PromptStays
    <2> QED
      BY <2>1, <2>2
  <1>4. ASSUME NEW q \in App, NEW d \in Draft, BatchOf[d] \in mon'[q].seen
        PROVE  AtRest(task'[d])
    <2>1. CASE Settled(BatchOf[d], draft', task')
      BY <2>1 DEF Settled, AtRest
    <2>2. CASE BatchOf[d] \in mon[q].seen
      <3>1. AtRest(task[d]) /\ Handled(draft[d], task[d])
        BY <2>2, QuietCareful DEF RestInv, ClaimInv, SeenHandled
      <3>2. ASSUME NEW p \in App, Inserts(p, d) PROVE FALSE
        <4>1. Proper(d)
          BY <2>2 DEF ClaimInv, Loose
        <4>2. Prompted(draft[d]) /\ ~HasTask(task[d])
          BY <3>2, <4>1 DEF RestInv, Works, Proper
        <4> QED
          BY <3>1, <4>2 DEF Handled
      <3> QED
        BY <3>1, <3>2, StepKept DEF TasksKept
    <2> QED
      BY <1>4, <2>1, <2>2, SeenSettled
  <1> QED
    BY <1>1, <1>2, <1>3, <1>4 DEF RestInv

LEMMA InitRest == Init => RestInv
  <1> SUFFICES ASSUME Init PROVE RestInv
    OBVIOUS
  <1>1. \A d \in Draft : Dispatched(task[d]) /\ ~HasTask(task[d])
    BY DEF Init, Dispatched, HasTask, NoTask
  <1>2. \A p \in App : mon[p] = Started
    BY DEF Init
  <1> QED
    BY <1>1, <1>2 DEF RestInv, Works, Inserts, Started

(* A batch whose work is done is not busy.                                 *)
LEMMA SettledDone ==
    ASSUME NEW d \in Draft, NEW rows, NEW tasks, Handled(rows[d], tasks[d]), AtRest(tasks[d])
    PROVE  /\ rows[d].status \notin {"PENDING", "GENERATING"}
           /\ ~(Prompted(rows[d]) /\ \A n \in 1..MaxTasks : tasks[d][n].status = "none")
           /\ \A n \in 1..MaxTasks :
                 tasks[d][n].status \notin PRE_RUNPOD_SUBMISSION_STATES \cup {"ACTIVE"}
  BY DEF Handled, HasTask, AtRest, TERMINAL_DRAFT_STATES, PRE_RUNPOD_SUBMISSION_STATES,
         TERMINAL_TASK_STATES, REWORKABLE_TASK_STATES

LEMMA CompletesDone ==
    ASSUME Quiet, TypeInv, ClaimInv, RestInv, [Next]_vars, NEW d \in Draft,
           batch[BatchOf[d]] # "COMPLETE", batch'[BatchOf[d]] = "COMPLETE"
    PROVE  Handled(draft'[d], task'[d]) /\ AtRest(task'[d])
  <1> DEFINE b == BatchOf[d]
  <1>1. b \in Batch
    BY BatchOfAssumption
  <1>2. CASE Settled(b, draft', task')
    BY <1>2 DEF Settled, Handled, AtRest
  <1>3. ASSUME NEW p \in App, RefreshCommits(p)
        PROVE  Handled(draft'[d], task'[d]) /\ AtRest(task'[d])
    <2>1. b \in mon[p].seen /\ UNCHANGED <<draft, task>>
      BY <1>1, <1>3 DEF RefreshCommits
    <2> QED
      BY <2>1, QuietCareful DEF RestInv, ClaimInv, SeenHandled
  <1>4. ASSUME NEW c \in Batch, ViewBatch(c) PROVE Settled(b, draft', task')
    BY <1>1, <1>4 DEF ViewBatch, TypeInv
  <1>5. \/ \E p \in App : RefreshCommits(p)
        \/ \E c \in Batch : ViewBatch(c)
    <2>1. ASSUME NEW c \in Batch, CreateBatch(c) \/ CancelBatch(c)
          PROVE  FALSE
      BY <1>1, <2>1 DEF CreateBatch, CancelBatch, TypeInv
    <2>2. ASSUME UNCHANGED batch PROVE FALSE
      BY <2>2
    <2>3. Handler => \E c \in Batch : ViewBatch(c)
      BY <2>1, <2>2 DEF Handler, Quiet, ListDrafts, RetryBatch, RetryDraft, RepairDraft,
                        EditPrompt, ReworkTask
    <2>4. ASSUME NEW p \in App, Monitor(p) PROVE UNCHANGED batch \/ RefreshCommits(p)
      BY <2>4 DEF Monitor, GenerateClaims, GenerateNothing, GenerateEnds, GenerateFails,
             PromoteLists, PromoteClaims, PromoteRechecks, PromoteReads, PromoteInserts,
             PromoteMarks, RefreshReads
    <2> QED
      BY <2>2, <2>3, <2>4 DEF Next, Crash, vars, Queue, TaskClaimed, TaskAccepted,
             TaskReleased, TaskEnds, TaskSteps, Time, ClaimAges, GenerationAges, DeferralEnds
  <1> QED
    BY <1>2, <1>3, <1>4, <1>5

(* Any number of processes call a batch COMPLETE only when no prompt is to *)
(* write, no ready draft without a task, and no task waits or runs, though *)
(* each looks in one transaction and writes in another, while the others   *)
(* promote, tasks end, and users cancel.                                   *)
THEOREM CompleteIsDone == ASSUME Quiet PROVE Spec => CompleteMeansDone
  <1> DEFINE Step == \A d \in Draft :
        batch[BatchOf[d]] # "COMPLETE" /\ batch'[BatchOf[d]] = "COMPLETE" => ~Busy(d)'
  <1>1. TypeInv /\ ClaimInv /\ RestInv /\ [Next]_vars => [Step]_vars
    <2> SUFFICES ASSUME TypeInv, ClaimInv, RestInv, [Next]_vars, NEW d \in Draft,
                        batch[BatchOf[d]] # "COMPLETE", batch'[BatchOf[d]] = "COMPLETE"
                 PROVE  ~Busy(d)'
      OBVIOUS
    <2>1. Handled(draft'[d], task'[d]) /\ AtRest(task'[d])
      BY CompletesDone
    <2> QED
      BY <2>1, SettledDone DEF Busy
  <1>2. TypeInv /\ ClaimInv /\ RestInv /\ [Next]_vars => RestInv'
    BY NextRest
  <1> QED
    BY <1>1, <1>2, InitRest, ClaimInvariant, QuietCareful, TypesInvariant, PTL
       DEF Spec, CompleteMeansDone
=============================================================================
