------------------------- MODULE TaskDispatchProofs -------------------------
(***************************************************************************)
(* Proofs about TaskDispatch, for any number of tasks, owners and provider *)
(* jobs, any execution policy and any order of creations, looks and        *)
(* cancellations.                                                          *)
(*                                                                         *)
(* Any number of processes, with every fault and request allowed: type     *)
(* correctness, and that a reported success is a real one.                 *)
(*                                                                         *)
(* One process that never dies and whose writes and calls are answered:    *)
(* the queue keeps the promise of TaskLifecycle, and with it the policy    *)
(* and the word of a cancellation.                                         *)
(***************************************************************************)
EXTENDS TaskDispatch, FiniteSetTheorems, TLAPS

(* The type invariant, by the part of the state it is about.  TypeOK alone *)
(* is not inductive: a monitor or a section that works on a task must name *)
(* one, and the provider only answers about jobs it accepted.              *)
Refers == {"claimed", "release", "releasing", "gone", "failed"}

DbOK       == row \in [Task -> Rows] /\ older \subseteq Task \X Task /\ gen \in [Task -> Nat]
CopiesOK   == JOBS \in [App -> [Task -> Entries]]
MonOK      == /\ mon \in [App -> Monitors]
              /\ \A p \in App : mon[p].pc \in Refers => mon[p].task \in Task
LockOK     == /\ lock \in [App -> Locks]
              /\ \A p \in App : lock[p].op # "free" => lock[p].task \in Task
AskOK      == ask \in [App -> Asks]
ProviderOK == /\ job \in [Job -> ProviderJobs]
              /\ manifest \in [Task -> Job \cup {NoJob}]
              /\ \A j \in Job : job[j].known => job[j].state # "none"

TypeInv == DbOK /\ CopiesOK /\ MonOK /\ LockOK /\ AskOK /\ ProviderOK

-----------------------------------------------------------------------------
(* What the conversions between rows and copies yield.                     *)

LEMMA Constants ==
    /\ NoTask \notin Task /\ Batch \subseteq Task
    /\ MinAttempts \in Nat \ {0} /\ MaxGen \in Nat /\ MaxJobs \in Nat
    /\ Job \subseteq Nat \ {0}
    /\ LegacyJob \in [Task -> Job \cup {NoJob}]
    /\ \A s, t \in Task : LegacyJob[s] = LegacyJob[t] /\ LegacyJob[s] # NoJob => s = t
  BY TaskAssumption, AttemptsAssumption, BoundAssumption, LegacyAssumption
     DEF Job, NoJob

LEMMA RestoreType == ASSUME NEW r \in Rows PROVE Restore(r) \in Entries
  BY DEF Restore, Rows, Entries, TERMINAL_STATES

LEMMA RecordedType ==
    ASSUME NEW c \in Entries, NEW r \in Rows PROVE Recorded(c, r) \in Rows
  <1> DEFINE submitted == c.status \in ACTIVE_STATES \cup TERMINAL_STATES
             deferred  == IF submitted THEN FALSE ELSE r.deferred
             keep      == c.keep /\ c.outs = NoJob
             claim     == IF submitted THEN "none" ELSE r.claim
             outs      == IF c.outs # NoJob \/ ~c.keep THEN c.outs ELSE r.outs
  <1>1. deferred \in BOOLEAN
    BY DEF Rows
  <1>2. keep \in BOOLEAN
    OBVIOUS
  <1>3. claim \in {"none", "fresh", "stale"}
    BY DEF Rows
  <1>4. outs \in Job \cup {NoJob}
    BY DEF Rows, Entries
  <1>5. /\ c.status \in Status /\ c.job \in Job \cup {NoJob}
        /\ c.misses \in Misses /\ c.verdict \in Verdict
    BY DEF Entries
  <1>6. Recorded(c, r) = [ exists |-> TRUE, status |-> c.status, job |-> c.job,
                           claim |-> claim, deferred |-> deferred, outs |-> outs,
                           keep |-> keep, misses |-> c.misses, verdict |-> c.verdict ]
    BY DEF Recorded
  <1> HIDE DEF deferred, keep, claim, outs
  <1> QED
    BY <1>1, <1>2, <1>3, <1>4, <1>5, <1>6 DEF Rows

LEMMA EmptyTypes == /\ NoRow \in Rows /\ NewRow \in Rows
                    /\ NoEntry \in Entries /\ NewEntry \in Entries
                    /\ Unlocked \in Locks /\ Started \in Monitors
                    /\ NoSuchJob \in ProviderJobs /\ Quiet \in Asks
  <1>1. "PENDING_SUBMIT" \in Status /\ 0 \in Misses /\ "none" \in Verdict
    BY Constants DEF Status, PENDING_STATES, Misses, Verdict
  <1>2. NoRow \in Rows
    BY <1>1 DEF NoRow, Rows
  <1>3. NewRow \in Rows
    BY <1>2 DEF NewRow, Rows
  <1>4. NoEntry \in Entries
    BY <1>1 DEF NoEntry, Entries
  <1>5. NewEntry \in Entries
    BY <1>4 DEF NewEntry, Entries
  <1>6. Unlocked \in Locks
    BY DEF Unlocked, Locks, Answer
  <1>7. Started \in Monitors
    BY <1>1 DEF Started, Monitors, MonitorPc
  <1>8. NoSuchJob \in ProviderJobs
    BY DEF NoSuchJob, ProviderJobs
  <1>9. Quiet \in Asks
    BY <1>2 DEF Quiet, Asks
  <1> QED
    BY <1>2, <1>3, <1>4, <1>5, <1>6, <1>7, <1>8, <1>9

LEMMA ResetType ==
    ASSUME NEW r \in Rows, NEW s \in Rows, NEW b \in BOOLEAN PROVE Reset(r, s, b) \in Rows
  <1> DEFINE outs     == IF b \/ r.outs # s.outs THEN r.outs ELSE NoJob
             runs     == IF s.job = NoJob THEN r.job ELSE NoJob
             claim    == IF s.claim = "none" THEN r.claim ELSE "none"
             deferred == r.deferred /\ ~s.deferred
  <1>1. outs \in Job \cup {NoJob} /\ runs \in Job \cup {NoJob}
    BY DEF Rows
  <1>2. claim \in {"none", "fresh", "stale"} /\ deferred \in BOOLEAN
    BY DEF Rows
  <1>3. "PENDING_SUBMIT" \in Status /\ 0 \in Misses /\ "none" \in Verdict
    BY Constants DEF Status, PENDING_STATES, Misses, Verdict
  <1>4. Reset(r, s, b) = [ exists |-> TRUE, status |-> "PENDING_SUBMIT", job |-> runs,
                           claim |-> claim, deferred |-> deferred, outs |-> outs,
                           keep |-> b, misses |-> 0, verdict |-> "none" ]
    BY DEF Reset
  <1> HIDE DEF outs, runs, claim, deferred
  <1> QED
    BY <1>1, <1>2, <1>3, <1>4 DEF Rows

LEMMA StatusNames ==
    {"QUEUED", "IN_PROGRESS", "COMPLETED", "FAILED", "CANCELLED", "UNKNOWN"} \subseteq Status
  BY DEF Status, ACTIVE_STATES, TERMINAL_STATES

LEMMA OutcomeType ==
    ASSUME NEW c \in Entries, NEW status \in Status, NEW misses \in Misses,
           NEW verdict \in Verdict
    PROVE  [c EXCEPT !.status = status, !.misses = misses, !.verdict = verdict] \in Entries
  BY DEF Entries

LEMMA OutputType ==
    ASSUME NEW c \in Entries, NEW m \in Job \cup {NoJob}
    PROVE  [c EXCEPT !.outs = m] \in Entries
  BY DEF Entries

LEMMA LoadedType ==
    ASSUME DbOK, CopiesOK, NEW p \in App, NEW t \in Task
    PROVE  Loaded(p, t) \in Entries
  <1>1. JOBS[p][t] \in Entries /\ row[t] \in Rows
    BY DEF DbOK, CopiesOK
  <1> QED
    BY <1>1, RestoreType DEF Loaded

-----------------------------------------------------------------------------
(* What the steps the actions are made of do to each part.                 *)

LEMMA Frames ==
    /\ DbOK /\ UNCHANGED dbVars => DbOK'
    /\ CopiesOK /\ UNCHANGED JOBS => CopiesOK'
    /\ MonOK /\ UNCHANGED mon => MonOK'
    /\ LockOK /\ UNCHANGED lock => LockOK'
    /\ AskOK /\ UNCHANGED ask => AskOK'
    /\ ProviderOK /\ UNCHANGED providerVars => ProviderOK'
  BY DEF DbOK, dbVars, CopiesOK, MonOK, LockOK, AskOK, ProviderOK, providerVars

LEMMA RowsChange ==
    ASSUME DbOK, row' \in [Task -> Rows], UNCHANGED <<older, gen>> PROVE DbOK'
  BY DEF DbOK

LEMMA RecordType ==
    ASSUME DbOK, CopiesOK, NEW p \in App, NEW t \in Task, NEW c \in Entries,
           Record(p, t, c)
    PROVE  row' \in [Task -> Rows] /\ CopiesOK'
  <1>1. Recorded(c, row[t]) \in Rows
    BY RecordedType DEF DbOK
  <1> QED
    BY <1>1 DEF Record, DbOK, CopiesOK

LEMMA CacheType ==
    ASSUME DbOK, CopiesOK, NEW p \in App, NEW t \in Task, NEW c \in Entries,
           Cache(p, t, c)
    PROVE  row' \in [Task -> Rows] /\ CopiesOK'
  BY DEF Cache, DbOK, CopiesOK

LEMMA HoldType ==
    ASSUME LockOK, NEW p \in App, NEW t \in Task, NEW by \in {"monitor", "http"},
           NEW op \in {"post", "poll", "import", "cancel", "legacy", "recover"},
           NEW got \in Answer, NEW sub \in Job \cup {NoJob},
           Hold(p, by, op, t, got, sub)
    PROVE  LockOK'
  BY DEF Hold, LockOK, Locks

LEMMA UnlockType == ASSUME LockOK, NEW p \in App, Unlock(p) PROVE LockOK'
  BY EmptyTypes DEF Unlock, Unlocked, LockOK

LEMMA GotoType ==
    ASSUME MonOK, NEW p \in App, NEW pc \in MonitorPc, Goto(p, pc),
           pc \in Refers => mon[p].pc \in Refers
    PROVE  MonOK'
  BY DEF Goto, MonOK, Monitors

LEMMA GotoTaskType ==
    ASSUME MonOK, NEW p \in App, NEW pc \in MonitorPc, NEW t \in Task \cup {NoTask},
           mon' = [mon EXCEPT ![p].pc = pc, ![p].task = t],
           pc \in Refers => t \in Task
    PROVE  MonOK'
  BY DEF MonOK, Monitors

LEMMA DoneType == ASSUME MonOK, NEW p \in App, NEW t \in Task, Done(p, t) PROVE MonOK'
  <1> DEFINE pc == IF mon[p].todo \subseteq {t} THEN "dispatch" ELSE "poll"
             todo == mon[p].todo \ {t}
             m == [Started EXCEPT !.pc = pc, !.todo = todo]
  <1>1. pc \in {"dispatch", "poll"} /\ todo \in SUBSET Task
    BY DEF MonOK, Monitors
  <1>2. m \in Monitors /\ m.pc \notin Refers
    <2> HIDE DEF pc, todo
    <2> QED
      BY <1>1, EmptyTypes DEF Monitors, MonitorPc, Refers
  <1>3. mon' = [mon EXCEPT ![p] = m]
    BY DEF Done
  <1> HIDE DEF m
  <1> QED
    BY <1>2, <1>3 DEF MonOK

LEMMA SectionsType ==
    ASSUME DbOK, CopiesOK, LockOK, ProviderOK,
           NEW p \in App, NEW t \in Task, NEW by \in {"monitor", "http"},
           StatusSections(p, t, by)
    PROVE  LockOK'
  <1> DEFINE c == Loaded(p, t)
  <1>1. c \in Entries
    BY LoadedType
  <1>2. CASE UNCHANGED lock
    BY <1>2, Frames
  <1>3. CASE Hold(p, by, "import", t, "UNKNOWN", NoJob)
    BY <1>3, HoldType DEF Answer
  <1>4. ASSUME Known(c.job), NEW a \in Answers(c.job), Hold(p, by, "poll", t, a, NoJob)
        PROVE  LockOK'
    <2>1. c.job \in Job /\ job[c.job] \in ProviderJobs /\ job[c.job].state # "none"
      BY <1>1, <1>4 DEF Known, Entries, ProviderOK
    <2>2. a \in Answer
      BY <2>1, <1>4 DEF Answers, Answer, ProviderJobs
    <2> QED
      BY <2>2, <1>4, HoldType
  <1> QED
    BY <1>2, <1>3, <1>4 DEF StatusSections

LEMMA AcceptType ==
    ASSUME DbOK, ProviderOK, NEW j \in Job, NEW t \in Task, Accept(j, t),
           UNCHANGED manifest
    PROVE  ProviderOK'
  BY DEF Accept, DbOK, ProviderOK, ProviderJobs

-----------------------------------------------------------------------------
(* The monitor keeps the type invariant.                                   *)

LEMMA DispatchTypes ==
    ASSUME TypeInv, NEW p \in App,
           \/ RecoverReads(p) \/ RecoverWrites(p)
           \/ DispatchNothing(p)
           \/ \E t \in Task : ClaimNext(p, t)
           \/ \E j \in Job : DispatchPosts(p, j)
           \/ DispatchFails(p)
           \/ DispatchEnds(p)
           \/ ReleaseReads(p) \/ ReleaseSubmission(p)
    PROVE  TypeInv'
  <1> USE DEF TypeInv
  <1>1. CASE DispatchNothing(p)
    <2>1. MonOK'
      BY <1>1, GotoType DEF DispatchNothing, Refers, MonitorPc
    <2> QED
      BY <1>1, <2>1, Frames DEF DispatchNothing
  <1>2. ASSUME NEW t \in Task, ClaimNext(p, t) PROVE TypeInv'
    <2>1. ASSUME NEW r \in Rows
          PROVE [r EXCEPT !.status = "DISPATCHING", !.claim = "fresh"] \in Rows
      BY DEF Rows, Status, PENDING_STATES
    <2>2. row' \in [Task -> Rows]
      BY <1>2, <2>1 DEF ClaimNext, DbOK
    <2>3. MonOK'
      BY <1>2, GotoTaskType DEF ClaimNext, MonitorPc
    <2> QED
      BY <1>2, <2>2, <2>3, RowsChange, Frames DEF ClaimNext
  <1>3. ASSUME NEW j \in Job, DispatchPosts(p, j) PROVE TypeInv'
    <2> DEFINE t == mon[p].task  c == Restore(row[t])
    <2>1. t \in Task
      BY <1>3 DEF DispatchPosts, MonitorAt, MonOK, Refers
    <2>2. c \in Entries
      BY <2>1, RestoreType DEF DbOK
    <2>3. Cache(p, t, c) /\ Accept(j, t) /\ UNCHANGED <<older, gen, ask, manifest>>
      BY <1>3 DEF DispatchPosts
    <2>4. DbOK' /\ CopiesOK' /\ ProviderOK'
      BY <2>1, <2>2, <2>3, CacheType, RowsChange, AcceptType
    <2>5. CASE /\ Hold(p, "monitor", "post", t, "UNKNOWN", j)
               /\ mon' = [mon EXCEPT ![p].pc = "legacy", ![p].task = NoTask]
      <3>1. LockOK'
        BY <2>1, <2>5, HoldType DEF Answer
      <3>2. MonOK'
        BY <2>5, GotoTaskType DEF MonitorPc, Refers
      <3> QED
        BY <2>3, <2>4, <3>1, <3>2, Frames
    <2>6. CASE Goto(p, "release") /\ UNCHANGED lock
      <3>1. MonOK'
        BY <1>3, <2>6, GotoType DEF DispatchPosts, MonitorAt, MonitorPc, Refers
      <3> QED
        BY <2>3, <2>4, <2>6, <3>1, Frames
    <2> QED
      BY <1>3, <2>5, <2>6 DEF DispatchPosts
  <1>4. CASE DispatchFails(p)
    <2> DEFINE t == mon[p].task  c == Restore(row[t])
    <2>1. t \in Task
      BY <1>4 DEF DispatchFails, MonitorAt, MonOK, Refers
    <2>2. c \in Entries
      BY <2>1, RestoreType DEF DbOK
    <2>3. \/ Cache(p, t, c) /\ UNCHANGED <<older, gen>>
          \/ UNCHANGED <<JOBS, row, older, gen>>
      BY <1>4 DEF DispatchFails
    <2>4. DbOK' /\ CopiesOK'
      BY <2>1, <2>2, <2>3, CacheType, RowsChange, Frames DEF dbVars
    <2>5. MonOK'
      BY <1>4, GotoType DEF DispatchFails, MonitorAt, MonitorPc, Refers
    <2> QED
      BY <1>4, <2>4, <2>5, Frames DEF DispatchFails
  <1>5. CASE DispatchEnds(p)
    <2> DEFINE t == lock[p].task
               c == [JOBS[p][t] EXCEPT !.status = "QUEUED", !.job = lock[p].sub]
    <2>1. t \in Task
      BY <1>5 DEF DispatchEnds, LockOK
    <2>2. c \in Entries
      <3>1. JOBS[p][t] \in Entries /\ lock[p].sub \in Job \cup {NoJob}
        BY <2>1 DEF CopiesOK, LockOK, Locks
      <3> QED
        BY <3>1, StatusNames DEF Entries
    <2>3. DbOK' /\ CopiesOK' /\ LockOK'
      BY <1>5, <2>1, <2>2, RecordType, RowsChange, UnlockType DEF DispatchEnds
    <2> QED
      BY <1>5, <2>3, Frames DEF DispatchEnds
  <1>6. ASSUME NEW r \in Rows
        PROVE  /\ [r EXCEPT !.status = "PENDING_SUBMIT", !.claim = "none"] \in Rows
               /\ [r EXCEPT !.status = "PENDING_SUBMIT", !.claim = "none", !.deferred = TRUE] \in Rows
    BY DEF Rows, Status, PENDING_STATES
  <1>7. CASE ReleaseSubmission(p)
    <2>1. row' \in [Task -> Rows]
      BY <1>6, <1>7 DEF ReleaseSubmission, DbOK
    <2>2. MonOK'
      <3>1. [Started EXCEPT !.pc = "legacy"] \in Monitors
        BY EmptyTypes DEF Monitors, MonitorPc
      <3> QED
        BY <1>7, <3>1 DEF ReleaseSubmission, MonOK, Refers, Started
    <2> QED
      BY <1>7, <2>1, <2>2, RowsChange, Frames DEF ReleaseSubmission
  <1>8. CASE ReleaseReads(p)
    <2>1. mon[p].task \in Task /\ row[mon[p].task].status \in Status
      BY <1>8 DEF ReleaseReads, MonitorAt, MonOK, Refers, DbOK, Rows
    <2>2. MonOK'
      BY <1>8, <2>1 DEF ReleaseReads, MonOK, Monitors, MonitorPc
    <2> QED
      BY <1>8, <2>2, Frames DEF ReleaseReads
  <1>9. CASE RecoverReads(p)
    <2>1. StaleRows \subseteq Task
      BY DEF StaleRows
    <2>2. MonOK'
      BY <1>9, <2>1 DEF RecoverReads, MonOK, Monitors, MonitorPc, Refers
    <2> QED
      BY <1>9, <2>2, Frames DEF RecoverReads
  <1>10. CASE RecoverWrites(p)
    <2>1. row' \in [Task -> Rows]
      BY <1>6, <1>10 DEF RecoverWrites, DbOK
    <2>2. MonOK'
      BY <1>10 DEF RecoverWrites, MonOK, Monitors, MonitorPc, Refers
    <2> QED
      BY <1>10, <2>1, <2>2, RowsChange, Frames DEF RecoverWrites
  <1> QED
    BY <1>1, <1>2, <1>3, <1>4, <1>5, <1>7, <1>8, <1>9, <1>10

LEMMA OutputsType ==
    ASSUME ProviderOK, CopiesOK, NEW p \in App, NEW t \in Task
    PROVE  Imports(t) \subseteq Job \cup {NoJob} /\ Outputs(p, t) \subseteq Job \cup {NoJob}
  <1>1. manifest[t] \in Job \cup {NoJob} /\ JOBS[p][t].outs \in Job \cup {NoJob}
    BY DEF ProviderOK, CopiesOK, Entries
  <1> QED
    BY <1>1 DEF Imports, Outputs

LEMMA RecoversType ==
    ASSUME TypeInv, NEW p \in App, NEW t \in Task, NEW m \in Outputs(p, t),
           RecoversFrom(p, t, m)
    PROVE  row' \in [Task -> Rows] /\ CopiesOK' /\ LockOK'
  <1> USE DEF TypeInv
  <1>1. JOBS[p][t] \in Entries /\ m \in Job \cup {NoJob}
    BY OutputsType DEF CopiesOK
  <1>2. [JOBS[p][t] EXCEPT !.outs = m] \in Entries
    BY <1>1, OutputType
  <1>3. row' \in [Task -> Rows] /\ CopiesOK'
    BY <1>2, RecordType, Frames DEF RecoversFrom, DbOK
  <1>4. LockOK'
    BY HoldType DEF RecoversFrom, Answer
  <1> QED
    BY <1>3, <1>4

LEMMA SectionTypes ==
    ASSUME TypeInv, NEW p \in App,
           PollEnds(p) \/ ImportEnds(p) \/ LegacyEnds(p) \/ RecoverEnds(p) \/ CancelEnds(p)
    PROVE  TypeInv'
  <1> USE DEF TypeInv
  <1> DEFINE t == lock[p].task
             c == JOBS[p][t]
  <1>1. t \in Task /\ c \in Entries
    BY DEF PollEnds, ImportEnds, LegacyEnds, RecoverEnds, CancelEnds, LockOK, CopiesOK
  <1>2. 0 \in Misses /\ "none" \in Verdict /\ "final" \in Verdict
    BY Constants DEF Misses, Verdict
  <1>3. ASSUME NEW status \in Status
        PROVE [c EXCEPT !.status = status, !.misses = 0, !.verdict = "none"] \in Entries
    BY <1>1, <1>2, OutcomeType
  <1>4. CASE PollEnds(p)
    <2> DEFINE d == [c EXCEPT !.status = lock[p].got, !.misses = 0, !.verdict = "none"]
    <2>1. lock[p].got \in Status
      BY StatusNames DEF LockOK, Locks, Answer
    <2>2. Record(p, t, d) /\ d \in Entries
      BY <1>3, <1>4, <2>1 DEF PollEnds
    <2>3. DbOK' /\ CopiesOK'
      BY <1>1, <1>4, <2>2, RecordType, RowsChange DEF PollEnds
    <2>4. LockOK'
      <3>1. CASE lock' = [lock EXCEPT ![p].op = "import"]
        BY <1>1, <3>1 DEF LockOK, Locks
      <3> QED
        BY <1>4, <3>1, UnlockType DEF PollEnds
    <2> QED
      BY <1>4, <2>3, <2>4, Frames DEF PollEnds
  <1>5. CASE ImportEnds(p)
    <2>1. PICK m \in Imports(t) : Record(p, t, [c EXCEPT !.outs = m])
      BY <1>5 DEF ImportEnds
    <2>2. [c EXCEPT !.outs = m] \in Entries
      BY <1>1, OutputsType, OutputType
    <2>3. DbOK' /\ CopiesOK' /\ LockOK'
      BY <1>1, <1>5, <2>1, <2>2, RecordType, RowsChange, UnlockType DEF ImportEnds
    <2> QED
      BY <1>5, <2>3, Frames DEF ImportEnds
  <1>6. CASE LegacyEnds(p)
    <2> DEFINE d == [c EXCEPT !.status = "FAILED", !.misses = 0, !.verdict = "final"]
    <2>1. PICK m \in Outputs(p, t) :
             RecoversFrom(p, t, m) \/ (Record(p, t, d) /\ Unlock(p))
      BY <1>6 DEF LegacyEnds
    <2>2. d \in Entries
      BY <1>1, <1>2, OutcomeType, StatusNames
    <2>3. row' \in [Task -> Rows] /\ CopiesOK' /\ LockOK'
      BY <1>1, <2>1, <2>2, RecoversType, RecordType, UnlockType
    <2> QED
      BY <1>6, <2>3, RowsChange, Frames DEF LegacyEnds
  <1>7. CASE RecoverEnds(p)
    <2>1. [c EXCEPT !.status = "COMPLETED", !.misses = 0, !.verdict = "none"] \in Entries
      BY <1>3, StatusNames
    <2>2. DbOK' /\ CopiesOK' /\ LockOK'
      BY <1>1, <1>7, <2>1, RecordType, RowsChange, UnlockType DEF RecoverEnds
    <2> QED
      BY <1>7, <2>2, Frames DEF RecoverEnds
  <1>8. CASE CancelEnds(p)
    <2>1. [c EXCEPT !.status = "CANCELLED", !.misses = 0, !.verdict = "none"] \in Entries
      BY <1>3, StatusNames
    <2>2. DbOK' /\ CopiesOK' /\ LockOK'
      BY <1>1, <1>8, <2>1, RecordType, RowsChange, UnlockType DEF CancelEnds
    <2> QED
      BY <1>8, <2>2, Frames DEF CancelEnds
  <1> QED
    BY <1>4, <1>5, <1>6, <1>7, <1>8

LEMMA ClaimType ==
    ASSUME NEW r \in Rows, NEW claim \in {"none", "fresh", "stale"}
    PROVE  [r EXCEPT !.claim = claim] \in Rows
  BY DEF Rows

LEMMA RefreshTypes ==
    ASSUME TypeInv, NEW p \in App,
           \/ ClaimLegacy(p)
           \/ \E t \in Task : LegacyReads(p, t)
           \/ ClaimActive(p)
           \/ \E t \in Task : MonitorReads(p, t) \/ MonitorMisses(p, t) \/ MonitorFails(p, t)
           \/ ReleaseActiveClaim(p)
           \/ Reconcile(p)
    PROVE  TypeInv'
  <1> USE DEF TypeInv
  <1>1. ASSUME NEW S, row' = [t \in Task |-> IF t \in S
                                            THEN [row[t] EXCEPT !.claim = "fresh"]
                                            ELSE row[t]]
        PROVE row' \in [Task -> Rows]
    BY <1>1, ClaimType DEF DbOK
  <1>2. CASE ClaimLegacy(p)
    <2> DEFINE pc == IF LegacyRows = {} THEN "active" ELSE "relegacy"
    <2>1. row' \in [Task -> Rows]
      BY <1>1, <1>2 DEF ClaimLegacy
    <2>2. pc \in {"active", "relegacy"} /\ LegacyRows \in SUBSET Task
      BY DEF LegacyRows
    <2>3. MonOK'
      <3> DEFINE m == [mon[p] EXCEPT !.pc = pc, !.todo = LegacyRows, !.skip = LegacyRows]
      <3>1. mon' = [mon EXCEPT ![p] = m]
        BY <1>2 DEF ClaimLegacy, MonOK
      <3>2. m \in Monitors /\ m.pc \notin Refers
        <4> HIDE DEF pc
        <4> QED
          BY <2>2 DEF MonOK, Monitors, MonitorPc, Refers
      <3> HIDE DEF m
      <3> QED
        BY <3>1, <3>2 DEF MonOK
    <2> QED
      BY <1>2, <2>1, <2>3, RowsChange, Frames DEF ClaimLegacy
  <1>3. ASSUME NEW t \in Task, LegacyReads(p, t) PROVE TypeInv'
    <2> DEFINE pc == IF mon[p].todo = {t} THEN "active" ELSE "relegacy"
    <2>1. Restore(row[t]) \in Entries
      BY RestoreType DEF DbOK
    <2>2. DbOK' /\ CopiesOK'
      BY <1>3, <2>1, CacheType, RowsChange DEF LegacyReads
    <2>3. LockOK'
      BY <1>3, HoldType DEF LegacyReads, Answer
    <2>4. MonOK'
      <3>1. mon' = [mon EXCEPT ![p].pc = pc, ![p].todo = mon[p].todo \ {t}]
        BY <1>3 DEF LegacyReads
      <3>2. pc \in {"active", "relegacy"}
        OBVIOUS
      <3> HIDE DEF pc
      <3> QED
        BY <3>1, <3>2 DEF MonOK, Monitors, MonitorPc, Refers
    <2> QED
      BY <1>3, <2>2, <2>3, <2>4, Frames DEF LegacyReads
  <1>4. CASE ClaimActive(p)
    <2> DEFINE ids == (ActiveRows \cup ImportRows) \ mon[p].skip
               pc == IF ids = {} THEN "dispatch" ELSE "poll"
               m == [Started EXCEPT !.pc = pc, !.todo = ids]
    <2>1. row' \in [Task -> Rows]
      BY <1>1, <1>4 DEF ClaimActive
    <2>2. pc \in {"dispatch", "poll"} /\ ids \in SUBSET Task
      BY DEF ActiveRows, ImportRows
    <2>3. m \in Monitors /\ m.pc \notin Refers
      <3> HIDE DEF pc, ids
      <3> QED
        BY <2>2, EmptyTypes DEF Monitors, MonitorPc, Refers
    <2>4. mon' = [mon EXCEPT ![p] = m]
      BY <1>4 DEF ClaimActive
    <2>5. MonOK'
      <3> HIDE DEF m
      <3> QED
        BY <2>3, <2>4 DEF MonOK
    <2> QED
      BY <1>4, <2>1, <2>5, RowsChange, Frames DEF ClaimActive
  <1>5. ASSUME NEW t \in Task, Cache(p, t, Loaded(p, t)), UNCHANGED <<older, gen>>
        PROVE DbOK' /\ CopiesOK'
    BY <1>5, LoadedType, CacheType, RowsChange
  <1>6. ASSUME NEW t \in Task, MonitorReads(p, t) PROVE TypeInv'
    BY <1>5, <1>6, SectionsType, DoneType, Frames DEF MonitorReads
  <1>7. ASSUME NEW t \in Task, MonitorMisses(p, t) PROVE TypeInv'
    BY <1>5, <1>7, GotoTaskType, Frames DEF MonitorMisses, MonitorPc
  <1>8. ASSUME NEW t \in Task, MonitorFails(p, t) PROVE TypeInv'
    BY <1>5, <1>8, GotoTaskType, Frames DEF MonitorFails, MonitorPc
  <1>9. CASE ReleaseActiveClaim(p)
    <2>1. mon[p].task \in Task
      BY <1>9 DEF ReleaseActiveClaim, MonitorAt, MonOK, Refers
    <2>2. row' \in [Task -> Rows]
      BY <1>9, <2>1, ClaimType DEF ReleaseActiveClaim, DbOK
    <2> QED
      BY <1>9, <2>1, <2>2, DoneType, RowsChange, Frames DEF ReleaseActiveClaim
  <1>10. CASE Reconcile(p)
    <2> DEFINE t == mon[p].task
               c == JOBS[p][t]
               attempts == IF c.misses < MinAttempts THEN c.misses + 1 ELSE MinAttempts
               open == IF c.status \in TERMINAL_STATES THEN "IN_PROGRESS" ELSE c.status
    <2>1. t \in Task
      BY <1>10 DEF Reconcile, MonitorAt, MonOK, Refers
    <2>2. c \in Entries
      BY <2>1 DEF CopiesOK
    <2>3. attempts \in Misses
      BY <2>2, Constants DEF Entries, Misses
    <2>4. open \in Status
      BY <2>2, StatusNames DEF Entries
    <2>5. [c EXCEPT !.status = open, !.misses = attempts, !.verdict = "none"] \in Entries
      <3>1. "none" \in Verdict
        BY DEF Verdict
      <3> HIDE DEF open, attempts, c
      <3> QED
        BY <2>2, <2>3, <2>4, <3>1, OutcomeType
    <2>6. [c EXCEPT !.status = "FAILED", !.misses = 0, !.verdict = "final"] \in Entries
      <3>1. "final" \in Verdict /\ 0 \in Misses
        BY Constants DEF Verdict, Misses
      <3> QED
        BY <2>2, <3>1, StatusNames, OutcomeType
    <2>7. PICK m \in Outputs(p, t) :
             \/ RecoversFrom(p, t, m)
             \/ /\ \/ Record(p, t, [c EXCEPT !.status = open, !.misses = attempts,
                                               !.verdict = "none"])
                   \/ Record(p, t, [c EXCEPT !.status = "FAILED", !.misses = 0,
                                            !.verdict = "final"])
                /\ UNCHANGED lock
      BY <1>10 DEF Reconcile
    <2>8. row' \in [Task -> Rows] /\ CopiesOK' /\ LockOK'
      <3> HIDE DEF open, attempts, c
      <3> QED
        BY <2>1, <2>5, <2>6, <2>7, RecoversType, RecordType, Frames
    <2> QED
      BY <1>10, <2>1, <2>8, DoneType, RowsChange, Frames DEF Reconcile
  <1> QED
    BY <1>2, <1>3, <1>4, <1>6, <1>7, <1>8, <1>9, <1>10

-----------------------------------------------------------------------------
(* So do the handlers, the provider, time and a crash.                     *)

LEMMA RequeueType ==
    ASSUME DbOK, NEW seen \in [Task -> Rows], NEW preserve \in BOOLEAN, Requeue(seen, preserve)
    PROVE  DbOK'
  <1>1. row' \in [Task -> Rows]
    <2>1. \A t \in Task : Reset(row[t], seen[t], preserve) \in Rows
      BY ResetType DEF DbOK
    <2> QED
      BY <2>1 DEF Requeue, DbOK
  <1>2. gen' \in [Task -> Nat]
    BY DEF Requeue, DbOK
  <1>3. older' \subseteq Task \X Task
    <2>1. PICK S : S = Asked(seen)
      OBVIOUS
    <2>2. S \subseteq Task /\ older' = Youngest(S)
      BY <2>1 DEF Asked, Requeue
    <2> QED
      BY <2>2 DEF DbOK, Youngest
  <1> QED
    BY <1>1, <1>2, <1>3 DEF DbOK

LEMMA LoadType == ASSUME DbOK, NEW S \in SUBSET Task PROVE Load(S) \in [Task -> Rows]
  BY EmptyTypes DEF Load, DbOK

LEMMA AskType ==
    ASSUME AskOK, NEW p \in App, NEW op \in {"none", "rework", "bulk", "publish"},
           NEW seen \in [Task -> Rows], ask' = [ask EXCEPT ![p] = [op |-> op, seen |-> seen]]
    PROVE  AskOK'
  BY DEF AskOK, Asks

LEMMA QuietType ==
    ASSUME AskOK, NEW p \in App, ask' = [ask EXCEPT ![p] = Quiet] PROVE AskOK'
  BY EmptyTypes DEF AskOK

LEMMA HandlerTypes ==
    ASSUME TypeInv, NEW p \in App,
           \/ \E t \in Task : \/ Create(p, t) \/ GetStatus(p, t) \/ CancelStarts(p, t)
                              \/ ReworkReads(p, t)
           \/ \E S \in SUBSET Task : BulkReads(p, S)
           \/ ReworkWrites(p) \/ ReworkPublished(p) \/ BulkWrites(p)
    PROVE  TypeInv'
  <1> USE DEF TypeInv
  <1>1. ASSUME NEW t \in Task, Create(p, t) PROVE TypeInv'
    <2>1. CASE Cache(p, t, Restore(row[t])) /\ UNCHANGED <<older, gen>>
      <3>1. Restore(row[t]) \in Entries
        BY RestoreType DEF DbOK
      <3> QED
        BY <1>1, <2>1, <3>1, CacheType, RowsChange, Frames DEF Create
    <2>2. CASE Record(p, t, NewEntry) /\ gen' = [gen EXCEPT ![t] = 1] /\ older' = Youngest({t})
      <3>1. row' \in [Task -> Rows] /\ CopiesOK'
        BY <2>2, EmptyTypes, RecordType
      <3>2. DbOK'
        BY <2>2, <3>1 DEF DbOK, Youngest
      <3> QED
        BY <1>1, <3>1, <3>2, Frames DEF Create
    <2> QED
      BY <1>1, <2>1, <2>2 DEF Create
  <1>2. ASSUME NEW t \in Task, GetStatus(p, t) PROVE TypeInv'
    BY <1>2, LoadedType, CacheType, RowsChange, SectionsType, Frames DEF GetStatus
  <1>3. ASSUME NEW t \in Task, CancelStarts(p, t) PROVE TypeInv'
    <2> DEFINE c == Loaded(p, t)
               d == [c EXCEPT !.status = "CANCELLED", !.misses = 0, !.verdict = "none"]
    <2>1. c \in Entries
      BY LoadedType
    <2>2. d \in Entries
      <3>1. 0 \in Misses /\ "none" \in Verdict
        BY Constants DEF Misses, Verdict
      <3> HIDE DEF c
      <3> QED
        BY <2>1, <3>1, OutcomeType, StatusNames
    <2>3. \/ Cache(p, t, c) /\ StatusSections(p, t, "http") /\ UNCHANGED job
          \/ Record(p, t, d) /\ UNCHANGED <<lock, job>>
          \/ /\ Cache(p, t, c) /\ Hold(p, "http", "cancel", t, "UNKNOWN", NoJob)
             /\ Known(c.job)
             /\ job' = IF job[c.job].state = "IN_PROGRESS"
                       THEN [job EXCEPT ![c.job].state = "CANCELLED"] ELSE job
          \/ Cache(p, t, c) /\ UNCHANGED <<lock, job>>
      BY <1>3 DEF CancelStarts
    <2>4. DbOK' /\ CopiesOK'
      <3> HIDE DEF c, d
      <3> QED
        BY <1>3, <2>1, <2>2, <2>3, CacheType, RecordType, RowsChange DEF CancelStarts
    <2>5. LockOK'
      BY <2>3, SectionsType, HoldType, Frames DEF Answer
    <2>6. ProviderOK'
      <3>1. CASE UNCHANGED job
        BY <1>3, <3>1, Frames DEF CancelStarts, providerVars
      <3>2. CASE job' = [job EXCEPT ![c.job].state = "CANCELLED"]
        <4> DEFINE i == c.job
        <4>1. manifest' = manifest /\ job' = [job EXCEPT ![i].state = "CANCELLED"]
          BY <1>3, <3>2 DEF CancelStarts
        <4> HIDE DEF i
        <4> QED
          BY <4>1 DEF ProviderOK, ProviderJobs
      <3> QED
        BY <2>3, <3>1, <3>2
    <2> QED
      BY <1>3, <2>4, <2>5, <2>6, Frames DEF CancelStarts
  <1>4. ask[p].seen \in [Task -> Rows]
    BY DEF AskOK, Asks
  <1>5. ASSUME NEW t \in Task, ReworkReads(p, t) PROVE TypeInv'
    <2>1. Load({t}) \in [Task -> Rows]
      BY LoadType
    <2>2. AskOK'
      BY <1>5, <2>1, AskType DEF ReworkReads
    <2> QED
      BY <1>5, <2>2, Frames DEF ReworkReads
  <1>6. ASSUME NEW S \in SUBSET Task, BulkReads(p, S) PROVE TypeInv'
    <2>1. Load(S) \in [Task -> Rows]
      BY LoadType
    <2>2. AskOK'
      BY <1>6, <2>1, AskType DEF BulkReads
    <2> QED
      BY <1>6, <2>2, Frames DEF BulkReads
  <1>7. CASE ReworkWrites(p)
    <2>1. DbOK'
      BY <1>4, <1>7, RequeueType DEF ReworkWrites
    <2> DEFINE seen == [t \in Task |-> IF t \in Asked(ask[p].seen) THEN row'[t] ELSE NoRow]
    <2>2. seen \in [Task -> Rows]
      BY <2>1, EmptyTypes DEF DbOK
    <2>3. ask' = [ask EXCEPT ![p] = [op |-> "publish", seen |-> seen]]
      BY <1>7 DEF ReworkWrites
    <2> HIDE DEF seen
    <2>4. AskOK'
      BY <2>2, <2>3, AskType
    <2> QED
      BY <1>7, <2>1, <2>4, Frames DEF ReworkWrites
  <1>8. CASE ReworkPublished(p)
    <2>1. PICK t \in Asked(ask[p].seen) :
             \E c \in {Restore(ask[p].seen[t]), Restore(row[t])} : Cache(p, t, c)
      BY <1>8 DEF ReworkPublished
    <2>2. PICK c \in {Restore(ask[p].seen[t]), Restore(row[t])} : Cache(p, t, c)
      BY <2>1
    <2>3. t \in Task /\ c \in Entries
      BY <1>4, <2>1, <2>2, RestoreType DEF DbOK, Asked
    <2>4. DbOK' /\ CopiesOK'
      BY <1>8, <2>2, <2>3, CacheType, RowsChange DEF ReworkPublished
    <2>5. AskOK'
      BY <1>8, QuietType DEF ReworkPublished
    <2> QED
      BY <1>8, <2>4, <2>5, Frames DEF ReworkPublished
  <1>9. CASE BulkWrites(p)
    <2>1. DbOK'
      BY <1>4, <1>9, RequeueType DEF BulkWrites
    <2>2. AskOK'
      BY <1>9, QuietType DEF BulkWrites
    <2> QED
      BY <1>9, <2>1, <2>2, Frames DEF BulkWrites
  <1> QED
    BY <1>1, <1>2, <1>3, <1>5, <1>6, <1>7, <1>8, <1>9

LEMMA ProviderTypes == ASSUME TypeInv, Provider PROVE TypeInv'
  <1> USE DEF TypeInv
  <1>1. ASSUME NEW j \in Job, NEW outcome \in {"COMPLETED", "FAILED"}, JobEnds(j, outcome)
        PROVE TypeInv'
    <2>1. job' \in [Job -> ProviderJobs]
      <3>1. PICK wrote \in BOOLEAN : job' = [job EXCEPT ![j].state = outcome, ![j].wrote = wrote]
        BY <1>1, Zenon DEF JobEnds
      <3> QED
        BY <3>1 DEF ProviderOK, ProviderJobs
    <2>2. manifest' \in [Task -> Job \cup {NoJob}]
      BY <1>1 DEF JobEnds, ProviderOK
    <2>3. \A i \in Job : job'[i].known => job'[i].state # "none"
      BY <1>1 DEF JobEnds, ProviderOK, ProviderJobs
    <2> QED
      BY <1>1, <2>1, <2>2, <2>3, Frames DEF JobEnds, ProviderOK
  <1>2. ASSUME NEW j \in Job, PublishManifest(j) PROVE TypeInv'
    <2>1. ProviderOK'
      BY <1>2 DEF PublishManifest, ProviderOK, ProviderJobs
    <2> QED
      BY <1>2, <2>1, Frames DEF PublishManifest
  <1>3. ASSUME NEW j \in Job, Forget(j) PROVE TypeInv'
    <2>1. ProviderOK'
      BY <1>3 DEF Forget, ProviderOK, ProviderJobs
    <2> QED
      BY <1>3, <2>1, Frames DEF Forget
  <1> QED
    BY <1>1, <1>2, <1>3 DEF Provider

LEMMA TimeTypes == ASSUME TypeInv, Time PROVE TypeInv'
  <1> USE DEF TypeInv
  <1>1. ASSUME NEW t \in Task, ClaimAges(t) PROVE TypeInv'
    BY <1>1, ClaimType, Frames DEF ClaimAges, DbOK
  <1>2. ASSUME NEW t \in Task, DeferralEnds(t) PROVE TypeInv'
    <2>1. row' \in [Task -> Rows]
      BY <1>2 DEF DeferralEnds, DbOK, Rows
    <2> QED
      BY <1>2, <2>1, RowsChange, Frames DEF DeferralEnds
  <1> QED
    BY <1>1, <1>2 DEF Time

LEMMA CrashTypes == ASSUME TypeInv, NEW p \in App, Crash(p) PROVE TypeInv'
  <1>1. CopiesOK' /\ MonOK' /\ LockOK' /\ AskOK'
    BY EmptyTypes DEF TypeInv, Crash, CopiesOK, MonOK, LockOK, AskOK, Started, Unlocked, Refers
  <1> QED
    BY <1>1, Frames DEF TypeInv, Crash

-----------------------------------------------------------------------------
(* Type correctness.                                                       *)

LEMMA InitTypes == Init => TypeInv
  <1> SUFFICES ASSUME Init PROVE TypeInv
    OBVIOUS
  <1>1. ASSUME NEW t \in Task, LegacyJob[t] # NoJob PROVE LegacyRow(LegacyJob[t]) \in Rows
    <2>1. LegacyJob[t] \in Job
      BY <1>1, Constants
    <2>2. "legacy" \in Verdict
      BY DEF Verdict
    <2> QED
      BY <2>1, <2>2, EmptyTypes, StatusNames DEF LegacyRow, Rows
  <1>2. DbOK
    BY <1>1, EmptyTypes DEF Init, DbOK
  <1>3. CopiesOK /\ MonOK /\ LockOK /\ AskOK
    BY EmptyTypes DEF Init, CopiesOK, MonOK, LockOK, AskOK, Started, Unlocked, Refers
  <1>4. ASSUME NEW t \in Task
        PROVE ForgottenJob(t) \in ProviderJobs /\ ~ForgottenJob(t).known
    BY <1>4 DEF ForgottenJob, ProviderJobs
  <1>5. ASSUME NEW j \in Job, \E t \in Task : LegacyJob[t] = j
        PROVE (CHOOSE t \in Task : LegacyJob[t] = j) \in Task
    BY <1>5
  <1>6. ASSUME NEW j \in Job PROVE job[j] \in ProviderJobs /\ ~job[j].known
    BY <1>4, <1>5, EmptyTypes DEF Init, NoSuchJob
  <1>7. ProviderOK
    BY <1>6 DEF Init, ProviderOK
  <1> QED
    BY <1>2, <1>3, <1>7 DEF TypeInv

LEMMA NextTypes == TypeInv /\ [Next]_vars => TypeInv'
  <1> SUFFICES ASSUME TypeInv, [Next]_vars PROVE TypeInv'
    OBVIOUS
  <1>1. CASE UNCHANGED vars
    BY <1>1, Frames DEF vars, TypeInv, dbVars, providerVars
  <1>2. ASSUME NEW p \in App, Monitor(p) PROVE TypeInv'
    BY <1>2, DispatchTypes, RefreshTypes DEF Monitor
  <1>3. ASSUME NEW p \in App, SectionEnds(p) PROVE TypeInv'
    BY <1>3, DispatchTypes, SectionTypes DEF SectionEnds
  <1>4. ASSUME NEW p \in App, Handler(p) PROVE TypeInv'
    BY <1>4, SectionTypes, HandlerTypes DEF Handler
  <1>5. ASSUME NEW t \in Task, DraftRequeue(t) PROVE TypeInv'
    <2>1. Load({t}) \in [Task -> Rows]
      BY LoadType DEF TypeInv
    <2> QED
      BY <1>5, <2>1, RequeueType, Frames DEF DraftRequeue, TypeInv
  <1> QED
    BY <1>1, <1>2, <1>3, <1>4, <1>5, CrashTypes, ProviderTypes, TimeTypes DEF Next

(* Every value the system stores has its type, and whatever works on a     *)
(* task, a monitor or a section under the lock, names one.                 *)
THEOREM TypesInvariant == Spec => []TypeInv
  BY InitTypes, NextTypes, PTL DEF Spec

(* Rows, copies, claims, sections and provider jobs keep their types under *)
(* every interleaving of the monitors, the handlers and the provider.      *)
THEOREM TypeCorrect == Spec => []TypeOK
  <1>1. TypeInv => TypeOK
    BY DEF TypeInv, TypeOK, DbOK, CopiesOK, MonOK, LockOK, AskOK, ProviderOK
  <1> QED
    BY <1>1, TypesInvariant, PTL

-----------------------------------------------------------------------------
(* A reported success is real.  SuccessIsReal speaks of rows; what makes   *)
(* it inductive is that everything a row may be overwritten with is just   *)
(* as honest: the copies of every process, the manifests, what the         *)
(* sections that wait for a call remember, and the rows requests loaded.   *)

Completed(J, t) == \E j \in Job : J[j].task = t /\ J[j].state = "COMPLETED"
Published(J, t, m) == m # NoJob =>
    m \in Job /\ J[m].task = t /\ J[m].state = "COMPLETED" /\ J[m].wrote
Accepted(J, t, m) == m # NoJob =>
    m \in Job /\ J[m].task = t /\ J[m].state # "none"

(* r is a row or a copy of task t. *)
Honest(J, t, r) == /\ r.status = "COMPLETED" => Completed(J, t)
                   /\ Published(J, t, r.outs)
                   /\ Accepted(J, t, r.job)

HonestRows   == \A t \in Task : Honest(job, t, row[t])
HonestCopies == \A p \in App, t \in Task : Honest(job, t, JOBS[p][t])
HonestLocks  == \A p \in App :
    /\ lock[p].op = "post" => Accepted(job, lock[p].task, lock[p].sub)
    /\ lock[p].op = "poll" /\ lock[p].got = "COMPLETED" => Completed(job, lock[p].task)
    /\ lock[p].op = "recover" => Completed(job, lock[p].task)
HonestProvider ==
    /\ \A j \in Job : job[j].wrote => job[j].state = "COMPLETED"
    /\ \A t \in Task : Published(job, t, manifest[t])

HonestAsks == \A p \in App, t \in Task : Honest(job, t, ask[p].seen[t])

Truth == HonestRows /\ HonestCopies /\ HonestLocks /\ HonestProvider

(* What is known of the provider's jobs stays true. *)
Grows(J, K) == \A j \in Job : J[j].state # "none" =>
    /\ K[j].task = J[j].task /\ K[j].state # "none"
    /\ J[j].state = "COMPLETED" => K[j].state = "COMPLETED"
    /\ J[j].wrote => K[j].wrote

LEMMA GrowsKeeps ==
    ASSUME NEW J, NEW K, Grows(J, K), NEW t
    PROVE  /\ Completed(J, t) => Completed(K, t)
           /\ \A m : Published(J, t, m) => Published(K, t, m)
           /\ \A m : Accepted(J, t, m) => Accepted(K, t, m)
           /\ \A r : Honest(J, t, r) => Honest(K, t, r)
  BY DEF Grows, Completed, Published, Accepted, Honest, NoJob

LEMMA GrowsSame == ASSUME NEW J PROVE Grows(J, J)
  BY DEF Grows

LEMMA RestoreHonest ==
    ASSUME NEW J, NEW t, NEW r, Honest(J, t, r) PROVE Honest(J, t, Restore(r))
  BY DEF Honest, Restore, Published, Accepted, NoJob

LEMMA RecordedHonest ==
    ASSUME NEW J, NEW t, NEW c, NEW r, Honest(J, t, c), Honest(J, t, r)
    PROVE  Honest(J, t, Recorded(c, r))
  <1>1. Recorded(c, r).status = c.status /\ Recorded(c, r).job = c.job
    BY DEF Recorded
  <1>2. Recorded(c, r).outs \in {c.outs, r.outs}
    BY DEF Recorded
  <1> QED
    BY <1>1, <1>2 DEF Honest

LEMMA ResetHonest ==
    ASSUME NEW J, NEW t, NEW r, NEW s, Honest(J, t, r), NEW b \in BOOLEAN
    PROVE  Honest(J, t, Reset(r, s, b))
  <1>1. /\ Reset(r, s, b).status = "PENDING_SUBMIT"
        /\ Reset(r, s, b).job \in {r.job, NoJob} /\ Reset(r, s, b).outs \in {r.outs, NoJob}
    BY DEF Reset
  <1> QED
    BY <1>1 DEF Honest, Published, Accepted, NoJob

LEMMA EmptyHonest ==
    ASSUME NEW J, NEW t
    PROVE  Honest(J, t, NoRow) /\ Honest(J, t, NoEntry) /\ Honest(J, t, NewEntry)
  BY DEF Honest, NoRow, NoEntry, NewEntry, Published, Accepted, NoJob

LEMMA LoadedHonest ==
    ASSUME HonestRows, HonestCopies, NEW p \in App, NEW t \in Task
    PROVE  Honest(job, t, Loaded(p, t))
  BY RestoreHonest DEF HonestRows, HonestCopies, Loaded

(* Only the status, the output and the job id count. *)
LEMMA SameHonest ==
    ASSUME NEW J, NEW t, NEW r, NEW s, Honest(J, t, r),
           s.status = r.status \/ s.status # "COMPLETED" \/ Completed(J, t),
           s.outs = r.outs \/ Published(J, t, s.outs),
           s.job = r.job \/ Accepted(J, t, s.job)
    PROVE  Honest(J, t, s)
  BY DEF Honest

-----------------------------------------------------------------------------
(* How the steps the actions are made of preserve it.                      *)

LEMMA RecordHonest ==
    ASSUME HonestRows, HonestCopies, DbOK, CopiesOK, NEW p \in App, NEW t \in Task,
           NEW c, Honest(job, t, c), Record(p, t, c), UNCHANGED job
    PROVE  HonestRows' /\ HonestCopies'
  <1>1. HonestCopies'
    BY DEF HonestCopies, CopiesOK, Record
  <1>2. Honest(job, t, Recorded(c, row[t]))
    BY RecordedHonest DEF HonestRows
  <1>3. HonestRows'
    BY <1>2 DEF HonestRows, DbOK, Record
  <1> QED
    BY <1>1, <1>3

LEMMA CacheHonest ==
    ASSUME HonestRows, HonestCopies, CopiesOK, Grows(job, job'),
           NEW p \in App, NEW t \in Task, NEW c, Honest(job, t, c), Cache(p, t, c)
    PROVE  HonestRows' /\ HonestCopies'
  BY GrowsKeeps DEF HonestRows, HonestCopies, CopiesOK, Cache

LEMMA HoldHonest ==
    ASSUME HonestLocks, LockOK, Grows(job, job'),
           NEW p \in App, NEW by, NEW op, NEW t, NEW got, NEW sub,
           Hold(p, by, op, t, got, sub),
           op = "post" => Accepted(job', t, sub),
           op = "poll" /\ got = "COMPLETED" => Completed(job', t),
           op = "recover" => Completed(job', t)
    PROVE  HonestLocks'
  BY GrowsKeeps DEF HonestLocks, LockOK, Hold

LEMMA UnlockHonest ==
    ASSUME HonestLocks, LockOK, Grows(job, job'), NEW p \in App, Unlock(p)
    PROVE  HonestLocks'
  BY GrowsKeeps DEF HonestLocks, LockOK, Unlock, Unlocked

LEMMA LocksStay ==
    ASSUME HonestLocks, Grows(job, job'), UNCHANGED lock PROVE HonestLocks'
  BY GrowsKeeps DEF HonestLocks

LEMMA CopiesStay ==
    ASSUME HonestRows, HonestCopies, Grows(job, job'), UNCHANGED <<row, JOBS>>
    PROVE  HonestRows' /\ HonestCopies'
  BY GrowsKeeps DEF HonestRows, HonestCopies

LEMMA SectionsHonest ==
    ASSUME TypeInv, Truth, NEW p \in App, NEW t \in Task, NEW by,
           StatusSections(p, t, by), UNCHANGED job
    PROVE  HonestLocks'
  <1> DEFINE c == Loaded(p, t)
  <1>1. CASE UNCHANGED lock
    BY <1>1, LocksStay, GrowsSame DEF Truth
  <1>2. CASE Hold(p, by, "import", t, "UNKNOWN", NoJob)
    BY <1>2, HoldHonest, GrowsSame DEF Truth, TypeInv
  <1>3. ASSUME Known(c.job), NEW a \in Answers(c.job), Hold(p, by, "poll", t, a, NoJob)
        PROVE  HonestLocks'
    <2>1. Honest(job, t, c)
      BY LoadedHonest DEF Truth
    <2>2. c.job \in Job /\ job[c.job].task = t
      BY <1>3, <2>1 DEF Known, Honest, Accepted
    <2>3. a = "COMPLETED" => Completed(job, t)
      BY <1>3, <2>2 DEF Answers, Completed
    <2> HIDE DEF c
    <2> QED
      BY <1>3, <2>3, HoldHonest, GrowsSame DEF Truth, TypeInv
  <1> QED
    BY <1>1, <1>2, <1>3 DEF StatusSections

LEMMA OutputsHonest ==
    ASSUME Truth, NEW p \in App, NEW t \in Task, NEW m \in Imports(t) \cup Outputs(p, t)
    PROVE  Published(job, t, m)
  BY DEF Truth, HonestProvider, HonestCopies, Honest, Imports, Outputs, Published, NoJob

LEMMA RecoversHonest ==
    ASSUME TypeInv, Truth, NEW p \in App, NEW t \in Task, NEW m \in Outputs(p, t),
           RecoversFrom(p, t, m), UNCHANGED job
    PROVE  HonestRows' /\ HonestCopies' /\ HonestLocks'
  <1>1. Published(job, t, m) /\ Completed(job, t)
    BY OutputsHonest DEF RecoversFrom, Published, Completed
  <1>2. HonestLocks'
    BY <1>1, HoldHonest, GrowsSame DEF RecoversFrom, Truth, TypeInv
  <1>3. CASE Record(p, t, [JOBS[p][t] EXCEPT !.outs = m])
    <2> DEFINE c == [JOBS[p][t] EXCEPT !.outs = m]
    <2>1. JOBS[p][t] \in Entries /\ Honest(job, t, JOBS[p][t])
      BY DEF TypeInv, CopiesOK, Truth, HonestCopies
    <2>2. c.status = JOBS[p][t].status /\ c.job = JOBS[p][t].job /\ c.outs = m
      BY <2>1 DEF Entries
    <2>3. Record(p, t, c)
      BY <1>3
    <2> HIDE DEF c
    <2>4. Honest(job, t, c)
      BY <1>1, <2>1, <2>2 DEF Honest
    <2> QED
      BY <1>2, <2>3, <2>4, RecordHonest DEF Truth, TypeInv
  <1>4. CASE UNCHANGED <<JOBS, row>>
    BY <1>2, <1>4, CopiesStay, GrowsSame DEF Truth
  <1> QED
    BY <1>3, <1>4 DEF RecoversFrom
(* The monitor's own steps only move statuses that are not COMPLETED.      *)
LEMMA RowsHonest ==
    ASSUME NEW J, NEW t, NEW r \in Rows, Honest(J, t, r),
           NEW status, status # "COMPLETED", NEW claim, NEW deferred
    PROVE  /\ Honest(J, t, [r EXCEPT !.claim = claim])
           /\ Honest(J, t, [r EXCEPT !.deferred = deferred])
           /\ Honest(J, t, [r EXCEPT !.status = status, !.claim = claim])
           /\ Honest(J, t, [r EXCEPT !.status = status, !.claim = claim,
                                     !.deferred = deferred])
  BY DEF Honest, Rows

LEMMA DispatchHonest ==
    ASSUME TypeInv, Truth, NEW p \in App,
           \/ RecoverReads(p) \/ RecoverWrites(p)
           \/ DispatchNothing(p)
           \/ \E t \in Task : ClaimNext(p, t)
           \/ \E j \in Job : DispatchPosts(p, j)
           \/ DispatchFails(p)
           \/ DispatchEnds(p)
           \/ ReleaseReads(p) \/ ReleaseSubmission(p)
    PROVE  Truth' /\ Grows(job, job')
  <1> USE DEF Truth, TypeInv
  <1>0. ASSUME NEW t \in Task
        PROVE  row[t] \in Rows /\ Honest(job, t, row[t])
    BY DEF DbOK, HonestRows
  <1>1. CASE RecoverReads(p) \/ ReleaseReads(p) \/ DispatchNothing(p)
    BY <1>1, GrowsSame
       DEF RecoverReads, ReleaseReads, DispatchNothing, dbVars, providerVars,
           HonestRows, HonestCopies, HonestLocks, HonestProvider
  <1>2. ASSUME NEW t \in Task, ClaimNext(p, t) PROVE Truth' /\ Grows(job, job')
    <2>1. Honest(job, t, [row[t] EXCEPT !.status = "DISPATCHING", !.claim = "fresh"])
      BY <1>0 DEF Honest, Rows
    <2>2. HonestRows'
      BY <1>0, <1>2, <2>1 DEF ClaimNext, HonestRows, providerVars, DbOK
    <2> QED
      BY <1>2, <2>2, GrowsSame
         DEF ClaimNext, providerVars, HonestCopies, HonestLocks, HonestProvider
  <1>3. ASSUME NEW j \in Job, DispatchPosts(p, j) PROVE Truth' /\ Grows(job, job')
    <2> DEFINE t == mon[p].task  c == Restore(row[t])
    <2>1. t \in Task
      BY <1>3 DEF DispatchPosts, MonitorAt, MonOK, Refers
    <2>2. Cache(p, t, c) /\ Accept(j, t) /\ FreshJob(j) /\ manifest' = manifest
      BY <1>3 DEF DispatchPosts
    <2>3. \/ Hold(p, "monitor", "post", t, "UNKNOWN", j)
          \/ UNCHANGED lock
      BY <1>3 DEF DispatchPosts
    <2>4. Honest(job, t, c)
      BY <2>1, RestoreHonest DEF HonestRows
    <2> HIDE DEF t, c
    <2>5. /\ Grows(job, job')
          /\ job'[j].task = t /\ job'[j].state = "IN_PROGRESS" /\ ~job'[j].wrote
          /\ \A i \in Job \ {j} : job'[i] = job[i]
      BY <2>2 DEF Accept, FreshJob, Grows, ProviderOK
    <2>6. HonestRows' /\ HonestCopies'
      BY <2>1, <2>2, <2>4, <2>5, CacheHonest
    <2>7. Accepted(job', t, j)
      BY <2>5 DEF Accepted
    <2>8. HonestLocks'
      BY <2>3, <2>5, <2>7, HoldHonest, LocksStay
    <2>9. HonestProvider'
      BY <2>2, <2>5, GrowsKeeps DEF HonestProvider
    <2> QED
      BY <2>5, <2>6, <2>8, <2>9
  <1>4. CASE DispatchFails(p)
    <2> DEFINE t == mon[p].task  c == Restore(row[t])
    <2>1. t \in Task
      BY <1>4 DEF DispatchFails, MonitorAt, MonOK, Refers
    <2>2. Honest(job, t, c)
      BY <2>1, RestoreHonest DEF HonestRows
    <2>3. /\ Cache(p, t, c) \/ UNCHANGED <<row, JOBS>>
          /\ UNCHANGED <<lock, job, manifest>>
      BY <1>4 DEF DispatchFails, providerVars
    <2> HIDE DEF t, c
    <2>4. HonestRows' /\ HonestCopies'
      BY <2>1, <2>2, <2>3, GrowsSame, CacheHonest, CopiesStay
    <2> QED
      BY <2>3, <2>4, GrowsSame DEF HonestLocks, HonestProvider
  <1>5. CASE DispatchEnds(p)
    <2> DEFINE t == lock[p].task
               c == [JOBS[p][t] EXCEPT !.status = "QUEUED", !.job = lock[p].sub]
    <2>1. t \in Task /\ Accepted(job, t, lock[p].sub)
      BY <1>5 DEF DispatchEnds, LockOK, HonestLocks
    <2>2. Honest(job, t, JOBS[p][t]) /\ JOBS[p][t] \in Entries
      BY <2>1 DEF HonestCopies, CopiesOK
    <2>3. Honest(job, t, c)
      BY <2>1, <2>2 DEF Honest, Entries
    <2>4. Record(p, t, c) /\ Unlock(p) /\ UNCHANGED <<job, manifest>>
      BY <1>5 DEF DispatchEnds, providerVars
    <2> HIDE DEF t, c
    <2>5. HonestRows' /\ HonestCopies'
      BY <2>1, <2>3, <2>4, RecordHonest
    <2>6. HonestLocks'
      BY <2>4, UnlockHonest, GrowsSame
    <2> QED
      BY <2>4, <2>5, <2>6, GrowsSame DEF HonestProvider
  <1>6. CASE ReleaseSubmission(p)
    <2> DEFINE t == mon[p].task
               r == [row[t] EXCEPT !.status = "PENDING_SUBMIT", !.claim = "none",
                                   !.deferred = TRUE]
    <2>1. t \in Task => Honest(job, t, r)
      BY RowsHonest DEF HonestRows, DbOK
    <2>2. row' = row \/ row' = [row EXCEPT ![t] = r]
      BY <1>6 DEF ReleaseSubmission, DbOK
    <2>3. HonestRows'
      <3> HIDE DEF t, r
      <3> QED
        BY <1>6, <2>1, <2>2 DEF ReleaseSubmission, HonestRows, DbOK, providerVars
    <2> QED
      BY <1>6, <2>3, GrowsSame
         DEF ReleaseSubmission, providerVars, HonestCopies, HonestLocks, HonestProvider
  <1>7. CASE RecoverWrites(p)
    <2>1. ASSUME NEW t \in Task
          PROVE  Honest(job, t, [row[t] EXCEPT !.status = "PENDING_SUBMIT", !.claim = "none"])
      BY <1>0, RowsHonest
    <2>2. HonestRows'
      BY <1>0, <1>7, <2>1 DEF RecoverWrites, HonestRows, providerVars
    <2> QED
      BY <1>7, <2>2, GrowsSame
         DEF RecoverWrites, providerVars, HonestCopies, HonestLocks, HonestProvider
  <1> QED
    BY <1>1, <1>2, <1>3, <1>4, <1>5, <1>6, <1>7

LEMMA StatusHonest ==
    ASSUME NEW J, NEW t, NEW c \in Entries, Honest(J, t, c),
           NEW status, status = "COMPLETED" => Completed(J, t) \/ c.status = "COMPLETED",
           NEW misses, NEW verdict
    PROVE  Honest(J, t, [c EXCEPT !.status = status, !.misses = misses, !.verdict = verdict])
  BY DEF Honest, Entries

LEMMA ImportHonest ==
    ASSUME NEW J, NEW t, NEW c \in Entries, Honest(J, t, c), NEW m, Published(J, t, m)
    PROVE  Honest(J, t, [c EXCEPT !.outs = m])
  BY DEF Honest, Entries

(* One section's end: it records an honest copy and leaves the lock.       *)
LEMMA EndHonest ==
    ASSUME TypeInv, Truth, NEW p \in App, NEW t \in Task, NEW c, Honest(job, t, c),
           Record(p, t, c), UNCHANGED providerVars,
           \/ Unlock(p)
           \/ UNCHANGED lock
           \/ lock' = [lock EXCEPT ![p].op = "import"]
    PROVE  Truth' /\ Grows(job, job')
  <1>1. UNCHANGED <<job, manifest>>
    BY DEF providerVars
  <1>2. HonestRows' /\ HonestCopies'
    BY <1>1, RecordHonest DEF Truth, TypeInv
  <1>3. HonestLocks'
    <2>1. CASE lock' = [lock EXCEPT ![p].op = "import"]
      BY <1>1, <2>1 DEF Truth, TypeInv, HonestLocks, LockOK, Locks
    <2> QED
      BY <1>1, <2>1, UnlockHonest, LocksStay, GrowsSame DEF Truth, TypeInv
  <1> QED
    BY <1>1, <1>2, <1>3, GrowsSame DEF Truth, HonestProvider

LEMMA SectionEndHonest ==
    ASSUME TypeInv, Truth, NEW p \in App,
           PollEnds(p) \/ ImportEnds(p) \/ LegacyEnds(p) \/ RecoverEnds(p) \/ CancelEnds(p)
    PROVE  Truth' /\ Grows(job, job')
  <1> DEFINE t == lock[p].task
             c == JOBS[p][t]
             After(status, verdict) == [c EXCEPT !.status = status, !.misses = 0,
                                                 !.verdict = verdict]
  <1>1. t \in Task /\ c \in Entries /\ Honest(job, t, c)
    BY DEF PollEnds, ImportEnds, LegacyEnds, RecoverEnds, CancelEnds, LockOK, CopiesOK,
           TypeInv, Truth, HonestCopies
  <1>2. ASSUME NEW status, status = "COMPLETED" => Completed(job, t), NEW verdict
        PROVE  Honest(job, t, After(status, verdict))
    BY <1>1, <1>2, StatusHonest
  <1>3. CASE PollEnds(p)
    <2>1. lock[p].got = "COMPLETED" => Completed(job, t)
      BY <1>3 DEF PollEnds, Truth, HonestLocks
    <2>2. Record(p, t, After(lock[p].got, "none"))
      BY <1>3 DEF PollEnds
    <2>3. UNCHANGED providerVars /\ (Unlock(p) \/ lock' = [lock EXCEPT ![p].op = "import"])
      BY <1>3 DEF PollEnds
    <2> QED
      BY <1>1, <1>2, <2>1, <2>2, <2>3, EndHonest
  <1>4. CASE ImportEnds(p)
    <2>1. PICK m \in Imports(t) : Record(p, t, [c EXCEPT !.outs = m])
      BY <1>4 DEF ImportEnds
    <2>2. Honest(job, t, [c EXCEPT !.outs = m])
      BY <1>1, OutputsHonest, ImportHonest
    <2> QED
      BY <1>1, <1>4, <2>1, <2>2, EndHonest DEF ImportEnds
  <1>5. CASE LegacyEnds(p)
    <2>1. PICK m \in Outputs(p, t) :
             RecoversFrom(p, t, m) \/ (Record(p, t, After("FAILED", "final")) /\ Unlock(p))
      BY <1>5 DEF LegacyEnds
    <2>2. UNCHANGED providerVars /\ UNCHANGED <<job, manifest>>
      BY <1>5 DEF LegacyEnds, providerVars
    <2>3. CASE RecoversFrom(p, t, m)
      BY <1>1, <2>2, <2>3, RecoversHonest, GrowsSame DEF Truth, HonestProvider
    <2>4. CASE Record(p, t, After("FAILED", "final")) /\ Unlock(p)
      BY <1>1, <1>2, <2>2, <2>4, EndHonest
    <2> QED
      BY <2>1, <2>3, <2>4
  <1>6. CASE RecoverEnds(p)
    <2>1. Completed(job, t)
      BY <1>6 DEF RecoverEnds, Truth, HonestLocks
    <2>2. Record(p, t, After("COMPLETED", "none")) /\ Unlock(p) /\ UNCHANGED providerVars
      BY <1>6 DEF RecoverEnds
    <2> QED
      BY <1>1, <1>2, <2>1, <2>2, EndHonest
  <1>7. CASE CancelEnds(p)
    <2>1. Record(p, t, After("CANCELLED", "none")) /\ Unlock(p) /\ UNCHANGED providerVars
      BY <1>7 DEF CancelEnds
    <2> QED
      BY <1>1, <1>2, <2>1, EndHonest
  <1> QED
    BY <1>3, <1>4, <1>5, <1>6, <1>7

(* A step of the monitor that touches neither copies, sections nor jobs.   *)
LEMMA ClaimsHonest ==
    ASSUME TypeInv, Truth, \A t \in Task : Honest(job, t, row'[t]),
           UNCHANGED <<JOBS, lock, providerVars>>
    PROVE  Truth' /\ Grows(job, job')
  BY GrowsSame DEF Truth, HonestRows, HonestCopies, HonestLocks, HonestProvider, providerVars

LEMMA ReadsHonest ==
    ASSUME TypeInv, Truth, NEW p \in App, NEW t \in Task,
           Cache(p, t, Loaded(p, t)), UNCHANGED providerVars, HonestLocks'
    PROVE  Truth' /\ Grows(job, job')
  <1> DEFINE c == Loaded(p, t)
  <1>1. Honest(job, t, c) /\ UNCHANGED <<job, manifest>>
    BY LoadedHonest DEF Truth, providerVars
  <1>2. Cache(p, t, c)
    OBVIOUS
  <1> HIDE DEF c
  <1> QED
    BY <1>1, <1>2, CacheHonest, GrowsSame DEF Truth, TypeInv, HonestProvider

LEMMA RefreshHonest ==
    ASSUME TypeInv, Truth, NEW p \in App,
           \/ ClaimLegacy(p)
           \/ \E t \in Task : LegacyReads(p, t)
           \/ ClaimActive(p)
           \/ \E t \in Task : MonitorReads(p, t) \/ MonitorMisses(p, t) \/ MonitorFails(p, t)
           \/ ReleaseActiveClaim(p)
           \/ Reconcile(p)
    PROVE  Truth' /\ Grows(job, job')
  <1>1. ASSUME NEW t \in Task
        PROVE  /\ row[t] \in Rows /\ Honest(job, t, row[t])
               /\ \A claim : Honest(job, t, [row[t] EXCEPT !.claim = claim])
    <2>1. row[t] \in Rows /\ Honest(job, t, row[t])
      BY DEF TypeInv, DbOK, Truth, HonestRows
    <2>2. ASSUME NEW claim PROVE Honest(job, t, [row[t] EXCEPT !.claim = claim])
      BY <2>1 DEF Honest, Rows
    <2> QED
      BY <2>1, <2>2
  <1>2. ASSUME NEW S, row' = [t \in Task |-> IF t \in S
                                            THEN [row[t] EXCEPT !.claim = "fresh"]
                                            ELSE row[t]]
        PROVE \A t \in Task : Honest(job, t, row'[t])
    BY <1>1, <1>2
  <1>3. CASE ClaimLegacy(p)
    BY <1>2, <1>3, ClaimsHonest DEF ClaimLegacy
  <1>4. CASE ClaimActive(p)
    BY <1>2, <1>4, ClaimsHonest DEF ClaimActive
  <1>5. ASSUME NEW t \in Task, LegacyReads(p, t) PROVE Truth' /\ Grows(job, job')
    <2> DEFINE c == Restore(row[t])
    <2>1. Honest(job, t, c)
      BY <1>1, RestoreHonest
    <2>2. Cache(p, t, c) /\ Hold(p, "monitor", "legacy", t, "UNKNOWN", NoJob)
          /\ UNCHANGED <<job, manifest>>
      BY <1>5 DEF LegacyReads, providerVars
    <2> HIDE DEF c
    <2>3. HonestRows' /\ HonestCopies'
      BY <2>1, <2>2, CacheHonest, GrowsSame DEF Truth, TypeInv
    <2>4. HonestLocks'
      BY <2>2, HoldHonest, GrowsSame DEF Truth, TypeInv
    <2> QED
      BY <2>2, <2>3, <2>4, GrowsSame DEF Truth, HonestProvider
  <1>6. ASSUME NEW t \in Task, MonitorReads(p, t) PROVE Truth' /\ Grows(job, job')
    <2>1. HonestLocks'
      BY <1>6, SectionsHonest DEF MonitorReads, providerVars
    <2> QED
      BY <1>6, <2>1, ReadsHonest DEF MonitorReads
  <1>7. ASSUME NEW t \in Task, MonitorMisses(p, t) \/ MonitorFails(p, t)
        PROVE  Truth' /\ Grows(job, job')
    <2>1. HonestLocks'
      BY <1>7, LocksStay, GrowsSame DEF MonitorMisses, MonitorFails, providerVars, Truth
    <2> QED
      BY <1>7, <2>1, ReadsHonest DEF MonitorMisses, MonitorFails
  <1>8. CASE ReleaseActiveClaim(p)
    <2>1. \A t \in Task : Honest(job, t, row'[t])
      BY <1>1, <1>8 DEF ReleaseActiveClaim, TypeInv, DbOK
    <2> QED
      BY <1>8, <2>1, ClaimsHonest DEF ReleaseActiveClaim
  <1>9. CASE Reconcile(p)
    <2> DEFINE t == mon[p].task
               c == JOBS[p][t]
               attempts == IF c.misses < MinAttempts THEN c.misses + 1 ELSE MinAttempts
               open == IF c.status \in TERMINAL_STATES THEN "IN_PROGRESS" ELSE c.status
               waits == [c EXCEPT !.status = open, !.misses = attempts, !.verdict = "none"]
               fails == [c EXCEPT !.status = "FAILED", !.misses = 0, !.verdict = "final"]
    <2>1. t \in Task /\ c \in Entries /\ Honest(job, t, c)
      BY <1>9 DEF Reconcile, MonitorAt, MonOK, Refers, TypeInv, CopiesOK, Truth, HonestCopies
    <2>2. open # "COMPLETED"
      BY DEF TERMINAL_STATES
    <2>3. UNCHANGED providerVars /\ UNCHANGED <<job, manifest>>
      BY <1>9 DEF Reconcile, providerVars
    <2>4. PICK m \in Outputs(p, t) :
             \/ RecoversFrom(p, t, m)
             \/ (Record(p, t, waits) \/ Record(p, t, fails)) /\ UNCHANGED lock
      BY <1>9 DEF Reconcile
    <2>5. Honest(job, t, waits) /\ Honest(job, t, fails)
      <3> HIDE DEF c, open, attempts
      <3> QED
        BY <2>1, <2>2, StatusHonest
    <2>6. CASE RecoversFrom(p, t, m)
      BY <2>1, <2>3, <2>6, RecoversHonest, GrowsSame DEF Truth, HonestProvider
    <2>7. CASE (Record(p, t, waits) \/ Record(p, t, fails)) /\ UNCHANGED lock
      <3> HIDE DEF t, waits, fails
      <3> QED
        BY <2>1, <2>3, <2>5, <2>7, EndHonest
    <2> QED
      BY <2>4, <2>6, <2>7
  <1> QED
    BY <1>3, <1>4, <1>5, <1>6, <1>7, <1>8, <1>9

LEMMA RequeueHonest ==
    ASSUME TypeInv, Truth, NEW seen, NEW preserve \in BOOLEAN,
           Requeue(seen, preserve), UNCHANGED <<JOBS, lock, providerVars>>
    PROVE  Truth' /\ Grows(job, job')
  <1>1. \A t \in Task : Honest(job, t, row[t]) /\ Honest(job, t, Reset(row[t], seen[t], preserve))
    BY ResetHonest DEF Truth, HonestRows
  <1>2. \A t \in Task : Honest(job, t, row'[t])
    BY <1>1 DEF Requeue
  <1> QED
    BY <1>2, ClaimsHonest

LEMMA CancelHonest ==
    ASSUME TypeInv, Truth, NEW p \in App, NEW t \in Task, CancelStarts(p, t)
    PROVE  Truth' /\ Grows(job, job')
  <1> USE DEF Truth, TypeInv
  <1> DEFINE c == Loaded(p, t)
             i == c.job
             d == [c EXCEPT !.status = "CANCELLED", !.misses = 0, !.verdict = "none"]
  <1>1. c \in Entries /\ Honest(job, t, c)
    BY LoadedType, LoadedHonest
  <1>2. Honest(job, t, d)
    <2> HIDE DEF c
    <2> QED
      BY <1>1, StatusHonest
  <1>3. manifest' = manifest
    BY DEF CancelStarts
  <1>4. CASE Cache(p, t, c) /\ StatusSections(p, t, "http") /\ UNCHANGED job
    BY <1>3, <1>4, SectionsHonest, ReadsHonest DEF providerVars
  <1>5. CASE Cache(p, t, c) /\ UNCHANGED <<lock, job>>
    BY <1>3, <1>5, LocksStay, GrowsSame, ReadsHonest DEF providerVars
  <1>6. CASE Record(p, t, d) /\ UNCHANGED <<lock, job>>
    <2> HIDE DEF d
    <2> QED
      BY <1>2, <1>3, <1>6, EndHonest DEF providerVars
  <1>7. CASE /\ Cache(p, t, c) /\ Hold(p, "http", "cancel", t, "UNKNOWN", NoJob)
             /\ job' = IF job[i].state = "IN_PROGRESS"
                       THEN [job EXCEPT ![i].state = "CANCELLED"] ELSE job
    <2> HIDE DEF c, i
    <2>1. Grows(job, job')
      BY <1>7 DEF Grows, ProviderOK, ProviderJobs
    <2>2. HonestRows' /\ HonestCopies'
      BY <1>1, <1>7, <2>1, CacheHonest
    <2>3. HonestLocks'
      BY <1>7, <2>1, HoldHonest
    <2>4. \A j \in Job : job'[j].wrote => job'[j].state = "COMPLETED"
      BY <1>7 DEF HonestProvider, ProviderOK, ProviderJobs
    <2>5. HonestProvider'
      BY <1>3, <2>1, <2>4, GrowsKeeps DEF HonestProvider
    <2> QED
      BY <2>1, <2>2, <2>3, <2>5
  <1> QED
    BY <1>4, <1>5, <1>6, <1>7 DEF CancelStarts

LEMMA HandlerHonest ==
    ASSUME TypeInv, Truth, HonestAsks, NEW p \in App,
           \/ \E t \in Task : \/ Create(p, t) \/ GetStatus(p, t) \/ CancelStarts(p, t)
                              \/ ReworkReads(p, t)
           \/ \E S \in SUBSET Task : BulkReads(p, S)
           \/ ReworkWrites(p) \/ ReworkPublished(p) \/ BulkWrites(p)
    PROVE  Truth' /\ Grows(job, job')
  <1>1. ASSUME NEW t \in Task, NEW c, Honest(job, t, c), Cache(p, t, c),
               UNCHANGED <<lock, providerVars>>
        PROVE  Truth' /\ Grows(job, job')
    BY <1>1, CacheHonest, LocksStay, GrowsSame DEF Truth, TypeInv, HonestProvider, providerVars
  <1>2. ASSUME NEW t \in Task PROVE Honest(job, t, Restore(row[t])) /\ Honest(job, t, NewEntry)
    BY RestoreHonest, EmptyHonest DEF Truth, HonestRows
  <1>3. ASSUME NEW t \in Task, Create(p, t) PROVE Truth' /\ Grows(job, job')
    <2>1. CASE Cache(p, t, Restore(row[t]))
      BY <1>1, <1>2, <1>3, <2>1 DEF Create
    <2>2. CASE Record(p, t, NewEntry)
      BY <1>2, <1>3, <2>2, EndHonest DEF Create
    <2> QED
      BY <1>3, <2>1, <2>2 DEF Create
  <1>4. ASSUME NEW t \in Task, GetStatus(p, t) PROVE Truth' /\ Grows(job, job')
    <2>1. HonestLocks'
      BY <1>4, SectionsHonest, LocksStay, GrowsSame DEF GetStatus, providerVars, Truth
    <2> QED
      BY <1>4, <2>1, ReadsHonest DEF GetStatus
  <1>5. CASE (\E t \in Task : ReworkReads(p, t)) \/ \E S \in SUBSET Task : BulkReads(p, S)
    BY <1>5, GrowsSame
       DEF ReworkReads, BulkReads, dbVars, providerVars, Truth,
           HonestRows, HonestCopies, HonestLocks, HonestProvider
  <1>6. CASE ReworkWrites(p) \/ BulkWrites(p)
    BY <1>6, RequeueHonest DEF ReworkWrites, BulkWrites
  <1>7. CASE ReworkPublished(p)
    <2>1. PICK t \in Asked(ask[p].seen) :
             \E c \in {Restore(ask[p].seen[t]), Restore(row[t])} : Cache(p, t, c)
      BY <1>7 DEF ReworkPublished
    <2>2. PICK c \in {Restore(ask[p].seen[t]), Restore(row[t])} : Cache(p, t, c)
      BY <2>1
    <2>3. t \in Task /\ Honest(job, t, c)
      BY <1>2, <2>1, <2>2, RestoreHonest DEF HonestAsks, Asked
    <2> QED
      BY <1>1, <1>7, <2>2, <2>3 DEF ReworkPublished
  <1> QED
    BY <1>3, <1>4, <1>5, <1>6, <1>7, CancelHonest

LEMMA ProviderHonest == ASSUME TypeInv, Truth, Provider PROVE Truth' /\ Grows(job, job')
  <1> USE DEF TypeInv, Truth
  <1>1. ASSUME UNCHANGED <<dbVars, JOBS, lock>>, Grows(job, job'), HonestProvider'
        PROVE  Truth'
    <2>1. HonestRows' /\ HonestCopies'
      BY <1>1, CopiesStay DEF dbVars
    <2> QED
      BY <1>1, <2>1, LocksStay
  <1>2. ASSUME NEW j \in Job, NEW outcome \in {"COMPLETED", "FAILED"}, JobEnds(j, outcome)
        PROVE  Truth' /\ Grows(job, job')
    <2> DEFINE wrote == outcome = "COMPLETED" /\ "late" \notin Faults
    <2>1. /\ job[j].state = "IN_PROGRESS"
          /\ job' = [job EXCEPT ![j].state = outcome, ![j].wrote = wrote]
          /\ wrote \in BOOLEAN /\ (wrote => outcome = "COMPLETED")
      BY <1>2 DEF JobEnds
    <2>2. manifest' = IF job'[j].wrote THEN [manifest EXCEPT ![job[j].task] = j] ELSE manifest
      BY <1>2 DEF JobEnds
    <2> HIDE DEF wrote
    <2>3. /\ job'[j].state = outcome /\ job'[j].wrote = wrote /\ job'[j].task = job[j].task
          /\ \A i \in Job \ {j} : job'[i] = job[i]
      BY <2>1 DEF ProviderOK, ProviderJobs
    <2>4. Grows(job, job')
      BY <2>1, <2>3 DEF Grows, HonestProvider
    <2>5. \A i \in Job : job'[i].wrote => job'[i].state = "COMPLETED"
      BY <2>1, <2>3 DEF HonestProvider
    <2>6. ASSUME NEW t \in Task PROVE Published(job', t, manifest'[t])
      <3>1. CASE manifest'[t] = manifest[t]
        BY <2>4, <3>1, GrowsKeeps DEF HonestProvider
      <3>2. CASE manifest'[t] # manifest[t]
        <4>1. job'[j].wrote /\ t = job[j].task /\ manifest'[t] = j
          BY <2>2, <3>2 DEF ProviderOK
        <4> QED
          BY <2>1, <2>3, <4>1 DEF Published
      <3> QED
        BY <3>1, <3>2
    <2> QED
      BY <1>1, <1>2, <2>4, <2>5, <2>6 DEF JobEnds, HonestProvider
  <1>3. ASSUME NEW j \in Job, PublishManifest(j) PROVE Truth' /\ Grows(job, job')
    <2>1. /\ job[j].state = "COMPLETED" /\ job' = [job EXCEPT ![j].wrote = TRUE]
          /\ manifest' = [manifest EXCEPT ![job[j].task] = j]
      BY <1>3 DEF PublishManifest
    <2>2. /\ job'[j].state = "COMPLETED" /\ job'[j].wrote /\ job'[j].task = job[j].task
          /\ \A i \in Job \ {j} : job'[i] = job[i]
      BY <2>1 DEF ProviderOK, ProviderJobs
    <2>3. Grows(job, job')
      BY <2>1, <2>2 DEF Grows
    <2>4. ASSUME NEW t \in Task PROVE Published(job', t, manifest'[t])
      <3>1. CASE t # job[j].task
        BY <2>1, <2>3, <3>1, GrowsKeeps DEF HonestProvider, ProviderOK
      <3>2. CASE t = job[j].task
        BY <2>1, <2>2, <3>2 DEF Published, ProviderOK
      <3> QED
        BY <3>1, <3>2
    <2> QED
      BY <1>1, <1>3, <2>2, <2>3, <2>4 DEF PublishManifest, HonestProvider
  <1>4. ASSUME NEW j \in Job, Forget(j) PROVE Truth' /\ Grows(job, job')
    <2>1. /\ Grows(job, job') /\ manifest' = manifest
          /\ \A i \in Job : job'[i].state = job[i].state /\ job'[i].wrote = job[i].wrote
      BY <1>4 DEF Forget, Grows, ProviderOK, ProviderJobs
    <2>2. HonestProvider'
      BY <2>1, GrowsKeeps DEF HonestProvider
    <2> QED
      BY <1>1, <1>4, <2>1, <2>2 DEF Forget
  <1> QED
    BY <1>2, <1>3, <1>4 DEF Provider

LEMMA TimeHonest == ASSUME TypeInv, Truth, Time PROVE Truth' /\ Grows(job, job')
  <1>1. ASSUME NEW t \in Task, NEW r, Honest(job, t, r), row' = [row EXCEPT ![t] = r],
               UNCHANGED <<JOBS, lock, providerVars>>
        PROVE  Truth' /\ Grows(job, job')
    <2>1. \A s \in Task : Honest(job, s, row'[s])
      BY <1>1 DEF TypeInv, DbOK, Truth, HonestRows
    <2> QED
      BY <1>1, <2>1, ClaimsHonest
  <1>2. ASSUME NEW t \in Task
        PROVE  /\ Honest(job, t, [row[t] EXCEPT !.claim = "stale"])
               /\ Honest(job, t, [row[t] EXCEPT !.deferred = FALSE])
    <2>1. row[t] \in Rows /\ Honest(job, t, row[t])
      BY DEF TypeInv, DbOK, Truth, HonestRows
    <2> QED
      BY <2>1 DEF Honest, Rows
  <1>3. ASSUME NEW t \in Task, ClaimAges(t) PROVE Truth' /\ Grows(job, job')
    <2>1. row' = [row EXCEPT ![t] = [row[t] EXCEPT !.claim = "stale"]]
      BY <1>3 DEF ClaimAges, TypeInv, DbOK
    <2> QED
      BY <1>1, <1>2, <1>3, <2>1 DEF ClaimAges
  <1>4. ASSUME NEW t \in Task, DeferralEnds(t) PROVE Truth' /\ Grows(job, job')
    <2>1. row' = [row EXCEPT ![t] = [row[t] EXCEPT !.deferred = FALSE]]
      BY <1>4 DEF DeferralEnds, TypeInv, DbOK
    <2> QED
      BY <1>1, <1>2, <1>4, <2>1 DEF DeferralEnds
  <1> QED
    BY <1>3, <1>4 DEF Time

LEMMA CrashHonest == ASSUME TypeInv, Truth, NEW p \in App, Crash(p)
                     PROVE  Truth' /\ Grows(job, job')
  <1>1. HonestRows' /\ HonestProvider'
    BY DEF Crash, Truth, HonestRows, HonestProvider, dbVars, providerVars
  <1>2. HonestCopies'
    BY EmptyHonest DEF Crash, Truth, TypeInv, HonestCopies, CopiesOK, providerVars
  <1>3. HonestLocks'
    BY DEF Crash, Truth, TypeInv, HonestLocks, LockOK, Unlocked, providerVars
  <1> QED
    BY <1>1, <1>2, <1>3, GrowsSame DEF Truth, Crash, providerVars

-----------------------------------------------------------------------------
LEMMA InitHonest == Init => Truth
  <1> SUFFICES ASSUME Init PROVE Truth
    OBVIOUS
  <1>1. \A t \in Task : row[t].status # "COMPLETED" /\ row[t].outs = NoJob
    BY DEF Init, LegacyRow, NoRow
  <1>2. ASSUME NEW t \in Task PROVE Accepted(job, t, row[t].job)
    <2>1. CASE LegacyJob[t] = NoJob
      BY <2>1 DEF Init, NoRow, Accepted
    <2>2. CASE LegacyJob[t] # NoJob
      <3> DEFINE j == LegacyJob[t]
      <3>1. j \in Job /\ row[t].job = j
        BY <2>2, Constants DEF Init, LegacyRow, NoRow
      <3>2. (CHOOSE s \in Task : LegacyJob[s] = j) = t
        BY <2>2, Constants
      <3>3. job[j] = ForgottenJob(t)
        BY <3>1, <3>2 DEF Init
      <3> QED
        BY <3>1, <3>3 DEF Accepted, ForgottenJob
    <2> QED
      BY <2>1, <2>2
  <1>3. HonestRows
    BY <1>1, <1>2 DEF HonestRows, Honest, Published
  <1>4. HonestCopies /\ HonestLocks
    BY EmptyHonest DEF Init, HonestCopies, HonestLocks, Unlocked
  <1>5. \A j \in Job : ~job[j].wrote
    BY DEF Init, ForgottenJob, NoSuchJob
  <1>6. HonestProvider
    BY <1>5 DEF Init, HonestProvider, Published
  <1> QED
    BY <1>3, <1>4, <1>6 DEF Truth

LEMMA NextHonest == TypeInv /\ Truth /\ HonestAsks /\ [Next]_vars => Truth' /\ Grows(job, job')
  <1> SUFFICES ASSUME TypeInv, Truth, HonestAsks, [Next]_vars PROVE Truth' /\ Grows(job, job')
    OBVIOUS
  <1>1. CASE UNCHANGED vars
    BY <1>1, GrowsSame DEF vars, Truth, HonestRows, HonestCopies, HonestLocks, HonestProvider
  <1>2. ASSUME NEW p \in App, Monitor(p) PROVE Truth' /\ Grows(job, job')
    BY <1>2, DispatchHonest, RefreshHonest DEF Monitor
  <1>3. ASSUME NEW p \in App, SectionEnds(p) PROVE Truth' /\ Grows(job, job')
    BY <1>3, DispatchHonest, SectionEndHonest DEF SectionEnds
  <1>4. ASSUME NEW p \in App, Handler(p) PROVE Truth' /\ Grows(job, job')
    BY <1>4, SectionEndHonest, HandlerHonest DEF Handler
  <1>5. ASSUME NEW t \in Task, DraftRequeue(t) PROVE Truth' /\ Grows(job, job')
    BY <1>5, RequeueHonest DEF DraftRequeue
  <1> QED
    BY <1>1, <1>2, <1>3, <1>4, <1>5, CrashHonest, ProviderHonest, TimeHonest DEF Next

(* A request takes note only of rows as they are, or as it leaves them.    *)
LEMMA AskMoves ==
    ASSUME [Next]_vars
    PROVE  \/ UNCHANGED ask
           \/ \E p \in App :
                 \/ ask' = [ask EXCEPT ![p] = Quiet]
                 \/ \E S \in SUBSET Task, op \in {"rework", "bulk"} :
                       /\ op \in Requests
                       /\ ask' = [ask EXCEPT ![p] = [op |-> op, seen |-> Load(S)]]
                 \/ /\ ask[p].op = "rework"
                    /\ ask' = [ask EXCEPT ![p] = [op |-> "publish",
                                  seen |-> [t \in Task |-> IF t \in Asked(ask[p].seen)
                                                           THEN row'[t] ELSE NoRow]]]
  <1>1. ASSUME UNCHANGED vars PROVE UNCHANGED ask
    BY <1>1 DEF vars
  <1>2. ASSUME NEW p \in App, Monitor(p) \/ SectionEnds(p) PROVE UNCHANGED ask
    BY <1>2 DEF Monitor, RecoverReads, RecoverWrites, DispatchNothing, ClaimNext,
       DispatchPosts, DispatchFails, ReleaseReads, ReleaseSubmission, ClaimLegacy,
       LegacyReads, ClaimActive, MonitorReads, MonitorMisses, MonitorFails,
       ReleaseActiveClaim, Reconcile,
       SectionEnds, DispatchEnds, PollEnds, ImportEnds, LegacyEnds, RecoverEnds
  <1>3. ASSUME NEW p \in App, \/ CancelEnds(p)
                              \/ \E t \in Task : Create(p, t) \/ GetStatus(p, t) \/ CancelStarts(p, t)
        PROVE  UNCHANGED ask
    BY <1>3 DEF CancelEnds, Create, GetStatus, CancelStarts
  <1>4. ASSUME Provider \/ Time \/ \E t \in Task : DraftRequeue(t) PROVE UNCHANGED ask
    BY <1>4 DEF Provider, JobEnds, PublishManifest, Forget, Time, ClaimAges, DeferralEnds,
       DraftRequeue
  <1>5. ASSUME NEW p \in App, ReworkPublished(p) \/ BulkWrites(p) \/ Crash(p)
        PROVE  ask' = [ask EXCEPT ![p] = Quiet]
    BY <1>5 DEF ReworkPublished, BulkWrites, Crash
  <1>6. ASSUME NEW p \in App, NEW t \in Task, ReworkReads(p, t)
        PROVE  "rework" \in Requests /\ ask' = [ask EXCEPT ![p] = [op |-> "rework", seen |-> Load({t})]]
    BY <1>6 DEF ReworkReads
  <1>7. ASSUME NEW p \in App, NEW S \in SUBSET Task, BulkReads(p, S)
        PROVE  "bulk" \in Requests /\ ask' = [ask EXCEPT ![p] = [op |-> "bulk", seen |-> Load(S)]]
    BY <1>7 DEF BulkReads
  <1>8. ASSUME NEW p \in App, ReworkWrites(p)
        PROVE  /\ ask[p].op = "rework"
               /\ ask' = [ask EXCEPT ![p] = [op |-> "publish",
                              seen |-> [t \in Task |-> IF t \in Asked(ask[p].seen)
                                                       THEN row'[t] ELSE NoRow]]]
    BY <1>8 DEF ReworkWrites
  <1> DEFINE Reads(p)  == \E S \in SUBSET Task, op \in {"rework", "bulk"} :
                 op \in Requests /\ ask' = [ask EXCEPT ![p] = [op |-> op, seen |-> Load(S)]]
             Writes(p) == /\ ask[p].op = "rework"
                          /\ ask' = [ask EXCEPT ![p] = [op |-> "publish",
                                seen |-> [t \in Task |-> IF t \in Asked(ask[p].seen)
                                                         THEN row'[t] ELSE NoRow]]]
             Clears(p) == ask' = [ask EXCEPT ![p] = Quiet]
  <1>9. ASSUME NEW p \in App, NEW t \in Task, ReworkReads(p, t) PROVE Reads(p)
    <2>1. {t} \in SUBSET Task
      OBVIOUS
    <2> QED
      BY <1>6, <1>9, <2>1
  <1>10. ASSUME NEW p \in App, NEW S \in SUBSET Task, BulkReads(p, S) PROVE Reads(p)
    BY <1>7, <1>10
  <1>11. ASSUME NEW p \in App, ReworkWrites(p) PROVE Writes(p)
    BY <1>8, <1>11
  <1>12. ASSUME NEW p \in App, ReworkPublished(p) \/ BulkWrites(p) \/ Crash(p) PROVE Clears(p)
    BY <1>5, <1>12
  <1> HIDE DEF Reads, Writes, Clears
  <1>13. ASSUME NEW p \in App, Handler(p)
         PROVE  UNCHANGED ask \/ Clears(p) \/ Reads(p) \/ Writes(p)
    <2>1. CASE CancelEnds(p) \/ \E t \in Task : Create(p, t) \/ GetStatus(p, t) \/ CancelStarts(p, t)
      BY <1>3, <2>1
    <2>2. CASE \E t \in Task : ReworkReads(p, t)
      BY <1>9, <2>2
    <2>3. CASE \E S \in SUBSET Task : BulkReads(p, S)
      BY <1>10, <2>3
    <2>4. CASE ReworkWrites(p)
      BY <1>11, <2>4
    <2>5. CASE ReworkPublished(p) \/ BulkWrites(p)
      BY <1>12, <2>5
    <2> QED
      BY <1>13, <2>1, <2>2, <2>3, <2>4, <2>5 DEF Handler
  <1>14. UNCHANGED ask \/ \E p \in App : Clears(p) \/ Reads(p) \/ Writes(p)
    <2>1. CASE \E p \in App : Monitor(p) \/ SectionEnds(p)
      BY <1>2, <2>1
    <2>2. CASE \E p \in App : Handler(p)
      BY <1>13, <2>2
    <2>3. CASE \E p \in App : Crash(p)
      BY <1>12, <2>3
    <2>4. CASE Provider \/ Time \/ \E t \in Task : DraftRequeue(t)
      BY <1>4, <2>4
    <2> QED
      BY <1>1, <2>1, <2>2, <2>3, <2>4 DEF Next
  <1> QED
    BY <1>14 DEF Clears, Reads, Writes

LEMMA NextAsks ==
    ASSUME TypeInv, Truth, HonestAsks, [Next]_vars PROVE HonestAsks'
  <1>1. Truth' /\ Grows(job, job')
    BY NextHonest
  <1>2. ASSUME NEW t \in Task
        PROVE  Honest(job', t, row[t]) /\ Honest(job', t, row'[t]) /\ Honest(job', t, NoRow)
    BY <1>1, GrowsKeeps, EmptyHonest DEF Truth, HonestRows
  <1>3. ASSUME NEW q \in App, NEW t \in Task PROVE Honest(job', t, ask[q].seen[t])
    BY <1>1, GrowsKeeps DEF HonestAsks
  <1>4. ASSUME NEW p \in App, NEW op, NEW seen,
               \A t \in Task : Honest(job', t, seen[t]),
               ask' = [ask EXCEPT ![p] = [op |-> op, seen |-> seen]]
        PROVE  HonestAsks'
    BY <1>3, <1>4 DEF HonestAsks, TypeInv, AskOK
  <1>5. CASE UNCHANGED ask
    BY <1>3, <1>5 DEF HonestAsks
  <1>6. ASSUME NEW p \in App, ask' = [ask EXCEPT ![p] = Quiet] PROVE HonestAsks'
    <2>1. \A t \in Task : Honest(job', t, [u \in Task |-> NoRow][t])
      BY <1>2
    <2> QED
      BY <1>4, <1>6, <2>1 DEF Quiet
  <1>7. ASSUME NEW p \in App, NEW S \in SUBSET Task, NEW op \in {"rework", "bulk"},
               ask' = [ask EXCEPT ![p] = [op |-> op, seen |-> Load(S)]]
        PROVE  HonestAsks'
    <2>1. \A t \in Task : Honest(job', t, Load(S)[t])
      BY <1>2 DEF Load
    <2> QED
      BY <1>4, <1>7, <2>1
  <1>8. ASSUME NEW p \in App,
               ask' = [ask EXCEPT ![p] = [op |-> "publish",
                          seen |-> [t \in Task |-> IF t \in Asked(ask[p].seen)
                                                   THEN row'[t] ELSE NoRow]]]
        PROVE  HonestAsks'
    <2> DEFINE seen == [t \in Task |-> IF t \in Asked(ask[p].seen) THEN row'[t] ELSE NoRow]
    <2>1. \A t \in Task : Honest(job', t, seen[t])
      BY <1>2
    <2>2. ask' = [ask EXCEPT ![p] = [op |-> "publish", seen |-> seen]]
      BY <1>8
    <2> HIDE DEF seen
    <2> QED
      BY <1>4, <2>1, <2>2
  <1> QED
    BY <1>5, <1>6, <1>7, <1>8, AskMoves

LEMMA InitAsks == Init => HonestAsks
  BY EmptyHonest DEF Init, Quiet, HonestAsks

(* Rows, copies, sections and manifests only ever speak of successes that  *)
(* happened.                                                               *)
THEOREM TruthInvariant == Spec => []Truth
  <1>1. Init => Truth /\ HonestAsks
    BY InitHonest, InitAsks
  <1>2. TypeInv /\ Truth /\ HonestAsks /\ [Next]_vars => (Truth /\ HonestAsks)'
    BY NextHonest, NextAsks
  <1> QED
    BY <1>1, <1>2, TypesInvariant, PTL DEF Spec

(* No interleaving, crash, lost reply, failed write or stale copy makes a  *)
(* task COMPLETED that no provider job of its own completed, or registers  *)
(* an output that no completed job of the task published.                  *)
THEOREM SuccessInvariant == Spec => []SuccessIsReal
  <1>1. Truth => SuccessIsReal
    BY DEF Truth, HonestRows, Honest, Completed, Published, SuccessIsReal
  <1> QED
    BY <1>1, TruthInvariant, PTL

-----------------------------------------------------------------------------
(* One process that never dies and whose writes and calls are answered.    *)

(* Manifests may be late, the provider may forget jobs, and claims may     *)
(* expire under a slow call.                                               *)
OneProcess == \A p, q \in App : p = q
Answered   == Faults \subseteq {"late", "slowCall", "gone"}
NoRequeue  == Requests \subseteq {"create", "cancel", "status"}
Undisturbed == OneProcess /\ Answered /\ NoRequeue

(* A row has the provider job its status speaks of.                        *)
Sane(t, r) ==
    /\ ~r.keep /\ r.status # "UNKNOWN"
    /\ r.status \in PENDING_STATES => r.job = NoJob
    /\ r.status \in ACTIVE_STATES \cup {"COMPLETED", "FAILED"} => r.job # NoJob
    /\ r.status = "DISPATCHING" => r.claim # "none"
    /\ r.verdict = "legacy" => r.status = "FAILED" /\ LegacyJob[t] # NoJob
    /\ ~r.exists => r.status = "PENDING_SUBMIT"
SaneRows == \A t \in Task : Sane(t, row[t]) /\ gen[t] = IF row[t].exists THEN 1 ELSE 0

(* A copy says what its row says, up to the monitor's own moves between    *)
(* the pending states, one of which may give a cancelled task back.        *)
Agrees(c, r) ==
    c.held => /\ r.exists /\ ~c.keep
              /\ c.job = r.job /\ c.outs = r.outs /\ c.verdict = r.verdict
              /\ \/ c.status = r.status
                 \/ c.status \in PENDING_STATES \cup {"CANCELLED"} /\ r.status \in PENDING_STATES
CopiesAgree == \A p \in App, t \in Task : Agrees(JOBS[p][t], row[t])

(* A provider job was accepted for the one request of its task, whose row  *)
(* names it, or is about to: then the lock is held for its record.         *)
Posting(l, t, j) == l.op = "post" /\ l.task = t /\ l.sub = j
JobsServe == \A j \in Job : Created(j) =>
    /\ job[j].task \in Task /\ job[j].gen = 1
    /\ row[job[j].task].exists
    /\ row[job[j].task].job = j \/ \E p \in App : Posting(lock[p], job[j].task, j)
Served(t, r, J) == r.job # NoJob =>
    /\ J[r.job].state # "none" /\ J[r.job].task = t
    /\ r.status = "CANCELLED" => J[r.job].state # "IN_PROGRESS"
RowsServed == \A t \in Task : Served(t, row[t], job)

(* What the copy is like while the lock is held for a call.                *)
Means(l, c, J) ==
    /\ c.held
    /\ l.op \in {"post", "legacy", "recover"} => l.by = "monitor"
    /\ l.op = "post" => /\ c.status \in PENDING_STATES
                        /\ l.sub # NoJob /\ J[l.sub].state # "none" /\ J[l.sub].task = l.task
    /\ l.op = "poll" => /\ c.status \in ACTIVE_STATES /\ l.got # "UNKNOWN"
                        /\ l.got # "IN_PROGRESS" => J[c.job].state = l.got
    /\ l.op = "import" => c.status = "COMPLETED"
    /\ l.op = "cancel" => c.status \in ACTIVE_STATES /\ J[c.job].state # "IN_PROGRESS"
    /\ l.op = "legacy" => c.verdict = "legacy"
    /\ l.op = "recover" => c.status \in ACTIVE_STATES \/ c.verdict = "legacy"
LocksMean == \A p \in App :
    lock[p].op # "free" => Means(lock[p], JOBS[p][lock[p].task], job)

(* What the monitor's lists and its task are like: a vanished job is still *)
(* open and nobody works on its task, a claimed row is being submitted or  *)
(* given back, and what is given back never ran.                           *)
Idle(r) == r.exists /\ r.job = NoJob /\ r.status \in PENDING_STATES \cup {"CANCELLED"}
Submitting(m, l, t) ==
    \/ m.pc \in {"claimed", "release"} /\ m.task = t
    \/ m.pc = "releasing" /\ m.task = t /\ m.seen = "DISPATCHING"
    \/ l.op = "post" /\ l.task = t
Heeds(m, l, copies, rows, J) ==
    /\ m.pc # "recover"
    /\ \A t \in Task : rows[t].status = "DISPATCHING" => Submitting(m, l, t)
    /\ m.pc = "releasing" => /\ l.op # "post"
                             /\ m.seen = "DISPATCHING" => Idle(rows[m.task])
    /\ \A t \in m.todo : rows[t].exists
    /\ m.pc = "relegacy" => \A t \in m.todo : rows[t].verdict = "legacy"
    /\ l.op \in {"legacy", "recover"} => l.task \notin m.todo
    /\ m.pc = "gone" => /\ copies[m.task].held /\ copies[m.task].status \in ACTIVE_STATES
                        /\ ~J[copies[m.task].job].known
                        /\ l.op # "free" => l.task # m.task
MonitorsHeed == \A p \in App : Heeds(mon[p], lock[p], JOBS[p], row, job)

NothingAsked == \A p \in App : ask[p].op = "none"

Settled == SaneRows /\ CopiesAgree /\ JobsServe /\ RowsServed /\ LocksMean /\ NothingAsked
Orderly == Settled /\ MonitorsHeed

(* A submission that is under way was allowed, and nothing became active   *)
(* since.                                                                  *)
Allowed == /\ IsFiniteSet(ActiveOf(User)) /\ ActiveWithinPolicy
           /\ \A p \in App : lock[p].op = "post" => SubmissionAllowed(lock[p].task)

-----------------------------------------------------------------------------
(* The phases of TaskLifecycle.                                            *)

Phase(r) == IF ~r.exists THEN "new"
            ELSE IF r.status \in PENDING_STATES THEN "waiting"
            ELSE IF r.status \in ACTIVE_STATES THEN "running"
            ELSE r.status

(* What the provider may do with its jobs, but for accepting one.          *)
SameJobs == \A j \in Job :
    /\ job'[j].task = job[j].task /\ job'[j].gen = job[j].gen
    /\ job'[j].state # "none" <=> job[j].state # "none"
    /\ job[j].state \notin {"none", "IN_PROGRESS"} => job'[j].state = job[j].state
    /\ job'[j].known => job[j].known

Kept == [Lifecycle!Next]_(Lifecycle!vars)

LEMMA SameJobsSame == UNCHANGED job => SameJobs
  BY DEF SameJobs

LEMMA PhaseIs == \A t \in Task : PhaseOf(t) = Phase(row[t]) /\ PhaseOf(t)' = Phase(row'[t])
  BY DEF PhaseOf, Phase

LEMMA Phases ==
    ASSUME NEW r \in Rows
    PROVE  /\ Phase(r) = "waiting" <=> r.exists /\ r.status \in PENDING_STATES
           /\ Phase(r) = "running" <=> r.exists /\ r.status \in ACTIVE_STATES
           /\ \A s \in TERMINAL_STATES : Phase(r) = s <=> r.exists /\ r.status = s
  BY DEF Phase, Rows, Status, PENDING_STATES, ACTIVE_STATES, TERMINAL_STATES

LEMMA RunsStay ==
    ASSUME SameJobs, NEW t \in Task, gen'[t] = gen[t] PROVE RunsOf(t)' = RunsOf(t)
  <1>1. { j \in Job : /\ Created(j) /\ job[j].task = t /\ job[j].gen = gen[t] }' =
        { j \in Job : /\ Created(j) /\ job[j].task = t /\ job[j].gen = gen[t] }
    BY DEF SameJobs, Created
  <1> QED
    BY <1>1 DEF RunsOf

LEMMA Stutters ==
    ASSUME SameJobs, UNCHANGED gen, \A t \in Task : Phase(row'[t]) = Phase(row[t])
    PROVE  Kept
  <1>1. \A t \in Task : PhaseOf(t)' = PhaseOf(t) /\ RunsOf(t)' = RunsOf(t)
    BY PhaseIs, RunsStay
  <1> QED
    BY <1>1 DEF Kept, Lifecycle!vars

(* The provider job of a task, if there is one.                            *)
LEMMA NoRuns ==
    ASSUME Settled, NEW t \in Task, row[t].job = NoJob,
           \A p \in App : ~(lock[p].op = "post" /\ lock[p].task = t)
    PROVE  RunsOf(t) = 0 /\ \A j \in Job : Created(j) => job[j].task # t
  <1>1. \A j \in Job : Created(j) => job[j].task # t
    BY Constants DEF Settled, JobsServe, Posting, NoJob
  <1>2. { j \in Job : /\ Created(j) /\ job[j].task = t /\ job[j].gen = gen[t] } = {}
    BY <1>1
  <1> QED
    BY <1>1, <1>2, FS_EmptySet DEF RunsOf

LEMMA OneRun ==
    ASSUME OneProcess, Settled, NEW p \in App, NEW t \in Task, row[t].exists, row[t].job = NoJob,
           lock[p].op = "post", lock[p].task = t, lock[p].sub \in Job
    PROVE  RunsOf(t) = 1
  <1>1. Created(lock[p].sub) /\ job[lock[p].sub].task = t
    BY DEF Settled, LocksMean, Means, Created
  <1>2. gen[t] = 1 /\ job[lock[p].sub].gen = 1
    BY <1>1 DEF Settled, SaneRows, JobsServe
  <1>3. \A j \in Job : Created(j) /\ job[j].task = t => j = lock[p].sub
    BY Constants DEF Settled, JobsServe, Posting, OneProcess, NoJob
  <1>4. { j \in Job : /\ Created(j) /\ job[j].task = t /\ job[j].gen = gen[t] } = {lock[p].sub}
    BY <1>1, <1>2, <1>3
  <1> QED
    BY <1>4, FS_Singleton DEF RunsOf

(* A step of one task is one of these.                                     *)
Lawful(p, t, a, b) ==
    \/ a = b
    \/ a = "running" /\ b \in {"COMPLETED", "FAILED", "CANCELLED"}
    \/ a = "waiting" /\ b = "running" /\ lock[p].op = "post" /\ lock[p].task = t
    \/ a = "waiting" /\ b = "CANCELLED" /\ lock[p].op # "post"
    \/ a = "CANCELLED" /\ b = "waiting" /\ row[t].job = NoJob /\ lock[p].op # "post"
    \/ a = "FAILED" /\ b = "COMPLETED" /\ LegacyJob[t] # NoJob

LEMMA Steps ==
    ASSUME OneProcess, TypeInv, Settled, NEW p \in App, NEW t \in Task, NEW r \in Rows,
           SameJobs, UNCHANGED gen, row' = [row EXCEPT ![t] = r],
           Lawful(p, t, Phase(row[t]), Phase(r))
    PROVE  Kept
  <1> DEFINE a == Phase(row[t])
             b == Phase(r)
  <1>1. row'[t] = r /\ \A s \in Task \ {t} : row'[s] = row[s]
    BY DEF TypeInv, DbOK
  <1>2. PhaseOf(t) = a /\ PhaseOf(t)' = b
    BY <1>1, PhaseIs
  <1>3. \A s \in Task \ {t} : PhaseOf(s)' = PhaseOf(s)
    BY <1>1, PhaseIs
  <1>4. \A s \in Task : RunsOf(s)' = RunsOf(s)
    BY RunsStay
  <1>5. ASSUME a # b PROVE Lifecycle!Moves(t, a, b)
    <2>1. [s \in Task |-> PhaseOf(s)]' = [[s \in Task |-> PhaseOf(s)] EXCEPT ![t] = b]
      BY <1>2, <1>3
    <2>2. [s \in Task |-> RunsOf(s)]' = [s \in Task |-> RunsOf(s)]
      BY <1>4
    <2>3. [s \in Task |-> PhaseOf(s)][t] = a
      BY <1>2
    <2> QED
      BY <2>1, <2>2, <2>3 DEF Lifecycle!Moves
  <1>6. CASE a = b
    BY <1>1, <1>6, Stutters
  <1>7. CASE a = "running" /\ b \in {"COMPLETED", "FAILED", "CANCELLED"}
    BY <1>5, <1>7 DEF Kept, Lifecycle!Next, Lifecycle!Finish, Lifecycle!Outcome
  <1>8. CASE a = "waiting" /\ b = "running" /\ lock[p].op = "post" /\ lock[p].task = t
    <2>1. row[t].exists /\ row[t].job = NoJob
      BY <1>8, Phases DEF Settled, SaneRows, Sane, TypeInv, DbOK
    <2>2. lock[p].sub \in Job
      BY <1>8 DEF Settled, LocksMean, Means, TypeInv, LockOK, Locks, NoJob
    <2>3. [s \in Task |-> RunsOf(s)][t] = 1
      BY <1>8, <2>1, <2>2, OneRun
    <2> QED
      BY <1>5, <1>8, <2>3 DEF Kept, Lifecycle!Next, Lifecycle!Start
  <1>9. CASE a = "waiting" /\ b = "CANCELLED" /\ lock[p].op # "post"
    <2>1. row[t].exists /\ row[t].job = NoJob
      BY <1>9, Phases DEF Settled, SaneRows, Sane, TypeInv, DbOK
    <2>2. [s \in Task |-> RunsOf(s)][t] = 0
      BY <1>9, <2>1, NoRuns DEF OneProcess
    <2> QED
      BY <1>5, <1>9, <2>2 DEF Kept, Lifecycle!Next, Lifecycle!CancelWaiting
  <1>10. CASE a = "FAILED" /\ b = "COMPLETED" /\ LegacyJob[t] # NoJob
    BY <1>5, <1>10 DEF Kept, Lifecycle!Next, Lifecycle!Amend
  <1>11. CASE a = "CANCELLED" /\ b = "waiting" /\ row[t].job = NoJob /\ lock[p].op # "post"
    <2>1. [s \in Task |-> RunsOf(s)][t] = 0
      BY <1>11, NoRuns DEF OneProcess
    <2> QED
      BY <1>5, <1>11, <2>1 DEF Kept, Lifecycle!Next, Lifecycle!Reopen
  <1> QED
    BY <1>6, <1>7, <1>8, <1>9, <1>10, <1>11 DEF Lawful

-----------------------------------------------------------------------------
(* A step at one task: its row, its copy and the lock.                     *)

Touches(p, t, c, r, l) ==
    /\ JOBS' = [JOBS EXCEPT ![p][t] = c]
    /\ row' = [row EXCEPT ![t] = r]
    /\ lock' = [lock EXCEPT ![p] = l]
    /\ UNCHANGED ask

(* What the new row, copy and lock owe to the old ones.                    *)
Fits(p, t, c, r, l) ==
    /\ lock[p].op # "free" => lock[p].task = t
    /\ c.held /\ Agrees(c, r) /\ Sane(t, r)
    /\ r.job = row[t].job \/ (Posting(lock[p], t, r.job) /\ row[t].job = NoJob)
    /\ lock[p].op = "post" => r.job = lock[p].sub
    /\ r.status = "CANCELLED" /\ r.job # NoJob => job'[r.job].state \notin {"none", "IN_PROGRESS"}
    /\ l.op \notin {"free", "post"}
         => l.task = t /\ Means(l, c, job')
    /\ l.op # "post"

LEMMA Touched ==
    ASSUME OneProcess, TypeInv, Settled, NEW p \in App, NEW t \in Task,
           NEW c, NEW r \in Rows, NEW l, Touches(p, t, c, r, l), Fits(p, t, c, r, l),
           SameJobs, UNCHANGED gen, row[t].exists
    PROVE  Settled'
  <1> USE DEF TypeInv
  <1>1. row'[t] = r /\ \A s \in Task \ {t} : row'[s] = row[s]
    BY DEF DbOK, Touches
  <1>2. JOBS'[p][t] = c /\ \A s \in Task \ {t} : JOBS'[p][s] = JOBS[p][s]
    BY DEF CopiesOK, Touches
  <1>3. lock'[p] = l /\ \A q \in App : q = p
    BY DEF LockOK, Touches, OneProcess
  <1>4. r.exists
    BY DEF Fits, Agrees
  <1>5. SaneRows'
    BY <1>1, <1>4 DEF Settled, SaneRows, Fits
  <1>6. CopiesAgree'
    BY <1>1, <1>2, <1>3 DEF Settled, CopiesAgree, Fits
  <1>7. JobsServe'
    <2> SUFFICES ASSUME NEW j \in Job, Created(j)'
                 PROVE  /\ job'[j].task \in Task /\ job'[j].gen = 1
                        /\ row'[job'[j].task].exists
                        /\ row'[job'[j].task].job = j
      BY DEF JobsServe
    <2>1. Created(j) /\ job'[j].task = job[j].task /\ job'[j].gen = job[j].gen
      BY DEF SameJobs, Created
    <2>2. /\ job[j].task \in Task /\ job[j].gen = 1 /\ row[job[j].task].exists
          /\ row[job[j].task].job = j \/ Posting(lock[p], job[j].task, j)
      BY <2>1, <1>3 DEF Settled, JobsServe
    <2>3. CASE job[j].task # t
      BY <2>1, <2>2, <2>3, <1>1 DEF Fits, Posting
    <2>4. CASE job[j].task = t
      <3>1. j # NoJob
        BY Constants DEF NoJob
      <3>2. r.job = j
        BY <2>2, <2>4, <3>1 DEF Fits, Posting
      <3> QED
        BY <2>1, <2>2, <2>4, <3>2, <1>1, <1>4
    <2> QED
      BY <2>3, <2>4
  <1>8. RowsServed'
    <2> SUFFICES ASSUME NEW s \in Task PROVE Served(s, row'[s], job')
      BY DEF RowsServed
    <2>1. Served(s, row[s], job) /\ row[s] \in Rows
      BY DEF Settled, RowsServed, DbOK
    <2>2. CASE s # t
      BY <2>1, <2>2, <1>1 DEF Served, SameJobs, Rows, NoJob
    <2>3. CASE s = t
      <3>1. CASE r.job = row[t].job
        BY <3>1, <2>1, <2>3, <1>1 DEF Served, SameJobs, Rows, NoJob, Fits
      <3>2. CASE Posting(lock[p], t, r.job)
        <4>1. r.job # NoJob => job[r.job].state # "none" /\ job[r.job].task = t
          BY <3>2 DEF Settled, LocksMean, Means, Posting
        <4> QED
          BY <4>1, <2>3, <1>1 DEF Served, SameJobs, Rows, NoJob, Fits
      <3> QED
        BY <3>1, <3>2 DEF Fits
    <2> QED
      BY <2>2, <2>3
  <1>9. LocksMean'
    BY <1>2, <1>3 DEF LocksMean, Fits
  <1>10. NothingAsked'
    BY DEF Settled, NothingAsked, Touches
  <1> QED
    BY <1>5, <1>6, <1>7, <1>8, <1>9, <1>10 DEF Settled

-----------------------------------------------------------------------------
(* Steps that leave the copies and the lock alone.                         *)

(* A lease: claim, deferral, and the moves between the pending states.     *)
Leases(r, s) ==
    /\ s.exists = r.exists /\ s.job = r.job /\ s.outs = r.outs /\ s.keep = r.keep
    /\ s.verdict = r.verdict
    /\ \/ s.status = r.status
       \/ r.exists /\ {r.status, s.status} \subseteq PENDING_STATES
    /\ s.status = "DISPATCHING" => s.claim # "none"

(* The same, or a row cancelled without a job that waits again.            *)
Reopens(r, s) ==
    /\ s.exists = r.exists /\ s.job = r.job /\ s.outs = r.outs /\ s.keep = r.keep
    /\ s.verdict = r.verdict
    /\ \/ s.status = r.status
       \/ r.exists /\ {r.status, s.status} \subseteq PENDING_STATES
       \/ r.exists /\ r.status = "CANCELLED" /\ r.job = NoJob /\ s.status \in PENDING_STATES
    /\ s.status = "DISPATCHING" => s.claim # "none"

LEMMA Reopened ==
    ASSUME TypeInv, Settled, \A t \in Task : row'[t] \in Rows /\ Reopens(row[t], row'[t]),
           UNCHANGED <<gen, JOBS, lock, ask, job>>
    PROVE  Settled'
  <1>1. \A t \in Task : row[t] \in Rows
    BY DEF TypeInv, DbOK
  <1>2. SaneRows'
    <2> SUFFICES ASSUME NEW t \in Task
                 PROVE  Sane(t, row'[t]) /\ gen'[t] = IF row'[t].exists THEN 1 ELSE 0
      BY DEF SaneRows
    <2>1. Sane(t, row[t]) /\ Reopens(row[t], row'[t]) /\ gen'[t] = gen[t]
      BY DEF Settled, SaneRows
    <2>2. Sane(t, row'[t])
      BY <2>1, <1>1 DEF Sane, Reopens, PENDING_STATES, ACTIVE_STATES
    <2> QED
      BY <2>1, <2>2 DEF Reopens, Settled, SaneRows
  <1>3. CopiesAgree'
    BY DEF Settled, CopiesAgree, Agrees, Reopens, PENDING_STATES
  <1>4. JobsServe'
    BY DEF Settled, JobsServe, Reopens, Created
  <1>5. RowsServed'
    BY DEF Settled, RowsServed, Served, Reopens, PENDING_STATES
  <1>6. LocksMean' /\ NothingAsked'
    BY DEF Settled, LocksMean, NothingAsked
  <1> QED
    BY <1>2, <1>3, <1>4, <1>5, <1>6 DEF Settled

LEMMA Leased ==
    ASSUME TypeInv, Settled, \A t \in Task : row'[t] \in Rows /\ Leases(row[t], row'[t]),
           UNCHANGED <<gen, JOBS, lock, ask, job>>
    PROVE  Settled' /\ Kept
  <1>1. \A t \in Task : Reopens(row[t], row'[t])
    BY DEF Leases, Reopens
  <1>2. \A t \in Task : Phase(row'[t]) = Phase(row[t])
    BY DEF Leases, Phase
  <1> QED
    BY <1>1, <1>2, Reopened, Stutters, SameJobsSame

LEMMA JobsMove ==
    ASSUME TypeInv, Settled, SameJobs, UNCHANGED <<row, gen, JOBS, lock, ask>>
    PROVE  Settled' /\ Kept
  <1> USE DEF Settled
  <1>1. SaneRows' /\ CopiesAgree' /\ NothingAsked'
    BY DEF SaneRows, CopiesAgree, NothingAsked
  <1>2. JobsServe'
    BY DEF JobsServe, SameJobs, Created
  <1>3. \A t \in Task : row[t] \in Rows
    BY DEF TypeInv, DbOK
  <1>4. RowsServed'
    BY <1>3 DEF RowsServed, Served, SameJobs, Rows, NoJob
  <1>5. LocksMean'
    <2> SUFFICES ASSUME NEW p \in App, lock[p].op # "free"
                 PROVE  Means(lock[p], JOBS[p][lock[p].task], job')
      BY DEF LocksMean
    <2> DEFINE t == lock[p].task
               c == JOBS[p][t]
    <2>1. Means(lock[p], c, job)
      BY DEF LocksMean
    <2>2. lock[p] \in Locks /\ t \in Task /\ c \in Entries
      BY DEF TypeInv, LockOK, CopiesOK
    <2>3. c.held => c.job = row[t].job /\ Sane(t, row[t])
               /\ (c.status \in ACTIVE_STATES => row[t].status = c.status)
      BY <2>2 DEF CopiesAgree, Agrees, SaneRows, ACTIVE_STATES, PENDING_STATES
    <2>4. c.held /\ c.status \in ACTIVE_STATES => c.job \in Job /\ job[c.job].state # "none"
      BY <2>2, <2>3 DEF Sane, Entries, RowsServed, Served
    <2>5. lock[p].sub # NoJob => lock[p].sub \in Job
      BY <2>2 DEF Locks
    <2> HIDE DEF c, t
    <2>6. lock[p].op = "poll" => job'[c.job].state = lock[p].got \/ lock[p].got = "IN_PROGRESS"
      BY <2>1, <2>2, <2>4 DEF Means, SameJobs, Locks, Answer
    <2>7. lock[p].op = "cancel" => job'[c.job].state # "IN_PROGRESS"
      BY <2>1, <2>4 DEF Means, SameJobs
    <2>8. lock[p].op = "post" => job'[lock[p].sub].state # "none" /\ job'[lock[p].sub].task = t
      BY <2>1, <2>5 DEF Means, SameJobs, t
    <2> QED
      BY <2>1, <2>6, <2>7, <2>8 DEF Means, t, c
  <1> QED
    BY <1>1, <1>2, <1>4, <1>5, Stutters

(* What the monitor's submission is spared by a step at one task.          *)
Spares(p, t, r, l) ==
    /\ r.status = "DISPATCHING" => row[t].status = "DISPATCHING"
    /\ l.op = "post" => l = lock[p]
    /\ lock[p].op = "post" => l = lock[p] \/ (lock[p].task = t /\ r.status # "DISPATCHING")
    /\ lock[p].op # "post" /\ Idle(row[t]) => Idle(r)

(* The monitor's task and lists, when the monitor itself stays.            *)
LEMMA MonitorStays ==
    ASSUME OneProcess, TypeInv, Orderly, NEW p \in App, NEW t \in Task,
           NEW c, NEW r \in Rows, NEW l, Touches(p, t, c, r, l), Spares(p, t, r, l),
           SameJobs, UNCHANGED mon, r.exists,
           mon[p].pc = "relegacy" /\ t \in mon[p].todo => r.verdict = "legacy",
           mon[p].pc = "gone" /\ mon[p].task = t =>
               /\ c.held /\ c.status \in ACTIVE_STATES /\ c.job = JOBS[p][t].job
               /\ l.op = "free",
           l.op # "free" => l.task = t \/ l = lock[p],
           l.op \in {"legacy", "recover"} => lock[p].op \in {"legacy", "recover"} /\ l.task = lock[p].task
    PROVE  MonitorsHeed'
  <1> USE DEF TypeInv
  <1>1. row'[t] = r /\ \A s \in Task \ {t} : row'[s] = row[s]
    BY DEF DbOK, Touches
  <1>2. JOBS'[p][t] = c /\ \A s \in Task \ {t} : JOBS'[p][s] = JOBS[p][s]
    BY DEF CopiesOK, Touches
  <1>3. lock'[p] = l /\ \A q \in App : q = p
    BY DEF LockOK, Touches, OneProcess
  <1>4. /\ mon[p].todo \subseteq Task
        /\ mon[p].pc \in {"gone", "releasing"} => mon[p].task \in Task
        /\ \A s \in Task : JOBS[p][s] \in Entries
    BY DEF MonOK, Monitors, Refers, CopiesOK
  <1>5. Heeds(mon[p], lock[p], JOBS[p], row, job)
    BY DEF Orderly, MonitorsHeed
  <1>6. \A s \in Task : JOBS[p][s].held /\ JOBS[p][s].status \in ACTIVE_STATES
                          => JOBS[p][s].job \in Job
    <2> TAKE s \in Task
    <2>1. Agrees(JOBS[p][s], row[s]) /\ Sane(s, row[s]) /\ JOBS[p][s].job \in Job \cup {NoJob}
      BY <1>4 DEF Orderly, Settled, CopiesAgree, SaneRows, Entries
    <2> QED
      BY <2>1 DEF Agrees, Sane, ACTIVE_STATES, PENDING_STATES
  <1>7. Heeds(mon[p], l, JOBS'[p], row', job')
    <2>1. ASSUME NEW s \in mon[p].todo PROVE row'[s].exists
      <3>1. s \in Task /\ row[s].exists
        BY <1>4, <1>5 DEF Heeds
      <3> QED
        BY <1>1, <3>1
    <2>2. ASSUME mon[p].pc = "relegacy", NEW s \in mon[p].todo PROVE row'[s].verdict = "legacy"
      <3>1. s \in Task /\ row[s].verdict = "legacy"
        BY <2>2, <1>4, <1>5 DEF Heeds
      <3> QED
        BY <1>1, <2>2, <3>1
    <2>3. l.op \in {"legacy", "recover"} => l.task \notin mon[p].todo
      BY <1>5 DEF Heeds
    <2>4. ASSUME mon[p].pc = "gone"
          PROVE  /\ JOBS'[p][mon[p].task].held
                 /\ JOBS'[p][mon[p].task].status \in ACTIVE_STATES
                 /\ ~job'[JOBS'[p][mon[p].task].job].known
      <3> DEFINE s == mon[p].task
      <3>1. s \in Task /\ JOBS[p][s].held /\ JOBS[p][s].status \in ACTIVE_STATES
            /\ ~job[JOBS[p][s].job].known
        BY <2>4, <1>4, <1>5 DEF Heeds
      <3>2. JOBS'[p][s].held /\ JOBS'[p][s].status \in ACTIVE_STATES
            /\ JOBS'[p][s].job = JOBS[p][s].job
        BY <2>4, <3>1, <1>2
      <3> QED
        BY <3>1, <3>2, <1>6 DEF SameJobs
    <2>5. mon[p].pc = "gone" /\ l.op # "free" => l.task # mon[p].task
      BY <1>5 DEF Heeds
    <2>6. ASSUME NEW s \in Task, row'[s].status = "DISPATCHING" PROVE Submitting(mon[p], l, s)
      <3>1. row[s].status = "DISPATCHING"
        BY <1>1, <2>6 DEF Spares
      <3>2. Submitting(mon[p], lock[p], s)
        BY <1>5, <3>1 DEF Heeds
      <3> QED
        BY <1>1, <2>6, <3>2 DEF Submitting, Spares
    <2>7. ASSUME mon[p].pc = "releasing"
          PROVE  l.op # "post" /\ (mon[p].seen = "DISPATCHING" => Idle(row'[mon[p].task]))
      <3>1. lock[p].op # "post" /\ (mon[p].seen = "DISPATCHING" => Idle(row[mon[p].task]))
        BY <1>5, <2>7 DEF Heeds
      <3>2. l.op # "post"
        BY <3>1 DEF Spares
      <3>3. ASSUME Idle(row[mon[p].task]) PROVE Idle(row'[mon[p].task])
        <4>1. CASE mon[p].task = t
          BY <1>1, <3>1, <3>3, <4>1 DEF Spares
        <4>2. CASE mon[p].task # t
          BY <1>1, <1>4, <2>7, <3>3, <4>2
        <4> QED
          BY <4>1, <4>2
      <3> QED
        BY <3>1, <3>2, <3>3
    <2>8. mon[p].pc # "recover"
      BY <1>5 DEF Heeds
    <2> QED
      BY <2>1, <2>2, <2>3, <2>4, <2>5, <2>6, <2>7, <2>8 DEF Heeds
  <1> QED
    BY <1>3, <1>7 DEF MonitorsHeed

-----------------------------------------------------------------------------
(* The ends of the sections that hold the lock.                            *)

(* What a copy says of its row.                                            *)
LEMMA CopyTells ==
    ASSUME TypeInv, Settled, NEW p \in App, NEW t \in Task, JOBS[p][t].held
    PROVE  LET c == JOBS[p][t] IN
           /\ row[t] \in Rows /\ c \in Entries
           /\ row[t].exists /\ ~row[t].keep /\ ~c.keep
           /\ c.job = row[t].job /\ c.outs = row[t].outs /\ c.verdict = row[t].verdict
           /\ c.status # "UNKNOWN"
           /\ c.status \notin PENDING_STATES \cup {"CANCELLED"} => row[t].status = c.status
           /\ c.status \in PENDING_STATES => row[t].status \in PENDING_STATES /\ c.job = NoJob
           /\ c.status \in ACTIVE_STATES \cup {"COMPLETED", "FAILED"} => c.job \in Job
           /\ c.job # NoJob => c.job \in Job /\ job[c.job].state # "none" /\ job[c.job].task = t
           /\ c.verdict = "legacy" => c.status = "FAILED" /\ LegacyJob[t] # NoJob
  <1>1. row[t] \in Rows /\ JOBS[p][t] \in Entries
    BY DEF TypeInv, DbOK, CopiesOK
  <1>2. Agrees(JOBS[p][t], row[t]) /\ Sane(t, row[t]) /\ Served(t, row[t], job)
    BY DEF Settled, CopiesAgree, SaneRows, RowsServed
  <1> QED
    BY <1>1, <1>2 DEF Agrees, Sane, Served, Rows, Entries, PENDING_STATES, ACTIVE_STATES

(* Nobody but the holder of the lock is at work on its task.               *)
LEMMA Apart ==
    ASSUME TypeInv, Orderly, NEW p \in App, lock[p].op # "free"
    PROVE  /\ lock[p].task \in Task /\ JOBS[p][lock[p].task].held
           /\ mon[p].pc = "relegacy" => lock[p].task \notin mon[p].todo
           /\ mon[p].pc = "gone" => lock[p].task # mon[p].task
  <1> DEFINE t == lock[p].task
  <1>1. t \in Task /\ Means(lock[p], JOBS[p][t], job) /\ lock[p] \in Locks
    BY DEF TypeInv, LockOK, Orderly, Settled, LocksMean
  <1>2. Heeds(mon[p], lock[p], JOBS[p], row, job)
    BY DEF Orderly, MonitorsHeed
  <1>3. JOBS[p][t].held
    BY <1>1 DEF Means
  <1>4. lock[p].op \notin {"legacy", "recover"} => row[t].verdict # "legacy"
    <2>1. lock[p].op \in {"post", "poll", "import", "cancel", "legacy", "recover"}
      BY <1>1 DEF Locks
    <2> QED
      BY <2>1, <1>1, <1>3, CopyTells DEF Orderly, Means, ACTIVE_STATES, PENDING_STATES
  <1>5. mon[p].pc = "relegacy" => t \notin mon[p].todo
    BY <1>2, <1>4 DEF Heeds
  <1> QED
    BY <1>1, <1>2, <1>3, <1>5 DEF Heeds

(* record_job, whose database call does not fail here.                     *)
LEMMA Recording ==
    ASSUME Undisturbed, TypeInv, NEW p \in App, NEW t \in Task, NEW c \in Entries,
           c.held, ~c.keep, c.status \notin {"UNKNOWN", "DISPATCHING"},
           c.status \in PENDING_STATES <=> c.job = NoJob /\ c.status # "CANCELLED",
           c.verdict = "legacy" => c.status = "FAILED" /\ LegacyJob[t] # NoJob,
           Record(p, t, c)
    PROVE  LET r == Recorded(c, row[t]) IN
           /\ JOBS' = [JOBS EXCEPT ![p][t] = c] /\ row' = [row EXCEPT ![t] = r]
           /\ r \in Rows /\ Agrees(c, r) /\ Sane(t, r) /\ r.exists
           /\ r.status = c.status /\ r.job = c.job /\ r.verdict = c.verdict
           /\ Phase(r) = IF c.status \in PENDING_STATES THEN "waiting"
                         ELSE IF c.status \in ACTIVE_STATES THEN "running" ELSE c.status
  <1> DEFINE r == Recorded(c, row[t])
  <1>1. JOBS' = [JOBS EXCEPT ![p][t] = c] /\ row' = [row EXCEPT ![t] = r]
    BY DEF Record, Undisturbed, Answered
  <1>2. r \in Rows
    BY RecordedType DEF TypeInv, DbOK
  <1>3. /\ r.exists /\ r.status = c.status /\ r.job = c.job /\ r.outs = c.outs
        /\ r.verdict = c.verdict /\ ~r.keep
    BY DEF Recorded
  <1> HIDE DEF r
  <1>4. Agrees(c, r)
    BY <1>3 DEF Agrees
  <1>5. Sane(t, r)
    BY <1>3 DEF Sane, PENDING_STATES, ACTIVE_STATES
  <1>6. Phase(r) = IF c.status \in PENDING_STATES THEN "waiting"
                   ELSE IF c.status \in ACTIVE_STATES THEN "running" ELSE c.status
    BY <1>3 DEF Phase
  <1> QED
    BY <1>1, <1>2, <1>3, <1>4, <1>5, <1>6 DEF r

LEMMA SectionRecords ==
    ASSUME Undisturbed, TypeInv, Orderly, NEW p \in App, lock[p].op # "free",
           NEW t, t = lock[p].task, NEW c \in Entries, NEW l,
           Record(p, t, c), lock' = [lock EXCEPT ![p] = l], UNCHANGED <<gen, mon, ask, job>>,
           c.held, ~c.keep, c.status \notin PENDING_STATES \cup {"UNKNOWN"}, c.job # NoJob,
           lock[p].op = "post" => c.job = lock[p].sub,
           lock[p].op # "post" => c.job = JOBS[p][t].job,
           c.verdict = "legacy" => c.status = "FAILED" /\ JOBS[p][t].verdict = "legacy",
           c.status = "CANCELLED" => job[c.job].state # "IN_PROGRESS",
           \/ l = Unlocked
           \/ l.op = "import" /\ l.task = t /\ c.status = "COMPLETED"
           \/ /\ l.op = "recover" /\ l.task = t /\ lock[p].op = "legacy" /\ l.by = "monitor"
              /\ c.verdict = "legacy",
           Lawful(p, t, Phase(row[t]), IF c.status \in ACTIVE_STATES THEN "running" ELSE c.status)
    PROVE  Orderly' /\ Kept
  <1> DEFINE r == Recorded(c, row[t])
  <1>1. t \in Task /\ JOBS[p][t].held /\ Means(lock[p], JOBS[p][t], job)
        /\ (mon[p].pc = "relegacy" => t \notin mon[p].todo)
        /\ (mon[p].pc = "gone" => t # mon[p].task)
    BY Apart DEF Orderly, Settled, LocksMean
  <1>2. /\ row[t].exists
        /\ JOBS[p][t].job = row[t].job
        /\ JOBS[p][t].status \in PENDING_STATES => row[t].job = NoJob
        /\ JOBS[p][t].job # NoJob => job[JOBS[p][t].job].state # "none"
        /\ JOBS[p][t].verdict = "legacy" => LegacyJob[t] # NoJob
    BY <1>1, CopyTells DEF Orderly
  <1>3. /\ JOBS' = [JOBS EXCEPT ![p][t] = c] /\ row' = [row EXCEPT ![t] = r]
        /\ r \in Rows /\ Agrees(c, r) /\ Sane(t, r) /\ r.exists
        /\ r.status = c.status /\ r.job = c.job /\ r.verdict = c.verdict
        /\ Phase(r) = IF c.status \in ACTIVE_STATES THEN "running" ELSE c.status
    BY <1>1, <1>2, Recording DEF PENDING_STATES
  <1> HIDE DEF r
  <1>4. Touches(p, t, c, r, l) /\ SameJobs
    BY <1>3, SameJobsSame DEF Touches
  <1>5. r.job = row[t].job \/ (Posting(lock[p], t, r.job) /\ row[t].job = NoJob)
    BY <1>1, <1>2, <1>3 DEF Posting, Means
  <1>6. c.job # NoJob => job[c.job].state # "none"
    BY <1>1, <1>2 DEF Means
  <1>7. l.op \notin {"free", "post"} => l.task = t /\ Means(l, c, job)
    BY DEF Means, Unlocked
  <1>8. l.op # "post"
    BY DEF Unlocked
  <1>9. Fits(p, t, c, r, l)
    BY <1>3, <1>5, <1>6, <1>7, <1>8 DEF Fits
  <1>10. Settled'
    BY <1>1, <1>2, <1>3, <1>4, <1>9, Touched DEF Orderly, Undisturbed
  <1>11. MonitorsHeed'
    <2>1. l.op # "free" => l.task = t
      BY DEF Unlocked
    <2>2. l.op \in {"legacy", "recover"} => lock[p].op \in {"legacy", "recover"}
      BY DEF Unlocked
    <2>3. Spares(p, t, r, l)
      BY <1>1, <1>2, <1>3, <1>8 DEF Spares, Idle, PENDING_STATES
    <2> QED
      BY <1>1, <1>3, <1>4, <2>1, <2>2, <2>3, MonitorStays DEF Undisturbed
  <1>12. Kept
    BY <1>1, <1>3, <1>4, Steps DEF Orderly, Undisturbed
  <1> QED
    BY <1>10, <1>11, <1>12 DEF Orderly

LEMMA NoMiss == 0 \in Misses
  BY Constants DEF Misses

LEMMA SectionFacts ==
    ASSUME TypeInv, Orderly, NEW p \in App, lock[p].op # "free"
    PROVE  LET t == lock[p].task  c == JOBS[p][t] IN
           /\ t \in Task /\ lock[p] \in Locks /\ row[t] \in Rows /\ c \in Entries
           /\ Means(lock[p], c, job)
           /\ c.held /\ ~c.keep /\ row[t].exists
           /\ c.status \in PENDING_STATES => Phase(row[t]) = "waiting"
           /\ c.status \in ACTIVE_STATES => Phase(row[t]) = "running" /\ c.job \in Job
           /\ \A s \in {"COMPLETED", "FAILED"} : c.status = s => Phase(row[t]) = s
           /\ c.verdict = "legacy" => c.status = "FAILED" /\ LegacyJob[t] # NoJob
           /\ c.status \in {"COMPLETED", "FAILED"} => c.job \in Job
           /\ row[t].verdict = c.verdict
  <1> DEFINE t == lock[p].task
  <1>1. t \in Task /\ lock[p] \in Locks /\ JOBS[p][t].held /\ Means(lock[p], JOBS[p][t], job)
    BY Apart DEF TypeInv, LockOK, Orderly, Settled, LocksMean
  <1>2. row[t] \in Rows /\ JOBS[p][t] \in Entries
    BY <1>1, CopyTells DEF Orderly
  <1>3. row[t].exists /\ ~JOBS[p][t].keep
    BY <1>1, CopyTells DEF Orderly
  <1>4. JOBS[p][t].status \in PENDING_STATES => row[t].status \in PENDING_STATES
    BY <1>1, CopyTells DEF Orderly
  <1>5. JOBS[p][t].status \notin PENDING_STATES \cup {"CANCELLED"}
           => row[t].status = JOBS[p][t].status
    BY <1>1, CopyTells DEF Orderly
  <1>6. /\ JOBS[p][t].status \in ACTIVE_STATES \cup {"COMPLETED", "FAILED"} => JOBS[p][t].job \in Job
        /\ JOBS[p][t].verdict = "legacy" => JOBS[p][t].status = "FAILED" /\ LegacyJob[t] # NoJob
        /\ row[t].verdict = JOBS[p][t].verdict
    BY <1>1, CopyTells DEF Orderly
  <1> HIDE DEF t
  <1>7. JOBS[p][t].status \in PENDING_STATES => Phase(row[t]) = "waiting"
    BY <1>3, <1>4 DEF Phase
  <1>8. JOBS[p][t].status \in ACTIVE_STATES => Phase(row[t]) = "running"
    BY <1>3, <1>5 DEF Phase, ACTIVE_STATES, PENDING_STATES
  <1>9. \A s \in {"COMPLETED", "FAILED"} : JOBS[p][t].status = s => Phase(row[t]) = s
    BY <1>3, <1>5 DEF Phase, ACTIVE_STATES, PENDING_STATES
  <1> QED
    BY <1>1, <1>2, <1>3, <1>6, <1>7, <1>8, <1>9 DEF t

LEMMA DispatchEndsOrderly ==
    ASSUME Undisturbed, TypeInv, Orderly, NEW p \in App, DispatchEnds(p) PROVE Orderly' /\ Kept
  <1> DEFINE t == lock[p].task
             old == JOBS[p][t]
             c == [old EXCEPT !.status = "QUEUED", !.job = lock[p].sub]
  <1>1. /\ lock[p].op = "post" /\ Record(p, t, c) /\ lock' = [lock EXCEPT ![p] = Unlocked]
        /\ UNCHANGED <<gen, mon, ask, job>>
    BY DEF DispatchEnds, Unlock, providerVars
  <1>2. /\ t \in Task /\ lock[p] \in Locks /\ old \in Entries /\ old.held /\ ~old.keep
        /\ Means(lock[p], old, job)
    BY <1>1, SectionFacts
  <1>3. old.status \in PENDING_STATES /\ lock[p].sub # NoJob /\ Phase(row[t]) = "waiting"
    BY <1>1, SectionFacts DEF Means
  <1>4. /\ c \in Entries /\ c.held /\ ~c.keep /\ c.job = lock[p].sub /\ c.status = "QUEUED"
        /\ c.verdict # "legacy"
    <2>1. lock[p].sub \in Job \cup {NoJob} /\ "QUEUED" \in Status /\ "none" \in Verdict
      BY <1>2, StatusNames DEF Locks, Verdict
    <2>2. old.verdict # "legacy"
      BY <1>1, <1>3, SectionFacts DEF PENDING_STATES
    <2> HIDE DEF old
    <2>3. PICK d : d = c
      OBVIOUS
    <2>4. /\ d \in Entries /\ d.held = old.held /\ d.keep = old.keep /\ d.job = lock[p].sub
          /\ d.status = "QUEUED" /\ d.verdict = old.verdict
      BY <1>2, <2>1, <2>3 DEF Entries
    <2> HIDE DEF c
    <2> QED
      BY <1>2, <2>2, <2>3, <2>4
  <1> HIDE DEF c, old
  <1>5. Lawful(p, t, Phase(row[t]), IF c.status \in ACTIVE_STATES THEN "running" ELSE c.status)
    BY <1>1, <1>3, <1>4 DEF Lawful, ACTIVE_STATES
  <1>6. c.status \notin PENDING_STATES \cup {"UNKNOWN"}
    BY <1>4 DEF PENDING_STATES
  <1> QED
    BY <1>1, <1>3, <1>4, <1>5, <1>6, SectionRecords

LEMMA PollEndsOrderly ==
    ASSUME Undisturbed, TypeInv, Orderly, NEW p \in App, PollEnds(p) PROVE Orderly' /\ Kept
  <1> DEFINE t == lock[p].task
             old == JOBS[p][t]
             got == lock[p].got
             c == [old EXCEPT !.status = got, !.misses = 0, !.verdict = "none"]
             l == IF got = "COMPLETED" /\ c.outs = NoJob THEN [lock[p] EXCEPT !.op = "import"]
                  ELSE Unlocked
  <1>1. lock[p].op = "poll" /\ Record(p, t, c) /\ UNCHANGED <<gen, mon, ask, job>>
    BY DEF PollEnds, providerVars
  <1>2. lock' = [lock EXCEPT ![p] = l]
    <2> HIDE DEF c
    <2>1. IF got = "COMPLETED" /\ c.outs = NoJob THEN lock' = [lock EXCEPT ![p].op = "import"]
          ELSE lock' = [lock EXCEPT ![p] = Unlocked]
      BY DEF PollEnds, Unlock, c
    <2> QED
      BY <2>1
  <1>3. /\ t \in Task /\ lock[p] \in Locks /\ old \in Entries /\ old.held /\ ~old.keep
        /\ old.status \in ACTIVE_STATES /\ Phase(row[t]) = "running" /\ old.job \in Job
        /\ got # "UNKNOWN"
        /\ got # "IN_PROGRESS" => job[old.job].state = got
    <2>1. Means(lock[p], old, job)
      BY <1>1, SectionFacts
    <2>2. old.status \in ACTIVE_STATES /\ got # "UNKNOWN"
          /\ (got # "IN_PROGRESS" => job[old.job].state = got)
      BY <1>1, <2>1 DEF Means
    <2> QED
      BY <1>1, <2>2, SectionFacts
  <1>4. got \in Answer
    BY <1>3 DEF Locks
  <1>5. /\ c \in Entries /\ c.held /\ ~c.keep /\ c.job = old.job /\ c.status = got
        /\ c.verdict = "none"
    <2>1. got \in Status /\ "none" \in Verdict
      BY <1>4, StatusNames DEF Answer, Verdict
    <2> HIDE DEF old, got
    <2>2. PICK d : d = c
      OBVIOUS
    <2>3. /\ d \in Entries /\ d.held = old.held /\ d.keep = old.keep /\ d.job = old.job
          /\ d.status = got /\ d.verdict = "none"
      BY <1>3, <2>1, <2>2, NoMiss DEF Entries
    <2> HIDE DEF c
    <2> QED
      BY <1>3, <2>2, <2>3
  <1>6. l = Unlocked \/ (l.op = "import" /\ l.task = t /\ c.status = "COMPLETED")
    <2>1. lock[p].task = t
      OBVIOUS
    <2> HIDE DEF c, t
    <2> QED
      BY <1>3, <1>5, <2>1 DEF Locks
  <1> HIDE DEF c, l, got
  <1>7. /\ c.status \notin PENDING_STATES \cup {"UNKNOWN"}
        /\ c.status \in {"IN_PROGRESS", "COMPLETED", "FAILED", "CANCELLED"}
    BY <1>3, <1>4, <1>5 DEF Answer, PENDING_STATES, got
  <1>8. Lawful(p, t, Phase(row[t]), IF c.status \in ACTIVE_STATES THEN "running" ELSE c.status)
    BY <1>3, <1>7 DEF Lawful, ACTIVE_STATES
  <1>9. c.status = "CANCELLED" => job[c.job].state # "IN_PROGRESS"
    BY <1>3, <1>5 DEF got
  <1>10. c.job # NoJob
    BY <1>3, <1>5, Constants DEF NoJob
  <1> HIDE DEF old
  <1> QED
    BY <1>1, <1>2, <1>5, <1>6, <1>7, <1>8, <1>9, <1>10, SectionRecords DEF old

LEMMA ImportEndsOrderly ==
    ASSUME Undisturbed, TypeInv, Orderly, NEW p \in App, ImportEnds(p) PROVE Orderly' /\ Kept
  <1> DEFINE t == lock[p].task
             old == JOBS[p][t]
  <1>1. /\ lock[p].op = "import" /\ lock' = [lock EXCEPT ![p] = Unlocked]
        /\ UNCHANGED <<gen, mon, ask, job>>
    BY DEF ImportEnds, Unlock, providerVars
  <1>2. t \in Task
    BY <1>1, SectionFacts
  <1>3. PICK m \in Job \cup {NoJob} : Record(p, t, [old EXCEPT !.outs = m])
    <2>1. Imports(t) \subseteq Job \cup {NoJob}
      BY <1>2 DEF Imports, TypeInv, ProviderOK
    <2> QED
      BY <2>1 DEF ImportEnds
  <1>4. PICK c : c = [old EXCEPT !.outs = m]
    OBVIOUS
  <1>5. Record(p, t, c)
    BY <1>3, <1>4
  <1>6. /\ old \in Entries /\ old.held /\ ~old.keep /\ old.status = "COMPLETED"
        /\ old.job \in Job /\ old.verdict # "legacy"
        /\ Phase(row[t]) = "COMPLETED"
    <2>1. old.status = "COMPLETED"
      BY <1>1, SectionFacts DEF Means
    <2> QED
      BY <1>1, <2>1, SectionFacts
  <1> HIDE DEF old
  <1>7. /\ c \in Entries /\ c.held /\ ~c.keep /\ c.status = "COMPLETED" /\ c.job = old.job
        /\ c.verdict # "legacy"
    BY <1>4, <1>6 DEF Entries
  <1>8. Lawful(p, t, Phase(row[t]), IF c.status \in ACTIVE_STATES THEN "running" ELSE c.status)
    BY <1>6, <1>7 DEF Lawful, ACTIVE_STATES
  <1>9. c.status \notin PENDING_STATES \cup {"UNKNOWN"} /\ c.job # NoJob
    BY <1>6, <1>7, Constants DEF PENDING_STATES, NoJob
  <1> QED
    BY <1>1, <1>5, <1>7, <1>8, <1>9, SectionRecords DEF old

LEMMA RecoverEndsOrderly ==
    ASSUME Undisturbed, TypeInv, Orderly, NEW p \in App, RecoverEnds(p) PROVE Orderly' /\ Kept
  <1> DEFINE t == lock[p].task
             old == JOBS[p][t]
  <1>1. /\ lock[p].op = "recover" /\ lock' = [lock EXCEPT ![p] = Unlocked]
        /\ UNCHANGED <<gen, mon, ask, job>>
    BY DEF RecoverEnds, Unlock, providerVars
  <1>2. PICK c : c = [old EXCEPT !.status = "COMPLETED", !.misses = 0, !.verdict = "none"]
    OBVIOUS
  <1>3. Record(p, t, c)
    BY <1>2 DEF RecoverEnds
  <1>4. /\ old \in Entries /\ old.held /\ ~old.keep /\ old.job \in Job
        /\ \/ Phase(row[t]) = "running"
           \/ Phase(row[t]) = "FAILED" /\ LegacyJob[t] # NoJob
    <2>1. old.status \in ACTIVE_STATES \/ old.verdict = "legacy"
      BY <1>1, SectionFacts DEF Means
    <2> QED
      BY <1>1, <2>1, SectionFacts
  <1> HIDE DEF old
  <1>5. /\ c \in Entries /\ c.held /\ ~c.keep /\ c.status = "COMPLETED" /\ c.job = old.job
        /\ c.verdict = "none"
    BY <1>2, <1>4, NoMiss, StatusNames DEF Entries, Verdict
  <1>6. Lawful(p, t, Phase(row[t]), IF c.status \in ACTIVE_STATES THEN "running" ELSE c.status)
    BY <1>4, <1>5 DEF Lawful, ACTIVE_STATES
  <1>7. c.status \notin PENDING_STATES \cup {"UNKNOWN"} /\ c.job # NoJob
    BY <1>4, <1>5, Constants DEF PENDING_STATES, NoJob
  <1> QED
    BY <1>1, <1>3, <1>5, <1>6, <1>7, SectionRecords DEF old

LEMMA CancelEndsOrderly ==
    ASSUME Undisturbed, TypeInv, Orderly, NEW p \in App, CancelEnds(p) PROVE Orderly' /\ Kept
  <1> DEFINE t == lock[p].task
             old == JOBS[p][t]
  <1>1. /\ lock[p].op = "cancel" /\ lock' = [lock EXCEPT ![p] = Unlocked]
        /\ UNCHANGED <<gen, mon, ask, job>>
    BY DEF CancelEnds, Unlock, providerVars
  <1>2. PICK c : c = [old EXCEPT !.status = "CANCELLED", !.misses = 0, !.verdict = "none"]
    OBVIOUS
  <1>3. Record(p, t, c)
    BY <1>2 DEF CancelEnds
  <1>4. /\ old \in Entries /\ old.held /\ ~old.keep /\ old.job \in Job
        /\ Phase(row[t]) = "running" /\ job[old.job].state # "IN_PROGRESS"
    <2>1. old.status \in ACTIVE_STATES /\ job[old.job].state # "IN_PROGRESS"
      BY <1>1, SectionFacts DEF Means
    <2> QED
      BY <1>1, <2>1, SectionFacts
  <1> HIDE DEF old
  <1>5. /\ c \in Entries /\ c.held /\ ~c.keep /\ c.status = "CANCELLED" /\ c.job = old.job
        /\ c.verdict = "none"
    BY <1>2, <1>4, NoMiss, StatusNames DEF Entries, Verdict
  <1>6. Lawful(p, t, Phase(row[t]), IF c.status \in ACTIVE_STATES THEN "running" ELSE c.status)
    BY <1>4, <1>5 DEF Lawful, ACTIVE_STATES
  <1>7. c.status \notin PENDING_STATES \cup {"UNKNOWN"} /\ c.job # NoJob
    BY <1>4, <1>5, Constants DEF PENDING_STATES, NoJob
  <1> QED
    BY <1>1, <1>3, <1>4, <1>5, <1>6, <1>7, SectionRecords DEF old

-----------------------------------------------------------------------------
(* The handlers, and what they share with the monitor: a look at a task.   *)

LEMMA RestoreAgrees ==
    ASSUME TypeInv, Settled, NEW t \in Task, row[t].exists
    PROVE  LET c == Restore(row[t]) IN
           c \in Entries /\ c.held /\ Agrees(c, row[t]) /\ c.status = row[t].status
  <1>1. row[t] \in Rows /\ Sane(t, row[t])
    BY DEF TypeInv, DbOK, Settled, SaneRows
  <1> QED
    BY <1>1, RestoreType DEF Restore, Agrees, Sane

LEMMA LoadedAgrees ==
    ASSUME TypeInv, Settled, NEW p \in App, NEW t \in Task, Found(p, t)
    PROVE  LET c == Loaded(p, t) IN
           /\ c \in Entries /\ c.held /\ Agrees(c, row[t]) /\ row[t].exists
           /\ JOBS[p][t].held => c = JOBS[p][t]
  <1>1. CASE JOBS[p][t].held
    <2>1. JOBS[p][t] \in Entries /\ Agrees(JOBS[p][t], row[t])
      BY DEF TypeInv, CopiesOK, Settled, CopiesAgree
    <2> QED
      BY <1>1, <2>1 DEF Loaded, Agrees
  <1>2. CASE ~JOBS[p][t].held
    <2>1. row[t].exists
      BY <1>2 DEF Found
    <2> QED
      BY <1>2, <2>1, RestoreAgrees DEF Loaded
  <1> QED
    BY <1>1, <1>2

(* The copy is read afresh, and the lock may be taken for a call.          *)
LEMMA Cached ==
    ASSUME Undisturbed, TypeInv, Settled, NEW p \in App, NEW t \in Task, NEW c, NEW l,
           LockFree(p), Cache(p, t, c), lock' = [lock EXCEPT ![p] = l],
           UNCHANGED <<gen, ask>>, SameJobs, c.held, Agrees(c, row[t]), l.op # "post",
           l.op # "free" => l.task = t /\ Means(l, c, job')
    PROVE  Settled' /\ Kept /\ Touches(p, t, c, row[t], l)
  <1>1. row = [row EXCEPT ![t] = row[t]] /\ row[t] \in Rows
    BY DEF TypeInv, DbOK
  <1>2. Touches(p, t, c, row[t], l)
    BY <1>1 DEF Touches, Cache
  <1>3. Sane(t, row[t]) /\ Served(t, row[t], job) /\ row[t].exists
    BY DEF Settled, SaneRows, RowsServed, Agrees
  <1>4. row[t].status = "CANCELLED" /\ row[t].job # NoJob
           => job'[row[t].job].state \notin {"none", "IN_PROGRESS"}
    BY <1>1, <1>3 DEF Served, SameJobs, Rows
  <1>5. Fits(p, t, c, row[t], l)
    BY <1>3, <1>4 DEF Fits, LockFree
  <1>6. Settled'
    BY <1>1, <1>2, <1>3, <1>5, Touched DEF Undisturbed
  <1>7. Kept
    BY Stutters DEF Cache
  <1> QED
    BY <1>2, <1>6, <1>7

(* The same at a handler's hands: the monitor stays where it is.           *)
LEMMA Looked ==
    ASSUME Undisturbed, TypeInv, Orderly, NEW p \in App, NEW t \in Task, NEW c, NEW l,
           LockFree(p), Cache(p, t, c), lock' = [lock EXCEPT ![p] = l],
           UNCHANGED <<gen, mon, ask>>, SameJobs, c.held, Agrees(c, row[t]),
           l.op \in {"free", "poll", "import", "cancel"},
           l.op # "free" => /\ l.task = t /\ Means(l, c, job')
                            /\ c.status \in ACTIVE_STATES => Known(c.job)
    PROVE  Orderly' /\ Kept
  <1>1. Settled' /\ Kept /\ Touches(p, t, c, row[t], l)
    BY Cached DEF Orderly
  <1>2. row[t] \in Rows /\ row[t].exists
    BY DEF TypeInv, DbOK, Agrees
  <1>3. Heeds(mon[p], lock[p], JOBS[p], row, job)
    BY DEF Orderly, MonitorsHeed
  <1>4. ASSUME mon[p].pc = "gone", mon[p].task = t
        PROVE  /\ c.held /\ c.status \in ACTIVE_STATES /\ c.job = JOBS[p][t].job
               /\ l.op = "free"
    <2>1. /\ JOBS[p][t].held /\ JOBS[p][t].status \in ACTIVE_STATES
          /\ ~job[JOBS[p][t].job].known
      BY <1>3, <1>4 DEF Heeds
    <2>2. Agrees(JOBS[p][t], row[t])
      BY DEF Orderly, Settled, CopiesAgree
    <2>3. c.status = JOBS[p][t].status /\ c.job = JOBS[p][t].job
      BY <2>1, <2>2 DEF Agrees, ACTIVE_STATES, PENDING_STATES
    <2> QED
      BY <2>1, <2>3 DEF Known
  <1>5. mon[p].pc = "relegacy" /\ t \in mon[p].todo => row[t].verdict = "legacy"
    BY <1>3 DEF Heeds
  <1>6. Spares(p, t, row[t], l)
    BY DEF Spares, LockFree
  <1>7. MonitorsHeed'
    BY <1>1, <1>2, <1>4, <1>5, <1>6, MonitorStays DEF Undisturbed
  <1> QED
    BY <1>1, <1>7 DEF Orderly

(* The section a look starts, if it starts one.                            *)
LEMMA SectionsStart ==
    ASSUME Undisturbed, TypeInv, Settled, NEW p \in App, NEW t \in Task, NEW by,
           LockFree(p), Found(p, t), StatusSections(p, t, by)
    PROVE  \E l : /\ lock' = [lock EXCEPT ![p] = l]
                  /\ l.op \in {"free", "poll", "import"}
                  /\ l.op # "free" => /\ l.task = t /\ Means(l, Loaded(p, t), job)
                                      /\ Loaded(p, t).status \in ACTIVE_STATES
                                            => Known(Loaded(p, t).job)
  <1> DEFINE c == Loaded(p, t)
  <1>1. c \in Entries /\ c.held /\ Agrees(c, row[t]) /\ Sane(t, row[t])
    BY LoadedAgrees DEF Settled, SaneRows
  <1>2. c.status # "UNKNOWN"
    BY <1>1 DEF Agrees, Sane, PENDING_STATES
  <1>3. CASE UNCHANGED lock
    <2>1. lock' = [lock EXCEPT ![p] = lock[p]] /\ lock[p].op = "free"
      BY <1>3 DEF TypeInv, LockOK, LockFree
    <2> QED
      BY <2>1
  <1>4. CASE c.status = "COMPLETED" /\ Hold(p, by, "import", t, "UNKNOWN", NoJob)
    <2> DEFINE l == [op |-> "import", by |-> by, task |-> t, got |-> "UNKNOWN", sub |-> NoJob]
    <2>1. lock' = [lock EXCEPT ![p] = l]
      BY <1>4 DEF Hold
    <2>2. Means(l, c, job)
      BY <1>1, <1>4 DEF Means
    <2>3. c.status \notin ACTIVE_STATES
      BY <1>4 DEF ACTIVE_STATES
    <2> HIDE DEF c
    <2> QED
      BY <2>1, <2>2, <2>3 DEF c
  <1>5. CASE /\ c.status \notin PENDING_STATES \cup TERMINAL_STATES
             /\ Known(c.job)
             /\ \E a \in Answers(c.job) : Hold(p, by, "poll", t, a, NoJob)
    <2>1. c.status \in ACTIVE_STATES /\ c.job \in Job
      BY <1>1, <1>2, <1>5 DEF Status, Known, Entries
    <2>2. PICK a \in Answers(c.job) : Hold(p, by, "poll", t, a, NoJob)
      BY <1>5
    <2>3. a = job[c.job].state /\ a # "UNKNOWN"
      BY <2>1, <2>2 DEF Answers, Undisturbed, Answered, TypeInv, ProviderOK, ProviderJobs
    <2> DEFINE l == [op |-> "poll", by |-> by, task |-> t, got |-> a, sub |-> NoJob]
    <2>4. lock' = [lock EXCEPT ![p] = l]
      BY <2>2 DEF Hold
    <2>5. Means(l, c, job)
      BY <1>1, <2>1, <2>3 DEF Means
    <2> HIDE DEF c
    <2> QED
      BY <1>5, <2>4, <2>5 DEF c
  <1> QED
    BY <1>3, <1>4, <1>5 DEF StatusSections

LEMMA GetStatusOrderly ==
    ASSUME Undisturbed, TypeInv, Orderly, NEW p \in App, NEW t \in Task, GetStatus(p, t)
    PROVE  Orderly' /\ Kept
  <1> DEFINE c == Loaded(p, t)
  <1>1. /\ LockFree(p) /\ Found(p, t) /\ Cache(p, t, c)
        /\ UNCHANGED <<gen, mon, ask, job>>
    BY DEF GetStatus, providerVars
  <1>2. c.held /\ Agrees(c, row[t]) /\ SameJobs
    BY <1>1, LoadedAgrees, SameJobsSame DEF Orderly
  <1>3. PICK l : /\ lock' = [lock EXCEPT ![p] = l]
                 /\ l.op \in {"free", "poll", "import"}
                 /\ l.op # "free" => /\ l.task = t /\ Means(l, c, job)
                                     /\ c.status \in ACTIVE_STATES => Known(c.job)
    <2>1. CASE StatusSections(p, t, "http")
      BY <1>1, <2>1, SectionsStart DEF Orderly
    <2>2. CASE UNCHANGED lock
      <3>1. lock' = [lock EXCEPT ![p] = lock[p]] /\ lock[p].op = "free"
        BY <1>1, <2>2 DEF TypeInv, LockOK, LockFree
      <3> QED
        BY <3>1
    <2> QED
      BY <2>1, <2>2 DEF GetStatus
  <1> HIDE DEF c
  <1>4. l.op # "free" => Means(l, c, job')
    BY <1>1, <1>3
  <1> QED
    BY <1>1, <1>2, <1>3, <1>4, Looked

(* A task that waits is cancelled in the database alone.                   *)
LEMMA CancelWaits ==
    ASSUME Undisturbed, TypeInv, Orderly, NEW p \in App, NEW t \in Task, NEW old, old = Loaded(p, t),
           LockFree(p), Found(p, t), old.status \notin TERMINAL_STATES, old.job = NoJob,
           Record(p, t, [old EXCEPT !.status = "CANCELLED", !.misses = 0, !.verdict = "none"]),
           UNCHANGED <<gen, mon, ask, lock, job>>
    PROVE  Orderly' /\ Kept
  <1>1. PICK c : c = [old EXCEPT !.status = "CANCELLED", !.misses = 0, !.verdict = "none"]
    OBVIOUS
  <1>2. /\ old \in Entries /\ old.held /\ Agrees(old, row[t]) /\ row[t].exists
        /\ JOBS[p][t].held => old = JOBS[p][t]
        /\ Sane(t, row[t])
    BY LoadedAgrees DEF Orderly, Settled, SaneRows
  <1>3. old.status \in PENDING_STATES /\ row[t].status \in PENDING_STATES /\ row[t].job = NoJob
    BY <1>2 DEF Agrees, Sane, Entries, Status, ACTIVE_STATES, TERMINAL_STATES
  <1>4. /\ c \in Entries /\ c.held /\ ~c.keep /\ c.status = "CANCELLED" /\ c.job = NoJob
        /\ c.verdict = "none"
    BY <1>1, <1>2, NoMiss, StatusNames DEF Entries, Verdict, Agrees
  <1> DEFINE r == Recorded(c, row[t])
  <1>5. /\ JOBS' = [JOBS EXCEPT ![p][t] = c] /\ row' = [row EXCEPT ![t] = r]
        /\ r \in Rows /\ Agrees(c, r) /\ Sane(t, r) /\ r.exists
        /\ r.status = "CANCELLED" /\ r.job = NoJob /\ Phase(r) = "CANCELLED"
    <2>1. Record(p, t, c)
      BY <1>1
    <2> HIDE DEF r
    <2>2. c.status \notin PENDING_STATES /\ c.status \notin ACTIVE_STATES
      BY <1>4 DEF PENDING_STATES, ACTIVE_STATES
    <2> QED
      BY <1>4, <2>1, <2>2, Recording DEF r
  <1> HIDE DEF r
  <1>6. Touches(p, t, c, r, lock[p]) /\ SameJobs
    BY <1>5, SameJobsSame DEF Touches, TypeInv, LockOK
  <1>7. Fits(p, t, c, r, lock[p])
    BY <1>3, <1>4, <1>5 DEF Fits, LockFree
  <1>8. Settled'
    BY <1>2, <1>5, <1>6, <1>7, Touched DEF Undisturbed, Orderly
  <1>9. Heeds(mon[p], lock[p], JOBS[p], row, job)
    BY DEF Orderly, MonitorsHeed
  <1>10. ~(mon[p].pc = "relegacy" /\ t \in mon[p].todo)
    BY <1>2, <1>3, <1>9 DEF Heeds, Sane, PENDING_STATES
  <1>11. ~(mon[p].pc = "gone" /\ mon[p].task = t)
    BY <1>2, <1>3, <1>9 DEF Heeds, PENDING_STATES, ACTIVE_STATES
  <1>12. MonitorsHeed'
    <2>1. Spares(p, t, r, lock[p])
      BY <1>5 DEF Spares, Idle, LockFree
    <2> QED
      BY <1>5, <1>6, <1>10, <1>11, <2>1, MonitorStays DEF Undisturbed, LockFree
  <1>13. Phase(row[t]) = "waiting"
    BY <1>2, <1>3 DEF Phase
  <1>14. Kept
    BY <1>5, <1>6, <1>13, Steps DEF Undisturbed, Orderly, LockFree, Lawful
  <1> QED
    BY <1>8, <1>12, <1>14 DEF Orderly

LEMMA CancelStartsOrderly ==
    ASSUME Undisturbed, TypeInv, Orderly, NEW p \in App, NEW t \in Task, CancelStarts(p, t)
    PROVE  Orderly' /\ Kept
  <1> DEFINE c == Loaded(p, t)
  <1>1. LockFree(p) /\ Found(p, t) /\ UNCHANGED <<gen, mon, ask>>
    BY DEF CancelStarts
  <1>2. /\ c \in Entries /\ c.held /\ Agrees(c, row[t]) /\ Sane(t, row[t])
        /\ Served(t, row[t], job)
    BY <1>1, LoadedAgrees DEF Orderly, Settled, SaneRows, RowsServed
  <1>3. lock[p].op = "free" /\ (UNCHANGED lock => lock' = [lock EXCEPT ![p] = lock[p]])
    BY <1>1 DEF TypeInv, LockOK, LockFree
  <1>4. CASE /\ c.status \in TERMINAL_STATES
             /\ Cache(p, t, c)
             /\ StatusSections(p, t, "http")
             /\ UNCHANGED job
    <2>1. PICK l : /\ lock' = [lock EXCEPT ![p] = l]
                   /\ l.op \in {"free", "poll", "import"}
                   /\ l.op # "free" => /\ l.task = t /\ Means(l, c, job)
                                       /\ c.status \in ACTIVE_STATES => Known(c.job)
      BY <1>1, <1>4, SectionsStart DEF Orderly
    <2>2. l.op # "free" => Means(l, c, job')
      BY <1>4, <2>1
    <2> HIDE DEF c
    <2> QED
      BY <1>1, <1>2, <1>4, <2>1, <2>2, SameJobsSame, Looked
  <1>5. CASE /\ c.status \notin TERMINAL_STATES /\ c.job = NoJob
             /\ Record(p, t, [c EXCEPT !.status = "CANCELLED", !.misses = 0, !.verdict = "none"])
             /\ UNCHANGED <<lock, job>>
    BY <1>1, <1>5, CancelWaits
  <1>6. CASE /\ c.status \notin TERMINAL_STATES /\ Known(c.job)
             /\ Cache(p, t, c)
             /\ job' = IF job[c.job].state = "IN_PROGRESS"
                       THEN [job EXCEPT ![c.job].state = "CANCELLED"] ELSE job
             /\ Hold(p, "http", "cancel", t, "UNKNOWN", NoJob)
    <2> DEFINE l == [op |-> "cancel", by |-> "http", task |-> t, got |-> "UNKNOWN", sub |-> NoJob]
    <2>1. lock' = [lock EXCEPT ![p] = l]
      BY <1>6 DEF Hold
    <2>2. c.job \in Job /\ c.status \in ACTIVE_STATES
      BY <1>2, <1>6 DEF Known, Agrees, Sane, Entries, Status
    <2> HIDE DEF c
    <2>3. \A j \in Job : job[j] \in ProviderJobs
      BY DEF TypeInv, ProviderOK
    <2>4. \A j \in Job \ {c.job} : job'[j] = job[j]
      BY <1>6 DEF TypeInv, ProviderOK
    <2>5. /\ job'[c.job].task = job[c.job].task /\ job'[c.job].gen = job[c.job].gen
          /\ job'[c.job].known = job[c.job].known
          /\ job'[c.job].state = IF job[c.job].state = "IN_PROGRESS" THEN "CANCELLED"
                                 ELSE job[c.job].state
      BY <1>6, <2>2, <2>3 DEF TypeInv, ProviderOK, ProviderJobs
    <2>6. SameJobs
      BY <2>4, <2>5 DEF SameJobs
    <2>7. Means(l, c, job')
      BY <1>2, <2>2, <2>5 DEF Means
    <2> QED
      BY <1>1, <1>2, <1>6, <2>1, <2>6, <2>7, Looked
  <1>7. CASE Cache(p, t, c) /\ UNCHANGED <<lock, job>>
    <2> HIDE DEF c
    <2> QED
      BY <1>1, <1>2, <1>3, <1>7, SameJobsSame, Looked
  <1> QED
    BY <1>4, <1>5, <1>6, <1>7 DEF CancelStarts

(* A new task: its first row and its first copy.                           *)
LEMMA CreateNew ==
    ASSUME Undisturbed, TypeInv, Orderly, NEW p \in App, NEW t \in Task, LockFree(p),
           gen[t] = 0, Record(p, t, NewEntry), gen' = [gen EXCEPT ![t] = 1],
           UNCHANGED <<mon, lock, ask, job>>
    PROVE  Orderly' /\ Kept
  <1> DEFINE r == Recorded(NewEntry, row[t])
  <1>1. ~row[t].exists /\ row[t].job = NoJob
    BY DEF Orderly, Settled, SaneRows, Sane, PENDING_STATES
  <1>2. /\ NewEntry \in Entries /\ NewEntry.held /\ ~NewEntry.keep
        /\ NewEntry.status = "PENDING_SUBMIT" /\ NewEntry.job = NoJob
        /\ NewEntry.verdict = "none"
    BY EmptyTypes DEF NewEntry, NoEntry
  <1>3. /\ JOBS' = [JOBS EXCEPT ![p][t] = NewEntry] /\ row' = [row EXCEPT ![t] = r]
        /\ r \in Rows /\ Agrees(NewEntry, r) /\ Sane(t, r) /\ r.exists
        /\ r.job = NoJob /\ r.status = "PENDING_SUBMIT" /\ Phase(r) = "waiting"
    BY <1>2, Recording DEF PENDING_STATES
  <1> HIDE DEF r
  <1>4. row'[t] = r /\ \A s \in Task \ {t} : row'[s] = row[s]
    BY <1>3 DEF TypeInv, DbOK
  <1>5. JOBS'[p][t] = NewEntry /\ \A s \in Task \ {t} : JOBS'[p][s] = JOBS[p][s]
    BY <1>3 DEF TypeInv, CopiesOK
  <1>6. gen'[t] = 1 /\ \A s \in Task \ {t} : gen'[s] = gen[s]
    BY DEF TypeInv, DbOK
  <1>7. \A q \in App : q = p
    BY DEF Undisturbed, OneProcess
  <1>8. \A j \in Job : Created(j) => job[j].task # t
    BY <1>1, <1>7, NoRuns DEF LockFree, Orderly
  <1>9. lock[p].op = "free"
    BY DEF LockFree
  <1>10. SaneRows'
    BY <1>3, <1>4, <1>6 DEF Orderly, Settled, SaneRows
  <1>11. CopiesAgree'
    BY <1>3, <1>4, <1>5, <1>7 DEF Orderly, Settled, CopiesAgree
  <1>12. JobsServe'
    BY <1>4, <1>8 DEF Orderly, Settled, JobsServe, Created
  <1>13. RowsServed'
    BY <1>3, <1>4 DEF Orderly, Settled, RowsServed, Served
  <1>14. LocksMean' /\ NothingAsked'
    BY <1>7, <1>9 DEF Orderly, Settled, LocksMean, NothingAsked
  <1>15. Heeds(mon[p], lock[p], JOBS[p], row, job)
    BY DEF Orderly, MonitorsHeed
  <1>16. ~(mon[p].pc = "gone" /\ mon[p].task = t)
    BY <1>1, <1>15 DEF Heeds, Orderly, Settled, CopiesAgree, Agrees
  <1>17. t \notin mon[p].todo
    BY <1>1, <1>15 DEF Heeds
  <1>18. Touches(p, t, NewEntry, r, lock[p]) /\ SameJobs
    BY <1>3, SameJobsSame DEF Touches, TypeInv, LockOK
  <1>19. MonitorsHeed'
    <2>1. Spares(p, t, r, lock[p])
      BY <1>3, <1>9 DEF Spares, Idle, PENDING_STATES
    <2> QED
      BY <1>3, <1>9, <1>16, <1>17, <1>18, <2>1, MonitorStays DEF Undisturbed
  <1>20. Kept
    <2> DEFINE asked == gen
               phase == [s \in Task |-> PhaseOf(s)]
               runs == [s \in Task |-> RunsOf(s)]
    <2>1. PhaseOf(t) = "new" /\ PhaseOf(t)' = "waiting"
          /\ \A s \in Task \ {t} : PhaseOf(s)' = PhaseOf(s)
      BY <1>1, <1>3, <1>4, PhaseIs DEF Phase
    <2>2. \A s \in Task \ {t} : RunsOf(s)' = RunsOf(s)
      BY <1>6, <1>18, RunsStay
    <2>3. { j \in Job : /\ Created(j) /\ job[j].task = t /\ job[j].gen = gen[t] }' = {}
      BY <1>8 DEF Created
    <2>4. RunsOf(t)' = 0
      BY <2>3, FS_EmptySet DEF RunsOf
    <2>5. phase[t] = "new" /\ phase' = [phase EXCEPT ![t] = "waiting"]
      BY <2>1
    <2>6. runs' = [runs EXCEPT ![t] = 0]
      BY <2>2, <2>4
    <2>7. asked' = [asked EXCEPT ![t] = @ + 1]
      BY DEF TypeInv, DbOK
    <2> QED
      BY <2>5, <2>6, <2>7 DEF Kept, Lifecycle!Next, Lifecycle!Request
  <1> QED
    BY <1>10, <1>11, <1>12, <1>13, <1>14, <1>19, <1>20 DEF Orderly, Settled

LEMMA CreateOrderly ==
    ASSUME Undisturbed, TypeInv, Orderly, NEW p \in App, NEW t \in Task, Create(p, t)
    PROVE  Orderly' /\ Kept
  <1>1. LockFree(p) /\ UNCHANGED <<mon, lock, ask, job>>
    BY DEF Create, providerVars
  <1>2. CASE row[t].exists /\ Cache(p, t, Restore(row[t])) /\ UNCHANGED gen
    <2> DEFINE c == Restore(row[t])
    <2>1. c.held /\ Agrees(c, row[t])
      BY <1>2, RestoreAgrees DEF Orderly
    <2>2. lock' = [lock EXCEPT ![p] = lock[p]] /\ lock[p].op = "free"
      BY <1>1 DEF TypeInv, LockOK, LockFree
    <2> HIDE DEF c
    <2> QED
      BY <1>1, <1>2, <2>1, <2>2, SameJobsSame, Looked DEF c
  <1>3. CASE gen[t] = 0 /\ Record(p, t, NewEntry) /\ gen' = [gen EXCEPT ![t] = 1]
    BY <1>1, <1>3, CreateNew
  <1> QED
    BY <1>2, <1>3 DEF Create

LEMMA HandlerOrderly ==
    ASSUME Undisturbed, TypeInv, Orderly, NEW p \in App, Handler(p) PROVE Orderly' /\ Kept
  <1>1. CASE CancelEnds(p)
    BY <1>1, CancelEndsOrderly
  <1>2. ASSUME NEW t \in Task, Create(p, t) \/ GetStatus(p, t) \/ CancelStarts(p, t)
        PROVE  Orderly' /\ Kept
    BY <1>2, CreateOrderly, GetStatusOrderly, CancelStartsOrderly
  <1>3. ~ReworkWrites(p) /\ ~ReworkPublished(p) /\ ~BulkWrites(p)
    BY DEF ReworkWrites, ReworkPublished, BulkWrites, Orderly, Settled, NothingAsked
  <1>4. "rework" \notin Requests /\ "bulk" \notin Requests
    BY DEF Undisturbed, NoRequeue
  <1>5. (\A t \in Task : ~ReworkReads(p, t)) /\ \A S \in SUBSET Task : ~BulkReads(p, S)
    BY <1>4 DEF ReworkReads, BulkReads
  <1> QED
    BY <1>1, <1>2, <1>3, <1>5 DEF Handler

-----------------------------------------------------------------------------
(* A vanished job's output recovers its task, or its time is up.           *)

LEMMA LegacyEndsOrderly ==
    ASSUME Undisturbed, TypeInv, Orderly, NEW p \in App, LegacyEnds(p) PROVE Orderly' /\ Kept
  <1> DEFINE t == lock[p].task
             old == JOBS[p][t]
             l == [op |-> "recover", by |-> "monitor", task |-> t, got |-> "UNKNOWN", sub |-> NoJob]
  <1>1. lock[p].op = "legacy" /\ UNCHANGED <<gen, mon, ask, job>>
    BY DEF LegacyEnds, providerVars
  <1>2. /\ t \in Task /\ row[t] \in Rows /\ old \in Entries /\ old.held /\ ~old.keep
        /\ Phase(row[t]) = "FAILED" /\ old.verdict = "legacy"
        /\ old.job \in Job /\ old.status = "FAILED" /\ row[t].exists
    <2>1. old.verdict = "legacy"
      BY <1>1, SectionFacts DEF Means
    <2>2. old.status = "FAILED"
      BY <1>1, <2>1, SectionFacts
    <2> QED
      BY <1>1, <2>1, <2>2, SectionFacts
  <1>3. PICK m \in Job \cup {NoJob} :
          \/ RecoversFrom(p, t, m)
          \/ /\ Record(p, t, [old EXCEPT !.status = "FAILED", !.misses = 0, !.verdict = "final"])
             /\ Unlock(p)
    BY <1>2, OutputsType DEF LegacyEnds, TypeInv
  <1>4. CASE /\ Record(p, t, [old EXCEPT !.outs = m]) /\ lock' = [lock EXCEPT ![p] = l]
    <2>1. PICK c : c = [old EXCEPT !.outs = m]
      OBVIOUS
    <2>2. Record(p, t, c)
      BY <1>4, <2>1
    <2> HIDE DEF old
    <2>3. /\ c \in Entries /\ c.held /\ ~c.keep /\ c.status = "FAILED" /\ c.job = old.job
          /\ c.verdict = "legacy"
      BY <1>2, <2>1 DEF Entries
    <2>4. Lawful(p, t, Phase(row[t]), IF c.status \in ACTIVE_STATES THEN "running" ELSE c.status)
      BY <1>2, <2>3 DEF Lawful, ACTIVE_STATES
    <2>5. c.status \notin PENDING_STATES \cup {"UNKNOWN"} /\ c.job # NoJob
      BY <1>2, <2>3, Constants DEF PENDING_STATES, NoJob
    <2>6. l.op = "recover" /\ l.task = t /\ l.by = "monitor"
      OBVIOUS
    <2> HIDE DEF l
    <2> QED
      BY <1>1, <1>2, <1>4, <2>2, <2>3, <2>4, <2>5, <2>6, SectionRecords DEF old
  <1>5. CASE UNCHANGED <<JOBS, row>> /\ lock' = [lock EXCEPT ![p] = l]
    <2>1. Means(l, old, job') /\ l.task = t
      BY <1>2 DEF Means
    <2>2. Touches(p, t, old, row[t], l) /\ SameJobs
      BY <1>1, <1>2, <1>5, SameJobsSame DEF Touches, TypeInv, DbOK, CopiesOK
    <2>3. Agrees(old, row[t]) /\ Sane(t, row[t]) /\ Served(t, row[t], job)
      BY <1>2 DEF Orderly, Settled, CopiesAgree, SaneRows, RowsServed
    <2>4. Fits(p, t, old, row[t], l)
      BY <1>1, <1>2, <2>1, <2>3 DEF Fits, Served
    <2>5. Settled'
      BY <1>1, <1>2, <2>2, <2>4, Touched DEF Undisturbed, Orderly
    <2>6. MonitorsHeed'
      <3>1. /\ mon[p].pc = "relegacy" => t \notin mon[p].todo
            /\ mon[p].pc = "gone" => t # mon[p].task
        BY <1>1, Apart
      <3>2. Spares(p, t, row[t], l)
        BY <1>1 DEF Spares
      <3> QED
        BY <1>1, <1>2, <2>2, <3>1, <3>2, MonitorStays DEF Undisturbed
    <2>7. Kept
      BY <1>1, <1>5, <2>2, Stutters
    <2> QED
      BY <2>5, <2>6, <2>7 DEF Orderly
  <1>6. CASE /\ Record(p, t, [old EXCEPT !.status = "FAILED", !.misses = 0, !.verdict = "final"])
             /\ lock' = [lock EXCEPT ![p] = Unlocked]
    <2>1. PICK c : c = [old EXCEPT !.status = "FAILED", !.misses = 0, !.verdict = "final"]
      OBVIOUS
    <2>2. Record(p, t, c)
      BY <1>6, <2>1
    <2> HIDE DEF old
    <2>3. /\ c \in Entries /\ c.held /\ ~c.keep /\ c.status = "FAILED" /\ c.job = old.job
          /\ c.verdict = "final"
      BY <1>2, <2>1, NoMiss, StatusNames DEF Entries, Verdict
    <2>4. Lawful(p, t, Phase(row[t]), IF c.status \in ACTIVE_STATES THEN "running" ELSE c.status)
      BY <1>2, <2>3 DEF Lawful, ACTIVE_STATES
    <2>5. c.status \notin PENDING_STATES \cup {"UNKNOWN"} /\ c.job # NoJob
      BY <1>2, <2>3, Constants DEF PENDING_STATES, NoJob
    <2> QED
      BY <1>1, <1>2, <1>6, <2>2, <2>3, <2>4, <2>5, SectionRecords DEF old
  <1> QED
    BY <1>3, <1>4, <1>5, <1>6 DEF RecoversFrom, Hold, Unlock

LEMMA SectionOrderly ==
    ASSUME Undisturbed, TypeInv, Orderly, NEW p \in App, SectionEnds(p) PROVE Orderly' /\ Kept
  BY DispatchEndsOrderly, PollEndsOrderly, ImportEndsOrderly, LegacyEndsOrderly,
     RecoverEndsOrderly DEF SectionEnds

LEMMA MonitorGoes ==
    ASSUME OneProcess, TypeInv, NEW p \in App, NEW m, mon' = [mon EXCEPT ![p] = m],
           Heeds(m, lock'[p], JOBS'[p], row', job')
    PROVE  MonitorsHeed'
  <1>1. mon'[p] = m /\ \A q \in App : q = p
    BY DEF TypeInv, MonOK, OneProcess
  <1> QED
    BY <1>1 DEF MonitorsHeed

(* A row is claimed only while the monitor or the lock submits it.         *)
LEMMA NoneClaimed ==
    ASSUME TypeInv, Orderly, NEW p \in App, lock[p].op # "post",
           mon[p].pc \notin {"claimed", "release", "releasing"}
    PROVE  \A t \in Task : row[t].status # "DISPATCHING"
  BY DEF Orderly, MonitorsHeed, Heeds, Submitting

(* The monitor has done with a task, and goes on with the rest of its list.*)
LEMMA DoneHeeds ==
    ASSUME OneProcess, TypeInv, Orderly, NEW p \in App, NEW t, Done(p, t),
           \A s \in Task : row[s].exists => row'[s].exists,
           \A s \in Task : row'[s].status # "DISPATCHING",
           lock'[p].op \in {"legacy", "recover"} => lock'[p].task = t
    PROVE  MonitorsHeed'
  <1> DEFINE m == [Started EXCEPT !.pc = IF mon[p].todo \subseteq {t} THEN "dispatch" ELSE "poll",
                                  !.todo = mon[p].todo \ {t}]
  <1>1. mon' = [mon EXCEPT ![p] = m]
    BY DEF Done
  <1>2. m.pc \in {"dispatch", "poll"} /\ m.todo = mon[p].todo \ {t}
    BY DEF Started
  <1> HIDE DEF m
  <1>3. \A s \in m.todo : s \in Task /\ row[s].exists
    BY <1>2 DEF Orderly, MonitorsHeed, Heeds, TypeInv, MonOK, Monitors
  <1>4. Heeds(m, lock'[p], JOBS'[p], row', job')
    BY <1>2, <1>3 DEF Heeds
  <1> QED
    BY <1>1, <1>4, MonitorGoes

(* The record of a task whose job the provider knows no more.              *)
LEMMA OpenRecords ==
    ASSUME Undisturbed, TypeInv, Orderly, NEW p \in App, NEW t \in Task, LockFree(p),
           JOBS[p][t].held, JOBS[p][t].status \in ACTIVE_STATES,
           NEW c \in Entries, NEW l, Record(p, t, c), lock' = [lock EXCEPT ![p] = l],
           UNCHANGED <<gen, ask, job>>, c.held, ~c.keep, c.job = JOBS[p][t].job,
           c.status \in ACTIVE_STATES \cup {"FAILED"}, c.verdict # "legacy",
           \/ l.op = "free"
           \/ l.op = "recover" /\ l.by = "monitor" /\ l.task = t /\ c.status \in ACTIVE_STATES
    PROVE  /\ Settled' /\ Kept
           /\ \A s \in Task : /\ row[s].exists => row'[s].exists
                              /\ row'[s].status = "DISPATCHING" => row[s].status = "DISPATCHING"
  <1> DEFINE r == Recorded(c, row[t])
  <1>1. row[t].exists /\ row[t].status \in ACTIVE_STATES /\ JOBS[p][t].job = row[t].job
        /\ JOBS[p][t].job \in Job
    BY CopyTells DEF Orderly, ACTIVE_STATES, PENDING_STATES
  <1>2. c.status \notin PENDING_STATES /\ c.status \notin {"UNKNOWN", "CANCELLED"} /\ c.job # NoJob
    BY <1>1, Constants DEF ACTIVE_STATES, PENDING_STATES, NoJob
  <1>3. /\ JOBS' = [JOBS EXCEPT ![p][t] = c] /\ row' = [row EXCEPT ![t] = r]
        /\ r \in Rows /\ Agrees(c, r) /\ Sane(t, r) /\ r.exists
        /\ r.status = c.status /\ r.job = c.job
        /\ Phase(r) = IF c.status \in ACTIVE_STATES THEN "running" ELSE c.status
    BY <1>2, Recording DEF PENDING_STATES
  <1> HIDE DEF r
  <1>4. Touches(p, t, c, r, l) /\ SameJobs
    BY <1>3, SameJobsSame DEF Touches
  <1>5. Fits(p, t, c, r, l)
    BY <1>1, <1>2, <1>3 DEF Fits, LockFree, Means
  <1>6. Settled'
    BY <1>1, <1>3, <1>4, <1>5, Touched DEF Orderly, Undisturbed
  <1>7. Phase(row[t]) = "running"
    BY <1>1 DEF Phase, ACTIVE_STATES, PENDING_STATES
  <1>8. Kept
    BY <1>3, <1>4, <1>7, Steps DEF Orderly, Undisturbed, Lawful
  <1>9. \A s \in Task : /\ row[s].exists => row'[s].exists
                        /\ row'[s].status = "DISPATCHING" => row[s].status = "DISPATCHING"
    BY <1>2, <1>3 DEF TypeInv, DbOK, PENDING_STATES
  <1> QED
    BY <1>6, <1>8, <1>9

LEMMA ReconcileOrderly ==
    ASSUME Undisturbed, TypeInv, Orderly, NEW p \in App, Reconcile(p) PROVE Orderly' /\ Kept
  <1> DEFINE t == mon[p].task
             old == JOBS[p][t]
             attempts == IF old.misses < MinAttempts THEN old.misses + 1 ELSE MinAttempts
             status == IF old.status \in TERMINAL_STATES THEN "IN_PROGRESS" ELSE old.status
             l == [op |-> "recover", by |-> "monitor", task |-> t, got |-> "UNKNOWN", sub |-> NoJob]
  <1>1. /\ mon[p].pc = "gone" /\ LockFree(p) /\ Done(p, t) /\ UNCHANGED <<gen, ask, job>>
        /\ lock[p].op = "free" /\ (UNCHANGED lock => lock' = [lock EXCEPT ![p] = lock[p]])
    BY DEF Reconcile, MonitorAt, LockFree, providerVars, TypeInv, LockOK
  <1>2. t \in Task /\ old \in Entries /\ old.held /\ old.status \in ACTIVE_STATES
    BY <1>1 DEF Orderly, MonitorsHeed, Heeds, TypeInv, MonOK, Refers, CopiesOK
  <1>3. /\ ~old.keep /\ old.verdict # "legacy" /\ row[t].exists
        /\ \A s \in Task : row[s].status # "DISPATCHING"
    BY <1>1, <1>2, CopyTells, NoneClaimed DEF Orderly, ACTIVE_STATES
  <1>4. PICK m \in Job \cup {NoJob} :
          \/ RecoversFrom(p, t, m)
          \/ /\ Record(p, t, [old EXCEPT !.status = status, !.misses = attempts, !.verdict = "none"])
             /\ UNCHANGED lock
          \/ /\ Record(p, t, [old EXCEPT !.status = "FAILED", !.misses = 0, !.verdict = "final"])
             /\ UNCHANGED lock
    <2> HIDE DEF status, attempts
    <2>1. \E m \in Outputs(p, t) :
          \/ RecoversFrom(p, t, m)
          \/ /\ Record(p, t, [old EXCEPT !.status = status, !.misses = attempts, !.verdict = "none"])
             /\ UNCHANGED lock
          \/ /\ Record(p, t, [old EXCEPT !.status = "FAILED", !.misses = 0, !.verdict = "final"])
             /\ UNCHANGED lock
      BY DEF Reconcile, status, attempts
    <2>2. Outputs(p, t) \subseteq Job \cup {NoJob}
      BY <1>2, OutputsType DEF TypeInv
    <2> QED
      BY <2>1, <2>2
  <1>5. CASE Record(p, t, [old EXCEPT !.outs = m]) /\ lock' = [lock EXCEPT ![p] = l]
    <2>1. PICK c : c = [old EXCEPT !.outs = m]
      OBVIOUS
    <2>2. Record(p, t, c)
      BY <1>5, <2>1
    <2> HIDE DEF old
    <2>3. /\ c \in Entries /\ c.held /\ ~c.keep /\ c.status = old.status /\ c.job = old.job
          /\ c.verdict # "legacy"
      BY <1>2, <1>3, <2>1 DEF Entries
    <2>4. /\ Settled' /\ Kept
          /\ \A s \in Task : /\ row[s].exists => row'[s].exists
                             /\ row'[s].status = "DISPATCHING" => row[s].status = "DISPATCHING"
      BY <1>1, <1>2, <1>5, <2>2, <2>3, OpenRecords DEF old
    <2>5. lock'[p].task = t
      BY <1>5 DEF TypeInv, LockOK
    <2> HIDE DEF t
    <2>6. MonitorsHeed'
      BY <1>1, <1>3, <2>4, <2>5, DoneHeeds DEF Undisturbed
    <2> QED
      BY <2>4, <2>6 DEF Orderly
  <1>6. CASE UNCHANGED <<JOBS, row>> /\ lock' = [lock EXCEPT ![p] = l]
    <2>1. Means(l, old, job') /\ l.task = t /\ l.op # "post"
      BY <1>2 DEF Means
    <2>2. Cache(p, t, old) /\ SameJobs
      BY <1>1, <1>2, <1>6, SameJobsSame DEF Cache, TypeInv, CopiesOK
    <2>3. Agrees(old, row[t])
      BY <1>2 DEF Orderly, Settled, CopiesAgree
    <2>4. Settled' /\ Kept
      <3> HIDE DEF old, l
      <3> QED
        BY <1>1, <1>2, <1>6, <2>1, <2>2, <2>3, Cached DEF Orderly
    <2>5. lock'[p].task = t
      BY <1>6 DEF TypeInv, LockOK
    <2> HIDE DEF t
    <2>6. MonitorsHeed'
      BY <1>1, <1>3, <1>6, <2>5, DoneHeeds DEF Undisturbed
    <2> QED
      BY <2>4, <2>6 DEF Orderly
  <1>7. ASSUME NEW c \in Entries, Record(p, t, c), UNCHANGED lock, c.held, ~c.keep, c.job = old.job,
               c.status \in ACTIVE_STATES \cup {"FAILED"}, c.verdict # "legacy"
        PROVE  Orderly' /\ Kept
    <2>1. /\ Settled' /\ Kept
          /\ \A s \in Task : /\ row[s].exists => row'[s].exists
                             /\ row'[s].status = "DISPATCHING" => row[s].status = "DISPATCHING"
      BY <1>1, <1>2, <1>7, OpenRecords
    <2>2. lock'[p].op = "free"
      BY <1>1, <1>7
    <2> HIDE DEF t
    <2>3. MonitorsHeed'
      BY <1>1, <1>3, <2>1, <2>2, DoneHeeds DEF Undisturbed
    <2> QED
      BY <2>1, <2>3 DEF Orderly
  <1>8. CASE /\ Record(p, t, [old EXCEPT !.status = status, !.misses = attempts, !.verdict = "none"])
             /\ UNCHANGED lock
    <2>1. attempts \in Misses
      BY <1>2, Constants DEF Misses, Entries
    <2>2. status = old.status /\ old.status \in Status
      BY <1>2 DEF ACTIVE_STATES, TERMINAL_STATES, Entries
    <2> HIDE DEF status, attempts
    <2>3. PICK c : c = [old EXCEPT !.status = status, !.misses = attempts, !.verdict = "none"]
      OBVIOUS
    <2>4. Record(p, t, c)
      BY <1>8, <2>3
    <2> HIDE DEF old
    <2>5. /\ c \in Entries /\ c.held /\ ~c.keep /\ c.status = old.status /\ c.job = old.job
          /\ c.verdict = "none"
      BY <1>2, <1>3, <2>1, <2>2, <2>3 DEF Entries, Verdict
    <2> QED
      BY <1>2, <1>7, <1>8, <2>4, <2>5
  <1>9. CASE /\ Record(p, t, [old EXCEPT !.status = "FAILED", !.misses = 0, !.verdict = "final"])
             /\ UNCHANGED lock
    <2>1. PICK c : c = [old EXCEPT !.status = "FAILED", !.misses = 0, !.verdict = "final"]
      OBVIOUS
    <2>2. Record(p, t, c)
      BY <1>9, <2>1
    <2> HIDE DEF old
    <2>3. /\ c \in Entries /\ c.held /\ ~c.keep /\ c.status = "FAILED" /\ c.job = old.job
          /\ c.verdict = "final"
      BY <1>2, <1>3, <2>1, NoMiss, StatusNames DEF Entries, Verdict
    <2> QED
      BY <1>7, <1>9, <2>2, <2>3
  <1> HIDE DEF status, attempts
  <1> QED
    BY <1>4, <1>5, <1>6, <1>8, <1>9 DEF RecoversFrom, Hold

-----------------------------------------------------------------------------
(* The monitor's steps.                                                    *)

LEMMA FreeOfMonitor ==
    ASSUME TypeInv, Orderly, NEW p \in App, lock[p].by # "monitor"
    PROVE  lock[p].op \notin {"post", "legacy", "recover"}
  BY DEF Orderly, Settled, LocksMean, Means, TypeInv, LockOK

LEMMA SameLease == ASSUME Settled, NEW t \in Task PROVE Leases(row[t], row[t])
  BY DEF Settled, SaneRows, Sane, Leases

(* A step that only leases, and leaves the monitor with tasks of its list. *)
LEMMA LeaseOrderly ==
    ASSUME Undisturbed, TypeInv, Orderly, NEW p \in App, NEW m,
           \A t \in Task : row'[t] \in Rows /\ Leases(row[t], row'[t]),
           UNCHANGED <<gen, JOBS, lock, ask, job>>, mon' = [mon EXCEPT ![p] = m],
           m.pc # "gone", m.todo \subseteq Task, \A t \in m.todo : row[t].exists,
           m.pc = "relegacy" => \A t \in m.todo : row[t].verdict = "legacy",
           lock[p].by # "monitor" \/ m.todo \subseteq mon[p].todo,
           m.pc \notin {"recover", "releasing"},
           \A t \in Task : row'[t].status = "DISPATCHING" => Submitting(m, lock[p], t)
    PROVE  Orderly' /\ Kept
  <1>1. Settled' /\ Kept
    BY Leased DEF Orderly
  <1>2. lock[p].op \in {"legacy", "recover"} => lock[p].task \notin m.todo
    BY FreeOfMonitor DEF Orderly, MonitorsHeed, Heeds
  <1>3. \A t \in m.todo : row'[t].exists /\ row'[t].verdict = row[t].verdict
    BY DEF Leases
  <1>4. Heeds(m, lock'[p], JOBS'[p], row', job')
    BY <1>2, <1>3 DEF Heeds
  <1> QED
    BY <1>1, <1>4, MonitorGoes DEF Orderly, Undisturbed

LEMMA MonitorIs ==
    ASSUME TypeInv, Orderly, NEW p \in App
    PROVE  /\ mon[p] \in Monitors /\ mon[p].todo \subseteq Task
           /\ \A t \in mon[p].todo : row[t].exists
           /\ mon[p].pc = "relegacy" => \A t \in mon[p].todo : row[t].verdict = "legacy"
           /\ mon[p].pc \in Refers => mon[p].task \in Task
  BY DEF TypeInv, MonOK, Monitors, Orderly, MonitorsHeed, Heeds

(* A monitor that has nothing in hand has claimed nothing.                 *)
LEMMA HandsEmpty ==
    ASSUME TypeInv, Orderly, NEW p \in App, lock[p].by # "monitor",
           mon[p].pc \notin {"claimed", "release", "releasing"}
    PROVE  \A t \in Task : row[t].status # "DISPATCHING"
  BY FreeOfMonitor, NoneClaimed

LEMMA DispatchNothingOrderly ==
    ASSUME Undisturbed, TypeInv, Orderly, NEW p \in App, DispatchNothing(p)
    PROVE  Orderly' /\ Kept
  <1> DEFINE m == [mon[p] EXCEPT !.pc = "legacy"]
  <1>1. /\ UNCHANGED <<row, gen, JOBS, lock, ask, job>>
        /\ mon' = [mon EXCEPT ![p] = m]
        /\ mon[p].pc = "dispatch" /\ lock[p].by # "monitor"
    BY DEF DispatchNothing, Goto, MonitorAt, dbVars, providerVars, TypeInv, MonOK
  <1>2. m.pc = "legacy" /\ m.todo = mon[p].todo
    BY MonitorIs DEF Monitors
  <1>3. \A t \in Task : row'[t] \in Rows /\ Leases(row[t], row'[t])
    BY <1>1, SameLease DEF Orderly, TypeInv, DbOK
  <1>4. \A t \in Task : row'[t].status # "DISPATCHING"
    BY <1>1, HandsEmpty
  <1>5. /\ m.pc \notin {"gone", "relegacy", "recover", "releasing"}
        /\ m.todo \subseteq mon[p].todo /\ m.todo \subseteq Task
        /\ \A t \in m.todo : row[t].exists
    BY <1>2, MonitorIs
  <1> HIDE DEF m
  <1> QED
    BY <1>1, <1>3, <1>4, <1>5, LeaseOrderly

(* Nothing is stale while nothing is in hand.                              *)
LEMMA NothingStale ==
    ASSUME TypeInv, Orderly, NEW p \in App PROVE ~RecoverReads(p) /\ ~RecoverWrites(p)
  <1>1. ~RecoverWrites(p)
    BY DEF RecoverWrites, MonitorAt, Orderly, MonitorsHeed, Heeds
  <1>2. ASSUME RecoverReads(p) PROVE FALSE
    <2>1. mon[p].pc = "dispatch" /\ lock[p].by # "monitor" /\ StaleRows # {}
      BY <1>2 DEF RecoverReads, MonitorAt
    <2> QED
      BY <2>1, HandsEmpty DEF StaleRows, StaleDispatch
  <1> QED
    BY <1>1, <1>2

LEMMA ClaimNextOrderly ==
    ASSUME Undisturbed, TypeInv, Orderly, NEW p \in App, NEW t \in Task, ClaimNext(p, t)
    PROVE  Orderly' /\ Kept
  <1> DEFINE m == [mon[p] EXCEPT !.pc = "claimed", !.task = t]
             r == [row[t] EXCEPT !.status = "DISPATCHING", !.claim = "fresh"]
  <1>1. /\ row' = [row EXCEPT ![t] = r] /\ UNCHANGED <<gen, JOBS, lock, ask, job>>
        /\ mon' = [mon EXCEPT ![p] = m]
        /\ row[t].exists /\ row[t].status = "PENDING_SUBMIT"
        /\ mon[p].pc = "dispatch" /\ lock[p].by # "monitor"
    BY DEF ClaimNext, MonitorAt, providerVars, TypeInv, MonOK, DbOK, Eligible
  <1>2. m.pc = "claimed" /\ m.todo = mon[p].todo /\ m.task = t
    BY MonitorIs DEF Monitors
  <1>3. row[t] \in Rows
    BY DEF TypeInv, DbOK
  <1>4. /\ r \in Rows /\ r.status = "DISPATCHING" /\ r.claim = "fresh"
        /\ r.exists = row[t].exists /\ r.job = row[t].job
        /\ r.outs = row[t].outs /\ r.keep = row[t].keep
        /\ r.verdict = row[t].verdict
    BY <1>3 DEF Rows, Status, PENDING_STATES
  <1> HIDE DEF r, m
  <1>5. Leases(row[t], r)
    BY <1>1, <1>3, <1>4 DEF Leases, PENDING_STATES
  <1>6. \A s \in Task : row'[s] \in Rows /\ Leases(row[s], row'[s])
    BY <1>1, <1>4, <1>5, SameLease DEF Orderly, TypeInv, DbOK
  <1>7. \A s \in Task : row'[s].status = "DISPATCHING" => Submitting(m, lock[p], s)
    <2>1. \A s \in Task \ {t} : row'[s] = row[s]
      BY <1>1 DEF TypeInv, DbOK
    <2> QED
      BY <1>1, <1>2, <2>1, HandsEmpty DEF Submitting
  <1> QED
    BY <1>1, <1>2, <1>6, <1>7, MonitorIs, LeaseOrderly

(* One row is leased, or given back.                                       *)
LEMMA OneLease ==
    ASSUME TypeInv, Settled, NEW t \in Task, NEW r \in Rows, Leases(row[t], r),
           row' = [row EXCEPT ![t] = r]
    PROVE  \A s \in Task : row'[s] \in Rows /\ Leases(row[s], row'[s])
  BY SameLease DEF TypeInv, DbOK

LEMMA ReleaseReadsOrderly ==
    ASSUME Undisturbed, TypeInv, Orderly, NEW p \in App, ReleaseReads(p)
    PROVE  Orderly' /\ Kept
  <1> DEFINE t == mon[p].task
             m == [mon[p] EXCEPT !.pc = "releasing", !.seen = row[t].status]
  <1>1. /\ t \in Task /\ UNCHANGED <<row, gen, JOBS, lock, ask, job>>
        /\ mon' = [mon EXCEPT ![p] = m]
        /\ mon[p].pc = "release" /\ lock[p].by # "monitor"
    BY MonitorIs DEF ReleaseReads, MonitorAt, Refers, dbVars, providerVars, TypeInv, MonOK
  <1>2. /\ m.pc = "releasing" /\ m.todo = mon[p].todo /\ m.task = t /\ m.seen = row[t].status
    BY MonitorIs DEF Monitors
  <1>3. lock[p].op # "post"
    BY <1>1, FreeOfMonitor
  <1>4. Sane(t, row[t])
    BY <1>1 DEF Orderly, Settled, SaneRows
  <1>5. Heeds(mon[p], lock[p], JOBS[p], row, job)
    BY DEF Orderly, MonitorsHeed
  <1> HIDE DEF m, t
  <1>6. row[t].status = "DISPATCHING" => Idle(row[t])
    BY <1>4 DEF Sane, Idle, PENDING_STATES
  <1>7. \A s \in Task : row[s].status = "DISPATCHING" => s = t
    BY <1>1, <1>3, <1>5 DEF Heeds, Submitting, t
  <1>8. Heeds(m, lock'[p], JOBS'[p], row', job')
    BY <1>1, <1>2, <1>3, <1>5, <1>6, <1>7 DEF Heeds, Submitting
  <1>9. Settled' /\ Kept
    BY <1>1, JobsMove, SameJobsSame DEF Orderly
  <1> QED
    BY <1>1, <1>8, <1>9, MonitorGoes DEF Orderly, Undisturbed

LEMMA ReleaseSubmissionOrderly ==
    ASSUME Undisturbed, TypeInv, Orderly, NEW p \in App, ReleaseSubmission(p)
    PROVE  Orderly' /\ Kept
  <1> DEFINE t == mon[p].task
             m == [Started EXCEPT !.pc = "legacy"]
             r == [row[t] EXCEPT !.status = "PENDING_SUBMIT", !.claim = "none",
                                 !.deferred = TRUE]
  <1>1. /\ t \in Task /\ UNCHANGED <<gen, JOBS, lock, ask, job>>
        /\ mon' = [mon EXCEPT ![p] = m]
        /\ row' = IF mon[p].seen = "DISPATCHING" THEN [row EXCEPT ![t] = r] ELSE row
        /\ mon[p].pc = "releasing" /\ lock[p].by # "monitor"
    BY MonitorIs DEF ReleaseSubmission, MonitorAt, Refers, providerVars
  <1>2. m.pc = "legacy" /\ m.todo = {}
    BY DEF Started
  <1> HIDE DEF m
  <1>3. row[t] \in Rows /\ Sane(t, row[t])
    BY <1>1 DEF TypeInv, DbOK, Orderly, Settled, SaneRows
  <1>4. lock[p].op # "post" /\ (mon[p].seen = "DISPATCHING" => Idle(row[t]))
        /\ \A s \in Task : row[s].status = "DISPATCHING"
                            => s = t /\ mon[p].seen = "DISPATCHING"
    BY <1>1, FreeOfMonitor DEF Orderly, MonitorsHeed, Heeds, Submitting
  <1>5. CASE mon[p].seen # "DISPATCHING"
    <2>1. UNCHANGED <<row, gen, JOBS, lock, ask, job>>
      BY <1>1, <1>5
    <2>2. Settled' /\ Kept
      BY <2>1, JobsMove, SameJobsSame DEF Orderly
    <2>3. Heeds(m, lock'[p], JOBS'[p], row', job')
      BY <1>2, <1>4, <1>5, <2>1 DEF Heeds
    <2> QED
      BY <1>1, <2>2, <2>3, MonitorGoes DEF Orderly, Undisturbed
  <1>6. CASE mon[p].seen = "DISPATCHING"
    <2>1. Idle(row[t]) /\ row' = [row EXCEPT ![t] = r]
      BY <1>1, <1>4, <1>6
    <2>2. /\ r \in Rows /\ r.status = "PENDING_SUBMIT" /\ r.exists = row[t].exists
          /\ r.job = row[t].job /\ r.outs = row[t].outs /\ r.keep = row[t].keep
          /\ r.verdict = row[t].verdict
      BY <1>3 DEF Rows, Status, PENDING_STATES
    <2> HIDE DEF r, t
    <2>3. Reopens(row[t], r)
      BY <2>1, <2>2 DEF Reopens, Idle, PENDING_STATES
    <2>4. \A s \in Task : row'[s] = IF s = t THEN r ELSE row[s]
      BY <1>1, <2>1 DEF TypeInv, DbOK
    <2>5. \A s \in Task : Reopens(row[s], row[s]) /\ row[s] \in Rows
      BY DEF Orderly, Settled, SaneRows, Sane, Reopens, TypeInv, DbOK
    <2>6. \A s \in Task : row'[s] \in Rows /\ Reopens(row[s], row'[s])
      BY <2>2, <2>3, <2>4, <2>5
    <2>7. Settled'
      BY <1>1, <2>6, Reopened DEF Orderly
    <2>8. Kept
      <3>1. Phase(r) = "waiting" /\ row[t].job = NoJob
            /\ Phase(row[t]) \in {"waiting", "CANCELLED"}
        BY <2>1, <2>2 DEF Phase, Idle, PENDING_STATES, ACTIVE_STATES
      <3>2. Lawful(p, t, Phase(row[t]), Phase(r))
        BY <1>4, <3>1 DEF Lawful
      <3> QED
        BY <1>1, <2>1, <2>2, <3>2, Steps, SameJobsSame DEF Orderly, Undisturbed
    <2>9. Heeds(m, lock'[p], JOBS'[p], row', job')
      <3>1. \A s \in Task : row'[s].status # "DISPATCHING"
        BY <1>4, <2>2, <2>4
      <3> QED
        BY <1>2, <3>1 DEF Heeds
    <2> QED
      BY <1>1, <2>7, <2>8, <2>9, MonitorGoes DEF Orderly, Undisturbed
  <1> QED
    BY <1>5, <1>6

LEMMA ReleaseActiveOrderly ==
    ASSUME Undisturbed, TypeInv, Orderly, NEW p \in App, ReleaseActiveClaim(p)
    PROVE  Orderly' /\ Kept
  <1> DEFINE t == mon[p].task
             r == IF row[t].status \in ACTIVE_STATES THEN [row[t] EXCEPT !.claim = "none"]
                  ELSE row[t]
  <1>1. t \in Task
    BY MonitorIs DEF ReleaseActiveClaim, MonitorAt, Refers
  <1>2. row[t] \in Rows /\ Sane(t, row[t])
    BY <1>1 DEF TypeInv, DbOK, Orderly, Settled, SaneRows
  <1>3. /\ UNCHANGED <<gen, JOBS, lock, ask, job>> /\ Done(p, t)
        /\ row' = [row EXCEPT ![t] = r] /\ lock[p].by # "monitor" /\ mon[p].pc = "failed"
    BY <1>1 DEF ReleaseActiveClaim, MonitorAt, providerVars, TypeInv, DbOK
  <1>4. r \in Rows /\ Leases(row[t], r) /\ r.status = row[t].status
    BY <1>2 DEF Rows, Leases, Sane, ACTIVE_STATES
  <1> HIDE DEF r, t
  <1>5. \A s \in Task : row'[s] \in Rows /\ Leases(row[s], row'[s])
    BY <1>1, <1>3, <1>4, OneLease DEF Orderly
  <1>6. Settled' /\ Kept
    BY <1>3, <1>5, Leased DEF Orderly
  <1>7. \A s \in Task : row[s].exists => row'[s].exists
    BY <1>5 DEF Leases
  <1>8. lock'[p].op \notin {"legacy", "recover"}
    BY <1>3, FreeOfMonitor
  <1>9. \A s \in Task : row'[s].status # "DISPATCHING"
    BY <1>1, <1>3, <1>4, HandsEmpty DEF TypeInv, DbOK
  <1>10. MonitorsHeed'
    BY <1>3, <1>7, <1>8, <1>9, DoneHeeds DEF Undisturbed
  <1> QED
    BY <1>6, <1>10 DEF Orderly

(* Leases taken on a set of rows that are not waiting.                     *)
LEMMA Leasing ==
    ASSUME TypeInv, Settled, NEW S \in SUBSET Task, \A t \in S : row[t].status # "DISPATCHING",
           row' = [t \in Task |-> IF t \in S THEN [row[t] EXCEPT !.claim = "fresh"] ELSE row[t]]
    PROVE  \A t \in Task : row'[t] \in Rows /\ Leases(row[t], row'[t]) /\ row'[t].status = row[t].status
  <1> SUFFICES ASSUME NEW t \in Task PROVE row'[t] \in Rows /\ Leases(row[t], row'[t]) /\ row'[t].status = row[t].status
    OBVIOUS
  <1>1. row[t] \in Rows /\ Leases(row[t], row[t])
    BY SameLease DEF TypeInv, DbOK
  <1>2. CASE t \notin S
    BY <1>1, <1>2
  <1>3. CASE t \in S
    <2>1. row'[t] = [row[t] EXCEPT !.claim = "fresh"]
      BY <1>3
    <2> QED
      BY <1>1, <1>3, <2>1 DEF Rows, Leases
  <1> QED
    BY <1>2, <1>3

LEMMA ClaimLegacyOrderly ==
    ASSUME Undisturbed, TypeInv, Orderly, NEW p \in App, ClaimLegacy(p) PROVE Orderly' /\ Kept
  <1> DEFINE pc == IF LegacyRows = {} THEN "active" ELSE "relegacy"
             m == [mon[p] EXCEPT !.pc = pc, !.todo = LegacyRows, !.skip = LegacyRows]
  <1>1. /\ UNCHANGED <<gen, JOBS, lock, ask, job>> /\ lock[p].by # "monitor"
        /\ mon' = [mon EXCEPT ![p] = m] /\ mon[p].pc = "legacy"
        /\ row' = [t \in Task |-> IF t \in LegacyRows
                                  THEN [row[t] EXCEPT !.claim = "fresh"] ELSE row[t]]
    BY DEF ClaimLegacy, MonitorAt, providerVars, TypeInv, MonOK
  <1>2. m.pc \in {"active", "relegacy"} /\ m.todo = LegacyRows
    BY MonitorIs DEF Monitors
  <1> HIDE DEF m
  <1>3. /\ LegacyRows \subseteq Task
        /\ \A t \in LegacyRows : row[t].exists /\ row[t].verdict = "legacy"
                                 /\ row[t].status = "FAILED"
    BY DEF LegacyRows
  <1>4. \A t \in Task : row'[t] \in Rows /\ Leases(row[t], row'[t]) /\ row'[t].status = row[t].status
    BY <1>1, <1>3, Leasing DEF Orderly
  <1>5. \A t \in Task : row'[t].status # "DISPATCHING"
    BY <1>1, <1>4, HandsEmpty
  <1> QED
    BY <1>1, <1>2, <1>3, <1>4, <1>5, LeaseOrderly

LEMMA ClaimActiveOrderly ==
    ASSUME Undisturbed, TypeInv, Orderly, NEW p \in App, ClaimActive(p) PROVE Orderly' /\ Kept
  <1> DEFINE ids == (ActiveRows \cup ImportRows) \ mon[p].skip
             m == [Started EXCEPT !.pc = IF ids = {} THEN "dispatch" ELSE "poll", !.todo = ids]
  <1>1. /\ UNCHANGED <<gen, JOBS, lock, ask, job>> /\ lock[p].by # "monitor"
        /\ mon' = [mon EXCEPT ![p] = m] /\ mon[p].pc = "active"
        /\ row' = [t \in Task |-> IF t \in ActiveRows
                                  THEN [row[t] EXCEPT !.claim = "fresh"] ELSE row[t]]
    BY DEF ClaimActive, MonitorAt, providerVars
  <1>2. m.pc \in {"dispatch", "poll"} /\ m.todo = ids
    BY DEF Started
  <1> HIDE DEF m
  <1>3. /\ ids \subseteq Task /\ ActiveRows \subseteq Task
        /\ \A t \in ids : row[t].exists
        /\ \A t \in ActiveRows : row[t].status # "DISPATCHING"
    BY DEF ActiveRows, ImportRows, ACTIVE_STATES
  <1> HIDE DEF ids
  <1>4. \A t \in Task : row'[t] \in Rows /\ Leases(row[t], row'[t]) /\ row'[t].status = row[t].status
    BY <1>1, <1>3, Leasing DEF Orderly
  <1>5. \A t \in Task : row'[t].status # "DISPATCHING"
    BY <1>1, <1>4, HandsEmpty
  <1> QED
    BY <1>1, <1>2, <1>3, <1>4, <1>5, LeaseOrderly

(* A copy is read afresh by the monitor, which goes somewhere else then.   *)
LEMMA CachedOrderly ==
    ASSUME Undisturbed, TypeInv, Orderly, NEW p \in App, NEW t \in Task, NEW c, NEW l, NEW m,
           LockFree(p), Cache(p, t, c), lock' = [lock EXCEPT ![p] = l],
           UNCHANGED <<gen, ask, job>>, c.held, Agrees(c, row[t]), l.op # "post",
           l.op # "free" => l.task = t /\ Means(l, c, job'),
           mon' = [mon EXCEPT ![p] = m], m.todo \subseteq mon[p].todo,
           m.pc = "relegacy" => mon[p].pc = "relegacy",
           l.op \in {"legacy", "recover"} => t \notin m.todo,
           m.pc \notin {"recover", "releasing"},
           \A s \in Task : row[s].status = "DISPATCHING" => Submitting(m, l, s),
           m.pc = "gone" => /\ m.task = t /\ c.status \in ACTIVE_STATES /\ ~job[c.job].known
                            /\ l.op = "free"
    PROVE  Orderly' /\ Kept
  <1>1. Settled' /\ Kept
    BY SameJobsSame, Cached DEF Orderly
  <1>2. JOBS'[p][t] = c /\ lock'[p] = l /\ UNCHANGED row
    BY DEF Cache, TypeInv, CopiesOK, LockOK
  <1>3. Heeds(m, lock'[p], JOBS'[p], row', job')
    BY <1>2, MonitorIs DEF Heeds
  <1> QED
    BY <1>1, <1>3, MonitorGoes DEF Orderly, Undisturbed

LEMMA DispatchFailsOrderly ==
    ASSUME Undisturbed, TypeInv, Orderly, NEW p \in App, DispatchFails(p)
    PROVE  Orderly' /\ Kept
  <1> DEFINE t == mon[p].task
             m == [mon[p] EXCEPT !.pc = "release"]
             c == Restore(row[t])
  <1>1. /\ t \in Task /\ row[t].exists /\ LockFree(p)
        /\ UNCHANGED <<gen, lock, ask, job>> /\ mon' = [mon EXCEPT ![p] = m]
        /\ lock' = [lock EXCEPT ![p] = lock[p]] /\ lock[p].op = "free"
        /\ mon[p].pc = "claimed"
    BY MonitorIs DEF DispatchFails, MonitorAt, LockFree, Goto, Refers, providerVars, TypeInv,
                     MonOK, LockOK
  <1>2. m.pc = "release" /\ m.todo = mon[p].todo /\ m.task = t
    BY MonitorIs DEF Monitors
  <1>5. \A s \in Task : row[s].status = "DISPATCHING" => Submitting(m, lock[p], s)
    BY <1>1, <1>2 DEF Orderly, MonitorsHeed, Heeds, Submitting
  <1>3. CASE Cache(p, t, c)
    <2>1. c.held /\ Agrees(c, row[t])
      BY <1>1, RestoreAgrees DEF Orderly
    <2> HIDE DEF c, m, t
    <2> QED
      BY <1>1, <1>2, <1>3, <1>5, <2>1, CachedOrderly
  <1>4. CASE UNCHANGED <<JOBS, row>>
    <2>1. \A s \in Task : row'[s] \in Rows /\ Leases(row[s], row'[s])
      BY <1>4, SameLease DEF Orderly, TypeInv, DbOK
    <2> HIDE DEF m, t
    <2> QED
      BY <1>1, <1>2, <1>4, <1>5, <2>1, MonitorIs, LeaseOrderly
  <1> QED
    BY <1>3, <1>4 DEF DispatchFails

(* POST /run is accepted: the one job of the one request.                  *)
LEMMA DispatchPostsOrderly ==
    ASSUME Undisturbed, TypeInv, Orderly, NEW p \in App, NEW j \in Job, DispatchPosts(p, j),
           NEW t, t = mon[p].task
    PROVE  Orderly' /\ Kept
  <1> DEFINE c == Restore(row[t])
             l == [op |-> "post", by |-> "monitor", task |-> t, got |-> "UNKNOWN", sub |-> j]
             m == [mon[p] EXCEPT !.pc = "legacy", !.task = NoTask]
             new == [task |-> t, gen |-> gen[t], state |-> "IN_PROGRESS", known |-> TRUE,
                     wrote |-> FALSE]
  <1>1. /\ t \in Task /\ row[t].exists /\ LockFree(p) /\ c.status \in PENDING_STATES
        /\ FreshJob(j) /\ job' = [job EXCEPT ![j] = new] /\ Cache(p, t, c)
        /\ UNCHANGED <<gen, ask>> /\ mon[p].pc = "claimed"
    BY MonitorIs DEF DispatchPosts, MonitorAt, Refers, Accept
  <1>2. mon' = [mon EXCEPT ![p] = m] /\ lock' = [lock EXCEPT ![p] = l]
    BY DEF DispatchPosts, Hold, Undisturbed, Answered, TypeInv, MonOK
  <1>3. m.pc = "legacy" /\ m.todo = mon[p].todo
    BY MonitorIs DEF Monitors
  <1>4. c.held /\ Agrees(c, row[t]) /\ row[t].status \in PENDING_STATES /\ row[t].job = NoJob
    BY <1>1, RestoreAgrees DEF Orderly, Settled, SaneRows, Sane
  <1>5. /\ UNCHANGED row /\ JOBS' = [JOBS EXCEPT ![p][t] = c]
        /\ JOBS'[p][t] = c /\ \A s \in Task \ {t} : JOBS'[p][s] = JOBS[p][s]
    BY <1>1 DEF Cache, TypeInv, CopiesOK
  <1> HIDE DEF c, m
  <1>6. \A q \in App : q = p
    BY DEF Undisturbed, OneProcess
  <1>7. lock'[p] = l /\ l.op = "post" /\ l.task = t /\ l.sub = j /\ l.by = "monitor"
    BY <1>2 DEF TypeInv, LockOK
  <1>8. /\ job'[j] = new /\ \A i \in Job \ {j} : job'[i] = job[i]
        /\ job[j].state = "none" /\ lock[p].op = "free"
    BY <1>1 DEF FreshJob, LockFree, TypeInv, ProviderOK
  <1>9. gen[t] = 1
    BY <1>1 DEF Orderly, Settled, SaneRows
  <1>10. \A i \in Job : Created(i) => job[i].task # t
    BY <1>1, <1>4, <1>6, NoRuns DEF Orderly, LockFree
  <1> HIDE DEF l
  <1>11. SaneRows' /\ NothingAsked'
    BY <1>1, <1>5 DEF Orderly, Settled, SaneRows, NothingAsked
  <1>12. CopiesAgree'
    BY <1>4, <1>5, <1>6 DEF Orderly, Settled, CopiesAgree
  <1>13. JobsServe'
    <2> SUFFICES ASSUME NEW i \in Job, Created(i)'
                 PROVE  /\ job'[i].task \in Task /\ job'[i].gen = 1
                        /\ row'[job'[i].task].exists
                        /\ row'[job'[i].task].job = i
                             \/ \E q \in App : Posting(lock'[q], job'[i].task, i)
      BY DEF JobsServe
    <2>1. CASE i = j
      BY <1>1, <1>5, <1>7, <1>8, <1>9, <2>1 DEF Posting
    <2>2. CASE i # j
      <3>1. Created(i) /\ job'[i] = job[i]
        BY <1>8, <2>2 DEF Created
      <3> QED
        BY <1>5, <1>6, <1>8, <3>1 DEF Orderly, Settled, JobsServe, Posting
    <2> QED
      BY <2>1, <2>2
  <1>14. RowsServed'
    <2> SUFFICES ASSUME NEW s \in Task PROVE Served(s, row[s], job')
      BY <1>5 DEF RowsServed
    <2>1. Served(s, row[s], job) /\ row[s].job \in Job \cup {NoJob}
      BY DEF Orderly, Settled, RowsServed, TypeInv, DbOK, Rows
    <2> QED
      BY <1>8, <2>1 DEF Served
  <1>15. LocksMean'
    <2>1. Means(l, c, job')
      BY <1>1, <1>4, <1>7, <1>8, Constants DEF Means, NoJob
    <2> QED
      BY <1>5, <1>6, <1>7, <2>1 DEF LocksMean
  <1>16. Settled'
    BY <1>11, <1>12, <1>13, <1>14, <1>15 DEF Settled
  <1>17. MonitorsHeed'
    <2>1. \A s \in Task : row[s].status = "DISPATCHING" => s = t
      BY <1>1, <1>8 DEF Orderly, MonitorsHeed, Heeds, Submitting
    <2>2. Heeds(m, lock'[p], JOBS'[p], row', job')
      BY <1>3, <1>5, <1>7, <2>1, MonitorIs DEF Heeds, Submitting
    <2> QED
      BY <1>2, <2>2, MonitorGoes DEF Undisturbed
  <1>18. Kept
    <2> DEFINE phase == [s \in Task |-> PhaseOf(s)]
               runs == [s \in Task |-> RunsOf(s)]
    <2>1. \A s \in Task : PhaseOf(s)' = PhaseOf(s)
      BY <1>5, PhaseIs
    <2>2. phase[t] = "waiting"
      BY <1>1, <1>4, PhaseIs DEF Phase
    <2>3. RunsOf(t) = 0
      BY <1>1, <1>4, <1>6, NoRuns DEF Orderly, LockFree
    <2>4. { i \in Job : /\ Created(i) /\ job[i].task = t /\ job[i].gen = gen[t] }' = {j}
      <3>1. Created(j)' /\ job'[j].task = t /\ job'[j].gen = gen'[t]
        BY <1>1, <1>8 DEF Created
      <3>2. \A i \in Job \ {j} : ~(Created(i)' /\ job'[i].task = t)
        BY <1>8, <1>10 DEF Created
      <3> QED
        BY <3>1, <3>2
    <2>5. RunsOf(t)' = 1
      BY <2>4, FS_Singleton DEF RunsOf
    <2>6. ASSUME NEW s \in Task \ {t} PROVE RunsOf(s)' = RunsOf(s)
      <3>1. { i \in Job : /\ Created(i) /\ job[i].task = s /\ job[i].gen = gen[s] }' =
            { i \in Job : /\ Created(i) /\ job[i].task = s /\ job[i].gen = gen[s] }
        BY <1>1, <1>8, <2>6 DEF Created
      <3> QED
        BY <3>1 DEF RunsOf
    <2>7. runs[t] = 0 /\ runs' = [runs EXCEPT ![t] = 1]
      BY <1>1, <2>3, <2>5, <2>6
    <2>8. phase' = phase /\ gen' = gen
      BY <1>1, <2>1
    <2> QED
      BY <1>1, <2>2, <2>7, <2>8 DEF Kept, Lifecycle!Next, Lifecycle!Submit
  <1> QED
    BY <1>16, <1>17, <1>18 DEF Orderly

LEMMA LegacyReadsOrderly ==
    ASSUME Undisturbed, TypeInv, Orderly, NEW p \in App, NEW t \in Task, LegacyReads(p, t)
    PROVE  Orderly' /\ Kept
  <1> DEFINE c == Restore(row[t])
             l == [op |-> "legacy", by |-> "monitor", task |-> t, got |-> "UNKNOWN", sub |-> NoJob]
             pc == IF mon[p].todo = {t} THEN "active" ELSE "relegacy"
             m == [mon[p] EXCEPT !.pc = pc, !.todo = mon[p].todo \ {t}]
  <1>1. /\ LockFree(p) /\ Cache(p, t, c) /\ lock' = [lock EXCEPT ![p] = l]
        /\ UNCHANGED <<gen, ask, job>> /\ mon' = [mon EXCEPT ![p] = m]
        /\ mon[p].pc = "relegacy" /\ t \in mon[p].todo
    BY DEF LegacyReads, Hold, MonitorAt, providerVars, TypeInv, MonOK
  <1>2. row[t].exists /\ row[t].verdict = "legacy"
    BY <1>1, MonitorIs
  <1>3. c.held /\ Agrees(c, row[t]) /\ c.verdict = "legacy"
    BY <1>2, RestoreAgrees DEF Orderly, Agrees
  <1>4. m.pc \in {"active", "relegacy"} /\ m.todo = mon[p].todo \ {t}
    BY MonitorIs DEF Monitors
  <1> HIDE DEF m, c
  <1>5. Means(l, c, job')
    BY <1>3 DEF Means
  <1>6. l.op = "legacy" /\ l.task = t
    OBVIOUS
  <1> HIDE DEF l
  <1>7. \A s \in Task : row[s].status # "DISPATCHING"
    BY <1>1, NoneClaimed DEF LockFree
  <1> QED
    BY <1>1, <1>3, <1>4, <1>5, <1>6, <1>7, CachedOrderly

(* A task of the monitor's list is found.                                  *)
LEMMA Listed ==
    ASSUME TypeInv, Orderly, NEW p \in App, NEW t \in Task, t \in mon[p].todo
    PROVE  LET c == Loaded(p, t) IN
           /\ Found(p, t) /\ c \in Entries /\ c.held /\ Agrees(c, row[t])
           /\ Polls(c) => c.status \in ACTIVE_STATES /\ c.job \in Job
  <1> DEFINE c == Loaded(p, t)
  <1>1. Found(p, t)
    BY MonitorIs DEF Found
  <1>2. c \in Entries /\ c.held /\ Agrees(c, row[t]) /\ Sane(t, row[t])
    BY <1>1, LoadedAgrees DEF Orderly, Settled, SaneRows
  <1> HIDE DEF c
  <1>3. Polls(c) => c.status \in ACTIVE_STATES /\ c.job \in Job
    <2>1. c.status # "UNKNOWN"
      BY <1>2 DEF Agrees, Sane, PENDING_STATES
    <2>2. Polls(c) => c.status \in ACTIVE_STATES
      BY <1>2, <2>1 DEF Polls, Entries, Status
    <2>3. c.status \in ACTIVE_STATES => c.job \in Job
      BY <1>2 DEF Agrees, Sane, Entries, ACTIVE_STATES, PENDING_STATES
    <2> QED
      BY <2>2, <2>3
  <1> QED
    BY <1>1, <1>2, <1>3 DEF c

LEMMA MonitorReadsOrderly ==
    ASSUME Undisturbed, TypeInv, Orderly, NEW p \in App, NEW t \in Task, MonitorReads(p, t)
    PROVE  Orderly' /\ Kept
  <1> DEFINE c == Loaded(p, t)
             m == [Started EXCEPT !.pc = IF mon[p].todo \subseteq {t} THEN "dispatch" ELSE "poll",
                                  !.todo = mon[p].todo \ {t}]
  <1>1. /\ LockFree(p) /\ t \in mon[p].todo /\ Cache(p, t, c)
        /\ StatusSections(p, t, "monitor") /\ mon' = [mon EXCEPT ![p] = m]
        /\ UNCHANGED <<gen, ask, job>> /\ mon[p].pc = "poll"
    BY DEF MonitorReads, MonitorAt, Done, providerVars
  <1>2. Found(p, t) /\ c.held /\ Agrees(c, row[t])
    BY <1>1, Listed
  <1>3. PICK l : /\ lock' = [lock EXCEPT ![p] = l]
                 /\ l.op \in {"free", "poll", "import"}
                 /\ l.op # "free" => l.task = t /\ Means(l, c, job)
    BY <1>1, <1>2, SectionsStart DEF Orderly
  <1>4. m.pc \in {"dispatch", "poll"} /\ m.todo = mon[p].todo \ {t}
    BY DEF Started
  <1>5. l.op # "free" => Means(l, c, job')
    BY <1>1, <1>3
  <1>6. \A s \in Task : row[s].status # "DISPATCHING"
    BY <1>1, NoneClaimed DEF LockFree
  <1> HIDE DEF c, m
  <1> QED
    BY <1>1, <1>2, <1>3, <1>4, <1>5, <1>6, CachedOrderly

LEMMA MonitorAsksOrderly ==
    ASSUME Undisturbed, TypeInv, Orderly, NEW p \in App, NEW t \in Task,
           MonitorMisses(p, t) \/ MonitorFails(p, t)
    PROVE  Orderly' /\ Kept
  <1> DEFINE c == Loaded(p, t)
  <1>1. PICK pc \in {"gone", "failed"} :
          /\ LockFree(p) /\ t \in mon[p].todo /\ Polls(c) /\ Cache(p, t, c)
          /\ mon' = [mon EXCEPT ![p] = [mon[p] EXCEPT !.pc = pc, !.task = t]]
          /\ UNCHANGED <<gen, lock, ask, job>>
          /\ pc = "gone" => ~Known(c.job)
          /\ mon[p].pc = "poll"
    BY DEF MonitorMisses, MonitorFails, MonitorAt, providerVars, TypeInv, MonOK
  <1> DEFINE m == [mon[p] EXCEPT !.pc = pc, !.task = t]
  <1>2. m.pc = pc /\ m.task = t /\ m.todo = mon[p].todo
    BY MonitorIs DEF Monitors
  <1>3. /\ c.held /\ Agrees(c, row[t]) /\ c.status \in ACTIVE_STATES
        /\ pc = "gone" => ~job[c.job].known
    BY <1>1, Listed, Constants DEF Known, NoJob
  <1>4. lock' = [lock EXCEPT ![p] = lock[p]] /\ lock[p].op = "free"
    BY <1>1 DEF LockFree, TypeInv, LockOK
  <1>5. mon' = [mon EXCEPT ![p] = m]
    BY <1>1
  <1> HIDE DEF c, m
  <1>6. /\ m.todo \subseteq mon[p].todo /\ m.pc # "relegacy"
        /\ m.pc = "gone" => m.task = t /\ ~job[c.job].known
    BY <1>1, <1>2, <1>3
  <1>7. LockFree(p) /\ Cache(p, t, c) /\ UNCHANGED <<gen, ask, job>>
        /\ m.pc \notin {"recover", "releasing"}
    BY <1>1, <1>2
  <1>8. \A s \in Task : row[s].status # "DISPATCHING"
    BY <1>1, NoneClaimed DEF LockFree
  <1> QED
    BY <1>3, <1>4, <1>5, <1>6, <1>7, <1>8, CachedOrderly

LEMMA MonitorOrderly ==
    ASSUME Undisturbed, TypeInv, Orderly, NEW p \in App, Monitor(p) PROVE Orderly' /\ Kept
  <1>1. ASSUME NEW j \in Job, DispatchPosts(p, j) PROVE Orderly' /\ Kept
    BY <1>1, DispatchPostsOrderly
  <1>2. ASSUME NEW t \in Task, ClaimNext(p, t) \/ LegacyReads(p, t) \/ MonitorReads(p, t)
                                \/ MonitorMisses(p, t) \/ MonitorFails(p, t)
        PROVE  Orderly' /\ Kept
    BY <1>2, ClaimNextOrderly, LegacyReadsOrderly, MonitorReadsOrderly, MonitorAsksOrderly
  <1>3. ASSUME DispatchNothing(p) \/ DispatchFails(p) \/ ReleaseReads(p)
                 \/ ReleaseSubmission(p) \/ ClaimLegacy(p) \/ ClaimActive(p) \/ ReleaseActiveClaim(p) \/ Reconcile(p)
        PROVE  Orderly' /\ Kept
    BY <1>3, DispatchNothingOrderly, DispatchFailsOrderly, ReleaseReadsOrderly,
       ReleaseSubmissionOrderly,
       ClaimLegacyOrderly, ClaimActiveOrderly, ReleaseActiveOrderly, ReconcileOrderly
  <1>4. ~RecoverReads(p) /\ ~RecoverWrites(p)
    BY NothingStale
  <1> QED
    BY <1>1, <1>2, <1>3, <1>4 DEF Monitor

-----------------------------------------------------------------------------
(* The provider, time, and the whole of Next.                              *)

LEMMA JobsOrderly ==
    ASSUME TypeInv, Orderly, SameJobs, UNCHANGED <<row, gen, JOBS, mon, lock, ask>>
    PROVE  Orderly' /\ Kept
  <1>1. Settled' /\ Kept
    BY JobsMove DEF Orderly
  <1>2. MonitorsHeed'
    <2> SUFFICES ASSUME NEW p \in App PROVE Heeds(mon[p], lock[p], JOBS[p], row, job')
      BY DEF MonitorsHeed
    <2>1. Heeds(mon[p], lock[p], JOBS[p], row, job)
      BY DEF Orderly, MonitorsHeed
    <2>2. ASSUME mon[p].pc = "gone" PROVE ~job'[JOBS[p][mon[p].task].job].known
      <3>1. mon[p].task \in Task
        BY <2>2 DEF TypeInv, MonOK, Refers
      <3>2. JOBS[p][mon[p].task].job \in Job
        BY <2>1, <2>2, <3>1, CopyTells DEF Orderly, Heeds
      <3> QED
        BY <2>1, <2>2, <3>2 DEF Heeds, SameJobs
    <2> QED
      BY <2>1, <2>2 DEF Heeds
  <1> QED
    BY <1>1, <1>2 DEF Orderly

LEMMA ProviderOrderly == ASSUME TypeInv, Orderly, Provider PROVE Orderly' /\ Kept
  <1>1. PICK j \in Job : \/ \E outcome \in {"COMPLETED", "FAILED"} : JobEnds(j, outcome)
                         \/ PublishManifest(j)
                         \/ Forget(j)
    BY DEF Provider
  <1>2. \A i \in Job : job[i] \in ProviderJobs
    BY DEF TypeInv, ProviderOK
  <1>3. /\ \A i \in Job \ {j} : job'[i] = job[i]
        /\ job'[j].task = job[j].task /\ job'[j].gen = job[j].gen
        /\ job'[j].known => job[j].known
        /\ \/ job'[j].state = job[j].state
           \/ job[j].state = "IN_PROGRESS" /\ job'[j].state # "none"
        /\ UNCHANGED <<row, gen, JOBS, mon, lock, ask>>
    <2>1. CASE \E outcome \in {"COMPLETED", "FAILED"} : JobEnds(j, outcome)
      BY <1>2, <2>1 DEF JobEnds, dbVars, TypeInv, ProviderOK, ProviderJobs
    <2>2. CASE PublishManifest(j)
      BY <1>2, <2>2 DEF PublishManifest, dbVars, TypeInv, ProviderOK, ProviderJobs
    <2>3. CASE Forget(j)
      BY <1>2, <2>3 DEF Forget, dbVars, TypeInv, ProviderOK, ProviderJobs
    <2> QED
      BY <1>1, <2>1, <2>2, <2>3
  <1>4. SameJobs
    BY <1>3 DEF SameJobs
  <1> QED
    BY <1>3, <1>4, JobsOrderly

LEMMA TimeOrderly == ASSUME TypeInv, Orderly, Time PROVE Orderly' /\ Kept
  <1>1. PICK t \in Task : ClaimAges(t) \/ DeferralEnds(t)
    BY DEF Time
  <1>2. row[t] \in Rows /\ Sane(t, row[t])
    BY DEF TypeInv, DbOK, Orderly, Settled, SaneRows
  <1>3. UNCHANGED <<gen, JOBS, mon, lock, ask, job>>
    BY <1>1 DEF ClaimAges, DeferralEnds, providerVars
  <1>4. PICK r \in Rows : /\ row' = [row EXCEPT ![t] = r] /\ Leases(row[t], r)
                          /\ r.status = row[t].status
    <2>1. CASE ClaimAges(t)
      <3> DEFINE r == [row[t] EXCEPT !.claim = "stale"]
      <3>1. r \in Rows /\ Leases(row[t], r) /\ r.status = row[t].status
        BY <1>2 DEF Rows, Leases
      <3>2. row' = [row EXCEPT ![t] = r]
        BY <2>1 DEF ClaimAges
      <3> QED
        BY <3>1, <3>2
    <2>2. CASE DeferralEnds(t)
      <3> DEFINE r == [row[t] EXCEPT !.deferred = FALSE]
      <3>1. r \in Rows /\ Leases(row[t], r) /\ r.status = row[t].status
        BY <1>2 DEF Rows, Leases, Sane
      <3>2. row' = [row EXCEPT ![t] = r]
        BY <2>2 DEF DeferralEnds
      <3> QED
        BY <3>1, <3>2
    <2> QED
      BY <1>1, <2>1, <2>2
  <1>5. \A s \in Task : row'[s] \in Rows /\ Leases(row[s], row'[s])
    BY <1>4, OneLease DEF Orderly
  <1>8. \A s \in Task : /\ row'[s].status = row[s].status
                        /\ Idle(row[s]) => Idle(row'[s])
    BY <1>4, <1>5 DEF TypeInv, DbOK, Leases, Idle
  <1>6. Settled' /\ Kept
    BY <1>3, <1>5, Leased DEF Orderly
  <1>7. MonitorsHeed'
    <2> SUFFICES ASSUME NEW p \in App PROVE Heeds(mon[p], lock[p], JOBS[p], row', job)
      BY <1>3 DEF MonitorsHeed
    <2>1. Heeds(mon[p], lock[p], JOBS[p], row, job)
      BY DEF Orderly, MonitorsHeed
    <2>2. \A s \in mon[p].todo : row'[s].exists = row[s].exists /\ row'[s].verdict = row[s].verdict
      BY <1>5, MonitorIs DEF Leases
    <2>3. mon[p].pc = "releasing" => mon[p].task \in Task
      BY DEF TypeInv, MonOK, Refers
    <2> QED
      BY <1>8, <2>1, <2>2, <2>3 DEF Heeds
  <1> QED
    BY <1>6, <1>7 DEF Orderly

LEMMA NextOrderly ==
    ASSUME Undisturbed, TypeInv, Orderly, [Next]_vars PROVE Orderly' /\ Kept
  <1>1. CASE UNCHANGED vars
    BY <1>1, SameJobsSame, JobsOrderly DEF vars
  <1>2. ASSUME NEW p \in App, Monitor(p) \/ SectionEnds(p) \/ Handler(p) \/ Crash(p)
        PROVE  Orderly' /\ Kept
    <2>1. ~Crash(p)
      BY DEF Crash, Undisturbed, Answered
    <2> QED
      BY <1>2, <2>1, MonitorOrderly, SectionOrderly, HandlerOrderly
  <1>3. \A t \in Task : ~DraftRequeue(t)
    BY DEF DraftRequeue, Undisturbed, NoRequeue
  <1>4. CASE Provider \/ Time
    BY <1>4, ProviderOrderly, TimeOrderly
  <1> QED
    BY <1>1, <1>2, <1>3, <1>4 DEF Next

LEMMA InitOrderly == ASSUME Init PROVE Orderly /\ Lifecycle!Init
  <1>1. \A j \in Job, t \in Task : LegacyJob[t] = j => job[j] = ForgottenJob(t)
    <2> SUFFICES ASSUME NEW j \in Job, NEW t \in Task, LegacyJob[t] = j
                 PROVE  job[j] = ForgottenJob(t)
      OBVIOUS
    <2>1. j # NoJob
      BY Constants DEF NoJob
    <2>2. (CHOOSE s \in Task : LegacyJob[s] = j) = t
      BY <2>1, Constants
    <2> QED
      BY <2>2 DEF Init
  <1>2. \A j \in Job : Created(j) =>
          job[j].task \in Task /\ LegacyJob[job[j].task] = j /\ job[j].gen = 1
    <2> SUFFICES ASSUME NEW j \in Job, Created(j)
                 PROVE  job[j].task \in Task /\ LegacyJob[job[j].task] = j /\ job[j].gen = 1
      OBVIOUS
    <2>1. PICK t \in Task : LegacyJob[t] = j
      BY DEF Init, Created, NoSuchJob
    <2>2. job[j] = ForgottenJob(t)
      BY <1>1, <2>1
    <2> QED
      BY <2>1, <2>2 DEF ForgottenJob
  <1>3. ASSUME NEW t \in Task, LegacyJob[t] = NoJob
        PROVE  row[t] = NoRow /\ gen[t] = 0 /\ RunsOf(t) = 0
    <2>1. row[t] = NoRow /\ gen[t] = 0
      BY <1>3 DEF Init
    <2>2. { j \in Job : /\ Created(j) /\ job[j].task = t /\ job[j].gen = gen[t] } = {}
      <3>1. \A j \in Job : j # NoJob
        BY Constants DEF NoJob
      <3>2. \A j \in Job : Created(j) => job[j].task # t
        BY <1>2, <1>3, <3>1
      <3> QED
        BY <3>2
    <2> QED
      BY <2>1, <2>2, FS_EmptySet DEF RunsOf
  <1>4. ASSUME NEW t \in Task, LegacyJob[t] # NoJob
        PROVE  /\ row[t] = LegacyRow(LegacyJob[t]) /\ gen[t] = 1 /\ RunsOf(t) = 1
               /\ LegacyJob[t] \in Job /\ job[LegacyJob[t]] = ForgottenJob(t)
    <2>1. row[t] = LegacyRow(LegacyJob[t]) /\ gen[t] = 1
      BY <1>4 DEF Init
    <2>2. LegacyJob[t] \in Job /\ job[LegacyJob[t]] = ForgottenJob(t)
      BY <1>1, <1>4, Constants
    <2>3. { j \in Job : /\ Created(j) /\ job[j].task = t /\ job[j].gen = gen[t] } = {LegacyJob[t]}
      <3>1. /\ Created(LegacyJob[t]) /\ job[LegacyJob[t]].task = t
            /\ job[LegacyJob[t]].gen = gen[t]
        BY <2>1, <2>2 DEF Created, ForgottenJob
      <3>2. \A j \in Job : Created(j) /\ job[j].task = t => j = LegacyJob[t]
        BY <1>2
      <3> QED
        BY <2>2, <3>1, <3>2
    <2> QED
      BY <2>1, <2>2, <2>3, FS_Singleton DEF RunsOf
  <1>5. \A t \in Task : IF LegacyJob[t] = NoJob THEN row[t] = NoRow
                        ELSE /\ row[t].exists /\ row[t].status = "FAILED" /\ ~row[t].keep
                             /\ row[t].job = LegacyJob[t] /\ row[t].verdict = "legacy"
    BY <1>3, <1>4 DEF LegacyRow, NoRow
  <1>6. SaneRows
    <2> SUFFICES ASSUME NEW t \in Task
                 PROVE  Sane(t, row[t]) /\ gen[t] = IF row[t].exists THEN 1 ELSE 0
      BY DEF SaneRows
    <2>1. CASE LegacyJob[t] = NoJob
      BY <1>3, <2>1 DEF Sane, NoRow, PENDING_STATES, ACTIVE_STATES
    <2>2. CASE LegacyJob[t] # NoJob
      BY <1>4, <1>5, <2>2, Constants DEF Sane, PENDING_STATES, ACTIVE_STATES, NoJob
    <2> QED
      BY <2>1, <2>2
  <1>7. CopiesAgree
    BY DEF Init, CopiesAgree, Agrees, NoEntry
  <1>8. JobsServe
    <2> SUFFICES ASSUME NEW j \in Job, Created(j)
                 PROVE  /\ job[j].task \in Task /\ job[j].gen = 1
                        /\ row[job[j].task].exists /\ row[job[j].task].job = j
      BY DEF JobsServe
    <2>1. LegacyJob[job[j].task] # NoJob
      BY <1>2, Constants DEF NoJob
    <2> QED
      BY <1>2, <1>5, <2>1
  <1>9. RowsServed
    <2> SUFFICES ASSUME NEW t \in Task PROVE Served(t, row[t], job)
      BY DEF RowsServed
    <2>1. CASE LegacyJob[t] = NoJob
      BY <1>3, <2>1 DEF Served, NoRow
    <2>2. CASE LegacyJob[t] # NoJob
      <3>1. /\ row[t].job = LegacyJob[t] /\ row[t].status = "FAILED"
            /\ job[LegacyJob[t]].task = t /\ job[LegacyJob[t]].state # "none"
        <4>1. row[t].job = LegacyJob[t] /\ row[t].status = "FAILED"
          BY <1>5, <2>2
        <4>2. job[LegacyJob[t]] = ForgottenJob(t)
          BY <1>4, <2>2
        <4> QED
          BY <4>1, <4>2 DEF ForgottenJob
      <3> QED
        BY <3>1 DEF Served
    <2> QED
      BY <2>1, <2>2
  <1>10. LocksMean /\ NothingAsked /\ MonitorsHeed
    <2>1. \A t \in Task : row[t].status # "DISPATCHING"
      BY <1>5 DEF NoRow
    <2> QED
      BY <2>1 DEF Init, LocksMean, NothingAsked, MonitorsHeed, Heeds, Unlocked, Started, Quiet
  <1>11. gen = [t \in Task |-> IF LegacyJob[t] # NoJob THEN 1 ELSE 0]
    BY DEF Init
  <1>12. \A t \in Task : PhaseOf(t) = IF LegacyJob[t] # NoJob THEN "FAILED" ELSE "new"
    BY <1>5 DEF PhaseOf, NoRow, PENDING_STATES, ACTIVE_STATES
  <1>13. \A t \in Task : RunsOf(t) = IF LegacyJob[t] # NoJob THEN 1 ELSE 0
    BY <1>3, <1>4
  <1>14. Lifecycle!Init
    BY <1>11, <1>12, <1>13 DEF Lifecycle!Init
  <1> QED
    BY <1>6, <1>7, <1>8, <1>9, <1>10, <1>14 DEF Orderly, Settled

(* One process keeps rows, copies, provider jobs and the lock in step.     *)
THEOREM OrderlyInvariant == ASSUME Undisturbed PROVE Spec => []Orderly
  <1>1. Init => Orderly
    BY InitOrderly
  <1>2. TypeInv /\ Orderly /\ [Next]_vars => Orderly'
    BY NextOrderly
  <1> QED
    BY <1>1, <1>2, TypesInvariant, PTL DEF Spec

(* The queue implements TaskLifecycle: whatever the one process's monitor, *)
(* its handlers and the provider do, every request is submitted at most    *)
(* once and ends once, and only a failure an older release wrote down is   *)
(* ever amended.                                                           *)
THEOREM LifecycleKept == ASSUME Undisturbed PROVE Spec => KeepsLifecycle
  <1>1. Init => Lifecycle!Init
    BY InitOrderly
  <1>2. TypeInv /\ Orderly /\ [Next]_vars => [Lifecycle!Next]_(Lifecycle!vars)
    BY NextOrderly DEF Kept
  <1> QED
    BY <1>1, <1>2, TypesInvariant, OrderlyInvariant, PTL DEF Spec, KeepsLifecycle, Lifecycle!Spec

-----------------------------------------------------------------------------
(* The execution policy.                                                   *)

(* The lock is taken for a submission only when the policy allows it.      *)
LEMMA PostAllowed ==
    ASSUME TypeInv, [Next]_vars, NEW p \in App, lock'[p].op = "post"
    PROVE  lock'[p] = lock[p] \/ (SubmissionAllowed(lock'[p].task) /\ UNCHANGED row)
  <1> DEFINE Goal == lock'[p] = lock[p] \/ (SubmissionAllowed(lock'[p].task) /\ UNCHANGED row)
  <1> USE DEF TypeInv, LockOK
  <1>1. CASE UNCHANGED lock
    BY <1>1
  <1>2. ASSUME NEW q \in App, NEW by, NEW op, NEW t, NEW got, NEW sub, op # "post",
               Hold(q, by, op, t, got, sub)
        PROVE  Goal
    BY <1>2 DEF Hold
  <1>3. ASSUME NEW q \in App, Unlock(q) PROVE Goal
    BY <1>3 DEF Unlock, Unlocked
  <1>4. ASSUME NEW q \in App, NEW t \in Task, NEW by, StatusSections(q, t, by) PROVE Goal
    BY <1>1, <1>2, <1>4 DEF StatusSections
  <1>5. ASSUME NEW q \in App, Monitor(q) PROVE Goal
    <2>1. CASE \E j \in Job : DispatchPosts(q, j)
      <3>1. PICK j \in Job : DispatchPosts(q, j)
        BY <2>1
      <3>2. SubmissionAllowed(mon[q].task) /\ UNCHANGED row
        BY <3>1 DEF DispatchPosts, Cache
      <3>3. UNCHANGED lock \/ Hold(q, "monitor", "post", mon[q].task, "UNKNOWN", j)
        BY <3>1 DEF DispatchPosts
      <3>4. CASE Hold(q, "monitor", "post", mon[q].task, "UNKNOWN", j)
        <4>1. q = p => lock'[p].task = mon[q].task
          BY <3>4 DEF Hold
        <4>2. q # p => lock'[p] = lock[p]
          BY <3>4 DEF Hold
        <4> QED
          BY <3>2, <4>1, <4>2
      <3> QED
        BY <1>1, <3>3, <3>4
    <2>2. CASE \/ RecoverReads(q) \/ RecoverWrites(q) \/ DispatchNothing(q) \/ DispatchFails(q)
               \/ ReleaseReads(q) \/ ReleaseSubmission(q) \/ ClaimLegacy(q) \/ ClaimActive(q)
               \/ ReleaseActiveClaim(q)
      BY <1>1, <2>2 DEF RecoverReads, RecoverWrites, DispatchNothing, DispatchFails, ReleaseReads,
                        ReleaseSubmission, ClaimLegacy, ClaimActive, ReleaseActiveClaim
    <2>3. CASE \E t \in Task : ClaimNext(q, t) \/ MonitorMisses(q, t) \/ MonitorFails(q, t)
      BY <1>1, <2>3 DEF ClaimNext, MonitorMisses, MonitorFails
    <2>4. CASE \E t \in Task : LegacyReads(q, t) \/ MonitorReads(q, t)
      BY <1>2, <1>4, <2>4 DEF LegacyReads, MonitorReads
    <2>5. CASE Reconcile(q)
      BY <1>1, <1>2, <2>5 DEF Reconcile, RecoversFrom
    <2> QED
      BY <1>5, <2>1, <2>2, <2>3, <2>4, <2>5 DEF Monitor
  <1>6. ASSUME NEW q \in App, SectionEnds(q) PROVE Goal
    <2>1. CASE DispatchEnds(q) \/ ImportEnds(q) \/ RecoverEnds(q)
      BY <1>3, <2>1 DEF DispatchEnds, ImportEnds, RecoverEnds
    <2>2. CASE PollEnds(q)
      <3>1. CASE lock' = [lock EXCEPT ![q].op = "import"]
        BY <3>1 DEF Locks
      <3> QED
        BY <1>3, <2>2, <3>1 DEF PollEnds
    <2>3. CASE LegacyEnds(q)
      BY <1>2, <1>3, <2>3 DEF LegacyEnds, RecoversFrom
    <2> QED
      BY <1>6, <2>1, <2>2, <2>3 DEF SectionEnds
  <1>7. ASSUME NEW q \in App, Handler(q) PROVE Goal
    <2>1. CASE CancelEnds(q)
      BY <1>3, <2>1 DEF CancelEnds
    <2>2. CASE \/ \E t \in Task : Create(q, t) \/ ReworkReads(q, t)
               \/ \E S \in SUBSET Task : BulkReads(q, S)
               \/ ReworkWrites(q) \/ ReworkPublished(q) \/ BulkWrites(q)
      BY <1>1, <2>2 DEF Create, ReworkReads, BulkReads, ReworkWrites, ReworkPublished, BulkWrites
    <2>3. CASE \E t \in Task : GetStatus(q, t)
      BY <1>1, <1>4, <2>3 DEF GetStatus
    <2>4. CASE \E t \in Task : CancelStarts(q, t)
      BY <1>1, <1>2, <1>4, <2>4 DEF CancelStarts
    <2> QED
      BY <1>7, <2>1, <2>2, <2>3, <2>4 DEF Handler
  <1>8. ASSUME NEW q \in App, Crash(q) PROVE Goal
    BY <1>8 DEF Crash, Unlocked
  <1>9. CASE \E t \in Task : DraftRequeue(t)
    BY <1>1, <1>9 DEF DraftRequeue
  <1>10. CASE Provider
    BY <1>1, <1>10 DEF Provider, JobEnds, PublishManifest, Forget
  <1>11. CASE Time
    BY <1>1, <1>11 DEF Time, ClaimAges, DeferralEnds
  <1>12. CASE UNCHANGED vars
    BY <1>1, <1>12 DEF vars
  <1> QED
    BY <1>5, <1>6, <1>7, <1>8, <1>9, <1>10, <1>11, <1>12 DEF Next

(* A row that becomes active was being submitted, and nothing else moves.  *)
LEMMA Starts ==
    ASSUME Undisturbed, TypeInv, Orderly, Kept, NEW t \in Task,
           PhaseOf(t)' = "running", PhaseOf(t) # "running"
    PROVE  /\ \A s \in Task \ {t} : PhaseOf(s)' = PhaseOf(s)
           /\ \E p \in App : lock[p].op = "post" /\ lock[p].task = t
  <1> DEFINE phase == [s \in Task |-> PhaseOf(s)]
             runs == [s \in Task |-> RunsOf(s)]
  <1>1. phase[t] = PhaseOf(t) /\ phase'[t] = PhaseOf(t)'
    OBVIOUS
  <1>2. /\ phase[t] = "waiting" /\ runs[t] = 1 /\ phase' = [phase EXCEPT ![t] = "running"]
    <2> HIDE DEF phase
    <2>1. PICK s \in Task :
            \/ Lifecycle!Request(s) \/ Lifecycle!Submit(s) \/ Lifecycle!Start(s)
            \/ \E outcome \in Lifecycle!Outcome : Lifecycle!Finish(s, outcome)
            \/ Lifecycle!CancelWaiting(s) \/ Lifecycle!Reopen(s) \/ Lifecycle!Amend(s)
      BY <1>1 DEF Kept, Lifecycle!Next, Lifecycle!vars, phase
    <2> QED
      BY <1>1, <2>1 DEF Lifecycle!Request, Lifecycle!Submit, Lifecycle!Start, Lifecycle!Finish,
         Lifecycle!Outcome, Lifecycle!CancelWaiting, Lifecycle!Reopen, Lifecycle!Amend, Lifecycle!Moves, phase
  <1>3. \A s \in Task \ {t} : PhaseOf(s)' = PhaseOf(s)
    <2> TAKE s \in Task \ {t}
    <2>1. phase'[s] = phase[s]
      BY <1>2
    <2> QED
      BY <2>1
  <1>4. row[t] \in Rows /\ Phase(row[t]) = "waiting" /\ RunsOf(t) = 1
    BY <1>2, PhaseIs DEF TypeInv, DbOK
  <1>5. row[t].job = NoJob
    BY <1>4, Phases DEF Orderly, Settled, SaneRows, Sane
  <1>6. \E p \in App : lock[p].op = "post" /\ lock[p].task = t
    BY <1>4, <1>5, NoRuns DEF Orderly
  <1> QED
    BY <1>3, <1>6

LEMMA ActiveIs ==
    ASSUME TypeInv, TypeInv', NEW U
    PROVE  /\ ActiveOf(U) = { t \in Task : PhaseOf(t) = "running" /\ Owner[t] \in U }
           /\ ActiveOf(U)' = { t \in Task : PhaseOf(t)' = "running" /\ Owner[t] \in U }
  <1>1. \A t \in Task : PhaseOf(t) = "running" <=> row[t].exists /\ row[t].status \in ACTIVE_STATES
    BY DEF PhaseOf, TypeInv, DbOK, Rows, Status, PENDING_STATES, ACTIVE_STATES, TERMINAL_STATES
  <1>2. \A t \in Task : PhaseOf(t)' = "running" <=> row'[t].exists /\ row'[t].status \in ACTIVE_STATES
    BY DEF PhaseOf, TypeInv, DbOK, Rows, Status, PENDING_STATES, ACTIVE_STATES, TERMINAL_STATES
  <1> QED
    BY <1>1, <1>2 DEF ActiveOf

LEMMA NextAllowed ==
    ASSUME Undisturbed, TypeInv, TypeInv', Orderly, Orderly', Allowed, [Next]_vars, Kept
    PROVE  Allowed'
  <1> DEFINE More(t) == PhaseOf(t)' = "running" /\ PhaseOf(t) # "running"
  <1>1. IsFiniteSet(ActiveOf(User)) /\ \A U : ActiveOf(U) \subseteq Task
    BY DEF Allowed, ActiveOf
  <1>2. \A U \in SUBSET User : ActiveOf(U) \subseteq ActiveOf(User)
    BY DEF ActiveOf
  <1>3. \A U \in SUBSET User : IsFiniteSet(ActiveOf(U)) /\ Cardinality(ActiveOf(U)) \in Nat
    BY <1>1, <1>2, FS_Subset, FS_CardinalityType
  <1>4. \A t \in Task : Owner[t] \in User
    BY OwnerAssumption
  <1>5. CASE \A t \in Task : ~More(t)
    <2>1. ASSUME NEW U \in SUBSET User
          PROVE  IsFiniteSet(ActiveOf(U)') /\ Cardinality(ActiveOf(U)') <= Cardinality(ActiveOf(U))
      <3>1. ActiveOf(U)' \subseteq ActiveOf(U)
        BY <1>5, ActiveIs
      <3> QED
        BY <1>3, <3>1, FS_Subset
    <2>2. /\ IsFiniteSet(ActiveOf(User)')
          /\ Cardinality(ActiveOf(User)') \in Nat
          /\ Cardinality(ActiveOf(User)') <= Cardinality(ActiveOf(User))
      BY <2>1, FS_CardinalityType
    <2>3. \A o \in User : /\ Cardinality(ActiveOf({o})') \in Nat
                          /\ Cardinality(ActiveOf({o})') <= Cardinality(ActiveOf({o}))
      BY <2>1, FS_CardinalityType
    <2>4. ActiveWithinPolicy'
      BY <1>3, <2>2, <2>3, PolicyAssumption DEF Allowed, ActiveWithinPolicy
    <2>5. ASSUME NEW p \in App, lock'[p].op = "post" PROVE SubmissionAllowed(lock[p].task)'
      <3>1. lock'[p].task \in Task
        BY <2>5 DEF TypeInv, LockOK
      <3>2. SubmissionAllowed(lock'[p].task)
        BY <2>5, PostAllowed DEF Allowed
      <3>3. Owner[lock'[p].task] \in User
        BY <1>4, <3>1
      <3> QED
        BY <1>3, <2>2, <2>3, <3>2, <3>3, PolicyAssumption DEF SubmissionAllowed
    <2> QED
      BY <2>2, <2>4, <2>5 DEF Allowed
  <1>6. ASSUME NEW t \in Task, More(t) PROVE Allowed'
    <2>1. PICK p \in App : lock[p].op = "post" /\ lock[p].task = t
      BY <1>6, Starts
    <2>2. \A s \in Task \ {t} : PhaseOf(s)' = PhaseOf(s)
      BY <1>6, Starts
    <2>3. SubmissionAllowed(t)
      BY <2>1 DEF Allowed
    <2>4. ASSUME NEW U \in SUBSET User
          PROVE  /\ IsFiniteSet(ActiveOf(U)') /\ Cardinality(ActiveOf(U)') \in Nat
                 /\ Cardinality(ActiveOf(U)') <= Cardinality(ActiveOf(U)) + 1
                 /\ Owner[t] \notin U => Cardinality(ActiveOf(U)') <= Cardinality(ActiveOf(U))
      <3>1. ActiveOf(U)' \subseteq ActiveOf(U) \cup {t}
        BY <2>2, ActiveIs
      <3>2. Owner[t] \notin U => ActiveOf(U)' \subseteq ActiveOf(U)
        BY <2>2, ActiveIs
      <3>3. /\ IsFiniteSet(ActiveOf(U) \cup {t})
            /\ Cardinality(ActiveOf(U) \cup {t}) <= Cardinality(ActiveOf(U)) + 1
        <4> DEFINE S == ActiveOf(U)
        <4>1. IsFiniteSet(S) /\ Cardinality(S) \in Nat
          BY <1>3
        <4> HIDE DEF S
        <4>2. /\ IsFiniteSet(S \cup {t})
              /\ Cardinality(S \cup {t}) = IF t \in S THEN Cardinality(S) ELSE Cardinality(S) + 1
          BY <4>1, FS_AddElement
        <4>3. IsFiniteSet(S \cup {t}) /\ Cardinality(S \cup {t}) <= Cardinality(S) + 1
          BY <4>1, <4>2
        <4> QED
          BY <4>3 DEF S
      <3>4. IsFiniteSet(ActiveOf(U)') /\ Cardinality(ActiveOf(U)') \in Nat
            /\ Cardinality(ActiveOf(U)') <= Cardinality(ActiveOf(U) \cup {t})
        BY <3>1, <3>3, FS_Subset, FS_CardinalityType
      <3>5. Owner[t] \notin U => Cardinality(ActiveOf(U)') <= Cardinality(ActiveOf(U))
        BY <1>3, <3>2, FS_Subset
      <3>6. Cardinality(ActiveOf(U) \cup {t}) \in Nat
        BY <3>3, FS_CardinalityType
      <3> QED
        BY <1>3, <3>3, <3>4, <3>5, <3>6
    <2>5. IsFiniteSet(ActiveOf(User)')
      BY <2>4
    <2>6. Cardinality(ActiveOf(User)') <= MaxTotal
      BY <1>3, <2>3, <2>4, PolicyAssumption DEF SubmissionAllowed
    <2>7. ASSUME NEW o \in User PROVE Cardinality(ActiveOf({o})') <= MaxPerUser
      <3>1. CASE o = Owner[t]
        BY <1>3, <2>3, <2>4, <3>1, PolicyAssumption DEF SubmissionAllowed
      <3>2. CASE o # Owner[t]
        BY <1>3, <2>4, <3>2, PolicyAssumption DEF Allowed, ActiveWithinPolicy
      <3> QED
        BY <3>1, <3>2
    <2>8. \A q \in App : lock'[q].op # "post"
      <3> SUFFICES ASSUME NEW q \in App, lock'[q].op = "post" PROVE FALSE
        OBVIOUS
      <3>1. q = p
        BY DEF Undisturbed, OneProcess
      <3>2. CASE UNCHANGED row
        BY <1>6, <3>2, PhaseIs
      <3>3. CASE lock'[p] = lock[p]
        <4>1. JOBS'[p][t].held /\ JOBS'[p][t].status \in PENDING_STATES
          BY <2>1, <3>3 DEF Orderly, Settled, LocksMean, Means
        <4>2. Agrees(JOBS'[p][t], row'[t])
          BY DEF Orderly, Settled, CopiesAgree
        <4>3. row'[t].exists /\ row'[t].status \in PENDING_STATES
          BY <4>1, <4>2 DEF Agrees
        <4> QED
          BY <1>6, <4>3, PhaseIs DEF Phase
      <3> QED
        BY <3>1, <3>2, <3>3, PostAllowed
    <2> QED
      BY <2>5, <2>6, <2>7, <2>8 DEF Allowed, ActiveWithinPolicy
  <1> QED
    BY <1>5, <1>6

LEMMA InitAllowed == ASSUME Init PROVE Allowed
  <1>1. \A t \in Task : row[t].exists => row[t].status \notin ACTIVE_STATES
    BY DEF Init, LegacyRow, NoRow, ACTIVE_STATES
  <1>2. \A U : ActiveOf(U) = {}
    BY <1>1 DEF ActiveOf
  <1>3. \A p \in App : lock[p].op = "free"
    BY DEF Init, Unlocked
  <1> QED
    BY <1>2, <1>3, FS_EmptySet, PolicyAssumption DEF Allowed, ActiveWithinPolicy

(* The limits of the execution policy hold although the check and the      *)
(* QUEUED record are two steps with a call between them: the lock is held  *)
(* from one to the other, and nobody else makes a row active.              *)
THEOREM PolicyKept == ASSUME Undisturbed PROVE Spec => []ActiveWithinPolicy
  <1>1. Init => Allowed
    BY InitAllowed
  <1>2. TypeInv /\ TypeInv' /\ Orderly /\ Orderly' /\ Allowed /\ [Next]_vars => Allowed'
    BY NextAllowed, NextOrderly
  <1>3. Allowed => ActiveWithinPolicy
    BY DEF Allowed
  <1> QED
    BY <1>1, <1>2, <1>3, TypesInvariant, OrderlyInvariant, PTL DEF Spec

(* A CANCELLED row has no job, or one that is over.                        *)
LEMMA OrderlyCancels == ASSUME TypeInv, Orderly PROVE CancelStopsProvider
  <1> SUFFICES ASSUME NEW t \in Task, row[t].exists, row[t].status = "CANCELLED",
                      NEW j \in Job, job[j].task = t, job[j].state = "IN_PROGRESS"
               PROVE  FALSE
    BY DEF CancelStopsProvider
  <1>1. row[t].job = j \/ \E p \in App : Posting(lock[p], t, j)
    BY DEF Orderly, Settled, JobsServe, Created
  <1>2. row[t].job # j
    BY Constants DEF Orderly, Settled, RowsServed, Served, NoJob
  <1>3. ASSUME NEW p \in App, Posting(lock[p], t, j) PROVE FALSE
    <2>1. JOBS[p][t].held /\ JOBS[p][t].status \in PENDING_STATES
      BY <1>3 DEF Orderly, Settled, LocksMean, Means, Posting
    <2> QED
      BY <2>1, CopyTells DEF Orderly, PENDING_STATES
  <1> QED
    BY <1>1, <1>2, <1>3

(* A cancelled task's provider job is told before the row is CANCELLED,    *)
(* and a task cancelled without a job has none and gets none               *)
(* (CancelStopsProvider).                                                  *)
THEOREM CancelStops == ASSUME Undisturbed PROVE Spec => []CancelStopsProvider
  <1>1. TypeInv /\ Orderly => CancelStopsProvider
    BY OrderlyCancels
  <1> QED
    BY <1>1, TypesInvariant, OrderlyInvariant, PTL

=============================================================================
